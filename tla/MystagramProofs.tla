--------------------------- MODULE MystagramProofs ---------------------------
(***************************************************************************)
(* The program as a whole: that its pages use AuthManager as its           *)
(* specification allows, what they inherit from it, and what they promise  *)
(* themselves, for every set of addresses and calls and every feed.        *)
(***************************************************************************)
EXTENDS Mystagram, TLAPS

Facts == INSTANCE AuthManagerProofs

-----------------------------------------------------------------------------
(***************************************************************************)
(* The refinement.                                                         *)
(***************************************************************************)

\* The operators from which AuthManager's actions are made.
USE DEF Auth!AuthPC, Auth!StorePC, Auth!Running, Auth!IsRegister, Auth!backend,
        Facts!AuthPC, Facts!StorePC, Facts!Running, Facts!IsRegister, Facts!backend

\* The theorems are about the AuthManager that the program has.
LEMMA SameNext == Auth!Next <=> Facts!Next
<1> USE DEF Auth!Pending, Facts!Pending, Auth!Idle, Facts!Idle, Auth!InChain, Facts!InChain,
            Auth!Overlap, Facts!Overlap, Auth!Emit, Facts!Emit, Auth!Finish, Facts!Finish
<1>1. Auth!Launch <=> Facts!Launch
  BY DEF Auth!Launch, Facts!Launch
<1>2. \A how : Auth!Terminate(how) <=> Facts!Terminate(how)
  BY DEF Auth!Terminate, Facts!Terminate
<1>3. \A c, e : /\ Auth!performLogin(c, e) <=> Facts!performLogin(c, e)
                /\ Auth!performRegistration(c, e) <=> Facts!performRegistration(c, e)
  BY DEF Auth!performLogin, Auth!performRegistration, Auth!Start,
         Facts!performLogin, Facts!performRegistration, Facts!Start
<1>4. \A c : Auth!AuthAnswer(c) <=> Facts!AuthAnswer(c)
  BY DEF Auth!AuthAnswer, Auth!SignInGranted, Auth!AccountCreated, Auth!AuthRefused,
         Facts!AuthAnswer, Facts!SignInGranted, Facts!AccountCreated, Facts!AuthRefused
<1>5. \A c : Auth!updateCurrentUser(c) <=> Facts!updateCurrentUser(c)
  BY DEF Auth!updateCurrentUser, Facts!updateCurrentUser
<1>6. \A c : Auth!AuthCallback(c) <=> Facts!AuthCallback(c)
  BY DEF Auth!AuthCallback, Auth!LoginCallback, Auth!CreateUserCallback,
         Facts!AuthCallback, Facts!LoginCallback, Facts!CreateUserCallback
<1>7. \A c : Auth!StorageAnswer(c) <=> Facts!StorageAnswer(c)
  BY <1>2 DEF Auth!StorageAnswer, Auth!ImageStored, Auth!StorageFailed,
              Auth!saveInfoToFirestore, Auth!saveInfoToNobody,
              Facts!StorageAnswer, Facts!ImageStored, Facts!StorageFailed,
              Facts!saveInfoToFirestore, Facts!saveInfoToNobody
<1>8. Auth!doLogout <=> Facts!doLogout
  BY DEF Auth!doLogout, Facts!doLogout
<1>9. /\ Auth!WriteAcknowledged <=> Facts!WriteAcknowledged
      /\ Auth!WriteRejected <=> Facts!WriteRejected
  BY DEF Auth!WriteAcknowledged, Auth!WriteRejected, Auth!WriteAnswered,
         Facts!WriteAcknowledged, Facts!WriteRejected, Facts!WriteAnswered
<1> QED
  BY <1>1, <1>2, <1>3, <1>4, <1>5, <1>6, <1>7, <1>8, <1>9
     DEF Auth!Next, Facts!Next, Auth!Progress, Facts!Progress

\* So they may be used of its specification.
LEMMA SameSpec == Auth!Spec => Facts!Spec
<1>1. Auth!Init => Facts!Init
  BY DEF Auth!Init, Facts!Init
<1>2. [Auth!Next]_Auth!vars => [Facts!Next]_Facts!vars
  BY SameNext DEF Auth!vars, Facts!vars
<1> QED
  BY <1>1, <1>2, PTL DEF Auth!Spec, Facts!Spec

\* nil is what AuthManager assumes of it.
LEMMA AssumptionHolds == Facts!NoneAssumption
  BY NoneAssumption DEF Facts!NoneAssumption, Facts!Doc, Auth!Doc

\* A step of the program is one of AuthManager's or does not touch it.
LEMMA StepsAreAuths ==
  ASSUME [Next]_vars
  PROVE  [Auth!Next]_Auth!vars
<1>1. CASE Launch \/ Kill
  BY <1>1 DEF Launch, Kill, Auth!Next
<1>2. CASE \E c \in Calls, e \in Emails : TapLogin(c, e) \/ TapSignUp(c, e)
  BY <1>2 DEF TapLogin, TapSignUp, Auth!Next
<1>3. CASE TapLogout
  BY <1>3 DEF TapLogout, Auth!Next
<1>4. CASE \E i \in 0 .. numberOfItemsInSection - 1 : cellForItemAt(i)
  BY <1>4 DEF cellForItemAt, authVars, Auth!vars, Auth!Next
<1>5. CASE \E c \in Calls : CallStep(c)
  BY <1>5 DEF CallStep, Background, LoginAnswered, RegistrationAnswered, Abort, Auth!Next,
     Auth!Progress, Auth!AuthCallback, Auth!StorageAnswer
<1>6. CASE WriteAnswered
  BY <1>6 DEF WriteAnswered, Auth!Next
<1>7. CASE \/ TapGoToSignUp \/ TapGoToLogin \/ HUDFaded \/ UNCHANGED vars
           \/ \E i \in DOMAIN viewControllers : SelectTab(i)
  BY <1>7 DEF TapGoToSignUp, TapGoToLogin, HUDFaded, SelectTab, vars, authVars, Auth!vars
<1> QED
  BY <1>1, <1>2, <1>3, <1>4, <1>5, <1>6, <1>7 DEF Next

(***************************************************************************)
(* The pages use AuthManager as its specification allows.                  *)
(***************************************************************************)
THEOREM PagesUseAuthManagerRightly == Spec => ImplementsAuthManager
<1>1. Init => Auth!Init
  BY DEF Init
<1>2. [Next]_vars => [Auth!Next]_Auth!vars
  BY StepsAreAuths
<1> QED
  BY <1>1, <1>2, PTL DEF Spec, Auth!Spec, ImplementsAuthManager

\* What AuthManager's proofs establish of its calls and queues.
AuthInv == Facts!IInv /\ Facts!OneWritePerCall

LEMMA AuthInvHolds == Spec => []AuthInv
<1>1. Spec => Facts!Spec
  BY PagesUseAuthManagerRightly, SameSpec, PTL DEF ImplementsAuthManager
<1>2. Facts!Spec => []Facts!IInv
  BY AssumptionHolds, Facts!Inductive, PTL
<1>3. Facts!Spec => []Facts!OneWritePerCall
  BY AssumptionHolds, Facts!WritesAreOfDifferentCalls, PTL
<1> QED
  BY <1>1, <1>2, <1>3, PTL DEF AuthInv

(***************************************************************************)
(* What holds of AuthManager holds of the program: its stores agree, its   *)
(* sessions are safe and what it tells the pages is true.                  *)
(***************************************************************************)
THEOREM ProgramIsSafe ==
  Spec => [](Auth!Consistent /\ Auth!SafeSession /\ Auth!TrueIsTrue)
<1>1. Spec => Facts!Spec
  BY PagesUseAuthManagerRightly, SameSpec, PTL DEF ImplementsAuthManager
<1>2. Facts!Spec => [](Facts!Consistent /\ Facts!SafeSession /\ Facts!TrueIsTrue)
  BY AssumptionHolds, Facts!StoresAreConsistent, Facts!SessionsAreSafe,
     Facts!SuccessIsTrue, PTL
<1>3. Facts!Consistent => Auth!Consistent
  BY DEF Auth!Consistent, Auth!StoresAgree, Auth!OneChainPerAccount, Auth!Created,
     Auth!Written, Auth!Queued,
     Facts!Consistent, Facts!StoresAgree, Facts!OneChainPerAccount, Facts!Created,
     Facts!Written, Facts!Queued
<1>4. Facts!SafeSession => Auth!SafeSession
  BY DEF Auth!SafeSession, Auth!OwnProfile, Auth!BadPathMeansOverlap, Auth!Written, Auth!Queued,
     Facts!SafeSession, Facts!OwnProfile, Facts!BadPathMeansOverlap, Facts!Written, Facts!Queued
<1>5. Facts!TrueIsTrue => Auth!TrueIsTrue
  BY DEF Auth!TrueIsTrue, Auth!RegisteredMeansStored, Auth!LoginMeansAccount,
     Facts!TrueIsTrue, Facts!RegisteredMeansStored, Facts!LoginMeansAccount
<1> QED
  BY <1>1, <1>2, <1>3, <1>4, <1>5, PTL

(***************************************************************************)
(* And through AuthManager the program uses Firestore as WriteQueue        *)
(* promises it, and tells each caller one outcome.                         *)
(***************************************************************************)
THEOREM ProgramReliesOnPromise == Spec => Auth!OneOutcome /\ Auth!ReliesOnPromise
<1>1. Spec => Facts!Spec
  BY PagesUseAuthManagerRightly, SameSpec, PTL DEF ImplementsAuthManager
<1>2. Facts!Spec => Facts!OneOutcome
  BY AssumptionHolds, Facts!OutcomesAreFinal, PTL
<1>3. Facts!Spec => Facts!ReliesOnPromise
  BY AssumptionHolds, Facts!PromiseSuffices, PTL
<1>4. Facts!OneOutcome => Auth!OneOutcome
  BY DEF Facts!OneOutcome, Auth!OneOutcome, Facts!vars, Auth!vars
<1>5. Facts!Writes!Init => Auth!Writes!Init
  BY DEF Facts!Writes!Init, Auth!Writes!Init
<1>6. [Facts!Writes!Next]_(Facts!Writes!vars) => [Auth!Writes!Next]_(Auth!Writes!vars)
  <2>1. \A u, w : Facts!Writes!Enqueue(u, w) <=> Auth!Writes!Enqueue(u, w)
    BY DEF Facts!Writes!Enqueue, Auth!Writes!Enqueue
  <2>2. Facts!Writes!Answer <=> Auth!Writes!Answer
    BY DEF Facts!Writes!Answer, Auth!Writes!Answer
  <2>3. \A u : /\ Facts!Writes!SwitchUser(u) <=> Auth!Writes!SwitchUser(u)
               /\ Facts!Writes!Restart(u) <=> Auth!Writes!Restart(u)
    BY DEF Facts!Writes!SwitchUser, Auth!Writes!SwitchUser,
           Facts!Writes!Restart, Auth!Writes!Restart
  <2> QED
    BY <2>1, <2>2, <2>3
    DEF Facts!Writes!Next, Auth!Writes!Next, Facts!Writes!vars, Auth!Writes!vars
<1>7. Facts!ReliesOnPromise => Auth!ReliesOnPromise
  BY <1>5, <1>6, PTL DEF Facts!ReliesOnPromise, Auth!ReliesOnPromise,
     Facts!Writes!Spec, Auth!Writes!Spec
<1> QED
  BY <1>1, <1>2, <1>3, <1>4, <1>7, PTL
-----------------------------------------------------------------------------
(***************************************************************************)
(* The pages.                                                              *)
(***************************************************************************)

HUDType == hud \in [view : Views \cup {None}, fade : {"none", "show", "hide"},
                    dismissAfter : BOOLEAN]

\* Without a process there are no pages.
StoppedInv ==
  ~Auth!Running => /\ hud = HUD!NewHUD /\ screen = "none"
                   /\ loginLatest = None /\ regLatest = None

\* What a view model subscribes to last is a call of its own kind.
LatestInv ==
  /\ loginLatest # None => loginLatest \in Calls /\ calls[loginLatest].op = "login"
  /\ regLatest # None => regLatest \in Calls /\ Auth!IsRegister(regLatest)

\* Between updateCurrentUser and its callback nobody can have logged out of a
\* page that still waits for that login.
SignedInv ==
  loginLatest # None /\ calls[loginLatest].pc = "session" => currentUser # None

UIInv == HUDType /\ StoppedInv /\ LatestInv /\ SignedInv /\ SpinnerMeansWaiting

\* What the pages rely on of calls: a call begins with no result, ends with
\* one, and only registrations store.
LEMMA CallFacts ==
  ASSUME AuthInv
  PROVE  /\ calls \in [Calls -> Auth!Call]
         /\ \A c \in Calls :
              /\ calls[c].pc = "idle" <=> calls[c].op = "none"
              /\ calls[c].pc # "done" => calls[c].result = "none"
              /\ calls[c].pc \in Auth!StorePC => Auth!IsRegister(c)
              /\ Auth!IsRegister(c) => calls[c].result # "error"
BY DEF AuthInv, Facts!IInv, Facts!TypeOK, Facts!Call, Auth!Call, Facts!ShapeInv, Facts!CallShape

\* The oldest write is of a registration that waits for it, or of one that
\* died with its process.
LEMMA HeadFacts ==
  ASSUME AuthInv, currentUser # None, mutationQueue[currentUser] # <<>>,
         NEW c, c = Head(mutationQueue[currentUser]).profileImageURL
  PROVE  c \in Calls /\ Auth!IsRegister(c) /\ calls[c].pc \in {"setData", "lost"}
<1>1. currentUser \in Emails /\ mutationQueue[currentUser] \in Seq(Facts!Doc)
  BY DEF AuthInv, Facts!IInv, Facts!TypeOK
<1>2. 1 \in DOMAIN mutationQueue[currentUser] /\ c = Facts!Writer(currentUser, 1)
  BY <1>1 DEF Facts!Writer
<1>3. c \in Calls /\ calls[c].pc \in {"setData", "lost"}
  BY AssumptionHolds, <1>1, <1>2, Facts!WritersAreCalls
  DEF AuthInv, Facts!IInv, Facts!OneWritePerCall
<1>4. mutationQueue[currentUser][1] \in Facts!Written(currentUser)
  BY <1>2 DEF Facts!Written, Facts!Queued
<1>5. Auth!IsRegister(c)
  BY <1>1, <1>2, <1>4 DEF AuthInv, Facts!IInv, Facts!DocInv, Facts!Writer
<1> QED
  BY <1>3, <1>5

\* Once the page has dismissed the HUD nothing spins.
LEMMA DismissedSpinsNot ==
  ASSUME HUDType, NEW page \in Views, hud' = showActivityIndicator(hud, FALSE, page)
  PROVE  HUDType' /\ ~Spinning("login")' /\ ~Spinning("register")'
BY NoneAssumption DEF HUDType, Views, Spinning, showActivityIndicator, HUD!Dismiss

\* A page that shows the HUD, or none, makes nothing spin but on itself.
LEMMA ShownSpinsThere ==
  ASSUME HUDType, NEW page \in Views, hud' = showActivityIndicator(hud, TRUE, page)
  PROVE  HUDType' /\ \A view \in Views : Spinning(view)' => view = page \/ Spinning(view)
BY NoneAssumption DEF HUDType, Views, Spinning, showActivityIndicator, HUD!Show

\* Nothing spins on pages that are gone.
LEMMA ReleasedSpinsNot ==
  ASSUME HUDType, NEW gone, gone \subseteq Views, hud' = HUD!Release(hud, gone)
  PROVE  /\ HUDType'
         /\ \A view \in Views : Spinning(view)' => view \notin gone /\ Spinning(view)
BY NoneAssumption DEF HUDType, Views, Spinning, HUD!Release

-----------------------------------------------------------------------------
\* A step that leaves what the pages wait for waiting, and signs nobody out.
Gentle ==
  /\ process' = process
  /\ currentUser # None => currentUser' # None
  /\ \A c \in Calls :
       c = loginLatest \/ c = regLatest =>
         /\ calls'[c].op = calls[c].op
         /\ Auth!Pending(c) => Auth!Pending(c)'
         /\ calls'[c].pc = "session" => calls[c].pc = "session" \/ currentUser' # None

\* Such a step of AuthManager does not disturb the pages.
LEMMA GentleStep ==
  ASSUME UIInv, Gentle, UNCHANGED ui
  PROVE  UIInv'
BY DEF UIInv, Gentle, ui, pageVars, HUDType, StoppedInv, LatestInv, SignedInv,
       SpinnerMeansWaiting, Spinning

\* A new root page: nobody waits, nothing spins.
LEMMA NewRoot ==
  ASSUME HUDType, NEW page, NEW inNavigation, Root(page, inNavigation), HUDType',
         ~Spinning("login")', ~Spinning("register")',
         ~Auth!Running' => page = "none" /\ hud' = HUD!NewHUD
  PROVE  UIInv'
BY DEF UIInv, Root, StoppedInv, LatestInv, SignedInv, SpinnerMeansWaiting

\* switchToSomeVC, whatever the page did to the HUD before.
LEMMA SwitchStep ==
  ASSUME HUDType, Auth!Running', NEW page,
         NEW h, h \in [view : Views \cup {None}, fade : {"none", "show", "hide"},
                       dismissAfter : BOOLEAN],
         switchToSomeVC(page, h)
  PROVE  UIInv'
<1>1. HUDType' /\ hud'.view \notin Views
  BY NoneAssumption DEF HUDType, Views, switchToSomeVC, HUD!Release
<1> QED
  BY <1>1, NewRoot DEF Spinning, switchToSomeVC, Views

\* The process ends and the pages with it.
LEMMA GoneStep ==
  ASSUME HUDType, Gone
  PROVE  UIInv'
<1>1. HUDType' /\ hud'.view \notin Views
  BY NoneAssumption DEF HUDType, Views, Gone, HUD!NewHUD
<1> QED
  BY <1>1, NewRoot DEF Spinning, Gone, Views
-----------------------------------------------------------------------------
(***************************************************************************)
(* Every action keeps the pages' invariant.                                *)
(***************************************************************************)

\* Launch, and the ends of the process.
LEMMA ProcessStep ==
  ASSUME UIInv, Launch \/ Kill \/ \E c \in Calls : Abort(c)
  PROVE  UIInv'
<1>1. CASE Launch
  <2>1. hud = HUD!NewHUD /\ hud' = hud /\ Auth!Running'
    BY <1>1 DEF UIInv, StoppedInv, Launch, Auth!Launch
  <2>2. HUDType' /\ hud'.view \notin Views
    BY <2>1, NoneAssumption DEF UIInv, HUDType, Views, HUD!NewHUD
  <2> QED
    BY <1>1, <2>1, <2>2, NewRoot DEF Launch, UIInv, Spinning, Views
<1>2. CASE Kill \/ \E c \in Calls : Abort(c)
  BY <1>2, GoneStep DEF Kill, Abort, UIInv
<1> QED
  BY <1>1, <1>2

\* A call begins for a page, which shows the HUD.
LEMMA StartedWaits ==
  ASSUME AuthInv, UIInv, NEW c \in Calls, NEW e \in Emails, NEW op \in {"login", "register"},
         Auth!Start(c, op, e)
  PROVE  /\ Auth!Running /\ Auth!Running' /\ currentUser' = currentUser
         /\ c # None /\ c # loginLatest /\ c # regLatest
         /\ calls'[c].op = op /\ calls'[c].pc = "request" /\ Auth!Pending(c)'
         /\ \A d \in Calls \ {c} : calls'[d] = calls[d]
<1>1. calls[c].pc = "idle" /\ calls[c].op = "none"
  BY CallFacts DEF Auth!Start, Auth!Idle
<1>2. c # None /\ c # loginLatest /\ c # regLatest
  BY <1>1, NoneAssumption DEF UIInv, LatestInv
<1>3. /\ calls'[c] = [op |-> op, email |-> e, pc |-> "request", result |-> "none"]
      /\ \A d \in Calls \ {c} : calls'[d] = calls[d]
  BY CallFacts DEF Auth!Start
<1> QED
  BY <1>2, <1>3 DEF Auth!Start, Auth!Pending

\* loginButton.rx.tap.
LEMMA TapLoginStep ==
  ASSUME AuthInv, UIInv, NEW c \in Calls, NEW e \in Emails, TapLogin(c, e)
  PROVE  UIInv'
<1>1. Auth!Start(c, "login", e)
  BY DEF TapLogin, Auth!performLogin
<1>2. HUDType' /\ (Spinning("register")' => Spinning("register"))
  BY ShownSpinsThere DEF TapLogin, UIInv, Views
<1> QED
  BY <1>1, <1>2, StartedWaits DEF TapLogin, UIInv, StoppedInv, LatestInv, SignedInv,
     SpinnerMeansWaiting, Auth!Pending

\* signUpButton.rx.tap.
LEMMA TapSignUpStep ==
  ASSUME AuthInv, UIInv, NEW c \in Calls, NEW e \in Emails, TapSignUp(c, e)
  PROVE  UIInv'
<1>1. Auth!Start(c, "register", e)
  BY DEF TapSignUp, Auth!performRegistration
<1>2. HUDType' /\ (Spinning("login")' => Spinning("login"))
  BY ShownSpinsThere DEF TapSignUp, UIInv, Views
<1> QED
  BY <1>1, <1>2, StartedWaits DEF TapSignUp, UIInv, StoppedInv, LatestInv, SignedInv,
     SpinnerMeansWaiting, Auth!Pending

\* Going from page to page, on the tabs, and the feed.
LEMMA NavigationStep ==
  ASSUME UIInv,
         \/ TapGoToSignUp \/ TapGoToLogin \/ TapLogout
         \/ \E i \in DOMAIN viewControllers : SelectTab(i)
         \/ \E i \in 0 .. numberOfItemsInSection - 1 : cellForItemAt(i)
  PROVE  UIInv'
<1>1. CASE TapLogout
  <2>1. Auth!Running'
    BY <1>1 DEF TapLogout, Auth!doLogout
  <2> QED
    BY <1>1, <2>1, SwitchStep DEF TapLogout, UIInv, HUDType
<1>2. CASE TapGoToLogin
  <2>1. /\ HUDType' /\ ~Spinning("register")'
        /\ Spinning("login")' => Spinning("login")
    BY <1>2, ReleasedSpinsNot DEF TapGoToLogin, UIInv, Views
  <2> QED
    BY <1>2, <2>1 DEF TapGoToLogin, Touch, authVars, UIInv, StoppedInv, LatestInv, SignedInv,
       SpinnerMeansWaiting, Auth!Pending
<1>3. CASE TapGoToSignUp \/ \E i \in DOMAIN viewControllers : SelectTab(i)
  BY <1>3 DEF TapGoToSignUp, SelectTab, Touch, authVars, UIInv, HUDType, StoppedInv, LatestInv,
     SignedInv, SpinnerMeansWaiting, Spinning, Auth!Pending
<1>4. CASE \E i \in 0 .. numberOfItemsInSection - 1 : cellForItemAt(i)
  <2>1. CASE Gone
    BY <2>1, GoneStep DEF UIInv
  <2>2. CASE ~Gone
    BY <1>4, <2>2 DEF cellForItemAt, OnFeed, authVars, UIInv, HUDType, StoppedInv, LatestInv,
       SignedInv, SpinnerMeansWaiting, Spinning, Auth!Pending
  <2> QED
    BY <2>1, <2>2
<1> QED
  BY <1>1, <1>2, <1>3, <1>4

\* A fade ends, with the dismissal that waited for it.
LEMMA FadeStep ==
  ASSUME UIInv, HUDFaded
  PROVE  UIInv'
<1>1. /\ HUDType'
      /\ \A view \in Views : Spinning(view)' => Spinning(view)
  <2> USE NoneAssumption DEF HUD!CleanUpAfterPresentation, HUD!CleanUpAfterDismissal,
          HUD!NewHUD, HUD!Dismiss, UIInv, HUDType, Views, Spinning
  <2>1. CASE hud.fade = "hide"
    <3>1. hud' = [view |-> None, fade |-> "none", dismissAfter |-> FALSE]
      BY <2>1 DEF HUDFaded, HUD!animationDidFinish
    <3> QED
      BY <3>1
  <2>2. CASE hud.fade = "show" /\ ~hud.dismissAfter
    <3>1. hud' = [view |-> hud.view, fade |-> "none", dismissAfter |-> FALSE]
      BY <2>2 DEF HUDFaded, HUD!animationDidFinish
    <3> QED
      BY <2>2, <3>1
  <2>3. CASE hud.fade = "show" /\ hud.dismissAfter
    <3>1. hud' = [view |-> hud.view, dismissAfter |-> FALSE,
                  fade |-> IF hud.view = None THEN "none" ELSE "hide"]
      BY <2>3 DEF HUDFaded, HUD!animationDidFinish
    <3> QED
      BY <2>3, <3>1
  <2> QED
    BY <2>1, <2>2, <2>3 DEF HUDFaded, HUD!animationDidFinish
<1>2. Auth!Running
  BY DEF HUDFaded, HUD!animationDidFinish, UIInv, StoppedInv, HUD!NewHUD
<1> QED
  BY <1>1, <1>2 DEF HUDFaded, authVars, pageVars, UIInv, StoppedInv, LatestInv, SignedInv,
     SpinnerMeansWaiting, Views, Auth!Pending

\* Steps that no page hears of.
LEMMA BackgroundStep ==
  ASSUME AuthInv, UIInv, NEW c \in Calls, Background(c)
  PROVE  UIInv'
<1> USE CallFacts DEF Auth!Pending, Auth!Call
<1>1. CASE Auth!AuthAnswer(c)
  <2>1. Gentle
    BY <1>1 DEF Gentle, Auth!AuthAnswer, Auth!SignInGranted, Auth!AccountCreated, Auth!AuthRefused
  <2> QED
    BY <2>1, GentleStep DEF Background
<1>2. CASE Auth!updateCurrentUser(c)
  <2>1. currentUser' # None
    BY <1>2, NoneAssumption DEF Auth!updateCurrentUser, AuthInv, Facts!IInv, Facts!ShapeInv,
       Facts!CallShape
  <2>2. Gentle
    BY <1>2, <2>1 DEF Gentle, Auth!updateCurrentUser
  <2> QED
    BY <2>2, GentleStep DEF Background
<1>3. CASE Auth!ImageStored(c) \/ Auth!saveInfoToFirestore(c)
  <2>1. Gentle
    BY <1>3 DEF Gentle, Auth!ImageStored, Auth!saveInfoToFirestore
  <2> QED
    BY <2>1, GentleStep DEF Background
<1> QED
  BY <1>1, <1>2, <1>3 DEF Background

-----------------------------------------------------------------------------
(***************************************************************************)
(* Answers.                                                                *)
(***************************************************************************)

\* The answer to a login: an error, or true with somebody signed in.
LEMMA LoginAnswer ==
  ASSUME AuthInv, NEW c \in Calls, Auth!LoginCallback(c)
  PROVE  /\ Auth!Running /\ process' = process /\ currentUser' = currentUser
         /\ calls[c].op = "login" /\ calls[c].result = "none"
         /\ \/ calls[c].pc = "session" /\ calls'[c].result = "true"
            \/ calls[c].pc = "refused" /\ calls'[c].result = "error"
         /\ \A d \in Calls \ {c} : calls'[d] = calls[d]
<1>1. calls \in [Calls -> Auth!Call] /\ calls[c].result = "none"
  BY CallFacts DEF Auth!LoginCallback
<1>2. /\ calls'[c] = Auth!Finish(IF calls[c].pc = "refused" THEN Auth!Emit(calls[c], "error")
                                 ELSE calls[c], "true")
      /\ \A d \in Calls \ {c} : calls'[d] = calls[d]
  BY <1>1 DEF Auth!LoginCallback
<1>3. CASE calls[c].pc = "session"
  BY <1>1, <1>2, <1>3 DEF Auth!LoginCallback, Auth!Finish, Auth!Emit, Auth!Call
<1>4. CASE calls[c].pc = "refused"
  <2>1. Auth!Emit(calls[c], "error") = [calls[c] EXCEPT !.result = "error"]
    BY <1>1 DEF Auth!Emit
  <2>2. Auth!Emit(calls[c], "error").result = "error"
    BY <1>1, <2>1 DEF Auth!Call
  <2>3. calls'[c] = [[calls[c] EXCEPT !.result = "error"] EXCEPT !.pc = "done"]
    BY <1>2, <1>4, <2>1, <2>2 DEF Auth!Finish, Auth!Emit
  <2> QED
    BY <1>1, <1>2, <1>4, <2>3 DEF Auth!LoginCallback, Auth!Call
<1> QED
  BY <1>3, <1>4 DEF Auth!LoginCallback

\* What an answer to the registration c does to the calls: it goes on, or it
\* is told false, or its write was answered, or it died before the answer.
RegistrationTold(c) ==
  /\ Auth!Running /\ process' = process /\ currentUser' = currentUser
  /\ c \in Calls /\ Auth!IsRegister(c) /\ Auth!IsRegister(c)'
  /\ calls[c].result = "none"
  /\ \/ /\ calls'[c].result = "none"
        /\ Auth!Pending(c) => Auth!Pending(c)'
        /\ calls'[c].pc # "session"
     \/ calls'[c].result = "false"
     \/ calls'[c].result = "true" /\ currentUser # None
  /\ \A d \in Calls \ {c} : calls'[d] = calls[d]

\* The callbacks of createUser and of the storage.
LEMMA RegistrationAnswer ==
  ASSUME AuthInv, NEW c \in Calls, Auth!CreateUserCallback(c) \/ Auth!StorageFailed(c)
  PROVE  RegistrationTold(c) /\ calls'[c].result # "true"
<1>1. calls \in [Calls -> Auth!Call] /\ calls[c].result = "none" /\ Auth!IsRegister(c)
  BY CallFacts DEF Auth!CreateUserCallback, Auth!StorageFailed
<1>2. /\ \/ /\ calls[c].pc = "session"
            /\ calls'[c] = [calls[c] EXCEPT !.pc = "putData"]
         \/ calls'[c] = Auth!Finish(calls[c], "false")
      /\ \A d \in Calls \ {c} : calls'[d] = calls[d]
  BY <1>1 DEF Auth!CreateUserCallback, Auth!StorageFailed
<1>3. Auth!Finish(calls[c], "false") = [calls[c] EXCEPT !.result = "false", !.pc = "done"]
  BY <1>1 DEF Auth!Finish, Auth!Emit, Auth!Call
<1>4. /\ Auth!IsRegister(c)'
      /\ \/ calls'[c].result = "none" /\ calls'[c].pc = "putData"
         \/ calls'[c].result = "false"
  BY <1>1, <1>2, <1>3 DEF Auth!Call
<1> QED
  BY <1>1, <1>2, <1>4 DEF RegistrationTold, Auth!Pending, Auth!CreateUserCallback,
     Auth!StorageFailed

\* Firestore's answer to the oldest write.
LEMMA WriteAnswer ==
  ASSUME AuthInv, Auth!WriteAcknowledged \/ Auth!WriteRejected,
         NEW c, c = Head(mutationQueue[currentUser]).profileImageURL
  PROVE  RegistrationTold(c)
<1>1. PICK event \in {"true", "false"} : Auth!WriteAnswered(event)
  BY DEF Auth!WriteAcknowledged, Auth!WriteRejected
<1>2. /\ currentUser # None
      /\ c \in Calls /\ Auth!IsRegister(c) /\ calls[c].pc \in {"setData", "lost"}
  BY <1>1, HeadFacts DEF Auth!WriteAnswered
<1>3. calls \in [Calls -> Auth!Call] /\ calls[c].result = "none"
  BY <1>2, CallFacts
<1>4. /\ calls'[c] = IF calls[c].pc = "setData" THEN Auth!Finish(calls[c], event) ELSE calls[c]
      /\ \A d \in Calls \ {c} : calls'[d] = calls[d]
  BY <1>1, <1>2, <1>3 DEF Auth!WriteAnswered
<1>5. Auth!Finish(calls[c], event) = [calls[c] EXCEPT !.result = event, !.pc = "done"]
  BY <1>3 DEF Auth!Finish, Auth!Emit, Auth!Call
<1>6. \/ calls[c].pc = "setData" /\ Auth!IsRegister(c)' /\ calls'[c].result = event
      \/ calls[c].pc = "lost" /\ calls'[c] = calls[c]
  BY <1>2, <1>3, <1>4, <1>5 DEF Auth!Call
<1>7. Auth!Running /\ process' = process /\ currentUser' = currentUser
  BY <1>1 DEF Auth!WriteAnswered
<1> QED
  BY <1>2, <1>3, <1>4, <1>6, <1>7 DEF RegistrationTold, Auth!Pending

\* LoginController and its view model.
LEMMA LoginAnsweredStep ==
  ASSUME AuthInv, UIInv, NEW c \in Calls, LoginAnswered(c)
  PROVE  UIInv'
<1>1. Auth!LoginCallback(c)
  BY DEF LoginAnswered
<1>2. CASE c = loginLatest
  <2> DEFINE h == showActivityIndicator(hud, FALSE, "login")
  <2>1. h \in [view : Views \cup {None}, fade : {"none", "show", "hide"},
               dismissAfter : BOOLEAN]
    BY DEF UIInv, HUDType, showActivityIndicator, HUD!Dismiss
  <2>2. switchToSomeVC("main", h) /\ Auth!Running'
    BY <1>1, <1>2, LoginAnswer DEF LoginAnswered
  <2> HIDE DEF h
  <2> QED
    BY <2>1, <2>2, SwitchStep DEF UIInv
<1>3. CASE c # loginLatest
  <2>1. Gentle
    BY <1>1, <1>3, LoginAnswer, NoneAssumption DEF UIInv, LatestInv, Gentle, Auth!Pending
  <2> QED
    BY <1>3, <2>1, GentleStep DEF LoginAnswered
<1> QED
  BY <1>2, <1>3

\* The subscriber of performRegistration and RegistrationController.
LEMMA OnRegisteredStep ==
  ASSUME AuthInv, UIInv, NEW c, RegistrationTold(c), OnRegistered(c)
  PROVE  UIInv'
<1> DEFINE h == showActivityIndicator(hud, FALSE, "register")
<1>1. h \in [view : Views \cup {None}, fade : {"none", "show", "hide"},
             dismissAfter : BOOLEAN]
  BY DEF UIInv, HUDType, showActivityIndicator, HUD!Dismiss
<1>2. CASE c = regLatest /\ calls'[c].result = "true"
  <2>1. switchToSomeVC("main", h) /\ Auth!Running'
    BY <1>2 DEF OnRegistered, RegistrationTold
  <2> HIDE DEF h
  <2> QED
    BY <1>1, <2>1, SwitchStep DEF UIInv
<1>3. CASE c = regLatest /\ calls'[c].result = "false"
  <2>1. hud' = h /\ UNCHANGED pageVars
    BY <1>3 DEF OnRegistered
  <2>2. HUDType' /\ ~Spinning("login")' /\ ~Spinning("register")'
    BY <2>1, DismissedSpinsNot DEF UIInv, Views
  <2> QED
    BY <2>1, <2>2 DEF RegistrationTold, UIInv, pageVars, StoppedInv, LatestInv, SignedInv,
       SpinnerMeansWaiting
<1>4. CASE c # regLatest \/ calls'[c].result = "none"
  <2>1. UNCHANGED ui
    BY <1>4 DEF OnRegistered
  <2>2. Gentle
    BY <1>4, NoneAssumption DEF RegistrationTold, UIInv, LatestInv, Gentle, Auth!Pending
  <2> QED
    BY <2>1, <2>2, GentleStep
<1> QED
  BY <1>2, <1>3, <1>4 DEF RegistrationTold

\* Every step keeps the pages' invariant.
LEMMA UIStep ==
  ASSUME AuthInv, UIInv, [Next]_vars
  PROVE  UIInv'
<1>1. CASE Launch \/ Kill
  BY <1>1, ProcessStep
<1>2. CASE \E c \in Calls, e \in Emails : TapLogin(c, e) \/ TapSignUp(c, e)
  BY <1>2, TapLoginStep, TapSignUpStep
<1>3. CASE \/ TapGoToSignUp \/ TapGoToLogin \/ TapLogout
           \/ \E i \in DOMAIN viewControllers : SelectTab(i)
           \/ \E i \in 0 .. numberOfItemsInSection - 1 : cellForItemAt(i)
  BY <1>3, NavigationStep
<1>4. CASE \E c \in Calls : CallStep(c)
  BY <1>4, ProcessStep, BackgroundStep, LoginAnsweredStep, RegistrationAnswer, OnRegisteredStep
     DEF CallStep, RegistrationAnswered
<1>5. CASE WriteAnswered
  BY <1>5, WriteAnswer, OnRegisteredStep DEF WriteAnswered
<1>6. CASE HUDFaded
  BY <1>6, FadeStep
<1>7. CASE UNCHANGED vars
  <2>1. Gentle /\ UNCHANGED ui
    BY <1>7 DEF vars, authVars, ui, Gentle, Auth!Pending
  <2> QED
    BY <2>1, GentleStep
<1> QED
  BY <1>1, <1>2, <1>3, <1>4, <1>5, <1>6, <1>7 DEF Next

\* The pages' invariant holds in every reachable state.
LEMMA UIInvHolds == Spec => []UIInv
<1>1. Init => UIInv
  <2> SUFFICES ASSUME Init PROVE UIInv
    OBVIOUS
  <2>1. hud = [view |-> None, fade |-> "none", dismissAfter |-> FALSE]
    BY DEF Init, HUD!Init, HUD!NewHUD
  <2> QED
    BY <2>1, NoneAssumption DEF Init, HUD!NewHUD, UIInv, HUDType, StoppedInv, LatestInv,
       SignedInv, SpinnerMeansWaiting, Spinning, Views
<1>2. AuthInv /\ UIInv /\ [Next]_vars => UIInv'
  BY UIStep
<1> QED
  BY <1>1, <1>2, AuthInvHolds, PTL DEF Spec

(***************************************************************************)
(* A page that shows the HUD waits for an answer that is still to come, in *)
(* every order of taps, fades, answers and deallocations.                  *)
(***************************************************************************)
THEOREM NoSpinnerForNothing == Spec => []SpinnerMeansWaiting
<1>1. UIInv => SpinnerMeansWaiting
  BY DEF UIInv
<1> QED
  BY <1>1, UIInvHolds, PTL

-----------------------------------------------------------------------------
(***************************************************************************)
(* What the pages hear of.                                                 *)
(***************************************************************************)

\* The steps in which calls are answered.
Answering ==
  \/ \E c \in Calls : LoginAnswered(c) \/ RegistrationAnswered(c)
  \/ WriteAnswered

\* No other step gives a call a result.
LEMMA OthersAnswerNothing ==
  ASSUME AuthInv, [Next]_vars, ~Answering, NEW d \in Calls
  PROVE  ~AnsweredNow(d)
<1> SUFFICES ASSUME calls[d].result = "none"
             PROVE  calls'[d].result = "none"
  BY DEF AnsweredNow
<1>1. calls \in [Calls -> Auth!Call]
  BY CallFacts
<1>2. \A how : Auth!Terminate(how) => calls'[d].result = "none"
  BY <1>1 DEF Auth!Terminate, Auth!Call
<1>3. CASE \/ Launch \/ Kill \/ TapLogout
           \/ \E i \in 0 .. numberOfItemsInSection - 1 : cellForItemAt(i)
  BY <1>2, <1>3 DEF Launch, Auth!Launch, Kill, TapLogout, Auth!doLogout, cellForItemAt, authVars
<1>4. CASE \E c \in Calls, e \in Emails : TapLogin(c, e) \/ TapSignUp(c, e)
  <2>1. PICK c \in Calls, e \in Emails, op \in {"login", "register"} : Auth!Start(c, op, e)
    BY <1>4 DEF TapLogin, TapSignUp, Auth!performLogin, Auth!performRegistration
  <2>2. calls' = [calls EXCEPT ![c] = [op |-> op, email |-> e,
                                       pc |-> "request", result |-> "none"]]
    BY <2>1 DEF Auth!Start
  <2> QED
    BY <1>1, <2>2
<1>5. CASE \E c \in Calls : Background(c) \/ Abort(c)
  <2> SUFFICES ASSUME NEW c \in Calls, Background(c) \/ Abort(c)
               PROVE  calls'[d].result = "none"
    BY <1>5
  <2> USE <1>1 DEF Auth!Call
  <2>1. CASE Auth!AuthAnswer(c)
    BY <2>1 DEF Auth!AuthAnswer, Auth!SignInGranted, Auth!AccountCreated, Auth!AuthRefused
  <2>2. CASE Auth!updateCurrentUser(c) \/ Auth!ImageStored(c) \/ Auth!saveInfoToFirestore(c)
    BY <2>2 DEF Auth!updateCurrentUser, Auth!ImageStored, Auth!saveInfoToFirestore
  <2>3. CASE Abort(c)
    BY <1>2, <2>3 DEF Abort, Auth!saveInfoToNobody
  <2> QED
    BY <2>1, <2>2, <2>3 DEF Background
<1>6. CASE \/ TapGoToSignUp \/ TapGoToLogin \/ HUDFaded \/ UNCHANGED vars
           \/ \E i \in DOMAIN viewControllers : SelectTab(i)
  BY <1>6 DEF TapGoToSignUp, TapGoToLogin, HUDFaded, SelectTab, vars, authVars
<1> QED
  BY <1>3, <1>4, <1>5, <1>6 DEF Next, CallStep, Answering

\* No other step but the launch opens Main, and that one only if somebody is
\* signed in.
LEMMA OthersOpenNothing ==
  ASSUME UIInv, [Next]_vars, ~Answering, screen # "main", screen' = "main"
  PROVE  screen = "none" /\ currentUser' # None
<1>1. CASE Launch
  BY <1>1 DEF Launch, Root, loginCheck, Auth!Launch, UIInv, StoppedInv
<1>2. CASE ~Launch
  BY <1>2 DEF Next, CallStep, Answering, Kill, Gone, Root, TapLogin, TapSignUp, TapGoToSignUp,
     TapGoToLogin, TapLogout, switchToSomeVC, SelectTab, cellForItemAt, Background, Abort,
     HUDFaded, ui, pageVars, vars
<1> QED
  BY <1>1, <1>2

\* A login that is answered: the latest one opens Main, another changes no page.
LEMMA LoginIsHeard ==
  ASSUME AuthInv, UIInv, NEW c \in Calls, LoginAnswered(c)
  PROVE  /\ AnsweredNow(c) /\ \A d \in Calls \ {c} : ~AnsweredNow(d)
         /\ c = loginLatest => currentUser' # None \/ calls'[c].result = "error"
         /\ c # loginLatest => UNCHANGED ui
<1>1. Auth!LoginCallback(c)
  BY DEF LoginAnswered
<1>2. /\ calls[c].result = "none" /\ currentUser' = currentUser
      /\ \/ calls[c].pc = "session" /\ calls'[c].result = "true"
         \/ calls[c].pc = "refused" /\ calls'[c].result = "error"
      /\ \A d \in Calls \ {c} : calls'[d] = calls[d]
  BY <1>1, LoginAnswer
<1>3. c # None
  BY NoneAssumption
<1> QED
  BY <1>2, <1>3 DEF LoginAnswered, AnsweredNow, UIInv, SignedInv

\* A registration that is answered: only the latest one changes a page, and
\* opens Main only with true and somebody signed in.
LEMMA RegistrationIsHeard ==
  ASSUME AuthInv, UIInv, NEW c, RegistrationTold(c), OnRegistered(c)
  PROVE  /\ \A d \in Calls \ {c} : ~AnsweredNow(d)
         /\ UNCHANGED ui \/ (c = regLatest /\ AnsweredNow(regLatest))
         /\ screen # "main" /\ screen' = "main" =>
              /\ c = regLatest /\ AnsweredNow(regLatest) /\ calls'[regLatest].result = "true"
              /\ currentUser' # None
<1>1. c \in Calls /\ c # None /\ calls[c].result = "none"
  BY NoneAssumption DEF RegistrationTold
<1>2. \A d \in Calls \ {c} : ~AnsweredNow(d)
  BY DEF RegistrationTold, AnsweredNow
<1>3. CASE c = regLatest /\ calls'[c].result \in {"true", "false"}
  <2>1. AnsweredNow(regLatest)
    BY <1>1, <1>3 DEF AnsweredNow
  <2>2. calls'[c].result = "false" => screen' = screen
    BY <1>3 DEF OnRegistered, pageVars
  <2> QED
    BY <1>1, <1>2, <1>3, <2>1, <2>2 DEF RegistrationTold
<1>4. CASE c # regLatest \/ calls'[c].result = "none"
  <2>1. UNCHANGED ui
    BY <1>4 DEF OnRegistered
  <2> QED
    BY <1>2, <2>1 DEF ui, pageVars
<1> QED
  BY <1>3, <1>4 DEF RegistrationTold

\* Every step in which calls are answered, seen from the pages: one call is
\* heard, or none.
HeardOf(c) ==
  /\ \A d \in Calls \ {c} : ~AnsweredNow(d)
  /\ UNCHANGED ui \/ (c \in {loginLatest, regLatest} /\ AnsweredNow(c))
  /\ screen # "main" /\ screen' = "main" =>
       \/ /\ c = loginLatest /\ AnsweredNow(loginLatest)
          /\ currentUser' # None \/ calls'[c].result = "error"
       \/ /\ c = regLatest /\ AnsweredNow(regLatest)
          /\ calls'[c].result = "true" /\ currentUser' # None

LEMMA AnswersAreHeard ==
  ASSUME AuthInv, UIInv, Answering
  PROVE  \E c \in Calls : HeardOf(c)
<1>1. CASE \E c \in Calls : LoginAnswered(c)
  BY <1>1, LoginIsHeard DEF HeardOf, ui, pageVars
<1>2. ASSUME NEW c, RegistrationTold(c), OnRegistered(c)
      PROVE  c \in Calls /\ HeardOf(c)
  BY <1>2, RegistrationIsHeard DEF RegistrationTold, HeardOf
<1>3. CASE \E c \in Calls : RegistrationAnswered(c)
  BY <1>2, <1>3, RegistrationAnswer DEF RegistrationAnswered
<1>4. CASE WriteAnswered
  BY <1>2, <1>4, WriteAnswer DEF WriteAnswered
<1> QED
  BY <1>1, <1>3, <1>4 DEF Answering

(***************************************************************************)
(* Only a login that failed opens Main with nobody signed in.              *)
(***************************************************************************)
THEOREM MainIsOpenedRightly == Spec => MainUnsignedMeansFailedLogin
<1>1. AuthInv /\ UIInv /\ [Next]_vars =>
        [screen # "main" /\ screen' = "main" /\ currentUser' = None =>
           loginLatest # None /\ calls'[loginLatest].result = "error"]_vars
  <2> SUFFICES ASSUME AuthInv, UIInv, [Next]_vars,
                      screen # "main", screen' = "main", currentUser' = None
               PROVE  loginLatest # None /\ calls'[loginLatest].result = "error"
    OBVIOUS
  <2>1. Answering
    BY OthersOpenNothing
  <2> QED
    BY <2>1, AnswersAreHeard DEF HeardOf, AnsweredNow
<1> QED
  BY <1>1, AuthInvHolds, UIInvHolds, PTL DEF Spec, MainUnsignedMeansFailedLogin

(***************************************************************************)
(* Of all the answers only those to the latest calls of the pages change a *)
(* page, and the registration page gives way to Main only for them.        *)
(***************************************************************************)
THEOREM AbandonedCallsAreNotHeard == Spec => OnlyLatestIsHeard
<1> DEFINE Opened == screen = "register" /\ screen' = "main" =>
                       \/ AnsweredNow(regLatest) /\ calls'[regLatest].result = "true"
                       \/ AnsweredNow(loginLatest)
           Unheard == (\E c \in Calls : AnsweredNow(c)) /\ ~AnsweredNow(regLatest)
                        /\ ~AnsweredNow(loginLatest) => UNCHANGED ui
<1>1. ASSUME AuthInv, UIInv, [Next]_vars
      PROVE  Opened /\ Unheard
  <2>1. CASE Answering
    BY <1>1, <2>1, AnswersAreHeard DEF HeardOf
  <2>2. CASE ~Answering
    BY <1>1, <2>2, OthersAnswerNothing, OthersOpenNothing
  <2> QED
    BY <2>1, <2>2
<1>2. AuthInv /\ UIInv /\ [Next]_vars => [Opened /\ Unheard]_vars
  BY <1>1
<1> QED
  BY <1>2, AuthInvHolds, UIInvHolds, PTL DEF Spec, OnlyLatestIsHeard
=============================================================================
