------------------------------ MODULE Mystagram ------------------------------
(***************************************************************************)
(* The program: its pages, the view models behind them and the shared HUD, *)
(* composed with AuthManager.                                              *)
(*                                                                         *)
(* User-interface code runs on the main thread: a tap, or a callback and   *)
(* all that its observers do, is one step.  A page's view model subscribes *)
(* to AuthManager through flatMapLatest, which is the page's latest call;  *)
(* when a page is deallocated its subscription is disposed, its calls go   *)
(* on in AuthManager with nobody listening.                                *)
(***************************************************************************)
EXTENDS Naturals, Sequences

CONSTANTS Emails, Calls, None,
          FeedCount      \* viewModel.feeds.count

ASSUME FeedAssumption == FeedCount \in Nat

VARIABLES
  process, accounts, currentUser, images, users, mutationQueue, calls, overlapped,
  hud,
  screen,         \* the page on top: "none" if the process is not running
  navigation,     \* the page is inside a UINavigationController
  loginLatest,    \* flatMapLatest of the LoginViewModel: its latest call
  regLatest,      \* flatMapLatest of the RegistrationViewModel
  selectedIndex,  \* the tab that Main shows
  laidOut         \* the feed's first cell has been displayed

authVars == <<process, accounts, currentUser, images, users, mutationQueue,
              calls, overlapped>>
pageVars == <<screen, navigation, loginLatest, regLatest, selectedIndex, laidOut>>
ui       == <<hud, pageVars>>
vars     == <<authVars, ui>>

Views == {"login", "register"}   \* the pages that show the HUD

Auth == INSTANCE AuthManager
HUD  == INSTANCE ProgressHUD WITH NoView <- None

\* The tabs of Main, from 1.  Only the feed has state or buttons.
viewControllers == <<"feed", "search", "imageSelect", "notification", "profile">>

\* The indices of viewModel.feeds, and what the collection view is told.
feeds == 0 .. FeedCount - 1

numberOfItemsInSection == 10

\* nil is no address, call, document or view.
ASSUME NoneAssumption ==
  None \notin Emails /\ None \notin Calls /\ None \notin Auth!Doc /\ None \notin Views

loginCheck == currentUser # None

\* The HUD after a page has shown or hidden it; hiding names no page.
showActivityIndicator(h, show, page) ==
  IF show THEN HUD!Show(h, page) ELSE HUD!Dismiss(h)
-----------------------------------------------------------------------------
\* A new root page; the pages before it, and what they subscribed to, are gone.
Root(page, inNavigation) ==
  /\ screen' = page
  /\ navigation' = inNavigation
  /\ loginLatest' = None
  /\ regLatest' = None
  /\ selectedIndex' = 1
  /\ laidOut' = FALSE

\* switchToSomeVC, by a page that may have just used the HUD.
switchToSomeVC(page, h) ==
  /\ Root(page, FALSE)
  /\ hud' = HUD!Release(h, Views)

Init ==
  /\ Auth!Init
  /\ HUD!Init
  /\ screen = "none" /\ navigation = FALSE
  /\ loginLatest = None /\ regLatest = None
  /\ selectedIndex = 1 /\ laidOut = FALSE

\* Mutant: loginCheck is not asked.
LaunchUnchecked ==
  /\ Auth!Launch
  /\ Root("main", FALSE)
  /\ UNCHANGED hud

\* Mutant: the keychain is not read.
LaunchSignedOut ==
  /\ ~Auth!Running
  /\ process' = "running"
  /\ currentUser' = None
  /\ UNCHANGED <<accounts, images, users, mutationQueue, calls, overlapped, hud>>
  /\ Root("login", TRUE)

\* SceneDelegate.scene(_:willConnectTo:options:) and loginCheck.
Launch ==
  /\ Auth!Launch
  /\ IF loginCheck THEN Root("main", FALSE) ELSE Root("login", TRUE)
  /\ UNCHANGED hud

\* The process ends: the user or the system kills it, or it traps.
Gone == Root("none", FALSE) /\ hud' = HUD!NewHUD

Kill == Auth!Terminate("killed") /\ Gone

\* saveInfoToFirestore with nobody signed in.
Abort(c) == Auth!saveInfoToNobody(c) /\ Gone
-----------------------------------------------------------------------------
\* A touch on the page reaches it.
Touch(page) == Auth!Running /\ screen = page /\ ~HUD!Blocks(hud, page)

\* loginButton.rx.tap: the HUD, then loginButtonTapped into flatMapLatest.
TapLogin(c, e) ==
  /\ Touch("login")
  /\ hud' = showActivityIndicator(hud, TRUE, "login")
  /\ Auth!performLogin(c, e)
  /\ loginLatest' = c
  /\ UNCHANGED <<screen, navigation, regLatest, selectedIndex, laidOut>>

\* goToSignUpPageButton.rx.tap: navigationController?.pushViewController.
TapGoToSignUp ==
  /\ Touch("login")
  /\ navigation
  /\ screen' = "register"
  /\ UNCHANGED <<authVars, hud, navigation, loginLatest, regLatest, selectedIndex, laidOut>>

\* signUpButton.rx.tap: onRegistering(true), then flatMapLatest.
TapSignUp(c, e) ==
  /\ Touch("register")
  /\ hud' = showActivityIndicator(hud, TRUE, "register")
  /\ Auth!performRegistration(c, e)
  /\ regLatest' = c
  /\ UNCHANGED <<screen, navigation, loginLatest, selectedIndex, laidOut>>

\* goToLoginPageButton.rx.tap: the registration page is popped and released.
TapGoToLogin ==
  /\ Touch("register")
  /\ screen' = "login"
  /\ regLatest' = None
  /\ hud' = HUD!Release(hud, {"register"})
  /\ UNCHANGED <<authVars, navigation, loginLatest, selectedIndex, laidOut>>

OnFeed == Auth!Running /\ screen = "main" /\ viewControllers[selectedIndex] = "feed"

\* A tap on the tab bar, which appears with the feed.
SelectTab(i) ==
  /\ Auth!Running /\ screen = "main" /\ laidOut
  /\ selectedIndex' = i
  /\ UNCHANGED <<authVars, hud, screen, navigation, loginLatest, regLatest, laidOut>>

\* didTapLogout: the login page that replaces Main has no navigation controller.
TapLogout ==
  /\ OnFeed /\ laidOut
  /\ Auth!doLogout
  /\ switchToSomeVC("login", hud)

\* collectionView(_:cellForItemAt:), first for the cell that layout needs:
\* viewModel.feeds[indexPath.item] traps when there is no such feed.
cellForItemAt(i) ==
  /\ OnFeed
  /\ ~laidOut => i = 0
  /\ IF i \in feeds
     THEN /\ laidOut' = TRUE
          /\ UNCHANGED <<authVars, hud, screen, navigation, loginLatest, regLatest,
                         selectedIndex>>
     ELSE Auth!Terminate("badIndex") /\ Gone
-----------------------------------------------------------------------------
\* Mutant: the login page does nothing when a login fails.
LoginAnsweredIfTrue(c) ==
  /\ Auth!LoginCallback(c)
  /\ IF c = loginLatest /\ calls'[c].result = "true"
     THEN switchToSomeVC("main", showActivityIndicator(hud, FALSE, "login"))
     ELSE UNCHANGED ui

\* isLoginCompleted.emit: SwitchSinkIter passes on the latest call only, and
\* asSignal(onErrorJustReturn: false) turns an error into one more element.
\* LoginController ignores the element.
LoginAnswered(c) ==
  /\ Auth!LoginCallback(c)
  /\ IF c = loginLatest
     THEN switchToSomeVC("main", showActivityIndicator(hud, FALSE, "login"))
     ELSE UNCHANGED ui

\* Mutant: flatMap instead of flatMapLatest.
OnRegisteredAny(c) ==
  CASE regLatest = None \/ calls'[c].result = "none"  -> UNCHANGED ui
    [] regLatest # None /\ calls'[c].result = "true"  ->
         switchToSomeVC("main", showActivityIndicator(hud, FALSE, "register"))
    [] regLatest # None /\ calls'[c].result = "false" ->
         hud' = showActivityIndicator(hud, FALSE, "register") /\ UNCHANGED pageVars

\* Mutant: onRegistering(false) only after a success.
OnRegisteredKeepsHUD(c) ==
  IF c = regLatest /\ calls'[c].result = "true"
  THEN switchToSomeVC("main", showActivityIndicator(hud, FALSE, "register"))
  ELSE UNCHANGED ui

\* The subscriber of performRegistration: onRegistering(false), then
\* onRegistered(result), which RegistrationController filters for true.
OnRegistered(c) ==
  CASE c # regLatest \/ calls'[c].result = "none"     -> UNCHANGED ui
    [] c = regLatest /\ calls'[c].result = "true"     ->
         switchToSomeVC("main", showActivityIndicator(hud, FALSE, "register"))
    [] c = regLatest /\ calls'[c].result = "false"    ->
         hud' = showActivityIndicator(hud, FALSE, "register") /\ UNCHANGED pageVars

RegistrationAnswered(c) ==
  /\ Auth!CreateUserCallback(c) \/ Auth!StorageFailed(c)
  /\ OnRegistered(c)

WriteAnswered ==
  /\ Auth!WriteAcknowledged \/ Auth!WriteRejected
  /\ OnRegistered(Head(mutationQueue[currentUser]).profileImageURL)

\* Steps that no page hears of.
Background(c) ==
  /\ \/ Auth!AuthAnswer(c) \/ Auth!updateCurrentUser(c)
     \/ Auth!ImageStored(c) \/ Auth!saveInfoToFirestore(c)
  /\ UNCHANGED ui

HUDFaded == HUD!animationDidFinish /\ UNCHANGED <<authVars, pageVars>>
-----------------------------------------------------------------------------
CallStep(c) == Background(c) \/ LoginAnswered(c) \/ RegistrationAnswered(c) \/ Abort(c)

Next ==
  \/ Launch \/ Kill
  \/ \E c \in Calls, e \in Emails : TapLogin(c, e) \/ TapSignUp(c, e)
  \/ TapGoToSignUp \/ TapGoToLogin \/ TapLogout
  \/ \E i \in DOMAIN viewControllers : SelectTab(i)
  \/ \E i \in 0 .. numberOfItemsInSection - 1 : cellForItemAt(i)
  \/ \E c \in Calls : CallStep(c)
  \/ WriteAnswered
  \/ HUDFaded

Spec == Init /\ [][Next]_vars

\* As in AuthManager; a fade lasts 0.4 s.
Fairness == (\A c \in Calls : WF_vars(CallStep(c))) /\ WF_vars(HUDFaded)

FairSpec == Spec /\ Fairness
-----------------------------------------------------------------------------
\* The HUD is up on the page, or fading in, with no dismissal on its way.
Spinning(page) == hud.view = page /\ hud.fade # "hide" /\ ~hud.dismissAfter

(***************************************************************************)
(* A page that shows the HUD waits for an answer: no order of taps on the  *)
(* two pages, fades, failures and deallocations leaves the shared HUD on a *)
(* page, blocking it, after the call it was shown for has been answered.   *)
(***************************************************************************)
SpinnerMeansWaiting ==
  /\ Spinning("login")    => loginLatest # None /\ Auth!Pending(loginLatest)
  /\ Spinning("register") => regLatest # None /\ Auth!Pending(regLatest)

(***************************************************************************)
(* Main is opened with nobody signed in only by a login that failed        *)
(* (LoginController.bind ignores the element of isLoginCompleted): neither *)
(* the launch, nor a registration, nor a login that succeeded does it,     *)
(* whatever other calls sign in, sign up or end meanwhile.                 *)
(***************************************************************************)
MainUnsignedMeansFailedLogin ==
  [][screen # "main" /\ screen' = "main" /\ currentUser' = None =>
       loginLatest # None /\ calls'[loginLatest].result = "error"]_vars

(***************************************************************************)
(* The registration page gives way to Main only when its latest attempt    *)
(* has stored its document, or a login begun on the page beneath has been  *)
(* answered: the result of an attempt that was abandoned or superseded     *)
(* (flatMapLatest) neither opens Main nor touches the HUD.                 *)
(***************************************************************************)
AnsweredNow(c) == c # None /\ calls[c].result = "none" /\ calls'[c].result # "none"

OnlyLatestIsHeard ==
  [][/\ screen = "register" /\ screen' = "main" =>
          \/ AnsweredNow(regLatest) /\ calls'[regLatest].result = "true"
          \/ AnsweredNow(loginLatest)
     /\ (\E c \in Calls : AnsweredNow(c)) /\ ~AnsweredNow(regLatest)
          /\ ~AnsweredNow(loginLatest) => UNCHANGED ui]_vars

(***************************************************************************)
(* The pages use AuthManager as its specification allows: every step of    *)
(* the program is one of AuthManager's, or leaves it alone, so all that    *)
(* holds of AuthManager holds of the program.                              *)
(***************************************************************************)
ImplementsAuthManager == Auth!Spec

(***************************************************************************)
(* A HUD goes away.  On the login page the answer to signIn, or its error, *)
(* always comes and dismisses it or replaces the page; on the registration *)
(* page it may stay while the latest attempt waits for Firestore, which    *)
(* answers no write while the phone is off line.                           *)
(***************************************************************************)
SpinnerEnds ==
  /\ hud.view = "login" ~> hud.view # "login"
  /\ hud.view = "register" ~>
       \/ hud.view # "register"
       \/ regLatest # None /\ calls[regLatest].pc = "setData"

(***************************************************************************)
(* What SceneDelegate's loginCheck, the filter on isRegistered and the     *)
(* Boolean of isLoginCompleted are there for: Main is for signed-in users. *)
(***************************************************************************)
MainMeansSignedIn == Auth!Running /\ screen = "main" => currentUser # None
=============================================================================
