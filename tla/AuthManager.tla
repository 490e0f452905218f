----------------------------- MODULE AuthManager -----------------------------
(***************************************************************************)
(* Service/AuthManager.swift and the Firebase services it drives.          *)
(*                                                                         *)
(* Every performLogin or performRegistration that a page subscribes to is  *)
(* a call c \in Calls; its pc says which asynchronous answer it waits for. *)
(* A call is never cancelled: the disposables that Observable.create and   *)
(* Completable.create return do not stop it, and its inner subscriptions   *)
(* live in AuthManager.shared.disposeBag.                                  *)
(*                                                                         *)
(* Firebase gives one uid to each e-mail address that has an account and   *)
(* the program never deletes an account, so an account and its uid are     *)
(* both named by the address.  An image is named by the call that uploads  *)
(* it (a fresh UUID per call); in a profile document that name also stands *)
(* for the other form values of the call (fullname, userName).             *)
(***************************************************************************)
EXTENDS Sequences, FiniteSets

CONSTANTS Emails,   \* the addresses users type
          Calls,    \* performLogin and performRegistration subscriptions
          None      \* nil

VARIABLES
  process,        \* "running", or the way the process ended
  accounts,       \* Firebase Auth, server side: addresses with an account
  currentUser,    \* Auth.auth().currentUser, kept in the keychain
  images,         \* Cloud Storage: profile_images/<uuid>
  users,          \* Cloud Firestore: the document users/<uid>, None if absent
  mutationQueue,  \* Firestore: each user's writes not yet acknowledged
  calls,          \* the state of every call
  overlapped      \* history: calls whose session was replaced under them

vars == <<process, accounts, currentUser, images, users, mutationQueue,
          calls, overlapped>>

backend == <<accounts, images, users, mutationQueue>>
-----------------------------------------------------------------------------
(***************************************************************************)
(* request: sent to Firebase Auth.  granted: the server agreed, the answer *)
(* is on its way.  session: currentUser is set and the callback is queued  *)
(* on the main thread.  refused: a callback with an error is queued there. *)
(***************************************************************************)
AuthPC  == {"request", "granted", "session", "refused"}
StorePC == {"putData", "downloadURL", "setData"}

Call == [op     : {"none", "login", "register"},
         email  : Emails \cup {None},
         pc     : {"idle", "done", "lost"} \cup AuthPC \cup StorePC,
         result : {"none", "true", "false", "error"}]

Doc == [profileImageURL : Calls, email : Emails, uid : Emails]

ASSUME NoneAssumption == None \notin Emails /\ None \notin Doc

Idle(c)    == calls[c].pc = "idle"
Pending(c) == calls[c].pc \in AuthPC \cup StorePC

IsRegister(c) == calls[c].op = "register"

\* The registrations that are signed in and have yet to read currentUser for
\* their profile document.
InChain(c) == IsRegister(c) /\ calls[c].pc \in {"session", "putData", "downloadURL"}

\* History: currentUser becomes user while another registration relies on it.
Overlap(user) ==
  overlapped' = overlapped \cup {d \in Calls : InChain(d) /\ calls[d].email # user}

\* Mutant: the stopped flag is not looked at.
EmitAlways(call, event) == [call EXCEPT !.result = event]

\* AnonymousObservableSink.on: after an error every later event is dropped.
Emit(call, event) ==
  IF call.result = "error" THEN call ELSE [call EXCEPT !.result = event]

Finish(call, event) == [Emit(call, event) EXCEPT !.pc = "done"]

Running == process = "running"
-----------------------------------------------------------------------------
Init ==
  /\ process = "killed"
  /\ accounts = {}
  /\ currentUser = None
  /\ images = {}
  /\ users = [e \in Emails |-> None]
  /\ mutationQueue = [e \in Emails |-> <<>>]
  /\ calls = [c \in Calls |-> [op |-> "none", email |-> None,
                               pc |-> "idle", result |-> "none"]]
  /\ overlapped = {}

\* The process starts: Firebase restores currentUser from the keychain and
\* the mutation queues from disk.
Launch ==
  /\ ~Running
  /\ process' = "running"
  /\ UNCHANGED <<backend, currentUser, calls, overlapped>>

\* The process ends and no callback will run.  A request that has left may
\* still be carried out by its server.
Terminate(how) ==
  /\ Running
  /\ process' = how
  /\ \E E \in SUBSET {e \in Emails : \E c \in Calls :
                        IsRegister(c) /\ calls[c].pc = "request" /\ calls[c].email = e} :
       accounts' = accounts \cup E
  /\ \E I \in SUBSET {c \in Calls : calls[c].pc = "putData"} :
       images' = images \cup I
  /\ calls' = [c \in Calls |->
                 IF Pending(c) THEN [calls[c] EXCEPT !.pc = "lost"] ELSE calls[c]]
  /\ UNCHANGED <<currentUser, users, mutationQueue, overlapped>>
-----------------------------------------------------------------------------
\* Auth.auth().signIn or Auth.auth().createUser sends its request.
Start(c, op, e) ==
  /\ Running
  /\ Idle(c)
  /\ calls' = [calls EXCEPT ![c] = [op |-> op, email |-> e,
                                    pc |-> "request", result |-> "none"]]
  /\ UNCHANGED <<process, backend, currentUser, overlapped>>

performLogin(c, e) == Start(c, "login", e)

performRegistration(c, e) == Start(c, "register", e)

\* The server signs in an address that has an account.
SignInGranted(c) ==
  /\ Running
  /\ calls[c].op = "login" /\ calls[c].pc = "request"
  /\ calls[c].email \in accounts
  /\ calls' = [calls EXCEPT ![c].pc = "granted"]
  /\ UNCHANGED <<process, backend, currentUser, overlapped>>

\* The server makes an account for an address that has none.
AccountCreated(c) ==
  /\ Running
  /\ IsRegister(c) /\ calls[c].pc = "request"
  /\ calls[c].email \notin accounts
  /\ accounts' = accounts \cup {calls[c].email}
  /\ calls' = [calls EXCEPT ![c].pc = "granted"]
  /\ UNCHANGED <<process, currentUser, images, users, mutationQueue, overlapped>>

\* An error answer: a wrong password, an address in use, no network; after
\* the server agreed, a lost answer or a keychain that cannot be written.
AuthRefused(c) ==
  /\ Running
  /\ calls[c].pc \in {"request", "granted"}
  /\ calls' = [calls EXCEPT ![c].pc = "refused"]
  /\ UNCHANGED <<process, backend, currentUser, overlapped>>

\* FIRAuth stores the new user on its work queue, then queues the callback.
updateCurrentUser(c) ==
  /\ Running
  /\ calls[c].pc = "granted"
  /\ currentUser' = calls[c].email
  /\ calls' = [calls EXCEPT ![c].pc = "session"]
  /\ Overlap(calls[c].email)
  /\ UNCHANGED <<process, backend>>

\* Mutant: signIn's callback does not run when there is an error.
LoginCallbackOnSuccess(c) ==
  /\ Running
  /\ calls[c].op = "login" /\ calls[c].pc = "session"
  /\ calls' = [calls EXCEPT ![c] = Finish(@, "true")]
  /\ UNCHANGED <<process, backend, currentUser, overlapped>>

\* The callback of signIn: onError, if there is an error, and onNext(true).
LoginCallback(c) ==
  /\ Running
  /\ calls[c].op = "login" /\ calls[c].pc \in {"session", "refused"}
  /\ LET told == IF calls[c].pc = "refused" THEN Emit(calls[c], "error") ELSE calls[c]
     IN  calls' = [calls EXCEPT ![c] = Finish(told, "true")]
  /\ UNCHANGED <<process, backend, currentUser, overlapped>>

\* Mutant: no return after createUser's error.
CreateUserCallbackNoReturn(c) ==
  /\ Running
  /\ IsRegister(c) /\ calls[c].pc \in {"session", "refused"}
  /\ calls' = [calls EXCEPT ![c].pc = "putData"]
  /\ UNCHANGED <<process, backend, currentUser, overlapped>>

\* Mutant: the document is written without waiting for the upload.
CreateUserCallbackNoUpload(c) ==
  /\ Running
  /\ IsRegister(c) /\ calls[c].pc \in {"session", "refused"}
  /\ calls' = [calls EXCEPT ![c] = IF @.pc = "refused" THEN Finish(@, "false")
                                   ELSE [@ EXCEPT !.pc = "downloadURL"]]
  /\ UNCHANGED <<process, backend, currentUser, overlapped>>

\* The callback of createUser: onNext(false), or saveImageToFirebase.
CreateUserCallback(c) ==
  /\ Running
  /\ IsRegister(c) /\ calls[c].pc \in {"session", "refused"}
  /\ calls' = [calls EXCEPT ![c] = IF @.pc = "refused" THEN Finish(@, "false")
                                   ELSE [@ EXCEPT !.pc = "putData"]]
  /\ UNCHANGED <<process, backend, currentUser, overlapped>>

\* try Auth.auth().signOut() succeeds (it changes nothing when it throws).
doLogout ==
  /\ Running
  /\ currentUser' = None
  /\ Overlap(None)
  /\ UNCHANGED <<process, backend, calls>>
-----------------------------------------------------------------------------
\* Mutant: the file is named after the address instead of a fresh UUID.
ImageStoredByEmail(c) ==
  /\ Running
  /\ calls[c].pc = "putData"
  /\ images' = images \cup {calls[c].email}
  /\ calls' = [calls EXCEPT ![c].pc = "downloadURL"]
  /\ UNCHANGED <<process, accounts, currentUser, users, mutationQueue, overlapped>>

\* putData has stored the image; its completion asks for the download URL.
ImageStored(c) ==
  /\ Running
  /\ calls[c].pc = "putData"
  /\ images' = images \cup {c}
  /\ calls' = [calls EXCEPT ![c].pc = "downloadURL"]
  /\ UNCHANGED <<process, accounts, currentUser, users, mutationQueue, overlapped>>

\* Mutant: no return after putData's error.
StorageFailedNoReturn(c) ==
  /\ Running
  /\ calls[c].pc = "putData"
  /\ images' \in {images, images \cup {c}}
  /\ calls' = [calls EXCEPT ![c] = [Emit(@, "false") EXCEPT !.pc = "downloadURL"]]
  /\ UNCHANGED <<process, accounts, currentUser, users, mutationQueue, overlapped>>

\* putData or downloadURL fails (putData perhaps after storing the image):
\* the Completable's error becomes onNext(false).
StorageFailed(c) ==
  /\ Running
  /\ calls[c].pc \in {"putData", "downloadURL"}
  /\ images' \in {images} \cup IF calls[c].pc = "putData" THEN {images \cup {c}} ELSE {}
  /\ calls' = [calls EXCEPT ![c] = Finish(@, "false")]
  /\ UNCHANGED <<process, accounts, currentUser, users, mutationQueue, overlapped>>

\* The URL is there: saveInfoToFirestore reads currentUser and sets
\* users/<uid>, a write that Firestore keeps in that user's queue.
saveInfoToFirestore(c) ==
  /\ Running
  /\ calls[c].pc = "downloadURL"
  /\ currentUser # None
  /\ LET doc == [profileImageURL |-> c, email |-> calls[c].email, uid |-> currentUser]
     IN  mutationQueue' = [mutationQueue EXCEPT ![currentUser] = Append(@, doc)]
  /\ calls' = [calls EXCEPT ![c].pc = "setData"]
  /\ UNCHANGED <<process, accounts, currentUser, images, users, overlapped>>

\* Nobody is signed in: document("") is no document path, Firestore aborts.
saveInfoToNobody(c) ==
  /\ calls[c].pc = "downloadURL"
  /\ currentUser = None
  /\ Terminate("badPath")

\* Mutant: the answer is taken for one to the writes of any user.
WriteAnsweredAnyUser(event) ==
  /\ Running
  /\ currentUser # None /\ mutationQueue[currentUser] # <<>>
  /\ \E e \in Emails :
       /\ mutationQueue[e] # <<>>
       /\ mutationQueue' = [mutationQueue EXCEPT ![e] = Tail(@)]
       /\ LET c == Head(mutationQueue[e]).profileImageURL
          IN  calls' = [calls EXCEPT ![c] = IF @.pc = "setData" THEN Finish(@, event) ELSE @]
  /\ UNCHANGED <<process, accounts, currentUser, images, overlapped>>

\* Firestore drops the oldest write of the signed-in user and notifies the
\* call that made it, unless the process was restarted since.
WriteAnswered(event) ==
  /\ Running
  /\ currentUser # None /\ mutationQueue[currentUser] # <<>>
  /\ mutationQueue' = [mutationQueue EXCEPT ![currentUser] = Tail(@)]
  /\ LET c == Head(mutationQueue[currentUser]).profileImageURL
     IN  calls' = [calls EXCEPT ![c] = IF @.pc = "setData" THEN Finish(@, event) ELSE @]
  /\ UNCHANGED <<process, accounts, currentUser, images, overlapped>>

WriteAcknowledged ==
  /\ WriteAnswered("true")
  /\ users' = [users EXCEPT ![currentUser] = Head(mutationQueue[currentUser])]

WriteRejected ==
  /\ WriteAnswered("false")
  /\ UNCHANGED users
-----------------------------------------------------------------------------
AuthAnswer(c) == SignInGranted(c) \/ AccountCreated(c) \/ AuthRefused(c)

AuthCallback(c) == LoginCallback(c) \/ CreateUserCallback(c)

StorageAnswer(c) ==
  \/ ImageStored(c) \/ StorageFailed(c)
  \/ saveInfoToFirestore(c) \/ saveInfoToNobody(c)

Progress(c) == AuthAnswer(c) \/ updateCurrentUser(c) \/ AuthCallback(c) \/ StorageAnswer(c)

Next ==
  \/ Launch
  \/ \E how \in {"killed", "badIndex"} : Terminate(how)
  \/ \E c \in Calls, e \in Emails : performLogin(c, e) \/ performRegistration(c, e)
  \/ \E c \in Calls : Progress(c)
  \/ doLogout
  \/ WriteAcknowledged
  \/ WriteRejected

Spec == Init /\ [][Next]_vars

(***************************************************************************)
(* Firebase Auth and Cloud Storage requests have time-outs and the main    *)
(* queue runs what is queued.  Firestore has no time-out: a write made     *)
(* off line waits for ever, so its answer gets no fairness.                *)
(***************************************************************************)
Fairness == \A c \in Calls : WF_vars(Progress(c))

FairSpec == Spec /\ Fairness
-----------------------------------------------------------------------------
\* The services, the sessions and the calls hold values of their types.
TypeOK ==
  /\ process \in {"running", "killed", "badPath", "badIndex"}
  /\ accounts \subseteq Emails
  /\ currentUser \in Emails \cup {None}
  /\ images \subseteq Calls
  /\ users \in [Emails -> Doc \cup {None}]
  /\ mutationQueue \in [Emails -> Seq(Doc)]
  /\ calls \in [Calls -> Call]
  /\ overlapped \subseteq Calls

\* The documents that Firestore has stored, or will store, under users/<e>.
Queued(e)  == {mutationQueue[e][i] : i \in DOMAIN mutationQueue[e]}
Written(e) == Queued(e) \cup ({users[e]} \ {None})

(***************************************************************************)
(* What the three services hold agrees: a profile document that is stored  *)
(* or queued (saveInfoToFirestore) names an image that putData stored and  *)
(* the address of an account that createUser made, under any order of      *)
(* calls, failures and restarts.                                           *)
(***************************************************************************)
StoresAgree ==
  \A e \in Emails : \A doc \in Written(e) :
    /\ doc.profileImageURL \in images
    /\ doc.email \in accounts
    /\ doc.uid = e /\ e \in accounts

(***************************************************************************)
(* createUser lets one call per address through: two registrations of the  *)
(* same address never both reach saveImageToFirebase, whatever answers are *)
(* lost and however often the user tries again.                            *)
(***************************************************************************)
Created(c) ==
  /\ IsRegister(c)
  /\ calls[c].pc \in {"granted", "session"} \cup StorePC \/ calls[c].result = "true"

OneChainPerAccount ==
  \A c, d \in Calls :
    Created(c) /\ Created(d) /\ calls[c].email = calls[d].email => c = d

(***************************************************************************)
(* The stores agree, and an account has one registration behind it.        *)
(***************************************************************************)
Consistent == StoresAgree /\ OneChainPerAccount

(***************************************************************************)
(* saveInfoToFirestore reads currentUser two network round trips after     *)
(* createUser set it.  Only a registration whose session was replaced in   *)
(* between can have put its values under somebody else's uid.              *)
(***************************************************************************)
OwnProfile ==
  \A e \in Emails : \A doc \in Written(e) :
    doc.profileImageURL \notin overlapped => doc.email = e

(***************************************************************************)
(* The empty uid of saveInfoToFirestore (currentUser?.uid ?? "") aborts    *)
(* the process only if a registration was signed out while it was running. *)
(***************************************************************************)
BadPathMeansOverlap == process = "badPath" => overlapped # {}

(***************************************************************************)
(* A registration that keeps its session is safe: its values go to its own *)
(* user's document, and it does not abort the process.                     *)
(***************************************************************************)
SafeSession == OwnProfile /\ BadPathMeansOverlap

(***************************************************************************)
(* performRegistration reports true only when everything is stored: the    *)
(* account, the image and a document under the user's own uid, which only  *)
(* a registration whose session was replaced can have overwritten.         *)
(***************************************************************************)
RegisteredMeansStored ==
  \A c \in Calls :
    IsRegister(c) /\ calls[c].result = "true" =>
      /\ calls[c].email \in accounts
      /\ c \in images
      /\ c \notin overlapped =>
           /\ users[calls[c].email] # None
           /\ users[calls[c].email].profileImageURL \in {c} \cup overlapped

(***************************************************************************)
(* performLogin calls onNext(true) after onError too: the observer hears   *)
(* true only of an address that has an account.                            *)
(***************************************************************************)
LoginMeansAccount ==
  \A c \in Calls :
    calls[c].op = "login" /\ calls[c].result = "true" => calls[c].email \in accounts

(***************************************************************************)
(* An observer that hears true, of a login or a registration, hears the    *)
(* truth, although answers are lost and other calls go on meanwhile.       *)
(***************************************************************************)
TrueIsTrue == RegisteredMeansStored /\ LoginMeansAccount

(***************************************************************************)
(* An observer is told one outcome: neither a retry, a write answered late *)
(* nor a restart changes a result that a call has already reported.        *)
(***************************************************************************)
OneOutcome ==
  [][\A c \in Calls : calls[c].result # "none" => calls'[c].result = calls[c].result]_vars

\* The writes of AuthManager as module WriteQueue has them: named by the calls
\* that made them, in the queues of the users, where nobody has an empty one.
Writes == INSTANCE WriteQueue WITH
  Users   <- Emails \cup {None},
  Writes  <- Calls,
  user    <- currentUser,
  queue   <- [u \in Emails \cup {None} |->
                IF u = None THEN <<>>
                ELSE [i \in DOMAIN mutationQueue[u] |-> mutationQueue[u][i].profileImageURL]],
  waiting <- {c \in Calls : calls[c].pc = "setData"}

(***************************************************************************)
(* What this module assumes of Firestore is what WriteQueue promises, and  *)
(* WritePipeline shows that Firestore's own code keeps that promise: the   *)
(* oldest write of the signed-in user is answered first, to the call that  *)
(* made it, across logins, logouts and restarts.                           *)
(***************************************************************************)
ReliesOnPromise == Writes!Spec

(***************************************************************************)
(* Every call of performLogin ends, and every registration ends or reaches *)
(* Firestore's setData, where it may wait for as long as the phone is off  *)
(* line or another user is signed in.                                      *)
(***************************************************************************)
CallsEnd ==
  \A c \in Calls : Pending(c) ~> calls[c].pc \in {"done", "lost", "setData"}
=============================================================================
