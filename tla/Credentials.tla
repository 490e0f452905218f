----------------------------- MODULE Credentials -----------------------------
(***************************************************************************)
(* Who Firestore believes is signed in, and whose token its streams carry: *)
(* Firebase Auth, FirebaseCredentialsProvider, the credential listener of  *)
(* FirestoreClient and Stream::RequestCredentials.                         *)
(*                                                                         *)
(* Four queues hand the news on: Auth's work queue, the main queue (where  *)
(* notifications and token callbacks run), the worker queue of Firestore,  *)
(* and the network.  Auth changes its user at once; SyncEngine hears of it *)
(* two queues later, and a token that is asked for in between may be       *)
(* anybody's.                                                              *)
(*                                                                         *)
(* A token is named by its user.  WritePipeline has the stream in detail;  *)
(* here it starts and closes for any reason.                               *)
(***************************************************************************)
EXTENDS Naturals, Sequences

CONSTANTS Users,       \* uids
          Nobody,      \* the unauthenticated user
          MaxChanges,  \* bound: sign-ins, sign-outs and new tokens
          MaxStarts    \* bound: starts of the stream

ASSUME CredentialsAssumption ==
  /\ Nobody \notin Users
  /\ {"asked", "error"} \cap (Users \cup {Nobody}) = {}
  /\ MaxChanges \in Nat /\ MaxStarts \in Nat

VARIABLES
  auth,      \* FIRAuth: _currentUser; changes counts its notifications
  fetching,  \* getToken requests on Auth's queue or under way to the server
  main,      \* the main queue, in order
  provider,  \* FirebaseCredentialsProvider: Contents and how far it is set up
  worker,    \* the worker queue of Firestore, in order
  client     \* SyncEngine's user and the stream

vars == <<auth, fetching, main, provider, worker, client>>
-----------------------------------------------------------------------------
Anyone == Users \cup {Nobody}

\* A call of GetToken by RequestCredentials: initial_token_counter and
\* initial_close_count.
Request == [counter : Nat, close : Nat]

\* user is whose token it is, or "error".
MainBlock  == [kind : {"notify"}, user : Anyone]
              \cup [kind : {"token"}, user : Anyone \cup {"error"}, request : Request]

\* label is the user of Token{token, current_user}; with no token it is Nobody.
WorkerTask == [kind : {"Initialize", "change"}, user : Anyone]
              \cup [kind : {"token"}, user : Anyone \cup {"error"}, label : Anyone,
                    close : Nat]

Init ==
  /\ auth \in [user : Anyone, changes : {0}]
  /\ fetching = {} /\ main = <<>> /\ worker = <<>>
  /\ provider = [stage |-> "none", current_user |-> Nobody, token_counter |-> 0]
  /\ client = [user |-> Nobody, stream |-> "none", close_count |-> 0, starts |-> 0,
               token |-> Nobody]

Notify(user) == [kind |-> "notify", user |-> user]

\* Mutant: the notification is made before _currentUser is set.
updateCurrentUserPostsFirst(user) ==
  /\ auth.changes < MaxChanges /\ (user # auth.user \/ user \in Users)
  /\ auth' = [user |-> user, changes |-> auth.changes + 1]
  /\ main' = Append(main, Notify(auth.user))
  /\ UNCHANGED <<fetching, provider, worker, client>>

\* A sign-in (also of the user who is signed in) or a sign-out, on Auth's
\* queue, posts a notification if the access token is another.
updateCurrentUser(user) ==
  /\ auth.changes < MaxChanges /\ (user # auth.user \/ user \in Users)
  /\ auth' = [user |-> user, changes |-> auth.changes + 1]
  /\ main' = Append(main, Notify(user))
  /\ UNCHANGED <<fetching, provider, worker, client>>
-----------------------------------------------------------------------------
\* FirebaseCredentialsProvider's constructor: getUserID, then addObserver.  It
\* runs on the main thread, where AuthManager first asks for Firestore, so no
\* notification is delivered between the two.
Construct ==
  /\ provider.stage = "none"
  /\ provider' = [provider EXCEPT !.stage = "observing", !.current_user = auth.user]
  /\ UNCHANGED <<auth, fetching, main, worker, client>>

\* FirestoreClient::Create, at the first use of Firestore: the listener is
\* called at once, which enqueues Initialize.
SetCredentialChangeListener ==
  /\ provider.stage = "observing"
  /\ provider' = [provider EXCEPT !.stage = "listening"]
  /\ worker' = Append(worker, [kind |-> "Initialize", user |-> provider.current_user])
  /\ UNCHANGED <<auth, fetching, main, client>>

\* The notification is delivered.
AuthStateDidChange ==
  /\ main # <<>> /\ Head(main).kind = "notify"
  /\ main' = Tail(main)
  /\ provider' = IF provider.stage = "none" THEN provider
                 ELSE [provider EXCEPT !.current_user = Head(main).user,
                                       !.token_counter = @ + 1]
  /\ worker' = IF provider.stage # "listening" THEN worker
               ELSE Append(worker, [kind |-> "change", user |-> Head(main).user])
  /\ UNCHANGED <<auth, fetching, client>>
-----------------------------------------------------------------------------
\* getTokenForcingRefresh on Auth's queue.  Whose token it will be is settled
\* here; with nobody signed in the callback is posted at once.
GetTokenBlock(r) ==
  /\ r \in fetching /\ r.user = "asked"
  /\ IF auth.user = Nobody
     THEN /\ fetching' = fetching \ {r}
          /\ main' = Append(main, [kind |-> "token", user |-> Nobody, request |-> r.request])
     ELSE /\ fetching' = (fetching \ {r}) \cup {[r EXCEPT !.user = auth.user]}
          /\ UNCHANGED main
  /\ UNCHANGED <<auth, provider, worker, client>>

\* fetchAccessTokenForcingRefresh: a token that is still valid, a new one, an
\* error, or an error that says the user is no more, who is then signed out.
\* What changes the current user or his token is notified before the callback;
\* for a former user nothing is.
FetchAccessToken(r, result) ==
  LET changes == result \in {"updated", "invalid"} /\ r.user = auth.user
      user    == IF changes /\ result = "invalid" THEN Nobody ELSE auth.user
      token   == IF result \in {"error", "invalid"} THEN "error" ELSE r.user
  IN  /\ r \in fetching /\ r.user # "asked"
      /\ changes => auth.changes < MaxChanges
      /\ fetching' = fetching \ {r}
      /\ auth' = IF changes THEN [user |-> user, changes |-> auth.changes + 1] ELSE auth
      /\ main' = main \o (IF changes THEN <<Notify(user)>> ELSE <<>>)
                      \o <<[kind |-> "token", user |-> token, request |-> r.request]>>
      /\ UNCHANGED <<provider, worker, client>>

\* GetToken, with the token_counter that it reads, without the mutex.
GetToken(close) ==
  [user |-> "asked", request |-> [counter |-> provider.token_counter, close |-> close]]

Complete(block) ==
  worker' = Append(worker, [kind |-> "token", user |-> block.user,
                            label |-> IF block.user \in Users THEN provider.current_user
                                      ELSE Nobody,
                            close |-> block.request.close])

\* Mutant: token_counter is not looked at.
TokenCallbackUnchecked ==
  LET block == Head(main)
  IN  /\ main # <<>> /\ block.kind = "token"
      /\ main' = Tail(main)
      /\ Complete(block) /\ UNCHANGED fetching
      /\ UNCHANGED <<auth, provider, client>>

\* Mutant: an error ends the request.
TokenCallbackOnSuccess ==
  LET block == Head(main)
  IN  /\ main # <<>> /\ block.kind = "token"
      /\ main' = Tail(main)
      /\ IF block.request.counter # provider.token_counter
         THEN fetching' = fetching \cup {GetToken(block.request.close)} /\ UNCHANGED worker
         ELSE IF block.user = "error" THEN UNCHANGED <<fetching, worker>>
         ELSE Complete(block) /\ UNCHANGED fetching
      /\ UNCHANGED <<auth, provider, client>>

\* get_token_callback: if there was a change since GetToken, ask again.
TokenCallback ==
  LET block == Head(main)
  IN  /\ main # <<>> /\ block.kind = "token"
      /\ main' = Tail(main)
      /\ IF block.request.counter # provider.token_counter
         THEN fetching' = fetching \cup {GetToken(block.request.close)} /\ UNCHANGED worker
         ELSE Complete(block) /\ UNCHANGED fetching
      /\ UNCHANGED <<auth, provider, client>>
-----------------------------------------------------------------------------
\* Stream::Close and Stop.
Close(c) ==
  IF c.stream \in {"Starting", "Open"}
  THEN [c EXCEPT !.stream = "Initial", !.close_count = @ + 1, !.token = Nobody]
  ELSE c

\* Stream::Start and RequestCredentials, from a task of the worker queue.
StartFrom(c) ==
  /\ c.starts < MaxStarts
  /\ client' = [c EXCEPT !.stream = "Starting", !.starts = @ + 1]
  /\ fetching' = fetching \cup {GetToken(c.close_count)}

\* A task of Firestore starts the stream, or closes it: it has nothing to do,
\* or the call broke.
StartStream ==
  /\ client.stream = "Initial"
  /\ StartFrom(client)
  /\ UNCHANGED <<auth, main, provider, worker>>

CloseStream ==
  /\ client.stream \in {"Starting", "Open"}
  /\ client' = Close(client)
  /\ UNCHANGED <<auth, fetching, main, provider, worker>>

Initialize ==
  /\ worker # <<>> /\ Head(worker).kind = "Initialize"
  /\ worker' = Tail(worker)
  /\ client' = [client EXCEPT !.user = Head(worker).user, !.stream = "Initial"]
  /\ UNCHANGED <<auth, fetching, main, provider>>

\* Mutant: the stream goes on.
HandleCredentialChangeSameStream ==
  /\ worker # <<>> /\ Head(worker).kind = "change"
  /\ worker' = Tail(worker)
  /\ client' = [client EXCEPT !.user = Head(worker).user]
  /\ UNCHANGED <<auth, fetching, main, provider>>

\* HandleCredentialChange and RestartNetwork: the stream is closed and, if
\* there are writes, started again.
HandleCredentialChange ==
  LET closed == Close([client EXCEPT !.user = Head(worker).user])
  IN  /\ worker # <<>> /\ Head(worker).kind = "change"
      /\ worker' = Tail(worker)
      /\ \/ client' = closed /\ UNCHANGED fetching
         \/ StartFrom(closed)
      /\ UNCHANGED <<auth, main, provider>>

\* ResumeStartWithCredentials, unless the stream was closed in between.
TokenArrives ==
  LET task == Head(worker)
  IN  /\ worker # <<>> /\ task.kind = "token"
      /\ worker' = Tail(worker)
      /\ client' = IF task.close # client.close_count THEN client
                   ELSE IF task.user = "error" THEN Close(client)
                   ELSE [client EXCEPT !.stream = "Open", !.token = task.user]
      /\ UNCHANGED <<auth, fetching, main, provider>>
-----------------------------------------------------------------------------
AuthStep ==
  \E r \in fetching :
    \/ GetTokenBlock(r)
    \/ \E result \in {"valid", "updated", "error", "invalid"} : FetchAccessToken(r, result)

MainStep   == AuthStateDidChange \/ TokenCallback
WorkerStep == Initialize \/ HandleCredentialChange \/ TokenArrives

Next ==
  \/ \E user \in Anyone : updateCurrentUser(user)
  \/ Construct \/ SetCredentialChangeListener
  \/ AuthStep \/ MainStep \/ WorkerStep
  \/ StartStream \/ CloseStream

Spec == Init /\ [][Next]_vars

\* The queues run what they hold, and a request for a token is answered.
FairSpec ==
  /\ Spec
  /\ WF_vars(AuthStep) /\ WF_vars(MainStep) /\ WF_vars(WorkerStep)
-----------------------------------------------------------------------------
\* Auth, the queues, the provider and the client have their types.
TypeOK ==
  /\ auth \in [user : Anyone, changes : 0..MaxChanges]
  /\ \A r \in fetching : r \in [user : Users \cup {"asked"}, request : Request]
  /\ \A i \in DOMAIN main : main[i] \in MainBlock
  /\ \A i \in DOMAIN worker : worker[i] \in WorkerTask
  /\ provider \in [stage : {"none", "observing", "listening"},
                   current_user : Anyone, token_counter : 0..MaxChanges]
  /\ client \in [user : Anyone, stream : {"none", "Initial", "Starting", "Open"},
                 close_count : 0..MaxStarts, starts : 0..MaxStarts, token : Anyone]

(***************************************************************************)
(* An open stream carries a token of the user whose writes SyncEngine      *)
(* sends on it, although Auth may have changed its user long ago: a token  *)
(* that was asked for, fetched or delivered across a change is not used.   *)
(***************************************************************************)
OwnToken == client.stream = "Open" => client.token = client.user

(***************************************************************************)
(* GetToken hands out Token{token, current_user}, "since the user changed  *)
(* while the request was outstanding so the response is likely for a       *)
(* previous user": the token is one of the user it is labelled with.       *)
(***************************************************************************)
RightLabel ==
  \A i \in DOMAIN worker :
    worker[i].kind = "token" /\ worker[i].user # "error" => worker[i].user = worker[i].label

\* Once the changes are over (there are at most MaxChanges), SyncEngine's user
\* is Auth's for good: no notification is lost or overtaken on the way.
SettlesOnUser == client.stream # "none" ~> [](client.user = auth.user)

\* A stream that waits for its token does not wait for ever.
RequestIsAnswered == client.stream = "Starting" ~> client.stream # "Starting"
=============================================================================
