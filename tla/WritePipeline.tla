---------------------------- MODULE WritePipeline ----------------------------
(***************************************************************************)
(* How Cloud Firestore's client (Pods/FirebaseFirestore/Firestore/core)    *)
(* carries out setData: SyncEngine and its callbacks, the mutation queues  *)
(* of LocalStore on disk, RemoteStore's write pipeline, and the stream to  *)
(* the server with its restarts.                                           *)
(*                                                                         *)
(* All of this code runs in tasks of one AsyncQueue, one at a time, so one *)
(* task is one action.  A method that a task calls is an operator that     *)
(* takes the client's state and returns the state it leaves: the operators *)
(* nest as the calls do.  A HARD_ASSERT that fails sets aborted.           *)
(*                                                                         *)
(* A write is numbered by the order of the setData calls.  Left out: the   *)
(* contents of documents, the cache and the listeners, the length of       *)
(* delays, and the stream token, which no branch of the client reads.  The *)
(* server is assumed not to end a call with OK while writes are pending    *)
(* (OnWriteStreamClose would abort), nor to commit the requests of a call  *)
(* that the client has given up.                                           *)
(***************************************************************************)
EXTENDS Integers, Sequences

CONSTANTS Users,               \* User::uid, the unauthenticated user too
          MaxWrites,           \* bound: setData calls
          kMaxPendingWrites,   \* capacity of the write pipeline
          Waiters,             \* calls of waitForPendingWrites
          None

ASSUME ConstantsAssumption ==
  /\ MaxWrites \in Nat
  /\ kMaxPendingWrites \in Nat \ {0}
  /\ None \notin {"ok", "unavailable", "permissionDenied", "aborted"}

VARIABLES client,   \* SyncEngine, LocalStore, RemoteStore, WriteStream, call
          server,   \* Cloud Firestore
          history   \* what the program asked for, by which user

vars == <<client, server, history>>
-----------------------------------------------------------------------------
Writes == 1..MaxWrites

kBatchIdUnknown == -1

HardAssert(s, condition) == [s EXCEPT !.aborted = @ \/ ~condition]

IsPermanentError(status)      == status \in {"permissionDenied", "aborted"}
IsPermanentWriteError(status) == IsPermanentError(status) /\ status # "aborted"
-----------------------------------------------------------------------------
\* LevelDbMutationQueue: the rows of a user are sorted by batch id.

BatchIds(queues) == UNION {{queues[u][i].id : i \in DOMAIN queues[u]} : u \in Users}

\* One more than the largest id of any user that is still on disk.
LoadNextBatchIdFromDb(queues) ==
  LET ids == BatchIds(queues) \cup {0}
  IN  1 + (CHOOSE m \in ids : \A i \in ids : i =< m)

\* The first row whose id is at least id; past the end if there is none.
Seek(queue, id) ==
  CHOOSE k \in 1..(Len(queue) + 1) :
    /\ \A i \in 1..(k - 1) : queue[i].id < id
    /\ k =< Len(queue) => queue[k].id >= id

NextMutationBatches(queue, id) == SubSeq(queue, Seek(queue, id + 1), Len(queue))

AddMutationBatch(s, w) ==
  [s EXCEPT !.queues[s.user] = Append(@, [id |-> s.nextBatchId, write |-> w]),
            !.nextBatchId = @ + 1]

RemoveMutationBatch(s, id) ==
  LET queue == s.queues[s.user]
      k     == Seek(queue, id)
      found == k =< Len(queue) /\ queue[k].id = id
  IN  IF found
      THEN [s EXCEPT !.queues[s.user] =
                       SubSeq(queue, 1, k - 1) \o SubSeq(queue, k + 1, Len(queue))]
      ELSE HardAssert(s, found)

GetHighestUnacknowledgedBatchId(s) ==
  LET queue == s.queues[s.user]
  IN  IF queue = <<>> THEN kBatchIdUnknown ELSE queue[Len(queue)].id
-----------------------------------------------------------------------------
\* Stream and WriteStream.

IsOpen(s)    == s.stream = "Open"
IsStarted(s) == s.stream \in {"Starting", "Backoff", "Open"}

BackoffAndTryRestarting(s) ==
  [s EXCEPT !.stream = "Backoff", !.timers = @ \cup {"backoff"}]

RequestCredentials(s) == [s EXCEPT !.requests = @ \cup {"live"}]

Start(s) ==
  IF s.stream = "Error"
  THEN BackoffAndTryRestarting(s)
  ELSE RequestCredentials([HardAssert(s, s.stream = "Initial")
                             EXCEPT !.stream = "Starting"])

InhibitBackoff(s) == [HardAssert(s, ~IsStarted(s)) EXCEPT !.stream = "Initial"]

MarkIdle(s) == IF IsOpen(s) THEN [s EXCEPT !.timers = @ \cup {"idle"}] ELSE s

CancelIdleCheck(s) == [s EXCEPT !.timers = @ \ {"idle"}]

WriteHandshake(s) ==
  [CancelIdleCheck(HardAssert(s, IsOpen(s) /\ ~s.handshakeComplete))
     EXCEPT !.hello = "sent"]

\* One request for each of the batches.
WriteMutations(s, batches) ==
  IF batches = <<>> THEN s
  ELSE [CancelIdleCheck(HardAssert(s, IsOpen(s) /\ s.handshakeComplete))
          EXCEPT !.up = @ \o batches]
-----------------------------------------------------------------------------
\* RemoteStore: filling the pipeline and starting the stream.

CanUseNetwork(s) == s.networkEnabled

ShouldStartWriteStream(s) == CanUseNetwork(s) /\ ~IsStarted(s) /\ s.pipeline # <<>>

StartIfNeeded(s) == IF ShouldStartWriteStream(s) THEN Start(s) ELSE s

LastBatchIdRetrieved(pipeline) ==
  IF pipeline = <<>> THEN kBatchIdUnknown ELSE pipeline[Len(pipeline)].id

\* What FillWritePipeline's loop takes from the queue of the current user.
Retrieved(s) ==
  LET rest  == NextMutationBatches(s.queues[s.user], LastBatchIdRetrieved(s.pipeline))
      slots == kMaxPendingWrites - Len(s.pipeline)
  IN  IF ~CanUseNetwork(s) THEN <<>>
      ELSE SubSeq(rest, 1, IF Len(rest) < slots THEN Len(rest) ELSE slots)

\* Mutant: a write that comes when the stream is open is not sent.
AddToWritePipelineOnly(s, batches) == [s EXCEPT !.pipeline = @ \o batches]

AddToWritePipeline(s, batches) ==
  LET added == [s EXCEPT !.pipeline = @ \o batches]
  IN  IF IsOpen(s) /\ s.handshakeComplete THEN WriteMutations(added, batches) ELSE added

FillWritePipeline(s) ==
  LET filled == AddToWritePipeline(s, Retrieved(s))
  IN  StartIfNeeded(IF CanUseNetwork(s) /\ filled.pipeline = <<>>
                    THEN MarkIdle(filled) ELSE filled)
-----------------------------------------------------------------------------
\* SyncEngine: answers to writes.

\* Mutant: the callback is not erased.
NotifyUserAndKeep(s, id, outcome) ==
  [s EXCEPT !.told = [w \in Writes |->
     IF \E c \in s.callbacks : c.user = s.user /\ c.id = id /\ c.write = w
     THEN outcome ELSE s.told[w]]]

NotifyUser(s, id, outcome) ==
  LET found == {c \in s.callbacks : c.user = s.user /\ c.id = id}
  IN  [s EXCEPT !.told = [w \in Writes |-> IF \E c \in found : c.write = w
                                           THEN outcome ELSE s.told[w]],
                !.callbacks = @ \ found]

\* Mutant: a waiter is told at the answer to an earlier write.
TriggerTooEarly(s, id) ==
  LET found == {p \in s.pending : p.id >= id}
  IN  [s EXCEPT !.waiterTold = [x \in Waiters |-> IF \E p \in found : p.waiter = x
                                                  THEN "ok" ELSE s.waiterTold[x]],
                !.pending = @ \ found]

TriggerPendingWriteCallbacks(s, id) ==
  LET found == {p \in s.pending : p.id = id}
  IN  [s EXCEPT !.waiterTold = [x \in Waiters |-> IF \E p \in found : p.waiter = x
                                                  THEN "ok" ELSE s.waiterTold[x]],
                !.pending = @ \ found]

FailOutstandingPendingWriteCallbacks(s) ==
  [s EXCEPT !.waiterTold = [x \in Waiters |-> IF \E p \in s.pending : p.waiter = x
                                              THEN "cancelled" ELSE s.waiterTold[x]],
            !.pending = {}]

HandleSuccessfulWrite(s, id) ==
  RemoveMutationBatch(TriggerPendingWriteCallbacks(NotifyUser(s, id, "ok"), id), id)

HandleRejectedWrite(s, id) ==
  TriggerPendingWriteCallbacks(NotifyUser(RemoveMutationBatch(s, id), id, "error"), id)
-----------------------------------------------------------------------------
\* RemoteStore and Stream: results, errors and the end of a call.

PopFront(s) == [s EXCEPT !.pipeline = Tail(@)]

OnWriteStreamHandshakeComplete(s) == WriteMutations(s, s.pipeline)

OnWriteStreamMutationResult(s) ==
  IF s.pipeline = <<>> THEN HardAssert(s, FALSE)
  ELSE FillWritePipeline(HandleSuccessfulWrite(PopFront(s), Head(s.pipeline).id))

HandleWriteError(s, status) ==
  IF ~IsPermanentWriteError(status) THEN s
  ELSE FillWritePipeline(HandleRejectedWrite(InhibitBackoff(PopFront(s)),
                                             Head(s.pipeline).id))

\* Mutant: an error before the handshake is blamed on a write.
OnWriteStreamCloseAnyError(s, status) ==
  LET checked == HardAssert(s, status = "ok" => ~ShouldStartWriteStream(s))
  IN  StartIfNeeded(IF status # "ok" /\ s.pipeline # <<>>
                    THEN HandleWriteError(checked, status) ELSE checked)

\* Mutant: the stream is not started again.
OnWriteStreamCloseAtRest(s, status) ==
  IF status # "ok" /\ s.pipeline # <<>> /\ s.handshakeComplete
  THEN HandleWriteError(s, status) ELSE s

\* An error before the handshake resets the stream token and nothing else.
OnWriteStreamClose(s, status) ==
  LET checked == HardAssert(s, status = "ok" => ~ShouldStartWriteStream(s))
  IN  StartIfNeeded(IF status # "ok" /\ s.pipeline # <<>> /\ s.handshakeComplete
                    THEN HandleWriteError(checked, status) ELSE checked)

\* Mutant: a token request outlives the close (no close_count).
ReleaseCallKeepRequests(s) ==
  [s EXCEPT !.timers = {}, !.hello = "none", !.up = <<>>, !.down = <<>>,
            !.status = None, !.tokenUser = None]

\* A close invalidates the token requests that are on their way, and what
\* the call has not delivered is lost.
ReleaseCall(s) ==
  [s EXCEPT !.timers = {},
            !.requests = IF @ = {} THEN {} ELSE {"stale"},
            !.hello = "none", !.up = <<>>, !.down = <<>>,
            !.status = None, !.tokenUser = None]

Close(s, status) ==
  IF status = "ok" /\ ~IsStarted(s) THEN s
  ELSE LET closed == [ReleaseCall(HardAssert(s, IsStarted(s)))
                        EXCEPT !.stream = IF status = "ok" THEN "Initial" ELSE "Error"]
       IN  [OnWriteStreamClose(closed, status) EXCEPT !.handshakeComplete = FALSE]

Stop(s) == Close(s, "ok")

EnableNetwork(s) == FillWritePipeline([s EXCEPT !.networkEnabled = TRUE])

DisableNetwork(s) == [Stop([s EXCEPT !.networkEnabled = FALSE]) EXCEPT !.pipeline = <<>>]

RestartNetwork(s) == EnableNetwork(InhibitBackoff(DisableNetwork(s)))
-----------------------------------------------------------------------------
\* FirestoreClient::Initialize in a new process: the queues are on disk; told
\* and waiterTold record what callbacks said in the processes before.
Initialize(s, u) ==
  EnableNetwork(
    [s EXCEPT !.user = u, !.nextBatchId = LoadNextBatchIdFromDb(s.queues),
              !.callbacks = {}, !.pending = {}, !.networkEnabled = FALSE,
              !.pipeline = <<>>, !.stream = "Initial", !.handshakeComplete = FALSE,
              !.timers = {}, !.requests = {}, !.hello = "none", !.up = <<>>,
              !.down = <<>>, !.status = None, !.tokenUser = None])

Init ==
  /\ \E u \in Users :
       client = [user |-> u, queues |-> [v \in Users |-> <<>>], nextBatchId |-> 1,
                 callbacks |-> {}, told |-> [w \in Writes |-> "none"],
                 pending |-> {}, waiterTold |-> [x \in Waiters |-> "none"],
                 networkEnabled |-> TRUE, pipeline |-> <<>>,
                 stream |-> "Initial", handshakeComplete |-> FALSE,
                 timers |-> {}, requests |-> {}, hello |-> "none", up |-> <<>>,
                 down |-> <<>>, status |-> None, tokenUser |-> None,
                 aborted |-> FALSE]
  /\ server = [committed |-> {}, refused |-> {}, stored |-> [u \in Users |-> 0]]
  /\ history = [owners |-> <<>>, awaited |-> [x \in Waiters |-> {}]]

\* A task of the worker queue that involves no one else.
Task(s) == client' = s /\ UNCHANGED <<server, history>>

\* The process ends, at any moment, and is started again.
Restart(u) == Task(Initialize(client, u))

\* SyncEngine::WriteMutations, for one setData.  std::unordered_map::insert
\* does not replace a callback that is already there.
DoWriteMutations ==
  /\ Len(history.owners) < MaxWrites
  /\ LET w  == Len(history.owners) + 1
         id == client.nextBatchId
         known  == \E c \in client.callbacks : c.user = client.user /\ c.id = id
         stored == AddMutationBatch(client, w)
     IN  client' = FillWritePipeline(
           [stored EXCEPT !.callbacks = @ \cup
              IF known THEN {} ELSE {[user |-> client.user, id |-> id, write |-> w]}])
  /\ history' = [history EXCEPT !.owners = Append(@, client.user)]
  /\ UNCHANGED server

\* SyncEngine::RegisterPendingWritesCallback.
RegisterPendingWritesCallback(x) ==
  /\ client.waiterTold[x] = "none" /\ history.awaited[x] = {}
  /\ \A p \in client.pending : p.waiter # x
  /\ LET id == GetHighestUnacknowledgedBatchId(client)
         queue == client.queues[client.user]
     IN  /\ client' = IF id = kBatchIdUnknown
                      THEN [client EXCEPT !.waiterTold[x] = "ok"]
                      ELSE [client EXCEPT !.pending = @ \cup {[waiter |-> x, id |-> id]}]
         /\ history' = [history EXCEPT !.awaited[x] = {queue[i].write : i \in DOMAIN queue}]
  /\ UNCHANGED server

\* Mutant: the stream of the former user stays.
HandleCredentialChangeSameStream(u) ==
  LET switched == IF u = client.user THEN client
                  ELSE [FailOutstandingPendingWriteCallbacks(client)
                          EXCEPT !.user = u,
                                 !.nextBatchId = LoadNextBatchIdFromDb(client.queues)]
  IN  Task(IF CanUseNetwork(client) THEN FillWritePipeline(switched) ELSE switched)

\* SyncEngine::HandleCredentialChange: another user, or a new token.
HandleCredentialChange(u) ==
  LET switched == IF u = client.user THEN client
                  ELSE [FailOutstandingPendingWriteCallbacks(client)
                          EXCEPT !.user = u,
                                 !.nextBatchId = LoadNextBatchIdFromDb(client.queues)]
  IN  Task(IF CanUseNetwork(client) THEN RestartNetwork(switched) ELSE switched)

\* FirestoreClient::EnableNetwork and DisableNetwork.
NetworkEnabled  == Task(EnableNetwork(client))
NetworkDisabled == Task(DisableNetwork(client))

\* The connectivity monitor's callbacks in the order of their registration:
\* GrpcConnection finishes the call, RemoteStore restarts the streams unless
\* there is no network now.
FinishCalls(s) == IF s.hello = "none" THEN s ELSE Close(s, "unavailable")

ConnectivityChanged(available) ==
  LET finished == FinishCalls(client)
  IN  Task(IF available /\ CanUseNetwork(finished) THEN RestartNetwork(finished)
           ELSE finished)

\* ResumeStartWithCredentials, for a request that no close has overtaken.
ResumeStartWithCredentials(s, granted) ==
  LET checked == HardAssert(s, s.stream = "Starting")
  IN  IF ~granted THEN Close(checked, "unavailable")
      ELSE WriteHandshake([checked EXCEPT !.stream = "Open", !.tokenUser = s.user])

\* The answer to RequestCredentials.
TokenArrives(request, granted) ==
  /\ request \in client.requests
  /\ LET answered == [client EXCEPT !.requests = @ \ {request}]
     IN  Task(IF request = "stale" THEN answered
              ELSE ResumeStartWithCredentials(answered, granted))

BackoffElapsed ==
  /\ "backoff" \in client.timers
  /\ LET checked == HardAssert(client, client.stream = "Backoff")
     IN  Task(Start([checked EXCEPT !.timers = @ \ {"backoff"}, !.stream = "Initial"]))

IdleTimeout ==
  /\ "idle" \in client.timers
  /\ Task(Stop([client EXCEPT !.timers = @ \ {"idle"}]))

\* OnStreamRead and NotifyStreamResponse: the answer to the handshake, then
\* the results of the writes.
OnStreamRead ==
  /\ LET checked == HardAssert(client, IsStarted(client))
     IN  \/ /\ client.hello = "answered"
            /\ Task(OnWriteStreamHandshakeComplete(
                      [checked EXCEPT !.hello = "done", !.handshakeComplete = TRUE]))
         \/ /\ client.down # <<>>
            /\ Task(OnWriteStreamMutationResult([checked EXCEPT !.down = Tail(@)]))

\* The call is over.  Responses that have not been read are dropped with a
\* broken connection, and also if a write fails before they are read
\* (GrpcStream::OnOperationFailed, module GrpcStream).
OnStreamFinish ==
  /\ client.status # None
  /\ \/ client.status = "unavailable"
     \/ client.down = <<>> /\ client.hello # "answered"
     \/ client.up # <<>>
  /\ Task(Close(client, client.status))
-----------------------------------------------------------------------------
\* The server, as the client's code expects it to be.

CallIsUp == client.hello # "none" /\ client.status = None

AnswerHandshake ==
  /\ CallIsUp /\ client.hello = "sent"
  /\ Task([client EXCEPT !.hello = "answered"])

Commit ==
  /\ CallIsUp /\ client.up # <<>>
  /\ LET batch == Head(client.up)
     IN  /\ client' = [client EXCEPT !.up = Tail(@), !.down = Append(@, batch)]
         /\ server' = [server EXCEPT !.committed = @ \cup {batch.write},
                                     !.stored[client.tokenUser] = batch.write]
  /\ UNCHANGED history

\* A write is refused for good, or aborted (which the client may try again).
Refuse(status) ==
  /\ CallIsUp /\ client.up # <<>>
  /\ client' = [client EXCEPT !.up = Tail(@), !.status = status]
  /\ server' = [server EXCEPT !.refused = @ \cup
                  IF status = "aborted" THEN {} ELSE {Head(client.up).write}]
  /\ UNCHANGED history

\* The connection breaks, or the server ends the call; for a reason that
\* trying again does not mend, only as the answer to the handshake.
EndCall(status) ==
  /\ CallIsUp
  /\ status = "permissionDenied" => client.hello = "sent"
  /\ Task([client EXCEPT !.status = status])
-----------------------------------------------------------------------------
ClientTask ==
  \/ TokenArrives("live", TRUE) \/ TokenArrives("stale", TRUE)
  \/ BackoffElapsed \/ OnStreamRead \/ OnStreamFinish

ServerStep == AnswerHandshake \/ Commit \/ Refuse("permissionDenied")

\* What disturbs the delivery of the writes.
Disturbance ==
  \/ \E u \in Users : Restart(u) \/ HandleCredentialChange(u)
  \/ NetworkEnabled \/ NetworkDisabled
  \/ \E available \in BOOLEAN : ConnectivityChanged(available)
  \/ TokenArrives("live", FALSE)
  \/ Refuse("aborted")
  \/ EndCall("unavailable") \/ EndCall("permissionDenied")

\* Everything else.
Undisturbed ==
  \/ DoWriteMutations
  \/ \E x \in Waiters : RegisterPendingWritesCallback(x)
  \/ ClientTask
  \/ IdleTimeout
  \/ ServerStep

Next == ~client.aborted /\ (Undisturbed \/ Disturbance)

Spec == Init /\ [][Next]_vars
-----------------------------------------------------------------------------
(***************************************************************************)
(* None of the HARD_ASSERTs that guard the write path can fail, whatever   *)
(* the order of answers, closes, timers, user changes and restarts: among  *)
(* them "Got result for empty write pipeline", "Write stream was stopped   *)
(* gracefully while still needed", "Can only cancel backoff in a stopped   *)
(* state", "Backoff elapsed but state is now" and "Mutation batch did not  *)
(* exist".                                                                 *)
(***************************************************************************)
NoHardAssert == ~client.aborted

IsPrefixOf(p, q) == Len(p) =< Len(q) /\ \A i \in 1..Len(p) : p[i] = q[i]

(***************************************************************************)
(* The pipeline holds the oldest writes of the current user, in order and  *)
(* without a gap, and no more than kMaxPendingWrites of them; with no      *)
(* network it holds none, and with network it is as full as it can be.     *)
(***************************************************************************)
PipelineIsFull ==
  LET queue == client.queues[client.user]
  IN  /\ IsPrefixOf(client.pipeline, queue)
      /\ Len(client.pipeline) =
           IF ~client.networkEnabled THEN 0
           ELSE IF Len(queue) < kMaxPendingWrites THEN Len(queue) ELSE kMaxPendingWrites

(***************************************************************************)
(* A result is "correlated to the first write in our write pipeline": the  *)
(* results that are to be read, then the requests that are on their way,   *)
(* are the pipeline, so the front of it is what the next result is about.  *)
(***************************************************************************)
InFlight ==
  LET sent == client.down \o client.up
  IN  IF client.hello # "done" THEN sent = <<>>
      ELSE IF client.status = None THEN sent = client.pipeline
      ELSE IsPrefixOf(client.down, client.pipeline)

(***************************************************************************)
(* A callback is found by user and batch id, and ids are used again after  *)
(* a user change or a restart.  Each one still belongs to the write whose  *)
(* completion it is, which is on disk under that user and that id.         *)
(***************************************************************************)
CallbacksMatchBatches ==
  /\ \A c \in client.callbacks :
       \E i \in DOMAIN client.queues[c.user] :
         client.queues[c.user][i] = [id |-> c.id, write |-> c.write]
  /\ \A c, d \in client.callbacks : c.user = d.user /\ c.id = d.id => c = d

(***************************************************************************)
(* The queue on disk, the pipeline, the messages of the call and the       *)
(* callbacks name the same writes in the same order, so the next answer    *)
(* meets the write, and the write's completion, that it is about.          *)
(***************************************************************************)
Correlated == PipelineIsFull /\ InFlight /\ CallbacksMatchBatches

Issued    == DOMAIN history.owners
Queued(u) == {client.queues[u][i].write : i \in DOMAIN client.queues[u]}
Decided   == server.committed \cup server.refused

(***************************************************************************)
(* A write that setData has accepted is on disk, under the user who made   *)
(* it, until the server has committed or refused it: it survives broken    *)
(* connections, user changes and restarts.  Its completion is called with  *)
(* success only if the server has committed it, and with an error only if  *)
(* the server has decided on it.  (Not: only if the server has refused it. *)
(* When a later write fails first, OnStreamFinish drops answers that have  *)
(* not been read, and a committed write is reported as failed.)            *)
(***************************************************************************)
NoWriteIsLost ==
  \A w \in Issued :
    /\ w \in Queued(history.owners[w]) \cup Decided
    /\ client.told[w] = "ok" => w \in server.committed
    /\ client.told[w] = "error" => w \in Decided

(***************************************************************************)
(* A write may be committed twice (it is sent again when its answer is     *)
(* lost), but never after a later write of that user has been answered:    *)
(* the server's document is at least as new as every write, committed and  *)
(* never refused, that the client has forgotten, and is its own user's.    *)
(***************************************************************************)
NoRegression ==
  \A u \in Users :
    /\ \A w \in server.committed \ server.refused :
         history.owners[w] = u /\ w \notin Queued(u) => w =< server.stored[u]
    /\ server.stored[u] # 0 => history.owners[server.stored[u]] = u

(***************************************************************************)
(* waitForPendingWrites reports success only when every write that was     *)
(* pending at the time of the call has been answered.                      *)
(***************************************************************************)
WaitersWereRight ==
  \A x \in Waiters : client.waiterTold[x] = "ok" =>
    \A u \in Users : history.awaited[x] \cap Queued(u) = {}

\* Firestore's promise about setData, as module WriteQueue states it.
Promise == INSTANCE WriteQueue WITH
  user    <- client.user,
  queue   <- [u \in Users |-> [i \in DOMAIN client.queues[u] |-> client.queues[u][i].write]],
  waiting <- {c.write : c \in client.callbacks}

(***************************************************************************)
(* Streams, retries, the disk and restarts together keep that promise:     *)
(* writes leave a queue from its head, and each calls its own completion,  *)
(* once, although batch ids are used again after a user change or restart. *)
(***************************************************************************)
KeepsPromise == Promise!Spec
=============================================================================
