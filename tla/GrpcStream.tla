----------------------------- MODULE GrpcStream -----------------------------
(***************************************************************************)
(* GrpcStream, BufferedWriter and GrpcCompletion (Firestore/core/src/      *)
(* remote): one gRPC call as the streams of Firestore use it.              *)
(*                                                                         *)
(* Three threads meet here.  The worker queue runs the stream's methods    *)
(* and the callbacks of completions; the Datastore executor polls gRPC's   *)
(* completion queue and posts every completion to the worker queue; gRPC   *)
(* and the server do the rest.  The stream blocks the worker queue while   *)
(* it waits for completions to come off gRPC's queue: blocked says where.  *)
(*                                                                         *)
(* gRPC allows one read and one write at a time, so a completion is named  *)
(* by its type.  A cancelled completion runs nothing: it is left out of    *)
(* the worker queue.  A message is the number of the write or of the       *)
(* response that it carries.                                               *)
(***************************************************************************)
EXTENDS Naturals, Sequences

CONSTANTS MaxWrites,   \* bound: messages the observer writes
          MaxReplies   \* bound: messages the server sends

ASSUME BoundsAssumption == MaxWrites \in Nat /\ MaxReplies \in Nat

VARIABLES
  observer,     \* observer_ is set
  finished,     \* is_grpc_call_finished_
  completions,  \* completions_
  writer,       \* BufferedWriter: queue_ and has_active_write_
  blocked,      \* what the worker queue waits for
  inGrpc,       \* operations that gRPC has not completed
  tasks,        \* completions that are posted to the worker queue, in order
  call,         \* gRPC and the server
  log,          \* history: what the observer wrote, read and was told
  misused       \* a HARD_ASSERT or a rule of gRPC has been violated

vars == <<observer, finished, completions, writer, blocked, inGrpc, tasks, call, log,
          misused>>

Types == {"Read", "Write", "Finish"}
-----------------------------------------------------------------------------
\* "none": nothing.  "failed": OnOperationFailed waits to finish the call.
\* "lastWrite": WriteAndFinish waits for its write.  "shutdown": Shutdown
\* waits to finish the call.  "draining": Shutdown waits for Finish.
Stages == {"none", "failed", "lastWrite", "shutdown", "draining"}

Init ==
  /\ observer = TRUE /\ finished = FALSE
  /\ completions = {} /\ inGrpc = {} /\ tasks = <<>>
  /\ writer = [queue |-> <<>>, active |-> FALSE]
  /\ blocked = [stage |-> "none", notify |-> FALSE]
  /\ call = [started |-> FALSE, ended |-> FALSE, cancelled |-> FALSE,
             inbox |-> <<>>, replies |-> 0, wire |-> <<>>, writing |-> 0]
  /\ log = [written |-> 0, read |-> <<>>, told |-> "none"]
  /\ misused = FALSE

Free == blocked.stage = "none"

Unblocked == [stage |-> "none", notify |-> FALSE]

\* An operation is given to gRPC; there is none of its type under way.
Issue(set, type) == set \cup {type}

\* Cancel for every completion, which also silences the ones that are posted.
CancelAll == tasks' = <<>>

\* UnsetObserver, and OnStreamFinish if the observer is to be notified.
Detach(notify) ==
  /\ observer' = FALSE
  /\ log' = [log EXCEPT !.told = IF ~observer THEN @
                                 ELSE IF notify THEN "finished" ELSE "stopped"]
-----------------------------------------------------------------------------
\* GrpcStream::Start: the call, the first Read, OnStreamStart.
Start ==
  /\ Free /\ ~call.started /\ observer
  /\ call' = [call EXCEPT !.started = TRUE]
  /\ completions' = Issue(completions, "Read") /\ inGrpc' = Issue(inGrpc, "Read")
  /\ UNCHANGED <<observer, finished, writer, blocked, tasks, log, misused>>

\* Mutant: TryStartWrite ignores has_active_write_.
TryStartWriteAlways(w) ==
  IF w.queue = <<>> THEN [writer |-> w, message |-> 0]
  ELSE [writer |-> [queue |-> Tail(w.queue), active |-> TRUE], message |-> Head(w.queue)]

\* BufferedWriter::TryStartWrite: message 0 for no write.
TryStartWrite(w) ==
  IF w.queue = <<>> \/ w.active THEN [writer |-> w, message |-> 0]
  ELSE [writer |-> [queue |-> Tail(w.queue), active |-> TRUE], message |-> Head(w.queue)]

\* Mutant: the buffer has room for one write.
EnqueueWriteOverwrites(w, m) == TryStartWrite([w EXCEPT !.queue = <<m>>])

EnqueueWrite(w, m) == TryStartWrite([w EXCEPT !.queue = Append(@, m)])

DequeueNextWrite(w) == TryStartWrite([w EXCEPT !.active = FALSE])

\* GrpcStream::MaybeWrite, with the completions that are left.
MaybeWrite(start, left) ==
  /\ writer' = start.writer
  /\ IF start.message = 0 THEN completions' = left /\ UNCHANGED <<inGrpc, call>>
     ELSE /\ completions' = Issue(left, "Write") /\ inGrpc' = Issue(inGrpc, "Write")
          /\ call' = [call EXCEPT !.writing = start.message]

\* A second write while one is active.
SecondWrite(start, left) == start.message # 0 /\ "Write" \in left

\* Stream::Write.
Write ==
  /\ Free /\ observer /\ call.started /\ log.written < MaxWrites
  /\ LET start == EnqueueWrite(writer, log.written + 1)
     IN  /\ MaybeWrite(start, completions)
         /\ misused' = (misused \/ SecondWrite(start, completions))
  /\ log' = [log EXCEPT !.written = @ + 1]
  /\ UNCHANGED <<observer, finished, blocked, tasks>>
-----------------------------------------------------------------------------
\* Mutant: the context is not cancelled.
CancelContextNever(left) == FALSE

\* A stream that has failed keeps its status: no TryCancel then.
CancelContext(left) == left # {} /\ ~finished

\* Shutdown, with the completions that are left, and then UnsetObserver: at
\* once if no completion is left.
Shutdown(left, notify) ==
  /\ completions' = left
  /\ call' = [call EXCEPT !.cancelled = @ \/ CancelContext(left)]
  /\ finished' = (finished \/ left # {})
  /\ IF left = {}
     THEN Detach(notify) /\ blocked' = Unblocked /\ tasks' = <<>>
     ELSE /\ CancelAll
          /\ blocked' = [stage |-> IF finished THEN "draining" ELSE "shutdown",
                         notify |-> notify]
          /\ UNCHANGED <<observer, log>>

\* FinishImmediately (Stream::Stop before the handshake) and FinishAndNotify
\* (GrpcConnection, when the connectivity changes).
Finish(notify) ==
  /\ Free /\ observer
  /\ Shutdown(completions, notify)
  /\ UNCHANGED <<writer, inGrpc, misused>>

\* WriteAndFinish (Stream::Stop): a last write unless another is active, and
\* at most half a second of waiting for it.
WriteAndFinish ==
  LET start == EnqueueWrite(writer, MaxWrites + 1)
  IN  /\ Free /\ observer /\ call.started
      /\ IF finished \/ start.message = 0
         THEN /\ Shutdown(completions, FALSE)
              /\ writer' = IF finished THEN writer ELSE start.writer
              /\ UNCHANGED <<inGrpc, misused>>
         ELSE /\ MaybeWrite(start, completions)
              /\ misused' = (misused \/ SecondWrite(start, completions))
              /\ blocked' = [stage |-> "lastWrite", notify |-> FALSE]
              /\ UNCHANGED <<observer, finished, tasks, log>>

LastWriteOver ==
  /\ blocked.stage = "lastWrite"
  /\ Shutdown(completions, FALSE)
  /\ UNCHANGED <<writer, inGrpc, misused>>

\* FastFinishCompletionsBlocking has returned inside FinishGrpcCall.
CompletionsDrained ==
  /\ blocked.stage \in {"failed", "shutdown"} /\ inGrpc = {}
  /\ completions' = {"Finish"} /\ inGrpc' = {"Finish"}
  /\ blocked' = IF blocked.stage = "failed" THEN Unblocked
                ELSE [blocked EXCEPT !.stage = "draining"]
  /\ UNCHANGED <<observer, finished, writer, tasks, call, log, misused>>

\* Mutant: Shutdown does not wait for Finish.
ShutdownInHaste ==
  /\ blocked.stage = "draining"
  /\ completions' = {}
  /\ Detach(blocked.notify)
  /\ blocked' = Unblocked
  /\ UNCHANGED <<finished, writer, inGrpc, tasks, call, misused>>

\* The last wait of Shutdown is over.
ShutdownOver ==
  /\ blocked.stage = "draining" /\ inGrpc = {}
  /\ completions' = {}
  /\ Detach(blocked.notify)
  /\ blocked' = Unblocked
  /\ UNCHANGED <<finished, writer, inGrpc, tasks, call, misused>>
-----------------------------------------------------------------------------
\* OnOperationFailed: the call is finished unless it has been already.
OnOperationFailed ==
  IF finished THEN tasks' = Tail(tasks) /\ UNCHANGED <<finished, blocked>>
  ELSE /\ finished' = TRUE
       /\ blocked' = [stage |-> "failed", notify |-> FALSE]
       /\ CancelAll

\* Mutant: no next Read.
OnReadOnce(message) ==
  /\ log' = [log EXCEPT !.read = Append(@, message)]
  /\ completions' = completions \ {"Read"}
  /\ UNCHANGED inGrpc

\* OnRead: the next Read, then OnStreamRead.
OnRead(message) ==
  /\ log' = [log EXCEPT !.read = Append(@, message)]
  /\ completions' = Issue(completions \ {"Read"}, "Read")
  /\ inGrpc' = Issue(inGrpc, "Read")

\* The worker queue runs the task that a completion posted: RemoveCompletion,
\* then the callback of the operation or OnOperationFailed.
RunCompletion ==
  /\ Free /\ tasks # <<>>
  /\ LET done  == Head(tasks)
         left  == completions \ {done.type}
         start == DequeueNextWrite(writer)
     IN  /\ misused' = \/ misused
                       \/ done.type \notin completions
                       \/ done.type = "Write" /\ done.ok /\ SecondWrite(start, left)
         /\ \/ /\ ~done.ok
               /\ completions' = left
               /\ OnOperationFailed
               /\ UNCHANGED <<observer, writer, inGrpc, call, log>>
            \/ /\ done.ok /\ done.type = "Read"
               /\ OnRead(done.message)
               /\ tasks' = Tail(tasks)
               /\ UNCHANGED <<observer, finished, writer, blocked, call>>
            \/ /\ done.ok /\ done.type = "Write"
               /\ MaybeWrite(start, left)
               /\ tasks' = Tail(tasks)
               /\ UNCHANGED <<observer, finished, blocked, log>>
            \/ /\ done.ok /\ done.type = "Finish"
               /\ Shutdown(left, TRUE)
               /\ UNCHANGED <<writer, inGrpc>>
-----------------------------------------------------------------------------
\* Datastore::PollGrpcQueue and GrpcCompletion::Complete; while the worker is
\* in FastFinishCompletionsBlocking the completion is cancelled already.
Complete(type, ok, message) ==
  /\ inGrpc' = inGrpc \ {type}
  /\ tasks' = IF blocked.stage \in {"none", "lastWrite"}
              THEN Append(tasks, [type |-> type, ok |-> ok, message |-> message])
              ELSE tasks

GrpcRead ==
  /\ "Read" \in inGrpc
  /\ \/ /\ call.inbox # <<>>
        /\ Complete("Read", TRUE, Head(call.inbox))
        /\ call' = [call EXCEPT !.inbox = Tail(@)]
     \/ /\ call.cancelled \/ (call.ended /\ call.inbox = <<>>)
        /\ Complete("Read", FALSE, 0)
        /\ UNCHANGED call
  /\ UNCHANGED <<observer, finished, completions, writer, blocked, log, misused>>

\* A write may still succeed when the call is over: it only reaches gRPC.
GrpcWrite ==
  /\ "Write" \in inGrpc
  /\ \/ /\ Complete("Write", TRUE, 0)
        /\ call' = IF call.ended \/ call.cancelled THEN call
                   ELSE [call EXCEPT !.wire = Append(@, call.writing)]
     \/ /\ call.ended \/ call.cancelled
        /\ Complete("Write", FALSE, 0)
        /\ UNCHANGED call
  /\ UNCHANGED <<observer, finished, completions, writer, blocked, log, misused>>

GrpcFinish ==
  /\ "Finish" \in inGrpc
  /\ call.ended \/ call.cancelled
  /\ Complete("Finish", TRUE, 0)
  /\ UNCHANGED <<observer, finished, completions, writer, blocked, call, log, misused>>

\* A message of the server reaches the client; the server, or a connection
\* that breaks, ends the call with an error.
ServerSends ==
  /\ call.started /\ ~call.ended /\ call.replies < MaxReplies
  /\ call' = [call EXCEPT !.replies = @ + 1, !.inbox = Append(@, call.replies + 1)]
  /\ UNCHANGED <<observer, finished, completions, writer, blocked, inGrpc, tasks, log,
                 misused>>

CallEnds ==
  /\ call.started /\ ~call.ended
  /\ call' = [call EXCEPT !.ended = TRUE]
  /\ UNCHANGED <<observer, finished, completions, writer, blocked, inGrpc, tasks, log,
                 misused>>
-----------------------------------------------------------------------------
GrpcStep == GrpcRead \/ GrpcWrite \/ GrpcFinish

WorkerStep == RunCompletion \/ LastWriteOver \/ CompletionsDrained \/ ShutdownOver

Next ==
  \/ Start \/ Write \/ WriteAndFinish
  \/ \E notify \in BOOLEAN : Finish(notify)
  \/ WorkerStep \/ GrpcStep
  \/ ServerSends \/ CallEnds

Spec == Init /\ [][Next]_vars

(***************************************************************************)
(* The worker queue runs, the half second of WriteAndFinish passes, and    *)
(* gRPC completes every operation of a call that is over, and every write. *)
(***************************************************************************)
FairSpec == Spec /\ WF_vars(WorkerStep) /\ WF_vars(GrpcStep)
-----------------------------------------------------------------------------
\* The stream, gRPC and the history have their types.
TypeOK ==
  /\ observer \in BOOLEAN /\ finished \in BOOLEAN /\ misused \in BOOLEAN
  /\ completions \subseteq Types /\ inGrpc \subseteq completions
  /\ writer \in [queue : Seq(1..(MaxWrites + 1)), active : BOOLEAN]
  /\ blocked \in [stage : Stages, notify : BOOLEAN]
  /\ tasks \in Seq([type : Types, ok : BOOLEAN, message : 0..MaxReplies])
  /\ call \in [started : BOOLEAN, ended : BOOLEAN, cancelled : BOOLEAN,
               inbox : Seq(1..MaxReplies), replies : 0..MaxReplies,
               wire : Seq(1..(MaxWrites + 1)), writing : 0..(MaxWrites + 1)]
  /\ log \in [written : 0..MaxWrites, read : Seq(1..MaxReplies),
              told : {"none", "finished", "stopped"}]

(***************************************************************************)
(* BufferedWriter keeps "the gRPC requirement that only one write          *)
(* operation may be active at any given time", and no completion runs that *)
(* the stream has forgotten ("Missing GrpcCompletion").                    *)
(***************************************************************************)
NotMisused == ~misused

(***************************************************************************)
(* When the stream lets go of its observer, who destroys it, gRPC holds    *)
(* none of its operations and the worker queue none of its callbacks       *)
(* ("GrpcStream is being destroyed without proper shutdown").              *)
(***************************************************************************)
SafeToDestroy == ~observer => completions = {} /\ inGrpc = {} /\ tasks = <<>>

(***************************************************************************)
(* Messages are neither lost, doubled nor reordered while the call lasts:  *)
(* what is on the wire is what the observer wrote, the closing message of  *)
(* WriteAndFinish after all of it, and the observer reads what the server  *)
(* sent from the first message on.                                         *)
(***************************************************************************)
InOrder ==
  /\ \A i \in DOMAIN call.wire :
       call.wire[i] = i \/ (call.wire[i] = MaxWrites + 1 /\ i = log.written + 1)
  /\ \A i \in DOMAIN log.read : log.read[i] = i

\* The worker queue, which all of Firestore needs, is never blocked for good.
WorkerNotStuck == ~Free ~> Free

\* When the call is over the observer gets to know, if it has not left.
EndIsNoticed == call.ended ~> ~observer
=============================================================================
