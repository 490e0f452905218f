-------------------------- MODULE GrpcStreamProofs --------------------------
(***************************************************************************)
(* What GrpcStream keeps, for any number of writes and of replies: gRPC's  *)
(* rules, the order of the messages, and nothing left behind when the      *)
(* observer goes.                                                          *)
(*                                                                         *)
(* A completion is in gRPC, or posted, or forgotten; reads and writes are  *)
(* in order as long as each message is in one place, and once the call is  *)
(* over or the stream is closing nothing more reaches the wire.            *)
(***************************************************************************)
EXTENDS GrpcStream, SequenceTheorems, TLAPS

Messages == 1..(MaxWrites + 1)
Replies  == 1..MaxReplies

Completion == [type : Types, ok : BOOLEAN, message : 0..MaxReplies]

Call == [started : BOOLEAN, ended : BOOLEAN, cancelled : BOOLEAN,
         inbox : Seq(Replies), replies : 0..MaxReplies,
         wire : Seq(Messages), writing : 0..(MaxWrites + 1)]

Writer == [queue : Seq(Messages), active : BOOLEAN]

Log == [written : 0..MaxWrites, read : Seq(Replies),
        told : {"none", "finished", "stopped"}]

Dead == call.ended \/ call.cancelled

\* The worker queue waits for what it cannot wait for in vain: the call is over.
Ending == blocked.stage \in {"failed", "shutdown", "draining"}

\* The closing message may be on the wire, so no other may follow.
Closed == blocked.stage \in {"lastWrite", "shutdown", "draining"} \/ ~observer

\* q holds n + 1, n + 2 and so on.
Counts(q, n) == \A k \in 1..Len(q) : q[k] = n + k

\* Before Start there is nothing.
Unstarted ==
  ~call.started =>
    /\ completions = {} /\ tasks = <<>> /\ Free
    /\ call.inbox = <<>> /\ call.replies = 0 /\ call.wire = <<>>
    /\ writer = [queue |-> <<>>, active |-> FALSE]
    /\ log.written = 0 /\ log.read = <<>>

\* A posted completion is no longer in gRPC, and is the only one of its type.
Accounted ==
  /\ \A i \in 1..Len(tasks) : tasks[i].type \in completions \ inGrpc
  /\ \A i, j \in 1..Len(tasks) : tasks[i].type = tasks[j].type => i = j
  /\ Ending => tasks = <<>>
  /\ ~Free => observer

\* The call is over before anything fails or finishes.
Dying ==
  /\ \A i \in 1..Len(tasks) : ~tasks[i].ok => Dead
  /\ finished => Dead
  /\ Ending \/ "Finish" \in completions => finished

Active ==
  /\ "Write" \in completions => writer.active
  /\ ~writer.active => writer.queue = <<>>

\* The server's messages, once the client has read n of them.
ReadFrom(n) == call.replies = n + Len(call.inbox) /\ Counts(call.inbox, n)

Reading ==
  /\ "Read" \in inGrpc /\ ~Ending => ReadFrom(Len(log.read))
  /\ \A i \in 1..Len(tasks) : tasks[i].type = "Read" /\ tasks[i].ok =>
       tasks[i].message = Len(log.read) + 1 /\ ReadFrom(Len(log.read) + 1)

\* Message n + 1 is under way, or else it is the first that waits.
Writing ==
  /\ ~Closed => Counts(call.wire, 0)
  /\ ~Dead /\ ~Closed /\ "Write" \in inGrpc =>
       /\ call.writing = Len(call.wire) + 1
       /\ Counts(writer.queue, Len(call.wire) + 1)
       /\ log.written = Len(call.wire) + 1 + Len(writer.queue)
  /\ ~Dead /\ ~Closed /\ "Write" \notin inGrpc =>
       /\ Counts(writer.queue, Len(call.wire))
       /\ log.written = Len(call.wire) + Len(writer.queue)
  /\ ~Dead /\ blocked.stage = "lastWrite" /\ "Write" \in inGrpc =>
       call.writing = MaxWrites + 1 /\ log.written = Len(call.wire)

Typed ==
  /\ observer \in BOOLEAN /\ finished \in BOOLEAN /\ misused \in BOOLEAN
  /\ completions \subseteq Types /\ inGrpc \subseteq completions
  /\ writer \in Writer /\ blocked \in [stage : Stages, notify : BOOLEAN]
  /\ tasks \in Seq(Completion) /\ call \in Call /\ log \in Log

\* The inductive invariant.
IInv ==
  /\ Typed /\ Unstarted /\ Accounted /\ Dying /\ Active /\ Reading /\ Writing
  /\ NotMisused /\ SafeToDestroy /\ InOrder

-----------------------------------------------------------------------------
\* No numbers are in sequence from anywhere.
LEMMA CountsNone ==
  ASSUME NEW n
  PROVE  Counts(<<>>, n) /\ Len(<<>>) = 0
BY DEF Counts

\* Another at the end.
LEMMA CountsMore ==
  ASSUME NEW S, NEW q \in Seq(S), NEW n \in Nat, NEW x \in S, Counts(q, n), x = n + (Len(q) + 1)
  PROVE  Counts(Append(q, x), n)
<1>1. /\ Len(q) \in Nat /\ Len(Append(q, x)) = Len(q) + 1
      /\ \A k \in 1..Len(q) : Append(q, x)[k] = q[k]
      /\ Append(q, x)[Len(q) + 1] = x
  BY AppendProperties
<1>2. ASSUME NEW k \in 1..(Len(q) + 1)
      PROVE  k \in 1..Len(q) \/ k = Len(q) + 1
  BY <1>1
<1> QED
  BY <1>2 DEF Counts

\* The head taken off.
LEMMA CountsLess ==
  ASSUME NEW S, NEW q \in Seq(S), NEW n \in Nat, Counts(q, n), q # <<>>
  PROVE  Head(q) = n + 1 /\ Counts(Tail(q), n + 1)
<1>1. /\ Len(Tail(q)) \in Nat /\ Len(q) = Len(Tail(q)) + 1 /\ Head(q) = q[1]
      /\ \A k \in 1..Len(Tail(q)) : Tail(q)[k] = q[k + 1]
  BY HeadTailProperties
<1>2. 1 \in 1..Len(q)
  BY <1>1
<1>3. Head(q) = n + 1
  BY DEF Counts
<1>4. ASSUME NEW k \in 1..Len(Tail(q))
      PROVE  Tail(q)[k] = (n + 1) + k
  <2>1. k + 1 \in 1..Len(q) /\ n + (k + 1) = (n + 1) + k
    BY <1>1
  <2> QED
    BY DEF Counts
<1> QED
  BY DEF Counts

\* A sequence that grows by one.
LEMMA Longer ==
  ASSUME NEW S, NEW q \in Seq(S), NEW x \in S
  PROVE  /\ Append(q, x) \in Seq(S) /\ Len(q) \in Nat /\ Len(Append(q, x)) = Len(q) + 1
         /\ \A i \in 1..Len(Append(q, x)) :
              \/ i \in 1..Len(q) /\ Append(q, x)[i] = q[i]
              \/ i = Len(q) + 1 /\ Append(q, x)[i] = x
<1>1. /\ Append(q, x) \in Seq(S) /\ Len(q) \in Nat /\ Len(Append(q, x)) = Len(q) + 1
      /\ \A i \in 1..Len(q) : Append(q, x)[i] = q[i]
      /\ Append(q, x)[Len(q) + 1] = x
  BY AppendProperties
<1>2. \A i \in 1..(Len(q) + 1) : i \in 1..Len(q) \/ i = Len(q) + 1
  BY <1>1
<1> QED
  BY <1>1

\* A sequence that loses its head.
LEMMA Shorter ==
  ASSUME NEW S, NEW q \in Seq(S), q # <<>>
  PROVE  /\ Tail(q) \in Seq(S) /\ Len(Tail(q)) \in Nat /\ Len(q) = Len(Tail(q)) + 1
         /\ Head(q) = q[1] /\ q[1] \in S /\ 1 \in 1..Len(q)
         /\ \A i \in 1..Len(Tail(q)) :
              i + 1 \in 1..Len(q) /\ i + 1 # 1 /\ Tail(q)[i] = q[i + 1]
         /\ \A i, j \in 1..Len(Tail(q)) : i + 1 = j + 1 => i = j
<1>1. /\ Tail(q) \in Seq(S) /\ Len(Tail(q)) \in Nat /\ Len(q) = Len(Tail(q)) + 1
      /\ Head(q) = q[1] /\ Head(q) \in S
      /\ \A i \in 1..Len(Tail(q)) : Tail(q)[i] = q[i + 1]
  BY HeadTailProperties
<1>2. 1 \in 1..Len(q)
  BY <1>1
<1>3. \A i \in 1..Len(Tail(q)) : i + 1 \in 1..Len(q) /\ i + 1 # 1
  BY <1>1
<1>4. \A i, j \in 1..Len(Tail(q)) : i + 1 = j + 1 => i = j
  OBVIOUS
<1> QED
  BY <1>1

-----------------------------------------------------------------------------
\* BufferedWriter::EnqueueWrite starts the write if none is active.
LEMMA Enqueued ==
  ASSUME NEW w \in Writer, ~w.active => w.queue = <<>>, NEW m \in Messages,
         NEW s, s = EnqueueWrite(w, m)
  PROVE  /\ s.writer \in Writer
         /\ s.writer.active
         /\ \/ /\ w.active /\ s.message = 0
               /\ s.writer.queue = Append(w.queue, m)
            \/ /\ ~w.active /\ s.message = m
               /\ s.writer.queue = <<>>
<1> DEFINE v == [w EXCEPT !.queue = Append(@, m)]
<1>1. /\ w.queue \in Seq(Messages) /\ w.active \in BOOLEAN
      /\ Append(w.queue, m) \in Seq(Messages)
      /\ Append(w.queue, m) # <<>>
  BY DEF Writer
<1>2. /\ v \in Writer /\ v.queue = Append(w.queue, m) /\ v.active = w.active
      /\ s = TryStartWrite(v)
  BY DEF Writer, EnqueueWrite
<1> HIDE DEF v
<1>3. CASE w.active
  <2>1. s = [writer |-> v, message |-> 0]
    BY <1>2, <1>3 DEF TryStartWrite
  <2>2. s.writer = v /\ s.message = 0
    BY <2>1
  <2> QED
    BY <1>2, <1>3, <2>2, Zenon
<1>4. CASE ~w.active
  <2>1. /\ v.queue = Append(<<>>, m) /\ v.queue # <<>>
        /\ Head(Append(<<>>, m)) = m /\ Tail(Append(<<>>, m)) = <<>>
    <3>1. <<>> \in Seq(Messages)
      BY EmptySeq
    <3> QED
      BY <1>1, <1>2, <1>4, HeadTailAppend
  <2>2. s = [writer |-> [queue |-> <<>>, active |-> TRUE], message |-> m]
    BY <1>2, <1>4, <2>1 DEF TryStartWrite
  <2>3. [queue |-> <<>>, active |-> TRUE] \in Writer
    BY DEF Writer
  <2> QED
    BY <1>4, <2>2, <2>3
<1> QED
  BY <1>3, <1>4

\* BufferedWriter::DequeueNextWrite starts the next write if there is one.
LEMMA Dequeued ==
  ASSUME NEW w \in Writer, NEW s, s = DequeueNextWrite(w)
  PROVE  /\ s.writer \in Writer
         /\ \/ /\ w.queue = <<>> /\ s.message = 0
               /\ s.writer.queue = <<>>
               /\ ~s.writer.active
            \/ /\ w.queue # <<>> /\ s.message = Head(w.queue)
               /\ Head(w.queue) \in Messages
               /\ s.writer.queue = Tail(w.queue)
               /\ s.writer.active
<1> DEFINE v == [w EXCEPT !.active = FALSE]
<1>1. /\ v \in Writer /\ v.queue = w.queue /\ v.active = FALSE
      /\ s = TryStartWrite(v)
  BY DEF Writer, DequeueNextWrite
<1> HIDE DEF v
<1>2. CASE w.queue = <<>>
  <2>1. s = [writer |-> v, message |-> 0]
    BY <1>1, <1>2 DEF TryStartWrite
  <2> QED
    BY <1>1, <1>2, <2>1
<1>3. CASE w.queue # <<>>
  <2>1. s = [writer |-> [queue |-> Tail(w.queue), active |-> TRUE],
                               message |-> Head(w.queue)]
    BY <1>1, <1>3 DEF TryStartWrite
  <2>2. /\ Head(w.queue) \in Messages
        /\ Tail(w.queue) \in Seq(Messages)
    BY <1>3 DEF Writer
  <2>3. [queue |-> Tail(w.queue), active |-> TRUE] \in Writer
    BY <2>2 DEF Writer
  <2> QED
    BY <2>1, <2>2, <2>3
<1> QED
  BY <1>2, <1>3

\* What a completion posts.
LEMMA Record ==
  /\ 0 \in 0..MaxReplies
  /\ \A t \in Types, b \in BOOLEAN, m \in 0..MaxReplies :
       \E d \in Completion : d.type = t /\ d.ok = b /\ d.message = m
<1>1. ASSUME NEW t \in Types, NEW b \in BOOLEAN, NEW m \in 0..MaxReplies
      PROVE  \E d \in Completion : d.type = t /\ d.ok = b /\ d.message = m
  <2>1. [type |-> t, ok |-> b, message |-> m] \in Completion
    BY DEF Completion
  <2> QED
    BY <2>1
<1> QED
  BY <1>1, BoundsAssumption

\* The call and its first Read.
LEMMA StartStep ==
  ASSUME IInv, Start
  PROVE  IInv'
<1>1. /\ Free /\ ~call.started /\ observer /\ inGrpc = {} /\ completions = {} /\ tasks = <<>>
      /\ completions' = {"Read"} /\ inGrpc' = {"Read"}
      /\ UNCHANGED <<observer, finished, writer, blocked, tasks, log, misused>>
  BY DEF IInv, Typed, Unstarted, Start, Issue
<1>2. /\ call' \in Call /\ call'.started = TRUE /\ call'.ended = call.ended
      /\ call'.cancelled = call.cancelled /\ call'.inbox = <<>> /\ call'.replies = 0
      /\ call'.wire = <<>> /\ call'.writing = call.writing
  BY DEF IInv, Typed, Unstarted, Call, Start
<1>3. /\ writer.queue = <<>> /\ writer.active = FALSE /\ call.wire = <<>>
      /\ log.written = 0 /\ log.read = <<>>
  BY <1>1 DEF IInv, Unstarted
<1>4. /\ \A n : Counts(<<>>, n)
      /\ Len(<<>>) = 0 /\ \A i \in 1..Len(<<>>) : FALSE
  BY CountsNone
<1>5. Typed'
  BY <1>1, <1>2 DEF IInv, Typed, Types
<1>6. Unstarted'
  BY <1>2 DEF Unstarted
<1>7. Accounted'
  BY <1>1 DEF Accounted
<1>8. Dying'
  BY <1>1, <1>2 DEF IInv, Dying, Dead, Ending
<1>9. Active'
  BY <1>1, <1>3 DEF Active
<1>10. Reading'
  BY <1>1, <1>2, <1>3, <1>4 DEF Reading, ReadFrom
<1>11. Writing'
  BY <1>1, <1>2, <1>3, <1>4 DEF Writing
<1>12. NotMisused'
  BY <1>1 DEF IInv, NotMisused
<1>13. SafeToDestroy'
  BY <1>1 DEF SafeToDestroy
<1>14. InOrder'
  BY <1>1, <1>2, <1>3 DEF InOrder
<1> QED
  BY <1>5, <1>6, <1>7, <1>8, <1>9, <1>10, <1>11, <1>12, <1>13, <1>14 DEF IInv

\* Stream::Write: the message is written, or waits behind those that wait.
LEMMA WriteStep ==
  ASSUME IInv, Write
  PROVE  IInv'
<1>1. /\ Free /\ observer /\ call.started /\ log.written + 1 \in Messages
      /\ log.written + 1 \in 0..MaxWrites /\ log.written \in Nat
      /\ UNCHANGED <<observer, finished, blocked, tasks>>
      /\ log' = [log EXCEPT !.written = @ + 1]
  BY BoundsAssumption DEF IInv, Typed, Log, Write, Messages
<1>2. PICK s : s = EnqueueWrite(writer, log.written + 1)
  OBVIOUS
<1>3. /\ MaybeWrite(s, completions)
      /\ misused' = (misused \/ (s.message # 0 /\ "Write" \in completions))
  BY <1>2 DEF Write, SecondWrite
<1>4. /\ writer \in Writer
      /\ ~writer.active => writer.queue = <<>>
  BY DEF IInv, Typed, Active
<1>5. /\ s.writer \in Writer /\ s.writer.active
      /\ \/ /\ writer.active /\ s.message = 0
            /\ s.writer.queue = Append(writer.queue, log.written + 1)
         \/ /\ ~writer.active /\ writer.queue = <<>> /\ s.message = log.written + 1
            /\ s.writer.queue = <<>>
  BY <1>1, <1>2, <1>4, Enqueued
<1>6. log' \in Log /\ log'.written = log.written + 1 /\ log'.read = log.read /\ log'.told = log.told
  BY <1>1 DEF IInv, Typed, Log
<1>7. s.message # 0 =>
        /\ "Write" \notin completions /\ "Write" \notin inGrpc
        /\ [call EXCEPT !.writing = s.message] \in Call
  <2>1. s.message # 0 => s.message \in 0..(MaxWrites + 1) /\ "Write" \notin completions
    BY <1>1, <1>5 DEF IInv, Active, Messages
  <2> QED
    BY <2>1 DEF IInv, Typed, Call
<1>8. /\ writer' = s.writer /\ call' \in Call /\ call'.started = call.started
      /\ call'.ended = call.ended /\ call'.cancelled = call.cancelled
      /\ call'.inbox = call.inbox /\ call'.replies = call.replies /\ call'.wire = call.wire
      /\ \/ /\ s.message = 0 /\ completions' = completions /\ inGrpc' = inGrpc
            /\ call'.writing = call.writing
         \/ /\ s.message # 0 /\ completions' = completions \cup {"Write"}
            /\ inGrpc' = inGrpc \cup {"Write"} /\ call'.writing = s.message
  <2>1. CASE s.message = 0
    BY <1>3, <2>1 DEF IInv, Typed, MaybeWrite
  <2>2. CASE s.message # 0
    <3>1. call' = [call EXCEPT !.writing = s.message]
      BY <1>3, <2>2 DEF MaybeWrite
    <3>2. /\ writer' = s.writer /\ completions' = completions \cup {"Write"}
          /\ inGrpc' = inGrpc \cup {"Write"}
      BY <1>3, <2>2 DEF MaybeWrite, Issue
    <3> QED
      BY <1>7, <2>2, <3>1, <3>2
  <2> QED
    BY <2>1, <2>2
<1>9. /\ \A n : Counts(<<>>, n)
      /\ Len(<<>>) = 0 /\ \A i \in 1..Len(<<>>) : FALSE
  BY CountsNone
<1>10. \A n : ReadFrom(n)' <=> ReadFrom(n)
  BY <1>8 DEF ReadFrom
<1>11. Typed'
  BY <1>1, <1>3, <1>5, <1>6, <1>8 DEF IInv, Typed, Types
<1>12. Unstarted'
  BY <1>1, <1>8 DEF Unstarted
<1>13. Accounted'
  BY <1>1, <1>7, <1>8 DEF IInv, Accounted, Ending
<1>14. Dying'
  BY <1>1, <1>8 DEF IInv, Dying, Dead, Ending
<1>15. Active'
  BY <1>5, <1>8 DEF Active
<1>16. Reading'
  BY <1>1, <1>8, <1>10 DEF IInv, Reading, Ending
<1>17. Writing'
  <2>1. Dead' <=> Dead
    BY <1>8 DEF Dead
  <2>2. Counts(call.wire, 0) /\ ~Closed /\ call'.wire = call.wire /\ ~Closed'
    BY <1>1, <1>8 DEF IInv, Writing, Closed, Free
  <2>3. /\ call.wire \in Seq(Messages) /\ Len(call.wire) \in Nat
        /\ writer.queue \in Seq(Messages) /\ Len(writer.queue) \in Nat
    BY DEF IInv, Typed, Call, Writer
  <2>4. CASE writer.active
    <3>1. inGrpc' = inGrpc /\ call'.writing = call.writing
      BY <1>5, <1>8, <2>4
    <3>2. /\ writer'.queue = Append(writer.queue, log.written + 1)
          /\ Len(writer'.queue) = Len(writer.queue) + 1
      BY <1>5, <1>8, <2>4
    <3>3. ASSUME NEW n \in Nat, log.written = n + Len(writer.queue), Counts(writer.queue, n)
          PROVE  log'.written = n + Len(writer'.queue) /\ Counts(writer'.queue, n)
      <4>1. log.written + 1 = n + (Len(writer.queue) + 1)
        BY <3>3
      <4>2. Counts(Append(writer.queue, log.written + 1), n)
        BY <1>1, <2>3, <3>3, <4>1, CountsMore
      <4> QED
        BY <1>6, <3>2, <4>1, <4>2
    <3>4. Len(call.wire) + 1 \in Nat
      BY <2>3
    <3>5. CASE Dead
      BY <2>1, <2>2, <3>5 DEF Writing
    <3>6. CASE ~Dead /\ "Write" \in inGrpc
      BY <2>1, <2>2, <2>3, <3>1, <3>3, <3>4 DEF IInv, Writing, Closed
    <3>7. CASE ~Dead /\ "Write" \notin inGrpc
      BY <2>2, <2>3, <3>1, <3>3, <3>7 DEF IInv, Writing
    <3> QED
      BY <3>5, <3>6, <3>7
  <2>5. CASE ~writer.active
    <3>1. s.message # 0 /\ s.message = log.written + 1
      BY <1>1, <1>5, <2>5
    <3>2. /\ "Write" \in inGrpc' /\ call'.writing = log.written + 1
          /\ writer'.queue = <<>> /\ "Write" \notin inGrpc
      BY <1>5, <1>7, <1>8, <3>1
    <3>3. ~Dead => log.written = Len(call.wire)
      <4>1. Len(writer.queue) = 0
        BY <1>5, <2>5
      <4> QED
        BY <2>2, <3>2, <4>1 DEF IInv, Writing
    <3> QED
      BY <1>1, <1>9, <2>1, <2>2, <3>2, <3>3 DEF Writing, Closed
  <2> QED
    BY <2>4, <2>5
<1>18. NotMisused'
  BY <1>3, <1>7 DEF IInv, NotMisused
<1>19. SafeToDestroy'
  BY <1>1 DEF SafeToDestroy
<1>20. InOrder'
  <2>1. \A i \in DOMAIN call.wire : call.wire[i] = i
    <3>1. Counts(call.wire, 0) /\ call.wire \in Seq(Messages)
      BY <1>1 DEF IInv, Typed, Call, Writing, Closed, Free
    <3> QED
      BY <3>1 DEF Counts
  <2> QED
    BY <1>6, <1>8, <2>1 DEF IInv, InOrder
<1> QED
  BY <1>11, <1>12, <1>13, <1>14, <1>15, <1>16, <1>17, <1>18, <1>19, <1>20 DEF IInv

\* Shutdown leaves completions that gRPC holds to be drained, or none at all.
LEMMA ShutdownStep ==
  ASSUME IInv, NEW left, NEW notify \in BOOLEAN, Shutdown(left, notify),
         left \subseteq completions, inGrpc \subseteq left,
         Free \/ blocked.stage = "lastWrite", observer,
         UNCHANGED <<inGrpc, misused>>, writer' \in Writer,
         "Write" \in left => writer'.active, ~writer'.active => writer'.queue = <<>>,
         call.started \/ writer' = writer
  PROVE  IInv'
<1>1. /\ completions' = left /\ call' = [call EXCEPT !.cancelled = @ \/ (left # {} /\ ~finished)]
      /\ finished' = (finished \/ left # {}) /\ tasks' = <<>>
  BY DEF Shutdown, CancelContext, CancelAll
<1>2. /\ call' \in Call /\ call'.started = call.started /\ call'.ended = call.ended
      /\ call'.cancelled = (call.cancelled \/ (left # {} /\ ~finished))
      /\ call'.inbox = call.inbox /\ call'.replies = call.replies
      /\ call'.wire = call.wire /\ call'.writing = call.writing
  BY <1>1 DEF IInv, Typed, Call
<1>3. \/ /\ left = {} /\ observer' = FALSE /\ blocked' = Unblocked
         /\ log' = [log EXCEPT !.told = IF notify THEN "finished" ELSE "stopped"]
      \/ /\ left # {} /\ observer' = observer /\ log' = log
         /\ blocked' = [stage |-> IF finished THEN "draining" ELSE "shutdown",
                        notify |-> notify]
  <2>1. CASE left = {}
    BY DEF Shutdown, Detach
  <2>2. CASE left # {}
    BY <2>2 DEF Shutdown
  <2> QED
    BY <2>1, <2>2
<1>4. /\ log' \in Log /\ log'.written = log.written /\ log'.read = log.read
  BY <1>3 DEF IInv, Typed, Log
<1>5. /\ blocked' \in [stage : Stages, notify : BOOLEAN]
      /\ left = {} => blocked'.stage = "none"
      /\ left # {} => blocked'.stage \in {"draining", "shutdown"}
  <2>1. /\ [stage |-> "none", notify |-> FALSE] \in [stage : Stages, notify : BOOLEAN]
        /\ \A st \in {"draining", "shutdown"} :
             [stage |-> st, notify |-> notify] \in [stage : Stages, notify : BOOLEAN]
    BY DEF Stages
  <2>2. CASE left = {}
    <3>1. blocked' = [stage |-> "none", notify |-> FALSE]
      BY <1>3, <2>2 DEF Unblocked
    <3> QED
      BY <2>1, <2>2, <3>1
  <2>3. CASE left # {}
    <3>1. PICK st \in {"draining", "shutdown"} : blocked' = [stage |-> st, notify |-> notify]
      BY <1>3, <2>3
    <3> QED
      BY <2>1, <2>3, <3>1
  <2> QED
    BY <2>2, <2>3
<1>6. finished' => Dead'
  BY <1>1 DEF IInv, Dying, Dead
<1>7. <<>> \in Seq(Completion) /\ \A i \in 1..Len(<<>>) : FALSE
  BY EmptySeq
<1>8. Typed'
  BY <1>1, <1>2, <1>3, <1>4, <1>5, <1>7 DEF IInv, Typed
<1>9. Unstarted'
  BY <1>1, <1>4, <1>5 DEF IInv, Unstarted, Free
<1>10. Accounted'
  BY <1>1, <1>3, <1>5, <1>7 DEF Accounted, Free
<1>11. Dying'
  BY <1>1, <1>5, <1>6, <1>7 DEF Dying, Ending
<1>12. Active'
  BY <1>1 DEF Active
<1>13. Reading'
  BY <1>1, <1>5 DEF Reading, Ending
<1>14. Writing'
  BY <1>3, <1>5 DEF Writing, Closed
<1>15. NotMisused'
  BY DEF IInv, NotMisused
<1>16. SafeToDestroy'
  BY <1>1, <1>3 DEF SafeToDestroy
<1>17. InOrder'
  BY <1>1, <1>4 DEF IInv, InOrder
<1> QED
  BY <1>8, <1>9, <1>10, <1>11, <1>12, <1>13, <1>14, <1>15, <1>16, <1>17 DEF IInv

\* FinishImmediately and FinishAndNotify.
LEMMA FinishStep ==
  ASSUME IInv, NEW notify \in BOOLEAN, Finish(notify)
  PROVE  IInv'
BY ShutdownStep DEF IInv, Typed, Active, Finish

\* The wait for the last write is over.
LEMMA LastWriteOverStep ==
  ASSUME IInv, LastWriteOver
  PROVE  IInv'
BY ShutdownStep DEF IInv, Typed, Active, Accounted, Free, LastWriteOver

\* The closing message goes to gRPC, which has no other write.
LEMMA LastWriteStep ==
  ASSUME IInv, NEW s, Free, observer, call.started, ~finished,
         s.writer \in Writer, s.writer.active, ~writer.active, writer.queue = <<>>,
         s.message = MaxWrites + 1, MaybeWrite(s, completions),
         misused' = (misused \/ SecondWrite(s, completions)),
         blocked' = [stage |-> "lastWrite", notify |-> FALSE],
         UNCHANGED <<observer, finished, tasks, log>>
  PROVE  IInv'
<1>1. s.message # 0 /\ s.message \in 0..(MaxWrites + 1) /\ "Write" \notin completions
      /\ "Write" \notin inGrpc
  BY BoundsAssumption DEF IInv, Typed, Active
<1>2. call' = [call EXCEPT !.writing = s.message]
  BY <1>1 DEF MaybeWrite
<1>3. /\ writer' = s.writer /\ completions' = completions \cup {"Write"}
      /\ inGrpc' = inGrpc \cup {"Write"} /\ misused' = misused
  BY <1>1 DEF MaybeWrite, Issue, SecondWrite, IInv, Typed
<1>4. /\ call' \in Call /\ call'.started = call.started /\ call'.ended = call.ended
      /\ call'.cancelled = call.cancelled /\ call'.inbox = call.inbox
      /\ call'.replies = call.replies /\ call'.wire = call.wire
      /\ call'.writing = MaxWrites + 1
  BY <1>1, <1>2 DEF IInv, Typed, Call
<1>5. blocked' \in [stage : Stages, notify : BOOLEAN] /\ blocked'.stage = "lastWrite"
  BY DEF Stages
<1>6. log.written \in Nat /\ Len(call.wire) \in Nat
  BY DEF IInv, Typed, Log
<1>7. ~Dead => log.written = Len(call.wire)
  <2>1. Len(writer.queue) = 0
    BY CountsNone
  <2> QED
    BY <1>1 DEF IInv, Writing, Closed, Free
<1>8. Typed'
  BY <1>3, <1>4, <1>5 DEF IInv, Typed, Types
<1>9. Unstarted'
  BY <1>4 DEF Unstarted
<1>10. Accounted'
  BY <1>1, <1>3 DEF IInv, Accounted, Ending
<1>11. Dying'
  BY <1>3, <1>4 DEF IInv, Dying, Dead, Ending
<1>12. Active'
  BY <1>3 DEF Active
<1>13. Reading'
  BY <1>3, <1>4 DEF IInv, Reading, ReadFrom, Ending, Free
<1>14. Writing'
  BY <1>4, <1>7 DEF Writing, Closed, Dead
<1>15. NotMisused'
  BY <1>3 DEF IInv, NotMisused
<1>16. SafeToDestroy'
  BY DEF SafeToDestroy
<1>17. InOrder'
  BY <1>4 DEF IInv, InOrder
<1> QED
  BY <1>8, <1>9, <1>10, <1>11, <1>12, <1>13, <1>14, <1>15, <1>16, <1>17 DEF IInv

\* The closing message is written at once or not at all.
LEMMA WriteAndFinishStep ==
  ASSUME IInv, WriteAndFinish
  PROVE  IInv'
<1>1. PICK s : s = EnqueueWrite(writer, MaxWrites + 1)
  OBVIOUS
<1>2. /\ writer \in Writer
      /\ ~writer.active => writer.queue = <<>>
      /\ MaxWrites + 1 \in Messages
  BY BoundsAssumption DEF IInv, Typed, Active, Messages
<1>3. /\ s.writer \in Writer /\ s.writer.active
      /\ \/ /\ writer.active /\ s.message = 0
         \/ /\ ~writer.active /\ writer.queue = <<>> /\ s.message = MaxWrites + 1
            /\ s.writer.queue = <<>>
  BY <1>1, <1>2, Enqueued
<1>4. CASE finished \/ s.message = 0
  <2>1. /\ Free /\ observer /\ call.started /\ Shutdown(completions, FALSE)
        /\ writer' = IF finished THEN writer ELSE s.writer
        /\ UNCHANGED <<inGrpc, misused>>
    BY <1>1, <1>4 DEF WriteAndFinish
  <2>2. /\ writer' \in Writer /\ FALSE \in BOOLEAN /\ inGrpc \subseteq completions
        /\ "Write" \in completions => writer'.active
        /\ ~writer'.active => writer'.queue = <<>>
    BY <1>3, <2>1 DEF IInv, Typed, Active
  <2> QED
    BY <2>1, <2>2, ShutdownStep
<1>5. CASE ~finished /\ s.message # 0
  BY <1>1, <1>3, <1>5, LastWriteStep DEF WriteAndFinish
<1> QED
  BY <1>4, <1>5

\* gRPC has completed everything: the call is finished.
LEMMA CompletionsDrainedStep ==
  ASSUME IInv, CompletionsDrained
  PROVE  IInv'
<1>1. /\ blocked.stage \in {"failed", "shutdown"} /\ Ending /\ inGrpc = {}
      /\ completions' = {"Finish"} /\ inGrpc' = {"Finish"}
      /\ UNCHANGED <<observer, finished, writer, tasks, call, log, misused>>
  BY DEF CompletionsDrained, Ending
<1>2. /\ blocked' \in [stage : Stages, notify : BOOLEAN]
      /\ \/ blocked.stage = "failed" /\ blocked'.stage = "none"
         \/ blocked.stage = "shutdown" /\ blocked'.stage = "draining"
  BY DEF IInv, Typed, Stages, CompletionsDrained, Unblocked
<1>3. /\ tasks = <<>> /\ finished /\ Dead /\ Dead' /\ observer /\ call.started
      /\ \A i \in 1..Len(<<>>) : FALSE
  BY <1>1 DEF IInv, Accounted, Dying, Unstarted, Free, Dead
<1>4. Typed'
  BY <1>1, <1>2 DEF IInv, Typed, Types
<1>5. Unstarted'
  BY <1>1, <1>3 DEF Unstarted
<1>6. Accounted'
  BY <1>1, <1>3 DEF Accounted
<1>7. Dying'
  BY <1>1, <1>3 DEF Dying
<1>8. Active'
  BY <1>1 DEF IInv, Active
<1>9. Reading'
  BY <1>1, <1>3 DEF Reading
<1>10. Writing'
  BY <1>1, <1>2, <1>3 DEF IInv, Writing, Closed
<1>11. NotMisused'
  BY <1>1 DEF IInv, NotMisused
<1>12. SafeToDestroy'
  BY <1>1, <1>3 DEF SafeToDestroy
<1>13. InOrder'
  BY <1>1 DEF IInv, InOrder
<1> QED
  BY <1>4, <1>5, <1>6, <1>7, <1>8, <1>9, <1>10, <1>11, <1>12, <1>13 DEF IInv

\* The observer goes when gRPC holds nothing more.
LEMMA ShutdownOverStep ==
  ASSUME IInv, ShutdownOver
  PROVE  IInv'
<1>1. /\ blocked.stage = "draining" /\ Ending /\ inGrpc = {} /\ completions' = {}
      /\ observer' = FALSE /\ blocked' = Unblocked
      /\ \E t \in {"none", "finished", "stopped", log.told} : log' = [log EXCEPT !.told = t]
      /\ UNCHANGED <<finished, writer, inGrpc, tasks, call, misused>>
  BY DEF ShutdownOver, Detach, Ending
<1>2. /\ log' \in Log /\ log'.written = log.written /\ log'.read = log.read
      /\ blocked' \in [stage : Stages, notify : BOOLEAN] /\ blocked'.stage = "none"
  BY <1>1 DEF IInv, Typed, Log, Stages, Unblocked
<1>3. /\ tasks = <<>> /\ finished /\ Dead /\ Dead' /\ call.started
      /\ \A i \in 1..Len(<<>>) : FALSE
  BY <1>1 DEF IInv, Accounted, Dying, Unstarted, Free, Dead
<1>4. Typed'
  BY <1>1, <1>2 DEF IInv, Typed
<1>5. Unstarted'
  BY <1>1, <1>3 DEF Unstarted
<1>6. Accounted'
  BY <1>1, <1>2, <1>3 DEF Accounted, Free
<1>7. Dying'
  BY <1>1, <1>3 DEF Dying
<1>8. Active'
  BY <1>1 DEF IInv, Active
<1>9. Reading'
  BY <1>1, <1>3 DEF Reading
<1>10. Writing'
  BY <1>1 DEF Writing, Closed
<1>11. NotMisused'
  BY <1>1 DEF IInv, NotMisused
<1>12. SafeToDestroy'
  BY <1>1, <1>3 DEF SafeToDestroy
<1>13. InOrder'
  BY <1>1 DEF IInv, InOrder
<1> QED
  BY <1>4, <1>5, <1>6, <1>7, <1>8, <1>9, <1>10, <1>11, <1>12, <1>13 DEF IInv

\* OnOperationFailed.
LEMMA FailedCompletionStep ==
  ASSUME IInv, Free, tasks # <<>>, ~Head(tasks).ok, OnOperationFailed,
         completions' = completions \ {Head(tasks).type},
         UNCHANGED <<observer, writer, inGrpc, call, log, misused>>
  PROVE  IInv'
<1>1. /\ Head(tasks) = tasks[1] /\ tasks[1] \in Completion /\ 1 \in 1..Len(tasks)
  BY DEF IInv, Typed
<1>2. /\ tasks[1].type \in completions \ inGrpc /\ Dead /\ Dead' /\ observer /\ call.started
  BY DEF IInv, Accounted, Dying, Dead, SafeToDestroy, Unstarted
<1>3. \/ finished /\ finished' = finished /\ blocked' = blocked /\ tasks' = Tail(tasks)
      \/ /\ ~finished /\ finished' = TRUE /\ tasks' = <<>>
         /\ blocked' = [stage |-> "failed", notify |-> FALSE]
  BY DEF OnOperationFailed, CancelAll
<1>4. /\ finished' \in BOOLEAN /\ blocked' \in [stage : Stages, notify : BOOLEAN]
      /\ \/ blocked' = blocked
         \/ blocked'.stage = "failed" /\ tasks' = <<>> /\ finished'
  <2>1. [stage |-> "failed", notify |-> FALSE] \in [stage : Stages, notify : BOOLEAN]
    BY DEF Stages
  <2>2. CASE finished
    BY <1>3, <2>2 DEF IInv, Typed
  <2>3. CASE ~finished
    <3>1. finished' /\ tasks' = <<>> /\ blocked' = [stage |-> "failed", notify |-> FALSE]
      BY <1>3, <2>3
    <3>2. finished' \in BOOLEAN
      BY <1>3
    <3> QED
      BY <2>1, <3>1
  <2> QED
    BY <2>2, <2>3
<1>5. /\ tasks' \in Seq(Completion)
      /\ \A i \in 1..Len(tasks') :
           i + 1 \in 1..Len(tasks) /\ i + 1 # 1 /\ tasks'[i] = tasks[i + 1]
      /\ \A i, j \in 1..Len(tasks') : i + 1 = j + 1 => i = j
  <2>1. CASE tasks' = Tail(tasks)
    BY <2>1 DEF IInv, Typed
  <2>2. CASE tasks' = <<>>
    BY <2>2
  <2> QED
    BY <1>3, <2>1, <2>2
<1>6. finished => finished'
  BY <1>3
<1>7. \A n : ReadFrom(n)' <=> ReadFrom(n)
  BY DEF ReadFrom
<1>8. Typed'
  BY <1>2, <1>4, <1>5 DEF IInv, Typed, Stages
<1>9. Unstarted'
  BY <1>2 DEF Unstarted
<1>10. Accounted'
  <2>1. \A i \in 1..Len(tasks') : tasks'[i].type \in completions' \ inGrpc'
    BY <1>5 DEF IInv, Accounted
  <2>2. \A i, j \in 1..Len(tasks') : tasks'[i].type = tasks'[j].type => i = j
    BY <1>5 DEF IInv, Accounted
  <2> QED
    BY <1>2, <1>4, <2>1, <2>2 DEF Accounted, Ending, Free
<1>11. Dying'
  BY <1>2, <1>4, <1>6 DEF IInv, Dying, Ending
<1>12. Active'
  BY DEF IInv, Active
<1>13. Reading'
  BY <1>4, <1>5, <1>7 DEF IInv, Reading, Ending
<1>14. Writing'
  <2>1. Closed' <=> Closed
    BY <1>4 DEF Closed, Free
  <2>2. blocked'.stage # "lastWrite"
    BY <1>4 DEF Free
  <2> QED
    BY <1>2, <2>1 DEF IInv, Writing
<1>15. NotMisused'
  BY DEF IInv, NotMisused
<1>16. SafeToDestroy'
  BY <1>2 DEF SafeToDestroy
<1>17. InOrder'
  BY DEF IInv, InOrder
<1> QED
  BY <1>8, <1>9, <1>10, <1>11, <1>12, <1>13, <1>14, <1>15, <1>16, <1>17 DEF IInv

\* OnRead, and the next Read.
LEMMA ReadCompletionStep ==
  ASSUME IInv, Free, tasks # <<>>, Head(tasks).ok, Head(tasks).type = "Read",
         OnRead(Head(tasks).message), tasks' = Tail(tasks),
         UNCHANGED <<observer, finished, writer, blocked, call, misused>>
  PROVE  IInv'
<1>1. /\ tasks' \in Seq(Completion) /\ Head(tasks) = tasks[1] /\ tasks[1] \in Completion
      /\ 1 \in 1..Len(tasks)
      /\ \A i \in 1..Len(tasks') :
           i + 1 \in 1..Len(tasks) /\ i + 1 # 1 /\ tasks'[i] = tasks[i + 1]
      /\ \A i, j \in 1..Len(tasks') : i + 1 = j + 1 => i = j
  BY DEF IInv, Typed
<1>2. /\ tasks[1].type \in completions \ inGrpc
      /\ \A i \in 1..Len(tasks') : tasks'[i].type # tasks[1].type
  BY DEF IInv, Accounted
<1>3. /\ tasks[1].type = "Read" /\ tasks[1].message = Len(log.read) + 1
      /\ ReadFrom(Len(log.read) + 1) /\ "Read" \in completions /\ "Read" \notin inGrpc
  BY <1>2 DEF IInv, Reading
<1>4. /\ completions' = completions /\ inGrpc' = inGrpc \cup {"Read"}
      /\ log' = [log EXCEPT !.read = Append(@, tasks[1].message)]
  BY <1>3 DEF OnRead, Issue
<1>5. /\ log.read \in Seq(Replies) /\ Counts(log.read, 0) /\ Len(log.read) \in Nat
      /\ tasks[1].message \in Replies
  BY <1>1, <1>3 DEF IInv, Typed, Log, Completion, InOrder, Counts, Replies
<1>6. /\ Append(log.read, tasks[1].message) \in Seq(Replies)
      /\ Len(Append(log.read, tasks[1].message)) = Len(log.read) + 1
      /\ Counts(Append(log.read, tasks[1].message), 0)
  <2>1. tasks[1].message = 0 + (Len(log.read) + 1)
    BY <1>3
  <2> QED
    BY <1>5, <2>1, CountsMore
<1>7. /\ log' \in Log /\ log'.written = log.written
      /\ log'.read = Append(log.read, tasks[1].message)
  BY <1>4, <1>6 DEF IInv, Typed, Log
<1>8. observer /\ call.started
  BY DEF IInv, SafeToDestroy, Unstarted
<1>9. \A n : ReadFrom(n)' <=> ReadFrom(n)
  BY DEF ReadFrom
<1>10. Typed'
  BY <1>2, <1>4, <1>7 DEF IInv, Typed
<1>11. Unstarted'
  BY <1>8 DEF Unstarted
<1>12. Accounted'
  BY <1>1, <1>4, <1>8 DEF IInv, Accounted, Ending
<1>13. Dying'
  BY <1>4 DEF IInv, Dying, Dead, Ending
<1>14. Active'
  BY <1>4 DEF IInv, Active
<1>15. Reading'
  BY <1>2, <1>3, <1>4, <1>9 DEF Reading
<1>16. Writing'
  BY <1>4, <1>7 DEF IInv, Writing, Closed, Dead
<1>17. NotMisused'
  BY DEF IInv, NotMisused
<1>18. SafeToDestroy'
  BY <1>8 DEF SafeToDestroy
<1>19. InOrder'
  <2>1. \A i \in DOMAIN log'.read : log'.read[i] = i
    BY <1>6, <1>7 DEF Counts
  <2> QED
    BY <1>7, <2>1 DEF IInv, InOrder
<1> QED
  BY <1>10, <1>11, <1>12, <1>13, <1>14, <1>15, <1>16, <1>17, <1>18, <1>19 DEF IInv

\* OnWrite: the next message that waits is written.
LEMMA WriteCompletionStep ==
  ASSUME IInv, Free, tasks # <<>>, Head(tasks).ok, Head(tasks).type = "Write",
         MaybeWrite(DequeueNextWrite(writer), completions \ {"Write"}),
         tasks' = Tail(tasks),
         UNCHANGED <<observer, finished, blocked, log, misused>>
  PROVE  IInv'
<1>1. /\ tasks' \in Seq(Completion) /\ Head(tasks) = tasks[1] /\ tasks[1] \in Completion
      /\ 1 \in 1..Len(tasks)
      /\ \A i \in 1..Len(tasks') :
           i + 1 \in 1..Len(tasks) /\ i + 1 # 1 /\ tasks'[i] = tasks[i + 1]
      /\ \A i, j \in 1..Len(tasks') : i + 1 = j + 1 => i = j
  BY DEF IInv, Typed
<1>2. /\ tasks[1].type \in completions \ inGrpc
      /\ \A i \in 1..Len(tasks') : tasks'[i].type # tasks[1].type
  BY DEF IInv, Accounted
<1>3. /\ tasks[1].type = "Write" /\ "Write" \in completions /\ "Write" \notin inGrpc
      /\ observer /\ call.started /\ writer \in Writer /\ writer.queue \in Seq(Messages)
  BY <1>2 DEF IInv, Typed, Writer, SafeToDestroy, Unstarted
<1>4. PICK s : s = DequeueNextWrite(writer)
  OBVIOUS
<1>5. /\ s.writer \in Writer /\ MaybeWrite(s, completions \ {"Write"})
      /\ \/ /\ writer.queue = <<>> /\ s.message = 0
            /\ s.writer.queue = <<>> /\ ~s.writer.active
         \/ /\ writer.queue # <<>> /\ s.message = Head(writer.queue)
            /\ s.message \in 0..(MaxWrites + 1) /\ s.message # 0
            /\ s.writer.queue = Tail(writer.queue) /\ s.writer.active
  <2>1. MaybeWrite(s, completions \ {"Write"})
    BY <1>4
  <2>2. /\ s.writer \in Writer
        /\ \/ /\ writer.queue = <<>> /\ s.message = 0
              /\ s.writer.queue = <<>> /\ ~s.writer.active
           \/ /\ writer.queue # <<>> /\ s.message = Head(writer.queue)
              /\ Head(writer.queue) \in Messages
              /\ s.writer.queue = Tail(writer.queue) /\ s.writer.active
    BY <1>3, <1>4, Dequeued
  <2>3. \A m \in Messages : m \in 0..(MaxWrites + 1) /\ m # 0
    BY DEF Messages
  <2> QED
    BY <2>1, <2>2, <2>3
<1>6. /\ writer' = s.writer /\ call' \in Call /\ call'.started = call.started
      /\ call'.ended = call.ended /\ call'.cancelled = call.cancelled
      /\ call'.inbox = call.inbox /\ call'.replies = call.replies /\ call'.wire = call.wire
      /\ \/ /\ s.message = 0 /\ completions' = completions \ {"Write"} /\ inGrpc' = inGrpc
         \/ /\ s.message # 0 /\ completions' = completions
            /\ inGrpc' = inGrpc \cup {"Write"} /\ call'.writing = s.message
  <2>1. CASE s.message = 0
    BY <1>5, <2>1 DEF IInv, Typed, MaybeWrite
  <2>2. CASE s.message # 0
    <3>1. call' = [call EXCEPT !.writing = s.message]
      BY <1>5, <2>2 DEF MaybeWrite
    <3>2. /\ writer' = s.writer /\ completions' = completions
          /\ inGrpc' = inGrpc \cup {"Write"}
      BY <1>3, <1>5, <2>2 DEF MaybeWrite, Issue
    <3>3. s.message \in 0..(MaxWrites + 1)
      BY <1>5, <2>2
    <3> QED
      BY <2>2, <3>1, <3>2, <3>3 DEF IInv, Typed, Call
  <2> QED
    BY <2>1, <2>2
<1>7. /\ Len(call.wire) \in Nat /\ log.written \in Nat /\ Len(<<>>) = 0
      /\ writer.queue # <<>> =>
           /\ Len(writer.queue) = Len(writer'.queue) + 1 /\ Len(writer'.queue) \in Nat
           /\ Counts(writer.queue, Len(call.wire)) =>
                /\ s.message = Len(call.wire) + 1
                /\ Counts(writer'.queue, Len(call.wire) + 1)
  <2>1. Len(call.wire) \in Nat /\ log.written \in Nat /\ Len(<<>>) = 0
    BY DEF IInv, Typed, Log
  <2>2. ASSUME writer.queue # <<>>
        PROVE  /\ Len(writer.queue) = Len(writer'.queue) + 1 /\ Len(writer'.queue) \in Nat
               /\ Counts(writer.queue, Len(call.wire)) =>
                    /\ s.message = Len(call.wire) + 1
                    /\ Counts(writer'.queue, Len(call.wire) + 1)
    <3>1. writer'.queue = Tail(writer.queue) /\ s.message = Head(writer.queue)
      BY <1>5, <1>6, <2>2
    <3>2. Len(writer.queue) = Len(Tail(writer.queue)) + 1 /\ Len(Tail(writer.queue)) \in Nat
      BY <2>2
    <3>3. Counts(writer.queue, Len(call.wire)) =>
            /\ Head(writer.queue) = Len(call.wire) + 1
            /\ Counts(Tail(writer.queue), Len(call.wire) + 1)
      BY <1>3, <2>2, CountsLess
    <3> QED
      BY <3>1, <3>2, <3>3
  <2> QED
    BY <2>1, <2>2
<1>8. \A n : ReadFrom(n)' <=> ReadFrom(n)
  BY <1>6 DEF ReadFrom
<1>9. Typed'
  BY <1>2, <1>5, <1>6 DEF IInv, Typed, Stages
<1>10. Unstarted'
  BY <1>3, <1>6 DEF Unstarted
<1>11. Accounted'
  BY <1>3, <1>6 DEF IInv, Accounted, Ending
<1>12. Dying'
  BY <1>6 DEF IInv, Dying, Dead, Ending
<1>13. Active'
  BY <1>5, <1>6 DEF Active
<1>14. Reading'
  BY <1>6, <1>8 DEF IInv, Reading, Ending
<1>15. Writing'
  <2>1. /\ Dead' <=> Dead
        /\ Closed' <=> Closed
    BY <1>6 DEF Dead, Closed
  <2>2. CASE writer.queue = <<>>
    BY <1>3, <1>5, <1>6, <2>1, <2>2 DEF IInv, Writing
  <2>3. CASE writer.queue # <<>>
    <3>1. /\ call'.wire = call.wire /\ call'.writing = s.message /\ "Write" \in inGrpc'
          /\ log' = log /\ blocked'.stage = "none" /\ (~Closed => Counts(call.wire, 0))
      BY <1>5, <1>6, <2>3 DEF IInv, Writing, Free
    <3>2. ASSUME ~Dead, ~Closed
          PROVE  /\ call'.writing = Len(call'.wire) + 1
                 /\ Counts(writer'.queue, Len(call'.wire) + 1)
                 /\ log'.written = Len(call'.wire) + 1 + Len(writer'.queue)
      <4>1. /\ Counts(writer.queue, Len(call.wire))
            /\ log.written = Len(call.wire) + Len(writer.queue)
        BY <1>3, <3>2 DEF IInv, Writing
      <4>2. log.written = Len(call.wire) + (Len(writer'.queue) + 1)
        BY <1>7, <2>3, <4>1
      <4>3. \A m, n \in Nat : m + (n + 1) = m + 1 + n
        OBVIOUS
      <4>4. log.written = Len(call.wire) + 1 + Len(writer'.queue)
        BY <1>7, <2>3, <4>2, <4>3
      <4>5. /\ s.message = Len(call.wire) + 1
            /\ Counts(writer'.queue, Len(call.wire) + 1)
        BY <1>7, <2>3, <4>1
      <4> QED
        BY <3>1, <4>4, <4>5
    <3> QED
      BY <2>1, <3>1, <3>2 DEF Writing
  <2> QED
    BY <2>2, <2>3
<1>16. NotMisused'
  BY DEF IInv, NotMisused
<1>17. SafeToDestroy'
  BY <1>3 DEF SafeToDestroy
<1>18. InOrder'
  BY <1>6 DEF IInv, InOrder
<1> QED
  BY <1>9, <1>10, <1>11, <1>12, <1>13, <1>14, <1>15, <1>16, <1>17, <1>18 DEF IInv

\* OnFinishedByServer: gRPC holds nothing, so the observer goes.
LEMMA FinishCompletionStep ==
  ASSUME IInv, Free, tasks # <<>>, Head(tasks).ok, Head(tasks).type = "Finish",
         Shutdown(completions \ {"Finish"}, TRUE),
         UNCHANGED <<writer, inGrpc, misused>>
  PROVE  IInv'
<1>1. "Finish" \in completions /\ "Finish" \notin inGrpc
  BY DEF IInv, Accounted
<1>2. observer /\ call.started
  BY DEF IInv, SafeToDestroy, Unstarted
<1>3. PICK left : left = completions \ {"Finish"}
  OBVIOUS
<1>4. /\ Shutdown(left, TRUE) /\ left \subseteq completions /\ inGrpc \subseteq left
      /\ writer' \in Writer /\ writer' = writer /\ TRUE \in BOOLEAN
  BY <1>1, <1>3 DEF IInv, Typed
<1>5. /\ "Write" \in left => writer'.active
      /\ ~writer'.active => writer'.queue = <<>>
  BY <1>4 DEF IInv, Active
<1> QED
  BY <1>2, <1>4, <1>5, ShutdownStep

\* The worker queue runs a posted completion.
LEMMA RunCompletionStep ==
  ASSUME IInv, RunCompletion
  PROVE  IInv'
<1>1. /\ Free /\ tasks # <<>> /\ Head(tasks) \in Completion
      /\ Head(tasks).type \in completions
  BY DEF IInv, Typed, Accounted, RunCompletion
<1>2. misused' = misused
  BY <1>1 DEF IInv, Typed, RunCompletion, SecondWrite
<1>3. CASE /\ ~Head(tasks).ok /\ OnOperationFailed
           /\ completions' = completions \ {Head(tasks).type}
           /\ UNCHANGED <<observer, writer, inGrpc, call, log>>
  BY <1>1, <1>2, <1>3, FailedCompletionStep
<1>4. CASE /\ Head(tasks).ok /\ Head(tasks).type = "Read" /\ OnRead(Head(tasks).message)
           /\ tasks' = Tail(tasks)
           /\ UNCHANGED <<observer, finished, writer, blocked, call>>
  BY <1>1, <1>2, <1>4, ReadCompletionStep
<1>5. CASE /\ Head(tasks).ok /\ Head(tasks).type = "Write"
           /\ MaybeWrite(DequeueNextWrite(writer), completions \ {"Write"})
           /\ tasks' = Tail(tasks)
           /\ UNCHANGED <<observer, finished, blocked, log>>
  BY <1>1, <1>2, <1>5, WriteCompletionStep
<1>6. CASE /\ Head(tasks).ok /\ Head(tasks).type = "Finish"
           /\ Shutdown(completions \ {"Finish"}, TRUE)
           /\ UNCHANGED <<writer, inGrpc>>
  BY <1>1, <1>2, <1>6, FinishCompletionStep
<1> QED
  BY <1>3, <1>4, <1>5, <1>6 DEF RunCompletion

\* A completion leaves gRPC, and is posted unless it has been cancelled.
LEMMA Completed ==
  ASSUME IInv, NEW d \in Completion, d.type \in inGrpc, Complete(d.type, d.ok, d.message)
  PROVE  /\ inGrpc' = inGrpc \ {d.type} /\ inGrpc' \subseteq completions
         /\ tasks' \in Seq(Completion)
         /\ Ending => tasks' = <<>>
         /\ \A i \in 1..Len(tasks') : tasks'[i].type \in completions \ inGrpc'
         /\ \A i, j \in 1..Len(tasks') : tasks'[i].type = tasks'[j].type => i = j
         /\ \A i \in 1..Len(tasks') :
              \/ i \in 1..Len(tasks) /\ tasks'[i] = tasks[i] /\ tasks[i].type # d.type
              \/ ~Ending /\ tasks'[i] = d
         /\ observer /\ call.started
<1>1. /\ inGrpc' = inGrpc \ {d.type} /\ inGrpc' \subseteq completions
      /\ observer /\ call.started /\ d.type \in completions
  BY DEF IInv, Typed, Unstarted, SafeToDestroy, Complete
<1>2. \A i \in 1..Len(tasks) : tasks[i].type # d.type /\ tasks[i].type \in completions \ inGrpc'
  BY <1>1 DEF IInv, Accounted
<1>3. CASE Ending
  <2>1. tasks = <<>> /\ tasks' = <<>> /\ \A i \in 1..Len(<<>>) : FALSE
    BY <1>3 DEF IInv, Accounted, Complete, Ending
  <2> QED
    BY <1>1, <2>1
<1>4. CASE ~Ending
  <2>1. blocked.stage \in {"none", "lastWrite"}
    BY <1>4 DEF IInv, Typed, Stages, Ending
  <2>2. d = [type |-> d.type, ok |-> d.ok, message |-> d.message]
    BY DEF Completion
  <2>3. tasks' = Append(tasks, d)
    BY <2>1, <2>2 DEF Complete
  <2>4. /\ tasks' \in Seq(Completion)
        /\ \A i \in 1..Len(tasks') :
             \/ i \in 1..Len(tasks) /\ tasks'[i] = tasks[i]
             \/ i = Len(tasks) + 1 /\ tasks'[i] = d
    BY <2>3 DEF IInv, Typed
  <2>5. \A i \in 1..Len(tasks') : tasks'[i].type \in completions \ inGrpc'
    BY <1>1, <1>2, <2>4
  <2>6. \A i, j \in 1..Len(tasks') : tasks'[i].type = tasks'[j].type => i = j
    BY <2>4 DEF IInv, Accounted
  <2> QED
    BY <1>1, <1>2, <1>4, <2>4, <2>6
<1> QED
  BY <1>3, <1>4

\* gRPC hands over the server's next message.
LEMMA GoodReadStep ==
  ASSUME IInv, "Read" \in inGrpc, call.inbox # <<>>,
         Complete("Read", TRUE, Head(call.inbox)),
         call' = [call EXCEPT !.inbox = Tail(@)],
         UNCHANGED <<observer, finished, completions, writer, blocked, log, misused>>
  PROVE  IInv'
<1>1. /\ call.inbox \in Seq(Replies) /\ Tail(call.inbox) \in Seq(Replies)
      /\ Head(call.inbox) \in 0..MaxReplies /\ Len(log.read) \in Nat
      /\ Len(call.inbox) = Len(Tail(call.inbox)) + 1 /\ Len(Tail(call.inbox)) \in Nat
  <2>1. call.inbox \in Seq(Replies) /\ log.read \in Seq(Replies)
    BY DEF IInv, Typed, Call, Log
  <2>2. /\ Tail(call.inbox) \in Seq(Replies) /\ Len(Tail(call.inbox)) \in Nat
        /\ Len(call.inbox) = Len(Tail(call.inbox)) + 1
        /\ Head(call.inbox) \in Replies
    BY <2>1
  <2>3. Head(call.inbox) \in 0..MaxReplies
    BY <2>2 DEF Replies
  <2>4. Len(log.read) \in Nat
    BY <2>1
  <2> QED
    BY <2>1, <2>3
<1>2. PICK d \in Completion :
        d.type = "Read" /\ d.ok = TRUE /\ d.message = Head(call.inbox)
  BY <1>1, Record, Zenon DEF Types
<1>3. d.type \in inGrpc /\ d.ok /\ Complete(d.type, d.ok, d.message)
  BY <1>2
<1>4. /\ inGrpc' = inGrpc \ {d.type} /\ inGrpc' \subseteq completions
      /\ tasks' \in Seq(Completion)
      /\ Ending => tasks' = <<>>
      /\ \A i \in 1..Len(tasks') : tasks'[i].type \in completions \ inGrpc'
      /\ \A i, j \in 1..Len(tasks') : tasks'[i].type = tasks'[j].type => i = j
      /\ \A i \in 1..Len(tasks') :
           \/ i \in 1..Len(tasks) /\ tasks'[i] = tasks[i] /\ tasks[i].type # d.type
           \/ ~Ending /\ tasks'[i] = d
      /\ observer /\ call.started
  BY <1>3, Completed
<1>5. /\ call' \in Call /\ call'.started = call.started /\ call'.ended = call.ended
      /\ call'.cancelled = call.cancelled /\ call'.inbox = Tail(call.inbox)
      /\ call'.replies = call.replies /\ call'.wire = call.wire
      /\ call'.writing = call.writing
  BY <1>1 DEF IInv, Typed, Call
<1>6. ~Ending => Head(call.inbox) = Len(log.read) + 1 /\ ReadFrom(Len(log.read) + 1)'
  <2> SUFFICES ASSUME ~Ending
               PROVE  Head(call.inbox) = Len(log.read) + 1 /\ ReadFrom(Len(log.read) + 1)'
    OBVIOUS
  <2>1. ReadFrom(Len(log.read))
    BY DEF IInv, Reading
  <2>2. /\ Head(call.inbox) = Len(log.read) + 1
        /\ Counts(Tail(call.inbox), Len(log.read) + 1)
    BY <1>1, <2>1, CountsLess DEF ReadFrom
  <2>3. Len(call.inbox) = Len(call'.inbox) + 1 /\ Len(call'.inbox) \in Nat
    BY <1>1
  <2>4. call.replies = (Len(log.read) + 1) + Len(call'.inbox)
    <3>1. call.replies = Len(log.read) + (Len(call'.inbox) + 1)
      BY <2>1, <2>3 DEF ReadFrom
    <3>2. \A m, n \in Nat : m + (n + 1) = (m + 1) + n
      OBVIOUS
    <3> QED
      BY <1>1, <2>3, <3>1, <3>2
  <2> QED
    BY <1>5, <2>2, <2>4 DEF ReadFrom
<1>7. Typed'
  BY <1>4, <1>5 DEF IInv, Typed
<1>8. Unstarted'
  BY <1>4 DEF Unstarted
<1>9. Accounted'
  BY <1>4 DEF Accounted, Ending
<1>10. Dying'
  BY <1>2, <1>4 DEF IInv, Dying, Dead, Ending
<1>11. Active'
  BY DEF IInv, Active
<1>12. Reading'
  BY <1>2, <1>4, <1>6 DEF Reading
<1>13. Writing'
  BY <1>2, <1>4, <1>5 DEF IInv, Writing, Closed, Dead
<1>14. NotMisused'
  BY DEF IInv, NotMisused
<1>15. SafeToDestroy'
  BY <1>4 DEF SafeToDestroy
<1>16. InOrder'
  BY DEF IInv, InOrder
<1> QED
  BY <1>7, <1>8, <1>9, <1>10, <1>11, <1>12, <1>13, <1>14, <1>15, <1>16 DEF IInv

\* gRPC completes an operation of a call that is over; a write may seem to succeed.
LEMMA BadCompletionStep ==
  ASSUME IInv, NEW d \in Completion, d.type \in inGrpc, Complete(d.type, d.ok, d.message),
         Dead \/ d.ok, d.ok => d.type \in {"Write", "Finish"}, Dead \/ d.type # "Write",
         UNCHANGED <<observer, finished, completions, writer, blocked, call, log, misused>>
  PROVE  IInv'
<1>1. /\ inGrpc' = inGrpc \ {d.type} /\ inGrpc' \subseteq completions
      /\ tasks' \in Seq(Completion)
      /\ Ending => tasks' = <<>>
      /\ \A i \in 1..Len(tasks') : tasks'[i].type \in completions \ inGrpc'
      /\ \A i, j \in 1..Len(tasks') : tasks'[i].type = tasks'[j].type => i = j
      /\ \A i \in 1..Len(tasks') :
           \/ i \in 1..Len(tasks) /\ tasks'[i] = tasks[i] /\ tasks[i].type # d.type
           \/ ~Ending /\ tasks'[i] = d
      /\ observer /\ call.started
  BY Completed
<1>2. Typed'
  BY <1>1 DEF IInv, Typed
<1>3. Unstarted'
  BY <1>1 DEF Unstarted
<1>4. Accounted'
  BY <1>1 DEF Accounted, Ending
<1>5. Dying'
  BY <1>1 DEF IInv, Dying, Dead, Ending
<1>6. Active'
  BY DEF IInv, Active
<1>7. Reading'
  BY <1>1 DEF IInv, Reading, ReadFrom, Ending
<1>8. Writing'
  BY <1>1 DEF IInv, Writing, Closed, Dead
<1>9. NotMisused'
  BY DEF IInv, NotMisused
<1>10. SafeToDestroy'
  BY <1>1 DEF SafeToDestroy
<1>11. InOrder'
  BY DEF IInv, InOrder
<1> QED
  BY <1>2, <1>3, <1>4, <1>5, <1>6, <1>7, <1>8, <1>9, <1>10, <1>11 DEF IInv

\* A message reaches the wire while the call lasts.
LEMMA GoodWriteStep ==
  ASSUME IInv, "Write" \in inGrpc, ~Dead, Complete("Write", TRUE, 0),
         call' = [call EXCEPT !.wire = Append(@, call.writing)],
         UNCHANGED <<observer, finished, completions, writer, blocked, log, misused>>
  PROVE  IInv'
<1>1. PICK d \in Completion : d.type = "Write" /\ d.ok = TRUE /\ d.message = 0
  BY Record, Zenon DEF Types
<1>2. d.type \in inGrpc /\ d.ok /\ Complete(d.type, d.ok, d.message)
  BY <1>1
<1>3. /\ inGrpc' = inGrpc \ {d.type} /\ inGrpc' \subseteq completions
      /\ tasks' \in Seq(Completion)
      /\ Ending => tasks' = <<>>
      /\ \A i \in 1..Len(tasks') : tasks'[i].type \in completions \ inGrpc'
      /\ \A i, j \in 1..Len(tasks') : tasks'[i].type = tasks'[j].type => i = j
      /\ \A i \in 1..Len(tasks') :
           \/ i \in 1..Len(tasks) /\ tasks'[i] = tasks[i] /\ tasks[i].type # d.type
           \/ ~Ending /\ tasks'[i] = d
      /\ observer /\ call.started
  BY <1>2, Completed
<1>4. /\ ~Ending /\ (Closed <=> blocked.stage = "lastWrite")
      /\ blocked.stage \in {"none", "lastWrite"}
  BY <1>3 DEF IInv, Typed, Stages, Dying, Ending, Closed
<1>5. /\ call.wire \in Seq(Messages) /\ Len(call.wire) \in Nat
      /\ call.writing \in Messages
  <2>1. /\ call.wire \in Seq(Messages) /\ Len(call.wire) \in Nat
        /\ call.writing \in 0..(MaxWrites + 1)
    BY DEF IInv, Typed, Call
  <2>2. call.writing = Len(call.wire) + 1 \/ call.writing = MaxWrites + 1
    BY <1>4 DEF IInv, Writing
  <2> QED
    BY <2>1, <2>2, BoundsAssumption DEF Messages
<1>6. /\ Append(call.wire, call.writing) \in Seq(Messages)
      /\ Len(Append(call.wire, call.writing)) = Len(call.wire) + 1
      /\ \A i \in 1..Len(Append(call.wire, call.writing)) :
           \/ i \in 1..Len(call.wire) /\ Append(call.wire, call.writing)[i] = call.wire[i]
           \/ i = Len(call.wire) + 1 /\ Append(call.wire, call.writing)[i] = call.writing
  BY <1>5
<1>7. /\ call' \in Call /\ call'.started = call.started /\ call'.ended = call.ended
      /\ call'.cancelled = call.cancelled /\ call'.inbox = call.inbox
      /\ call'.replies = call.replies /\ call'.wire = Append(call.wire, call.writing)
      /\ call'.writing = call.writing
  BY <1>6 DEF IInv, Typed, Call
<1>8. ~Closed => Counts(Append(call.wire, call.writing), 0)
  <2> SUFFICES ASSUME ~Closed
               PROVE  Counts(Append(call.wire, call.writing), 0)
    OBVIOUS
  <2>1. Counts(call.wire, 0) /\ call.writing = 0 + (Len(call.wire) + 1)
    BY DEF IInv, Writing
  <2> QED
    BY <1>5, <2>1, CountsMore
<1>9. \A n : ReadFrom(n)' <=> ReadFrom(n)
  BY DEF ReadFrom
<1>10. Typed'
  BY <1>3, <1>7 DEF IInv, Typed
<1>11. Unstarted'
  BY <1>3 DEF Unstarted
<1>12. Accounted'
  BY <1>3 DEF Accounted, Ending
<1>13. Dying'
  BY <1>1, <1>3 DEF IInv, Dying, Ending
<1>14. Active'
  BY DEF IInv, Active
<1>15. Reading'
  BY <1>1, <1>3, <1>9 DEF IInv, Reading, Ending
<1>16. Writing'
  BY <1>1, <1>3, <1>4, <1>6, <1>7, <1>8 DEF IInv, Writing, Closed, Free, Ending,
     Dying
<1>17. NotMisused'
  BY DEF IInv, NotMisused
<1>18. SafeToDestroy'
  BY <1>3 DEF SafeToDestroy
<1>19. InOrder'
  <2>1. \/ ~Closed /\ call.writing = Len(call.wire) + 1
        \/ call.writing = MaxWrites + 1 /\ log.written = Len(call.wire)
    BY <1>4 DEF IInv, Writing
  <2>2. DOMAIN call.wire = 1..Len(call.wire)
        /\ DOMAIN call'.wire = 1..Len(call'.wire)
    BY <1>5
  <2> QED
    BY <2>1 DEF IInv, InOrder
<1> QED
  BY <1>10, <1>11, <1>12, <1>13, <1>14, <1>15, <1>16, <1>17, <1>18, <1>19 DEF IInv

\* gRPC completes an operation.
LEMMA GrpcCompletesStep ==
  ASSUME IInv, GrpcStep
  PROVE  IInv'
<1>1. CASE GrpcRead
  <2>1. CASE call.inbox # <<>> /\ Complete("Read", TRUE, Head(call.inbox))
             /\ call' = [call EXCEPT !.inbox = Tail(@)]
    BY <1>1, <2>1, GoodReadStep DEF GrpcRead
  <2>2. CASE /\ call.cancelled \/ (call.ended /\ call.inbox = <<>>)
             /\ Complete("Read", FALSE, 0) /\ UNCHANGED call
    <3>1. PICK d \in Completion : d.type = "Read" /\ d.ok = FALSE /\ d.message = 0
      BY Record, Zenon DEF Types
    <3>2. d.type = "Read" /\ ~d.ok /\ Complete(d.type, d.ok, d.message)
      BY <2>2, <3>1
    <3> QED
      BY <1>1, <2>2, <3>2, BadCompletionStep DEF GrpcRead, Dead
  <2> QED
    BY <1>1, <2>1, <2>2 DEF GrpcRead
<1>2. CASE GrpcWrite
  <2>1. CASE ~Dead
    BY <1>2, <2>1, GoodWriteStep DEF GrpcWrite, Dead
  <2>2. CASE Dead /\ Complete("Write", TRUE, 0) /\ UNCHANGED call
    <3>1. PICK d \in Completion : d.type = "Write" /\ d.ok = TRUE /\ d.message = 0
      BY Record, Zenon DEF Types
    <3>2. d.type = "Write" /\ Complete(d.type, d.ok, d.message)
      BY <2>2, <3>1
    <3> QED
      BY <1>2, <2>2, <3>2, BadCompletionStep DEF GrpcWrite
  <2>3. CASE Dead /\ Complete("Write", FALSE, 0) /\ UNCHANGED call
    <3>1. PICK d \in Completion : d.type = "Write" /\ d.ok = FALSE /\ d.message = 0
      BY Record, Zenon DEF Types
    <3>2. d.type = "Write" /\ Complete(d.type, d.ok, d.message)
      BY <2>3, <3>1
    <3> QED
      BY <1>2, <2>3, <3>2, BadCompletionStep DEF GrpcWrite
  <2> QED
    BY <1>2, <2>1, <2>2, <2>3 DEF GrpcWrite, Dead
<1>3. CASE GrpcFinish
  <2>1. PICK d \in Completion : d.type = "Finish" /\ d.ok = TRUE /\ d.message = 0
    BY Record, Zenon DEF Types
  <2>2. d.type = "Finish" /\ d.ok /\ Complete(d.type, d.ok, d.message)
    BY <1>3, <2>1 DEF GrpcFinish
  <2> QED
    BY <1>3, <2>2, BadCompletionStep DEF GrpcFinish
<1> QED
  BY <1>1, <1>2, <1>3 DEF GrpcStep

\* The server's next message is the last of those that wait.
LEMMA ServerSendsStep ==
  ASSUME IInv, ServerSends
  PROVE  IInv'
<1>1. /\ call.started
      /\ UNCHANGED <<observer, finished, completions, writer, blocked, inGrpc, tasks, log,
                     misused>>
  BY DEF ServerSends
<1>2. /\ call.inbox \in Seq(Replies) /\ call.replies + 1 \in Replies
      /\ call.replies + 1 \in 0..MaxReplies /\ call.replies \in Nat /\ Len(log.read) \in Nat
  <2>1. /\ call.inbox \in Seq(Replies) /\ call.replies \in 0..MaxReplies
        /\ call.replies < MaxReplies /\ log.read \in Seq(Replies)
    BY DEF IInv, Typed, Call, Log, ServerSends
  <2> QED
    BY <2>1, BoundsAssumption DEF Replies
<1>3. /\ Append(call.inbox, call.replies + 1) \in Seq(Replies)
      /\ Len(Append(call.inbox, call.replies + 1)) = Len(call.inbox) + 1
      /\ Len(call.inbox) \in Nat
  BY <1>2
<1>4. /\ call' \in Call /\ call'.started = call.started /\ call'.ended = call.ended
      /\ call'.cancelled = call.cancelled /\ call'.replies = call.replies + 1
      /\ call'.inbox = Append(call.inbox, call.replies + 1) /\ call'.wire = call.wire
      /\ call'.writing = call.writing
  BY <1>2, <1>3 DEF IInv, Typed, Call, ServerSends
<1>5. \A n \in Nat : ReadFrom(n) => ReadFrom(n)'
  <2> SUFFICES ASSUME NEW n \in Nat, ReadFrom(n)
               PROVE  ReadFrom(n)'
    OBVIOUS
  <2>1. call.replies + 1 = n + (Len(call.inbox) + 1)
    BY DEF ReadFrom
  <2>2. Counts(Append(call.inbox, call.replies + 1), n)
    BY <1>2, <2>1, CountsMore DEF ReadFrom
  <2> QED
    BY <1>4, <2>2 DEF ReadFrom
<1>6. Len(log.read) + 1 \in Nat /\ Len(log'.read) = Len(log.read)
  BY <1>1
<1>7. Typed'
  BY <1>1, <1>4 DEF IInv, Typed
<1>8. Unstarted'
  BY <1>1, <1>4 DEF Unstarted
<1>9. Accounted'
  BY <1>1 DEF IInv, Accounted, Free, Ending
<1>10. Dying'
  BY <1>1, <1>4 DEF IInv, Dying, Dead, Ending
<1>11. Active'
  BY <1>1 DEF IInv, Active
<1>12. Reading'
  BY <1>1, <1>5 DEF IInv, Reading, Ending
<1>13. Writing'
  BY <1>1, <1>4 DEF IInv, Writing, Closed, Dead
<1>14. NotMisused'
  BY <1>1 DEF IInv, NotMisused
<1>15. SafeToDestroy'
  BY <1>1 DEF IInv, SafeToDestroy
<1>16. InOrder'
  BY <1>1, <1>4 DEF IInv, InOrder
<1> QED
  BY <1>7, <1>8, <1>9, <1>10, <1>11, <1>12, <1>13, <1>14, <1>15, <1>16 DEF IInv

\* The call is over, for good.
LEMMA CallEndsStep ==
  ASSUME IInv, CallEnds
  PROVE  IInv'
<1>1. /\ call.started
      /\ UNCHANGED <<observer, finished, completions, writer, blocked, inGrpc, tasks, log,
                     misused>>
  BY DEF CallEnds
<1>2. /\ call' \in Call /\ call'.started = call.started /\ call'.ended = TRUE
      /\ call'.cancelled = call.cancelled /\ call'.inbox = call.inbox
      /\ call'.replies = call.replies /\ call'.wire = call.wire
      /\ call'.writing = call.writing
  BY DEF IInv, Typed, Call, CallEnds
<1>3. Typed'
  BY <1>1, <1>2 DEF IInv, Typed
<1>4. Unstarted'
  BY <1>1, <1>2 DEF Unstarted
<1>5. Accounted'
  BY <1>1 DEF IInv, Accounted, Free, Ending
<1>6. Dying'
  BY <1>1, <1>2 DEF IInv, Dying, Dead, Ending
<1>7. Active'
  BY <1>1 DEF IInv, Active
<1>8. Reading'
  BY <1>1, <1>2 DEF IInv, Reading, ReadFrom, Ending
<1>9. Writing'
  BY <1>1, <1>2 DEF IInv, Writing, Closed, Dead
<1>10. NotMisused'
  BY <1>1 DEF IInv, NotMisused
<1>11. SafeToDestroy'
  BY <1>1 DEF IInv, SafeToDestroy
<1>12. InOrder'
  BY <1>1, <1>2 DEF IInv, InOrder
<1> QED
  BY <1>3, <1>4, <1>5, <1>6, <1>7, <1>8, <1>9, <1>10, <1>11, <1>12 DEF IInv

\* A step of another component changes nothing.
LEMMA StutterStep ==
  ASSUME IInv, UNCHANGED vars
  PROVE  IInv'
<1>1. UNCHANGED <<observer, finished, completions, writer, blocked, inGrpc, tasks, call,
                  log, misused>>
  BY DEF vars
<1>2. Typed' /\ Unstarted' /\ Accounted' /\ Dying' /\ Active'
  BY <1>1 DEF IInv, Typed, Unstarted, Accounted, Dying, Active, Free, Ending, Dead
<1>3. Reading'
  BY <1>1 DEF IInv, Reading, ReadFrom, Ending
<1>4. Writing'
  BY <1>1 DEF IInv, Writing, Dead, Closed
<1>5. NotMisused' /\ SafeToDestroy' /\ InOrder'
  BY <1>1 DEF IInv, NotMisused, SafeToDestroy, InOrder
<1> QED
  BY <1>2, <1>3, <1>4, <1>5 DEF IInv

-----------------------------------------------------------------------------
\* A stream starts with nothing under way.
LEMMA InitInv ==
  ASSUME Init
  PROVE  IInv
<1>1. /\ observer = TRUE /\ finished = FALSE /\ misused = FALSE
      /\ completions = {} /\ inGrpc = {} /\ tasks = <<>>
      /\ writer = [queue |-> <<>>, active |-> FALSE]
      /\ blocked = [stage |-> "none", notify |-> FALSE]
      /\ call = [started |-> FALSE, ended |-> FALSE, cancelled |-> FALSE,
                 inbox |-> <<>>, replies |-> 0, wire |-> <<>>, writing |-> 0]
      /\ log = [written |-> 0, read |-> <<>>, told |-> "none"]
  BY DEF Init
<1>2. /\ \A n : Counts(<<>>, n)
      /\ Len(<<>>) = 0 /\ \A i \in 1..Len(<<>>) : FALSE
  BY CountsNone
<1>3. Typed
  <2>1. <<>> \in Seq(Messages) /\ <<>> \in Seq(Replies) /\ <<>> \in Seq(Completion)
    BY EmptySeq
  <2>2. 0 \in 0..MaxReplies /\ 0 \in 0..MaxWrites /\ 0 \in 0..(MaxWrites + 1)
    BY BoundsAssumption
  <2>3. writer \in Writer /\ log \in Log /\ blocked \in [stage : Stages, notify : BOOLEAN]
    BY <1>1, <2>2 DEF Writer, Log, Stages
  <2>4. call \in Call
    BY <1>1, <2>2 DEF Call
  <2> QED
    BY <1>1, <2>1, <2>3, <2>4 DEF Typed
<1>4. Unstarted /\ Accounted /\ Dying /\ Active
  BY <1>1 DEF Unstarted, Accounted, Dying, Active, Free, Ending
<1>5. Reading /\ Writing
  BY <1>1, <1>2 DEF Reading, Writing
<1>6. NotMisused /\ SafeToDestroy /\ InOrder
  BY <1>1 DEF NotMisused, SafeToDestroy, InOrder
<1> QED
  BY <1>3, <1>4, <1>5, <1>6 DEF IInv

\* Every step preserves the inductive invariant.
LEMMA NextInv ==
  ASSUME IInv, [Next]_vars
  PROVE  IInv'
<1>1. CASE Start \/ Write \/ WriteAndFinish
  BY <1>1, StartStep, WriteStep, WriteAndFinishStep
<1>2. CASE \E notify \in BOOLEAN : Finish(notify)
  BY <1>2, FinishStep
<1>3. CASE WorkerStep
  BY <1>3, RunCompletionStep, LastWriteOverStep, CompletionsDrainedStep,
     ShutdownOverStep DEF WorkerStep
<1>4. CASE GrpcStep
  BY <1>4, GrpcCompletesStep
<1>5. CASE ServerSends \/ CallEnds
  BY <1>5, ServerSendsStep, CallEndsStep
<1>6. CASE UNCHANGED vars
  BY <1>6, StutterStep
<1> QED
  BY <1>1, <1>2, <1>3, <1>4, <1>5, <1>6 DEF Next

(***************************************************************************)
(* The inductive invariant holds.                                          *)
(***************************************************************************)
THEOREM Inductive == Spec => []IInv
<1>1. Init => IInv
  BY InitInv
<1>2. IInv /\ [Next]_vars => IInv'
  BY NextInv
<1> QED
  BY <1>1, <1>2, PTL DEF Spec

(***************************************************************************)
(* The stream, the writer, gRPC's completions and the history have their   *)
(* types; what gRPC holds is among completions_.                           *)
(***************************************************************************)
THEOREM TypeCorrect == Spec => []TypeOK
<1>1. IInv => TypeOK
  BY DEF IInv, Typed, TypeOK, Writer, Completion, Call, Log, Messages, Replies
<1> QED
  BY <1>1, Inductive, PTL

(***************************************************************************)
(* BufferedWriter never has two writes active, and RemoveCompletion always *)
(* finds its completion, however many messages are written and whenever    *)
(* the call fails.                                                         *)
(***************************************************************************)
THEOREM RulesAreKept == Spec => []NotMisused
<1>1. IInv => NotMisused
  BY DEF IInv
<1> QED
  BY <1>1, Inductive, PTL

(***************************************************************************)
(* The observer goes only when gRPC holds no operation of the stream and   *)
(* the worker queue none of its callbacks.                                 *)
(***************************************************************************)
THEOREM ProperShutdown == Spec => []SafeToDestroy
<1>1. IInv => SafeToDestroy
  BY DEF IInv
<1> QED
  BY <1>1, Inductive, PTL

(***************************************************************************)
(* Messages reach the wire in the order of Write, and the observer reads   *)
(* the server's messages in the order they were sent.                      *)
(***************************************************************************)
THEOREM MessagesInOrder == Spec => []InOrder
<1>1. IInv => InOrder
  BY DEF IInv
<1> QED
  BY <1>1, Inductive, PTL

=============================================================================
