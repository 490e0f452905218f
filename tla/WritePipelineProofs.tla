------------------------ MODULE WritePipelineProofs ------------------------
(***************************************************************************)
(* What setData can rely on, for any number of users, writes, waiters and  *)
(* any capacity of the pipeline.                                           *)
(*                                                                         *)
(* Steady is the client between two tasks: the pipeline is the first part  *)
(* of the queue on disk, the messages of the call are the first part of    *)
(* the pipeline, and timers, token requests and the call exist only in the *)
(* states of the stream that they belong to, and a stream with something   *)
(* to send is open or has what it waits for under way (Going).  The        *)
(* methods that a task calls keep Core, which is Steady without a full     *)
(* pipeline (Full), a handshake that is forgotten with its stream (Shaken) *)
(* and Going; a user change leaves only Loose, until the network is        *)
(* restarted.                                                              *)
(*                                                                         *)
(* Remembered relates the client to the server and to what the program     *)
(* asked for: what the client has forgotten was decided on, is older than  *)
(* what is still on disk, and an answer that is to be read is about a      *)
(* write that the server has, and has not replaced by an older one.        *)
(***************************************************************************)
EXTENDS WritePipeline, WellFoundedInduction, SequenceTheorems, TLAPS

Batch    == [id : Nat, write : Writes]
Queue    == Seq(Batch)
Callback == [user : Users, id : Nat, write : Writes]
Streams  == {"Initial", "Starting", "Backoff", "Open", "Error"}

Client ==
  [user : Users, queues : [Users -> Queue], nextBatchId : Nat,
   callbacks : SUBSET Callback, told : [Writes -> {"none", "ok", "error"}],
   pending : SUBSET [waiter : Waiters, id : Nat],
   waiterTold : [Waiters -> {"none", "ok", "cancelled"}],
   networkEnabled : BOOLEAN, pipeline : Queue, stream : Streams,
   handshakeComplete : BOOLEAN, timers : SUBSET {"backoff", "idle"},
   requests : SUBSET {"live", "stale"}, hello : {"none", "sent", "answered", "done"},
   up : Queue, down : Queue,
   status : {None, "unavailable", "permissionDenied", "aborted"},
   tokenUser : Users \cup {None}, aborted : BOOLEAN]

\* The rows of a queue are sorted by id, and nextBatchId is larger than any.
Stored(s) ==
  /\ 1 =< s.nextBatchId
  /\ \A u \in Users :
       /\ \A i \in 1..Len(s.queues[u]) :
            1 =< s.queues[u][i].id /\ s.queues[u][i].id < s.nextBatchId
       /\ \A i, j \in 1..Len(s.queues[u]) :
            i < j => s.queues[u][i].id < s.queues[u][j].id

Pipelined(s) ==
  /\ IsPrefixOf(s.pipeline, s.queues[s.user])
  /\ Len(s.pipeline) =< kMaxPendingWrites
  /\ ~s.networkEnabled => s.pipeline = <<>>

Full(s) ==
  s.networkEnabled =>
    \/ Len(s.pipeline) = Len(s.queues[s.user])
    \/ Len(s.pipeline) = kMaxPendingWrites /\ kMaxPendingWrites =< Len(s.queues[s.user])

\* InFlight, of any state of the client.
Flying(s) ==
  IF s.hello # "done" THEN s.down = <<>> /\ s.up = <<>>
  ELSE IF s.status = None THEN s.down \o s.up = s.pipeline
  ELSE IsPrefixOf(s.down, s.pipeline)

\* What can be under way in each state of the stream.
Timed(s) ==
  /\ "backoff" \in s.timers => s.stream = "Backoff"
  /\ "idle" \in s.timers => IsOpen(s)
  /\ "live" \in s.requests => s.stream = "Starting"
  /\ s.hello # "none" <=> IsOpen(s)
  /\ s.status # None => IsOpen(s)

Streaming(s) ==
  /\ Timed(s) /\ Flying(s)
  /\ "idle" \in s.timers => s.pipeline = <<>>
  /\ IsStarted(s) => s.networkEnabled
  /\ IsOpen(s) => s.tokenUser = s.user /\ (s.handshakeComplete <=> s.hello = "done")
  /\ IsStarted(s) /\ s.hello # "done" => s.pipeline # <<>>

Shaken(s) == s.handshakeComplete => IsOpen(s)

Core(s) == s \in Client /\ ~s.aborted /\ Stored(s) /\ Pipelined(s) /\ Streaming(s)

\* What a stream that is being started waits for is under way.
Scheduled(s) ==
  /\ s.stream = "Starting" => "live" \in s.requests
  /\ s.stream = "Backoff" => "backoff" \in s.timers

\* The stream is started if there is anything to send.
Awake(s) == s.networkEnabled /\ s.pipeline # <<>> => IsStarted(s)

Going(s) == Scheduled(s) /\ Awake(s)

\* The client between two tasks.
Steady(s) == Core(s) /\ Full(s) /\ Shaken(s) /\ Going(s)

\* What was asked for, on disk and in memory.
SameRequests(s, t) ==
  /\ t.user = s.user /\ t.queues = s.queues /\ t.nextBatchId = s.nextBatchId
  /\ t.callbacks = s.callbacks /\ t.told = s.told
  /\ t.pending = s.pending /\ t.waiterTold = s.waiterTold

SameStream(s, t) ==
  /\ t.stream = s.stream /\ t.handshakeComplete = s.handshakeComplete
  /\ t.timers = s.timers /\ t.requests = s.requests

SameAnswers(s, t) ==
  t.hello = s.hello /\ t.down = s.down /\ t.status = s.status /\ t.tokenUser = s.tokenUser

\* What an answer to a write leaves alone.
SameNetwork(s, t) ==
  /\ t.networkEnabled = s.networkEnabled /\ t.pipeline = s.pipeline
  /\ SameStream(s, t) /\ SameAnswers(s, t) /\ t.up = s.up /\ t.aborted = s.aborted

\* Who hears of the answer to batch id of user u, and what they were told then.
Callbacks(callbacks, u, id) == {c \in callbacks : c.user = u /\ c.id = id}

Told(told, callbacks, u, id, outcome) ==
  [w \in Writes |-> IF \E c \in Callbacks(callbacks, u, id) : c.write = w
                    THEN outcome ELSE told[w]]

Awaiting(pending, id) == {p \in pending : p.id = id}

WaiterTold(told, pending, id) ==
  [x \in Waiters |-> IF \E p \in Awaiting(pending, id) : p.waiter = x
                     THEN "ok" ELSE told[x]]

\* SyncEngine's side of an answer to the write at the head of the queue, id.
Answered(s, t, id, outcome) ==
  /\ t.user = s.user /\ t.nextBatchId = s.nextBatchId
  /\ t.queues = [s.queues EXCEPT ![s.user] = Tail(@)]
  /\ t.callbacks = s.callbacks \ Callbacks(s.callbacks, s.user, id)
  /\ t.told = Told(s.told, s.callbacks, s.user, id, outcome)
  /\ t.pending = s.pending \ Awaiting(s.pending, id)
  /\ t.waiterTold = WaiterTold(s.waiterTold, s.pending, id)
-----------------------------------------------------------------------------
\* A bounded set of numbers has a largest one.
LEMMA BoundedMax ==
  ASSUME NEW T, NEW n \in Nat, T \subseteq 0..n, T # {}
  PROVE  \E m \in T : \A i \in T : i =< m
<1> DEFINE U == {k \in Nat : n - k \in T}
<1>1. U # {} /\ U \subseteq Nat
  <2>1. PICK t \in T : TRUE
    OBVIOUS
  <2>2. n - t \in Nat /\ n - (n - t) = t
    OBVIOUS
  <2> QED
    BY <2>2
<1>2. \A x, y \in Nat : x < y => <<x, y>> \in OpToRel(<, Nat)
  BY DEF OpToRel
<1>3. PICK k \in U : \A j \in U : <<j, k>> \notin OpToRel(<, Nat)
  BY <1>1, NatLessThanWellFounded, WFMin
<1>4. ASSUME NEW i \in T PROVE i =< n - k
  <2>1. n - i \in Nat /\ n - (n - i) = i
    OBVIOUS
  <2>2. n - i \in U
    BY <2>1
  <2>3. ~(n - i < k)
    BY <1>2, <1>3, <2>1, <2>2
  <2> QED
    BY <2>1, <2>3
<1> QED
  BY <1>4

\* LoadNextBatchIdFromDb.
LEMMA NextBatchId ==
  ASSUME NEW s \in Client, Stored(s)
  PROVE  /\ LoadNextBatchIdFromDb(s.queues) \in Nat
         /\ 1 =< LoadNextBatchIdFromDb(s.queues)
         /\ \A u \in Users : \A i \in 1..Len(s.queues[u]) :
              s.queues[u][i].id < LoadNextBatchIdFromDb(s.queues)
<1> DEFINE ids == BatchIds(s.queues) \cup {0}
<1>1. s.nextBatchId \in Nat /\ s.queues \in [Users -> Queue]
  BY DEF Client
<1>2. ASSUME NEW u \in Users
      PROVE  DOMAIN s.queues[u] = 1..Len(s.queues[u])
  BY <1>1, LenProperties DEF Queue
<1>3. \A u \in Users : \A i \in 1..Len(s.queues[u]) : s.queues[u][i].id \in ids
  BY <1>2 DEF BatchIds
<1>4. ids \subseteq 0..s.nextBatchId
  <2>1. ASSUME NEW k \in BatchIds(s.queues)
        PROVE  k \in 0..s.nextBatchId
    <3>1. PICK u \in Users : \E i \in DOMAIN s.queues[u] : k = s.queues[u][i].id
      BY DEF BatchIds
    <3>2. PICK i \in 1..Len(s.queues[u]) : k = s.queues[u][i].id
      BY <1>2, <3>1
    <3>3. s.queues[u][i] \in Batch
      BY <1>1, <3>2, ElementOfSeq DEF Queue
    <3> QED
      BY <1>1, <3>2, <3>3 DEF Stored, Batch
  <2> QED
    BY <1>1, <2>1
<1>5. \E m \in ids : \A i \in ids : i =< m
  BY <1>1, <1>4, BoundedMax
<1>6. PICK m \in ids : m = (CHOOSE k \in ids : \A i \in ids : i =< k) /\ \A i \in ids : i =< m
  BY <1>5
<1>7. LoadNextBatchIdFromDb(s.queues) = 1 + m
  BY <1>6 DEF LoadNextBatchIdFromDb
<1>8. m \in Nat
  BY <1>1, <1>4
<1>9. ASSUME NEW u \in Users, NEW i \in 1..Len(s.queues[u])
      PROVE  s.queues[u][i].id < 1 + m
  <2>1. s.queues[u][i].id \in ids
    BY <1>3
  <2>2. s.queues[u][i].id =< m /\ s.queues[u][i].id \in 0..s.nextBatchId
    BY <1>4, <1>6, <2>1
  <2> QED
    BY <1>1, <1>8, <2>2
<1> QED
  BY <1>7, <1>8, <1>9

\* A HARD_ASSERT that holds changes nothing.
LEMMA AssertHolds ==
  ASSUME NEW s \in Client, NEW condition \in BOOLEAN, condition
  PROVE  HardAssert(s, condition) = s
BY DEF HardAssert, Client

\* The position that Seek finds.
LEMMA SeekFinds ==
  ASSUME NEW q \in Queue, NEW n \in 0..Len(q), NEW id \in Int,
         \A i \in 1..n : q[i].id < id, n < Len(q) => q[n + 1].id >= id
  PROVE  Seek(q, id) = n + 1
<1> DEFINE P(k) == /\ \A i \in 1..(k - 1) : q[i].id < id
                   /\ k =< Len(q) => q[k].id >= id
<1>1. /\ Len(q) \in Nat /\ n \in Nat /\ n =< Len(q)
      /\ \A i \in 1..Len(q) : q[i].id \in Nat
  <2>1. Len(q) \in Nat
    BY LenProperties DEF Queue
  <2>2. ASSUME NEW i \in 1..Len(q)
        PROVE  q[i].id \in Nat
    <3>1. q[i] \in Batch
      BY ElementOfSeq DEF Queue
    <3> QED
      BY <3>1 DEF Batch
  <2> QED
    BY <2>1, <2>2
<1>2. n + 1 \in 1..(Len(q) + 1) /\ P(n + 1)
  BY <1>1
<1>3. ASSUME NEW k \in 1..(Len(q) + 1), P(k)
      PROVE  k = n + 1
  <2>1. CASE k < n + 1
    BY <1>1, <1>3, <2>1
  <2>2. CASE n + 1 < k
    BY <1>1, <1>3, <2>2
  <2> QED
    BY <1>1, <2>1, <2>2
<1> HIDE DEF P
<1>4. Seek(q, id) = CHOOSE k \in 1..(Len(q) + 1) : P(k)
  BY DEF Seek, P
<1> QED
  BY <1>2, <1>3, <1>4

\* Sequences that begin alike.
LEMMA PrefixFacts ==
  ASSUME NEW p \in Queue, NEW q \in Queue, IsPrefixOf(p, q)
  PROVE  /\ Len(p) \in Nat /\ Len(q) \in Nat /\ Len(p) =< Len(q)
         /\ \A i \in 1..Len(p) : i \in 1..Len(q) /\ p[i] = q[i]
         /\ p # <<>> => q # <<>> /\ Head(p) = Head(q) /\ IsPrefixOf(Tail(p), Tail(q))
<1>1. Len(p) \in Nat /\ Len(q) \in Nat /\ Len(p) =< Len(q)
  BY LenProperties DEF Queue, IsPrefixOf
<1>2. \A i \in 1..Len(p) : i \in 1..Len(q) /\ p[i] = q[i]
  BY <1>1 DEF IsPrefixOf
<1>3. ASSUME p # <<>>
      PROVE  q # <<>> /\ Head(p) = Head(q) /\ IsPrefixOf(Tail(p), Tail(q))
  <2>1. Len(p) \in Nat \ {0}
    BY <1>3, EmptySeq DEF Queue
  <2>2. q # <<>>
    BY <1>1, <2>1, EmptySeq DEF Queue
  <2>3. Head(p) = p[1] /\ Head(q) = q[1]
    BY <1>3, <2>2 DEF Queue
  <2>4. /\ Len(Tail(p)) = Len(p) - 1 /\ \A i \in 1..Len(Tail(p)) : Tail(p)[i] = p[i + 1]
        /\ Len(Tail(q)) = Len(q) - 1 /\ \A i \in 1..Len(Tail(q)) : Tail(q)[i] = q[i + 1]
    BY <1>3, <2>2, HeadTailProperties DEF Queue
  <2>5. 1 \in 1..Len(p)
    BY <2>1
  <2>6. ASSUME NEW i \in 1..Len(Tail(p))
        PROVE  Tail(p)[i] = Tail(q)[i]
    <3>1. i \in 1..Len(Tail(q)) /\ i + 1 \in 1..Len(p)
      BY <1>1, <2>1, <2>4
    <3> QED
      BY <1>2, <2>4, <3>1
  <2> QED
    BY <1>1, <1>2, <2>1, <2>2, <2>3, <2>4, <2>5, <2>6 DEF IsPrefixOf
<1> QED
  BY <1>1, <1>2, <1>3

\* What FillWritePipeline takes from the queue continues the pipeline, until
\* the queue is at its end or the pipeline is full.
LEMMA RetrievedFits ==
  ASSUME NEW s \in Client, Stored(s), Pipelined(s), NEW p, p = s.pipeline \o Retrieved(s)
  PROVE  /\ Retrieved(s) \in Queue /\ p \in Queue
         /\ IsPrefixOf(p, s.queues[s.user]) /\ IsPrefixOf(s.pipeline, p)
         /\ Len(p) =< kMaxPendingWrites
         /\ ~s.networkEnabled => p = <<>>
         /\ s.networkEnabled =>
              \/ Len(p) = Len(s.queues[s.user])
              \/ Len(p) = kMaxPendingWrites /\ kMaxPendingWrites =< Len(s.queues[s.user])
<1>1. PICK q : q = s.queues[s.user]
  OBVIOUS
<1>2. q \in Queue /\ s.pipeline \in Queue
  BY <1>1 DEF Client
<1>3. kMaxPendingWrites \in Nat
  BY ConstantsAssumption
<1>4. /\ Len(s.pipeline) \in Nat /\ Len(q) \in Nat /\ Len(s.pipeline) =< Len(q)
      /\ \A i \in 1..Len(s.pipeline) : i \in 1..Len(q) /\ s.pipeline[i] = q[i]
  BY <1>1, <1>2, PrefixFacts DEF Pipelined
<1>5. CASE ~s.networkEnabled
  <2>1. Retrieved(s) = <<>> /\ s.pipeline = <<>>
    BY <1>5 DEF Retrieved, CanUseNetwork, Pipelined
  <2>2. p = <<>> /\ <<>> \in Queue
    BY <2>1, EmptySeq DEF Queue
  <2> QED
    BY <1>1, <1>2, <1>4, <1>5, <2>1, <2>2 DEF Pipelined, IsPrefixOf
<1>6. CASE s.networkEnabled
  <2>1. PICK n : n = Len(s.pipeline)
    OBVIOUS
  <2>2. n \in Nat /\ n =< Len(q) /\ n =< kMaxPendingWrites
    BY <1>4, <2>1 DEF Pipelined
  <2>3. Seek(q, LastBatchIdRetrieved(s.pipeline) + 1) = n + 1
    <3>1. ASSUME NEW i \in 1..Len(q)
          PROVE  1 =< q[i].id /\ q[i].id \in Nat
      <4>1. q[i] \in Batch
        BY <1>2, ElementOfSeq DEF Queue
      <4>2. s.user \in Users
        BY DEF Client
      <4> QED
        BY <1>1, <4>1, <4>2 DEF Stored, Batch
    <3>2. CASE s.pipeline = <<>>
      <4>1. n = 0 /\ LastBatchIdRetrieved(s.pipeline) + 1 = 0
        BY <2>1, <3>2, EmptySeq DEF LastBatchIdRetrieved, kBatchIdUnknown
      <4>2. 0 < Len(q) => q[0 + 1].id >= 0
        BY <1>4, <3>1
      <4> QED
        BY <1>2, <1>4, <4>1, <4>2, SeekFinds
    <3>3. CASE s.pipeline # <<>>
      <4>1. n \in 1..Len(q)
        BY <1>2, <1>4, <2>1, <2>2, <3>3, EmptySeq DEF Queue
      <4>2. LastBatchIdRetrieved(s.pipeline) = q[n].id /\ q[n].id \in Nat
        BY <1>4, <2>1, <3>1, <3>3, <4>1 DEF LastBatchIdRetrieved
      <4>3. \A i \in 1..n : q[i].id < q[n].id + 1
        BY <1>1, <1>4, <3>1, <4>1, <4>2 DEF Stored, Client
      <4>4. n < Len(q) => q[n + 1].id >= q[n].id + 1
        BY <1>1, <1>4, <3>1, <4>1, <4>2 DEF Stored, Client
      <4>5. q[n].id + 1 \in Int /\ n \in 0..Len(q)
        BY <1>4, <2>2, <4>2
      <4> QED
        BY <1>2, <4>2, <4>3, <4>4, <4>5, SeekFinds
    <3> QED
      BY <3>2, <3>3
  <2>4. PICK rest : rest = SubSeq(q, n + 1, Len(q))
    OBVIOUS
  <2>5. /\ rest \in Queue /\ Len(rest) = Len(q) - n
        /\ \A i \in 1..(Len(q) - n) : rest[i] = q[n + i]
    <3>1. \A i \in (n + 1)..Len(q) : q[i] \in Batch
      BY <1>2, <1>4, <2>2, ElementOfSeq DEF Queue
    <3>2. /\ rest \in Queue
          /\ Len(rest) = IF n + 1 <= Len(q) THEN Len(q) - (n + 1) + 1 ELSE 0
          /\ \A i \in 1..(Len(q) - (n + 1) + 1) : rest[i] = q[n + 1 + i - 1]
      BY <1>4, <2>2, <2>4, <3>1, SubSeqProperties DEF Queue
    <3> QED
      BY <1>4, <2>2, <3>2
  <2>6. PICK m : m = IF Len(rest) < kMaxPendingWrites - n THEN Len(rest)
                     ELSE kMaxPendingWrites - n
    OBVIOUS
  <2>7. /\ m \in Nat /\ n + m =< Len(q) /\ n + m =< kMaxPendingWrites
        /\ n + m = Len(q) \/ n + m = kMaxPendingWrites
    BY <1>3, <1>4, <2>2, <2>5, <2>6
  <2>8. Retrieved(s) = SubSeq(rest, 1, m)
    BY <1>1, <1>6, <2>1, <2>3, <2>4, <2>6
       DEF Retrieved, CanUseNetwork, NextMutationBatches
  <2>9. /\ Retrieved(s) \in Queue /\ Len(Retrieved(s)) = m
        /\ \A i \in 1..m : Retrieved(s)[i] = q[n + i]
    <3>1. \A i \in 1..m : i \in 1..(Len(q) - n)
      BY <1>4, <2>2, <2>7
    <3>2. \A i \in 1..m : rest[i] \in Batch
      BY <2>5, <3>1, ElementOfSeq DEF Queue
    <3>3. /\ SubSeq(rest, 1, m) \in Queue
          /\ Len(SubSeq(rest, 1, m)) = IF 1 <= m THEN m - 1 + 1 ELSE 0
          /\ \A i \in 1..(m - 1 + 1) : SubSeq(rest, 1, m)[i] = rest[1 + i - 1]
      BY <2>7, <3>2, SubSeqProperties DEF Queue
    <3> QED
      BY <2>5, <2>7, <2>8, <3>1, <3>3
  <2>10. /\ p \in Queue /\ Len(p) = n + m
         /\ \A i \in 1..(n + m) :
              p[i] = IF i <= n THEN s.pipeline[i] ELSE Retrieved(s)[i - n]
    <3>1. s.pipeline \in Seq(Batch) /\ Retrieved(s) \in Seq(Batch)
      BY <1>2, <2>9 DEF Queue
    <3>2. /\ p \in Seq(Batch) /\ Len(p) = Len(s.pipeline) + Len(Retrieved(s))
          /\ \A i \in 1..(Len(s.pipeline) + Len(Retrieved(s))) :
               p[i] = IF i <= Len(s.pipeline) THEN s.pipeline[i]
                      ELSE Retrieved(s)[i - Len(s.pipeline)]
      BY <3>1, ConcatProperties
    <3> QED
      BY <2>1, <2>9, <3>2 DEF Queue
  <2>11. \A i \in 1..(n + m) : p[i] = q[i]
    BY <1>4, <2>1, <2>2, <2>7, <2>9, <2>10
  <2>12. IsPrefixOf(p, q) /\ IsPrefixOf(s.pipeline, p)
    BY <1>4, <2>1, <2>2, <2>7, <2>10, <2>11 DEF IsPrefixOf
  <2> QED
    BY <1>1, <1>6, <2>7, <2>9, <2>10, <2>12
<1> QED
  BY <1>5, <1>6

\* An answer to the head of the queue takes it from the disk.
LEMMA HeadRemoved ==
  ASSUME NEW s \in Client, Stored(s), s.queues[s.user] # <<>>,
         NEW id, id = Head(s.queues[s.user]).id
  PROVE  RemoveMutationBatch(s, id) = [s EXCEPT !.queues[s.user] = Tail(@)]
<1>1. PICK q : q = s.queues[s.user]
  OBVIOUS
<1>2. q \in Queue /\ q # <<>> /\ Len(q) \in Nat /\ 1 \in 1..Len(q)
  BY <1>1, EmptySeq DEF Client, Queue
<1>3. Head(q) = q[1] /\ q[1].id \in Nat
  <2>1. q[1] \in Batch
    BY <1>2, ElementOfSeq DEF Queue
  <2>2. Head(q) = q[1]
    BY <1>2 DEF Queue
  <2> QED
    BY <2>1, <2>2 DEF Batch
<1>4. PICK k : k = Seek(q, id)
  OBVIOUS
<1>5. k = 1
  <2>1. Seek(q, id) = 0 + 1
    BY <1>1, <1>2, <1>3, SeekFinds
  <2> QED
    BY <1>4, <2>1
<1>6. SubSeq(q, 1, k - 1) \o SubSeq(q, k + 1, Len(q)) = Tail(q)
  <2>1. SubSeq(q, 1, k - 1) = <<>> /\ SubSeq(q, k + 1, Len(q)) = Tail(q)
    BY <1>2, <1>5, TailIsSubSeq, SubSeqEmpty DEF Queue
  <2>2. Tail(q) \in Seq(Batch)
    BY <1>2, HeadTailProperties DEF Queue
  <2> QED
    BY <2>1, <2>2, ConcatEmptySeq
<1>7. k =< Len(q) /\ q[k].id = id
  BY <1>1, <1>2, <1>3, <1>5
<1>8. RemoveMutationBatch(s, id) =
        [s EXCEPT !.queues[s.user] = SubSeq(q, 1, k - 1) \o SubSeq(q, k + 1, Len(q))]
  BY <1>1, <1>4, <1>7 DEF RemoveMutationBatch
<1> QED
  BY <1>1, <1>6, <1>8

\* A stream that is open waits for nothing, and one that is not started for
\* nothing either; that is as it should be with nothing to send.
LEMMA OpenIsGoing ==
  ASSUME NEW s, IsOpen(s)
  PROVE  Going(s)
BY DEF IsOpen, IsStarted, Going, Scheduled, Awake

LEMMA UnstartedIsScheduled ==
  ASSUME NEW s, ~IsStarted(s)
  PROVE  Scheduled(s) /\ (s.pipeline = <<>> => Going(s))
BY DEF IsStarted, Going, Scheduled, Awake

\* What keeps the stream keeps it going.
LEMMA GoingStays ==
  ASSUME NEW s, Going(s), NEW t, SameStream(s, t), t.pipeline = s.pipeline,
         t.networkEnabled = s.networkEnabled
  PROVE  Going(t)
BY DEF SameStream, IsStarted, Going, Scheduled, Awake

\* A stream that is started goes through the backoff or asks for a token.
LEMMA StartFields ==
  ASSUME NEW s \in Client, NEW t, t = StartIfNeeded(s)
  PROVE  /\ t \in Client /\ SameRequests(s, t) /\ SameAnswers(s, t) /\ t.up = s.up
         /\ t.networkEnabled = s.networkEnabled /\ t.pipeline = s.pipeline
         /\ t.handshakeComplete = s.handshakeComplete /\ t.aborted = s.aborted
         /\ \/ ~ShouldStartWriteStream(s) /\ t = s
            \/ /\ ShouldStartWriteStream(s) /\ s.stream = "Error"
               /\ t.stream = "Backoff" /\ t.timers = s.timers \cup {"backoff"}
               /\ t.requests = s.requests
            \/ /\ ShouldStartWriteStream(s) /\ s.stream = "Initial"
               /\ t.stream = "Starting" /\ t.timers = s.timers
               /\ t.requests = s.requests \cup {"live"}
<1>1. CASE ~ShouldStartWriteStream(s)
  BY <1>1 DEF StartIfNeeded, SameRequests, SameAnswers
<1>2. CASE ShouldStartWriteStream(s) /\ s.stream = "Error"
  <2>1. t = [s EXCEPT !.stream = "Backoff", !.timers = @ \cup {"backoff"}]
    BY <1>2 DEF StartIfNeeded, Start, BackoffAndTryRestarting
  <2>2. PICK v : v = s.timers \cup {"backoff"}
    OBVIOUS
  <2>3. t \in Client
    <3>1. v \in SUBSET {"backoff", "idle"}
      BY <2>2 DEF Client
    <3>2. PICK a : a = [s EXCEPT !.stream = "Backoff"]
      OBVIOUS
    <3>3. t = [a EXCEPT !.timers = v]
      BY <2>1, <2>2, <3>2
    <3>4. a \in Client
      BY <3>2 DEF Client, Streams
    <3> QED
      BY <3>1, <3>3, <3>4 DEF Client
  <2> QED
    BY <1>2, <2>1, <2>3 DEF Client, SameRequests, SameAnswers
<1>3. CASE ShouldStartWriteStream(s) /\ s.stream # "Error"
  <2>1. s.stream = "Initial"
    BY <1>3 DEF ShouldStartWriteStream, IsStarted, Client, Streams
  <2>2. HardAssert(s, s.stream = "Initial") = s
    BY <2>1, AssertHolds
  <2>3. PICK a : a = [s EXCEPT !.stream = "Starting"]
    OBVIOUS
  <2>4. t = [a EXCEPT !.requests = @ \cup {"live"}]
    BY <1>3, <2>2, <2>3 DEF StartIfNeeded, Start, RequestCredentials
  <2>5. /\ a \in Client /\ SameRequests(s, a) /\ SameAnswers(s, a) /\ a.up = s.up
        /\ a.networkEnabled = s.networkEnabled /\ a.pipeline = s.pipeline
        /\ a.handshakeComplete = s.handshakeComplete /\ a.aborted = s.aborted
        /\ a.stream = "Starting" /\ a.timers = s.timers /\ a.requests = s.requests
    BY <2>3 DEF Client, Streams, SameRequests, SameAnswers
  <2>6. a.requests \cup {"live"} \in SUBSET {"live", "stale"}
    BY <2>5 DEF Client
  <2>7. t \in Client
    BY <2>4, <2>5, <2>6 DEF Client
  <2>8. /\ SameRequests(a, t) /\ SameAnswers(a, t) /\ t.up = a.up
        /\ t.networkEnabled = a.networkEnabled /\ t.pipeline = a.pipeline
        /\ t.handshakeComplete = a.handshakeComplete /\ t.aborted = a.aborted
        /\ t.stream = a.stream /\ t.timers = a.timers
        /\ t.requests = a.requests \cup {"live"}
    BY <2>4, <2>5 DEF Client, SameRequests, SameAnswers
  <2> QED
    BY <1>3, <2>1, <2>5, <2>7, <2>8 DEF SameRequests, SameAnswers
<1> QED
  BY <1>1, <1>2, <1>3

\* StartIfNeeded keeps the invariant, and everything but the stream.
LEMMA StartKeeps ==
  ASSUME NEW s, Core(s), NEW t, t = StartIfNeeded(s)
  PROVE  /\ Core(t) /\ SameRequests(s, t) /\ SameAnswers(s, t) /\ t.up = s.up
         /\ t.networkEnabled = s.networkEnabled /\ t.pipeline = s.pipeline
         /\ t.handshakeComplete = s.handshakeComplete /\ (IsOpen(t) <=> IsOpen(s))
         /\ Awake(t) /\ (Scheduled(s) => Scheduled(t))
<1>1. s \in Client
  BY DEF Core
<1>2. /\ t \in Client /\ SameRequests(s, t) /\ SameAnswers(s, t) /\ t.up = s.up
      /\ t.networkEnabled = s.networkEnabled /\ t.pipeline = s.pipeline
      /\ t.handshakeComplete = s.handshakeComplete /\ t.aborted = s.aborted
      /\ \/ ~ShouldStartWriteStream(s) /\ t = s
         \/ /\ ShouldStartWriteStream(s) /\ s.stream = "Error"
            /\ t.stream = "Backoff" /\ t.timers = s.timers \cup {"backoff"}
            /\ t.requests = s.requests
         \/ /\ ShouldStartWriteStream(s) /\ s.stream = "Initial"
            /\ t.stream = "Starting" /\ t.timers = s.timers
            /\ t.requests = s.requests \cup {"live"}
  BY <1>1, StartFields
<1>3. Awake(t) /\ (Scheduled(s) => Scheduled(t))
  BY <1>2 DEF Awake, Scheduled, ShouldStartWriteStream, CanUseNetwork, IsStarted
<1>4. CASE t = s
  BY <1>2, <1>3, <1>4
<1>5. CASE t # s
  <2>1. /\ ~IsOpen(s) /\ ~IsOpen(t) /\ s.pipeline # <<>> /\ s.networkEnabled
        /\ ~IsStarted(s)
    BY <1>2, <1>5 DEF ShouldStartWriteStream, IsOpen, CanUseNetwork, IsStarted
  <2>2. Stored(t) /\ Pipelined(t)
    BY <1>2 DEF Core, Stored, Pipelined, SameRequests
  <2>3. Timed(t)
    BY <1>2, <1>5, <2>1 DEF Core, Streaming, Timed, SameAnswers, IsStarted
  <2>4. Flying(t)
    BY <1>2 DEF Core, Streaming, Flying, SameAnswers
  <2>5. Streaming(t)
    BY <1>2, <1>5, <2>1, <2>3, <2>4 DEF Core, Streaming, SameAnswers
  <2> QED
    BY <1>2, <1>3, <2>1, <2>2, <2>5 DEF Core
<1> QED
  BY <1>4, <1>5

\* New batches go into the pipeline, and to the server if the stream is open.
LEMMA AddFields ==
  ASSUME NEW s \in Client, NEW r \in Queue, s.pipeline \o r \in Queue,
         NEW t, t = AddToWritePipeline(s, r)
  PROVE  /\ t \in Client /\ SameRequests(s, t) /\ SameAnswers(s, t)
         /\ t.networkEnabled = s.networkEnabled /\ t.pipeline = s.pipeline \o r
         /\ t.handshakeComplete = s.handshakeComplete /\ t.aborted = s.aborted
         /\ t.stream = s.stream /\ t.requests = s.requests
         /\ IF IsOpen(s) /\ s.handshakeComplete /\ r # <<>>
            THEN t.up = s.up \o r /\ t.timers = s.timers \ {"idle"}
            ELSE t.up = s.up /\ t.timers = s.timers
<1>1. PICK a : a = [s EXCEPT !.pipeline = @ \o r]
  OBVIOUS
<1>2. a \in Client
  BY <1>1 DEF Client
<1>3. CASE IsOpen(s) /\ s.handshakeComplete /\ r # <<>>
  <2>1. IsOpen(a) /\ a.handshakeComplete /\ a.up = s.up /\ a.timers = s.timers
    BY <1>1, <1>3 DEF Client, IsOpen
  <2>2. HardAssert(a, IsOpen(a) /\ a.handshakeComplete) = a
    BY <1>2, <2>1, AssertHolds
  <2>3. PICK b : b = [a EXCEPT !.timers = @ \ {"idle"}]
    OBVIOUS
  <2>4. t = [b EXCEPT !.up = @ \o r]
    BY <1>1, <1>3, <2>2, <2>3 DEF AddToWritePipeline, WriteMutations, CancelIdleCheck
  <2>5. s.up \o r \in Queue
    <3>1. s.up \in Seq(Batch) /\ r \in Seq(Batch)
      BY DEF Client, Queue
    <3> QED
      BY <3>1, ConcatProperties DEF Queue
  <2>6. a.timers \ {"idle"} \in SUBSET {"backoff", "idle"}
    BY <1>2 DEF Client
  <2>7. b \in Client
    BY <1>2, <2>3, <2>6 DEF Client
  <2>8. /\ SameRequests(s, b) /\ SameAnswers(s, b) /\ b.up = s.up
        /\ b.networkEnabled = s.networkEnabled /\ b.pipeline = s.pipeline \o r
        /\ b.handshakeComplete = s.handshakeComplete /\ b.aborted = s.aborted
        /\ b.stream = s.stream /\ b.timers = s.timers \ {"idle"}
        /\ b.requests = s.requests
    <3>1. /\ SameRequests(s, a) /\ SameAnswers(s, a) /\ a.up = s.up
          /\ a.networkEnabled = s.networkEnabled /\ a.pipeline = s.pipeline \o r
          /\ a.handshakeComplete = s.handshakeComplete /\ a.aborted = s.aborted
          /\ a.stream = s.stream /\ a.timers = s.timers /\ a.requests = s.requests
      BY <1>1 DEF Client, SameRequests, SameAnswers
    <3>2. /\ SameRequests(a, b) /\ SameAnswers(a, b) /\ b.up = a.up
          /\ b.networkEnabled = a.networkEnabled /\ b.pipeline = a.pipeline
          /\ b.handshakeComplete = a.handshakeComplete /\ b.aborted = a.aborted
          /\ b.stream = a.stream /\ b.timers = a.timers \ {"idle"}
          /\ b.requests = a.requests
      BY <1>2, <2>3 DEF Client, SameRequests, SameAnswers
    <3> QED
      BY <3>1, <3>2 DEF SameRequests, SameAnswers
  <2>9. t \in Client
    <3>1. PICK v : v = b.up \o r
      OBVIOUS
    <3>2. v \in Queue /\ t = [b EXCEPT !.up = v]
      BY <2>4, <2>5, <2>8, <3>1
    <3> QED
      BY <2>7, <3>2 DEF Client
  <2>10. /\ SameRequests(b, t) /\ SameAnswers(b, t) /\ t.up = b.up \o r
         /\ t.networkEnabled = b.networkEnabled /\ t.pipeline = b.pipeline
         /\ t.handshakeComplete = b.handshakeComplete /\ t.aborted = b.aborted
         /\ t.stream = b.stream /\ t.timers = b.timers /\ t.requests = b.requests
    BY <2>4, <2>7 DEF Client, SameRequests, SameAnswers
  <2> QED
    BY <1>3, <2>8, <2>9, <2>10 DEF SameRequests, SameAnswers
<1>4. CASE ~(IsOpen(s) /\ s.handshakeComplete /\ r # <<>>)
  <2>1. t = a
    BY <1>1, <1>4 DEF AddToWritePipeline, WriteMutations
  <2> QED
    <3>1. /\ SameRequests(s, a) /\ SameAnswers(s, a) /\ a.up = s.up
          /\ a.networkEnabled = s.networkEnabled /\ a.pipeline = s.pipeline \o r
          /\ a.handshakeComplete = s.handshakeComplete /\ a.aborted = s.aborted
          /\ a.stream = s.stream /\ a.timers = s.timers /\ a.requests = s.requests
      BY <1>1 DEF Client, SameRequests, SameAnswers
    <3> QED
      BY <1>2, <1>4, <2>1, <3>1
<1> QED
  BY <1>3, <1>4

\* Sequences in a row can be grouped either way.
LEMMA Regroup ==
  ASSUME NEW S, NEW a \in Seq(S), NEW b \in Seq(S), NEW c \in Seq(S)
  PROVE  (a \o b) \o c = a \o (b \o c)
BY ConcatAssociative

\* A sequence that begins like one that begins like a third.
LEMMA PrefixTransitive ==
  ASSUME NEW p \in Queue, NEW q \in Queue, NEW r \in Queue,
         IsPrefixOf(p, q), IsPrefixOf(q, r)
  PROVE  IsPrefixOf(p, r)
<1>1. /\ Len(p) \in Nat /\ Len(q) \in Nat /\ Len(r) \in Nat
  BY LenProperties DEF Queue
<1> QED
  BY <1>1 DEF IsPrefixOf

\* The idle timer starts when the pipeline is empty.
LEMMA MarkIdleKeeps ==
  ASSUME NEW s, Core(s), s.pipeline = <<>>, NEW t, t = MarkIdle(s)
  PROVE  /\ Core(t) /\ SameRequests(s, t) /\ SameAnswers(s, t) /\ t.up = s.up
         /\ t.networkEnabled = s.networkEnabled /\ t.pipeline = s.pipeline
         /\ t.handshakeComplete = s.handshakeComplete /\ t.stream = s.stream
         /\ (Scheduled(s) => Scheduled(t))
<1>1. CASE ~IsOpen(s)
  BY <1>1 DEF MarkIdle, SameRequests, SameAnswers
<1>2. CASE IsOpen(s)
  <2>1. s \in Client /\ t = [s EXCEPT !.timers = @ \cup {"idle"}]
    BY <1>2 DEF MarkIdle, Core
  <2>2. t \in Client
    <3>1. PICK v : v = s.timers \cup {"idle"}
      OBVIOUS
    <3>2. v \in SUBSET {"backoff", "idle"} /\ t = [s EXCEPT !.timers = v]
      BY <2>1, <3>1 DEF Client
    <3> QED
      BY <2>1, <3>2 DEF Client
  <2>3. /\ SameRequests(s, t) /\ SameAnswers(s, t) /\ t.up = s.up
        /\ t.networkEnabled = s.networkEnabled /\ t.pipeline = s.pipeline
        /\ t.handshakeComplete = s.handshakeComplete /\ t.aborted = s.aborted
        /\ t.stream = s.stream /\ t.requests = s.requests
        /\ t.timers = s.timers \cup {"idle"}
    BY <2>1 DEF Client, SameRequests, SameAnswers
  <2>4. Stored(t) /\ Pipelined(t)
    BY <2>3 DEF Core, Stored, Pipelined, SameRequests
  <2>5. Timed(t) /\ Flying(t)
    BY <1>2, <2>3 DEF Core, Streaming, Timed, Flying, SameAnswers, IsOpen
  <2>6. Streaming(t)
    BY <2>3, <2>5 DEF Core, Streaming, SameAnswers, SameRequests, IsOpen, IsStarted
  <2> QED
    BY <2>2, <2>3, <2>4, <2>6 DEF Core, Scheduled
<1> QED
  BY <1>1, <1>2

\* What is sent keeps step with the pipeline.
LEMMA AddKeeps ==
  ASSUME NEW s, Core(s), NEW t, t = AddToWritePipeline(s, Retrieved(s))
  PROVE  /\ Core(t) /\ Full(t) /\ SameRequests(s, t) /\ SameAnswers(s, t)
         /\ IsPrefixOf(s.pipeline, t.pipeline)
         /\ t.networkEnabled = s.networkEnabled
         /\ t.handshakeComplete = s.handshakeComplete /\ t.stream = s.stream
         /\ (Scheduled(s) => Scheduled(t))
<1>1. s \in Client /\ Stored(s) /\ Pipelined(s) /\ Streaming(s)
  BY DEF Core
<1>2. PICK r : r = Retrieved(s)
  OBVIOUS
<1>3. PICK p : p = s.pipeline \o r
  OBVIOUS
<1>4. /\ r \in Queue /\ p \in Queue
      /\ IsPrefixOf(p, s.queues[s.user]) /\ IsPrefixOf(s.pipeline, p)
      /\ Len(p) =< kMaxPendingWrites
      /\ ~s.networkEnabled => p = <<>>
      /\ s.networkEnabled =>
           \/ Len(p) = Len(s.queues[s.user])
           \/ Len(p) = kMaxPendingWrites /\ kMaxPendingWrites =< Len(s.queues[s.user])
  BY <1>1, <1>2, <1>3, RetrievedFits
<1>5. /\ t \in Client /\ SameRequests(s, t) /\ SameAnswers(s, t)
      /\ t.networkEnabled = s.networkEnabled /\ t.pipeline = p
      /\ t.handshakeComplete = s.handshakeComplete /\ t.aborted = s.aborted
      /\ t.stream = s.stream /\ t.requests = s.requests
      /\ IF IsOpen(s) /\ s.handshakeComplete /\ r # <<>>
         THEN t.up = s.up \o r /\ t.timers = s.timers \ {"idle"}
         ELSE t.up = s.up /\ t.timers = s.timers
  <2>1. t = AddToWritePipeline(s, r) /\ s.pipeline \o r \in Queue
    BY <1>2, <1>3, <1>4
  <2>2. /\ t \in Client /\ SameRequests(s, t) /\ SameAnswers(s, t)
        /\ t.networkEnabled = s.networkEnabled /\ t.pipeline = s.pipeline \o r
        /\ t.handshakeComplete = s.handshakeComplete /\ t.aborted = s.aborted
        /\ t.stream = s.stream /\ t.requests = s.requests
        /\ IF IsOpen(s) /\ s.handshakeComplete /\ r # <<>>
           THEN t.up = s.up \o r /\ t.timers = s.timers \ {"idle"}
           ELSE t.up = s.up /\ t.timers = s.timers
    BY <1>1, <1>4, <2>1, AddFields
  <2> QED
    BY <1>3, <2>2
<1>6. Stored(t) /\ Pipelined(t) /\ Full(t)
  BY <1>1, <1>4, <1>5 DEF Stored, Pipelined, Full, SameRequests
<1>7. Timed(t)
  BY <1>1, <1>5 DEF Streaming, Timed, SameAnswers, IsOpen
<1>8. Flying(t)
  <2>1. CASE s.hello # "done"
    <3>1. t.up = s.up
      BY <1>1, <1>5, <2>1 DEF Streaming
    <3> QED
      BY <1>1, <1>5, <2>1, <3>1 DEF Streaming, Flying, SameAnswers
  <2>2. CASE s.hello = "done" /\ s.status # None
    <3>1. IsPrefixOf(s.down, s.pipeline) /\ s.down \in Queue /\ s.pipeline \in Queue
      BY <1>1, <2>2 DEF Streaming, Flying, Client
    <3>2. IsPrefixOf(s.down, p)
      BY <1>4, <3>1, PrefixTransitive
    <3> QED
      BY <1>5, <2>2, <3>2 DEF Flying, SameAnswers
  <2>3. CASE s.hello = "done" /\ s.status = None
    <3>1. s.down \o s.up = s.pipeline /\ IsOpen(s) /\ s.handshakeComplete
      BY <1>1, <2>3 DEF Streaming, Flying, Timed
    <3>2. s.down \in Seq(Batch) /\ s.up \in Seq(Batch) /\ r \in Seq(Batch)
      BY <1>1, <1>4 DEF Client, Queue
    <3>3. s.down \o (s.up \o r) = p
      <4>1. PICK d \in Seq(Batch), u \in Seq(Batch) : d = s.down /\ u = s.up
        BY <3>2
      <4>2. (d \o u) \o r = d \o (u \o r)
        BY <3>2, Regroup
      <4>3. p = (d \o u) \o r
        BY <1>3, <3>1, <4>1
      <4> QED
        BY <4>1, <4>2, <4>3
    <3>4. t.up = s.up \o r
      BY <1>5, <3>1, <3>2, ConcatEmptySeq
    <3> QED
      BY <1>5, <2>3, <3>3, <3>4 DEF Flying, SameAnswers
  <2> QED
    BY <2>1, <2>2, <2>3
<1>9. p = <<>> => s.pipeline = <<>>
  <2>1. s.pipeline \in Queue /\ p \in Queue
    BY <1>1, <1>4 DEF Client
  <2> QED
    BY <1>4, <2>1, PrefixFacts
<1>10. "idle" \in t.timers => t.pipeline = <<>>
  <2>1. ASSUME "idle" \in t.timers
        PROVE  p = <<>>
    <3>1. ~(IsOpen(s) /\ s.handshakeComplete /\ r # <<>>) /\ "idle" \in s.timers
      BY <1>5, <2>1
    <3>2. s.pipeline = <<>> /\ s.pipeline \in Seq(Batch)
      BY <1>1, <3>1 DEF Streaming, Client, Queue
    <3>3. r = <<>>
      BY <1>1, <3>1, <3>2 DEF Streaming, Timed, IsStarted, IsOpen
    <3> QED
      BY <1>3, <3>2, <3>3, ConcatEmptySeq
  <2> QED
    BY <1>5, <2>1
<1>11. Streaming(t)
  BY <1>1, <1>5, <1>7, <1>8, <1>9, <1>10
     DEF Streaming, SameAnswers, SameRequests, IsOpen, IsStarted
<1>12. Scheduled(s) => Scheduled(t)
  BY <1>5 DEF Scheduled
<1> QED
  BY <1>1, <1>4, <1>5, <1>6, <1>11, <1>12 DEF Core

\* FillWritePipeline keeps the invariant, and fills the pipeline.
LEMMA FillKeeps ==
  ASSUME NEW s, Core(s), NEW t, t = FillWritePipeline(s)
  PROVE  /\ Core(t) /\ Full(t) /\ SameRequests(s, t) /\ SameAnswers(s, t)
         /\ IsPrefixOf(s.pipeline, t.pipeline)
         /\ t.networkEnabled = s.networkEnabled
         /\ t.handshakeComplete = s.handshakeComplete /\ (IsOpen(t) <=> IsOpen(s))
         /\ Awake(t) /\ (Scheduled(s) => Scheduled(t))
<1>1. PICK a : a = AddToWritePipeline(s, Retrieved(s))
  OBVIOUS
<1>2. /\ Core(a) /\ Full(a) /\ SameRequests(s, a) /\ SameAnswers(s, a)
      /\ IsPrefixOf(s.pipeline, a.pipeline)
      /\ a.networkEnabled = s.networkEnabled
      /\ a.handshakeComplete = s.handshakeComplete /\ a.stream = s.stream
      /\ (Scheduled(s) => Scheduled(a))
  BY <1>1, AddKeeps
<1>3. PICK b : b = IF CanUseNetwork(s) /\ a.pipeline = <<>> THEN MarkIdle(a) ELSE a
  OBVIOUS
<1>4. /\ Core(b) /\ SameRequests(a, b) /\ SameAnswers(a, b)
      /\ b.networkEnabled = a.networkEnabled /\ b.pipeline = a.pipeline
      /\ b.handshakeComplete = a.handshakeComplete /\ b.stream = a.stream
      /\ (Scheduled(a) => Scheduled(b))
  <2>1. CASE CanUseNetwork(s) /\ a.pipeline = <<>>
    BY <1>2, <1>3, <2>1, MarkIdleKeeps
  <2>2. CASE ~(CanUseNetwork(s) /\ a.pipeline = <<>>)
    BY <1>2, <1>3, <2>2 DEF SameRequests, SameAnswers
  <2> QED
    BY <2>1, <2>2
<1>5. t = StartIfNeeded(b)
  BY <1>1, <1>3 DEF FillWritePipeline
<1>6. /\ Core(t) /\ SameRequests(b, t) /\ SameAnswers(b, t)
      /\ t.networkEnabled = b.networkEnabled /\ t.pipeline = b.pipeline
      /\ t.handshakeComplete = b.handshakeComplete /\ (IsOpen(t) <=> IsOpen(b))
      /\ Awake(t) /\ (Scheduled(b) => Scheduled(t))
  BY <1>4, <1>5, StartKeeps
<1> QED
  BY <1>2, <1>4, <1>6 DEF SameRequests, SameAnswers, Full, IsOpen

-----------------------------------------------------------------------------
\* NotifyUser calls the completion of a batch and erases it.
LEMMA NotifyFields ==
  ASSUME NEW s \in Client, NEW id, NEW outcome \in {"ok", "error"},
         NEW t, t = NotifyUser(s, id, outcome)
  PROVE  /\ t \in Client /\ SameNetwork(s, t)
         /\ t.user = s.user /\ t.nextBatchId = s.nextBatchId /\ t.queues = s.queues
         /\ t.callbacks = s.callbacks \ Callbacks(s.callbacks, s.user, id)
         /\ t.told = Told(s.told, s.callbacks, s.user, id, outcome)
         /\ t.pending = s.pending /\ t.waiterTold = s.waiterTold
<1>1. PICK found : found = Callbacks(s.callbacks, s.user, id)
  OBVIOUS
<1>2. PICK told : told = Told(s.told, s.callbacks, s.user, id, outcome)
  OBVIOUS
<1>3. PICK callbacks : callbacks = s.callbacks \ found
  OBVIOUS
<1>4. t = [s EXCEPT !.told = told, !.callbacks = callbacks]
  BY <1>1, <1>2, <1>3 DEF NotifyUser, Told, Callbacks
<1>5. told \in [Writes -> {"none", "ok", "error"}] /\ callbacks \in SUBSET Callback
  <2>1. s.told \in [Writes -> {"none", "ok", "error"}] /\ s.callbacks \in SUBSET Callback
    BY DEF Client
  <2> QED
    BY <1>2, <1>3, <2>1 DEF Told
<1>6. t \in Client
  <2>1. PICK a : a = [s EXCEPT !.told = told]
    OBVIOUS
  <2>2. a \in Client
    BY <1>5, <2>1 DEF Client
  <2>3. t = [a EXCEPT !.callbacks = callbacks]
    BY <1>4, <2>1
  <2> QED
    BY <1>5, <2>2, <2>3 DEF Client
<1>7. /\ SameNetwork(s, t) /\ t.user = s.user /\ t.nextBatchId = s.nextBatchId
      /\ t.queues = s.queues /\ t.callbacks = callbacks /\ t.told = told
      /\ t.pending = s.pending /\ t.waiterTold = s.waiterTold
  BY <1>4 DEF Client, SameNetwork, SameStream, SameAnswers
<1> QED
  BY <1>1, <1>2, <1>3, <1>6, <1>7

\* TriggerPendingWriteCallbacks tells those who wait for a batch.
LEMMA TriggerFields ==
  ASSUME NEW s \in Client, NEW id, NEW t, t = TriggerPendingWriteCallbacks(s, id)
  PROVE  /\ t \in Client /\ SameNetwork(s, t)
         /\ t.user = s.user /\ t.nextBatchId = s.nextBatchId /\ t.queues = s.queues
         /\ t.callbacks = s.callbacks /\ t.told = s.told
         /\ t.pending = s.pending \ Awaiting(s.pending, id)
         /\ t.waiterTold = WaiterTold(s.waiterTold, s.pending, id)
<1>1. PICK found : found = Awaiting(s.pending, id)
  OBVIOUS
<1>2. PICK told : told = WaiterTold(s.waiterTold, s.pending, id)
  OBVIOUS
<1>3. PICK pending : pending = s.pending \ found
  OBVIOUS
<1>4. t = [s EXCEPT !.waiterTold = told, !.pending = pending]
  BY <1>1, <1>2, <1>3 DEF TriggerPendingWriteCallbacks, WaiterTold, Awaiting
<1>5. /\ told \in [Waiters -> {"none", "ok", "cancelled"}]
      /\ pending \in SUBSET [waiter : Waiters, id : Nat]
  <2>1. /\ s.waiterTold \in [Waiters -> {"none", "ok", "cancelled"}]
        /\ s.pending \in SUBSET [waiter : Waiters, id : Nat]
    BY DEF Client
  <2> QED
    BY <1>2, <1>3, <2>1 DEF WaiterTold
<1>6. t \in Client
  <2>1. PICK a : a = [s EXCEPT !.waiterTold = told]
    OBVIOUS
  <2>2. a \in Client
    BY <1>5, <2>1 DEF Client
  <2>3. t = [a EXCEPT !.pending = pending]
    BY <1>4, <2>1
  <2> QED
    BY <1>5, <2>2, <2>3 DEF Client
<1>7. /\ SameNetwork(s, t) /\ t.user = s.user /\ t.nextBatchId = s.nextBatchId
      /\ t.queues = s.queues /\ t.callbacks = s.callbacks /\ t.told = s.told
      /\ t.pending = pending /\ t.waiterTold = told
  BY <1>4 DEF Client, SameNetwork, SameStream, SameAnswers
<1> QED
  BY <1>1, <1>2, <1>3, <1>6, <1>7

\* RemoveMutationBatch takes the head off the queue.
LEMMA RemoveFields ==
  ASSUME NEW s \in Client, Stored(s), s.queues[s.user] # <<>>,
         NEW t, t = RemoveMutationBatch(s, Head(s.queues[s.user]).id)
  PROVE  /\ t \in Client /\ SameNetwork(s, t)
         /\ t.user = s.user /\ t.nextBatchId = s.nextBatchId
         /\ t.queues = [s.queues EXCEPT ![s.user] = Tail(@)]
         /\ t.callbacks = s.callbacks /\ t.told = s.told
         /\ t.pending = s.pending /\ t.waiterTold = s.waiterTold
<1>1. t = [s EXCEPT !.queues[s.user] = Tail(@)]
  BY HeadRemoved
<1>2. PICK queues : queues = [s.queues EXCEPT ![s.user] = Tail(@)]
  OBVIOUS
<1>3. t = [s EXCEPT !.queues = queues]
  BY <1>1, <1>2
<1>4. queues \in [Users -> Queue]
  <2>1. s.queues \in [Users -> Queue] /\ s.user \in Users
    BY DEF Client
  <2>2. Tail(s.queues[s.user]) \in Queue
    BY <2>1, HeadTailProperties DEF Queue
  <2> QED
    BY <1>2, <2>1, <2>2
<1>5. s \in Client
  OBVIOUS
<1>6. t \in Client
  BY <1>3, <1>4, <1>5 DEF Client
<1>7. SameNetwork(s, t)
  BY <1>3, <1>5 DEF Client, SameNetwork, SameStream, SameAnswers
<1>8. /\ t.user = s.user /\ t.nextBatchId = s.nextBatchId /\ t.queues = queues
      /\ t.callbacks = s.callbacks /\ t.told = s.told
      /\ t.pending = s.pending /\ t.waiterTold = s.waiterTold
  BY <1>3, <1>5 DEF Client
<1> QED
  BY <1>2, <1>6, <1>7, <1>8

\* What leaves the network alone twice leaves it alone.
LEMMA SameNetworkChains ==
  ASSUME NEW a, NEW b, NEW c, SameNetwork(a, b), SameNetwork(b, c)
  PROVE  SameNetwork(a, c)
<1>1. SameStream(a, c)
  BY DEF SameNetwork, SameStream
<1>2. SameAnswers(a, c)
  BY DEF SameNetwork, SameAnswers
<1> QED
  BY <1>1, <1>2 DEF SameNetwork

\* HandleSuccessfulWrite, at the head of the queue.
LEMMA SuccessFields ==
  ASSUME NEW s \in Client, Stored(s), s.queues[s.user] # <<>>,
         NEW id, id = Head(s.queues[s.user]).id, NEW t, t = HandleSuccessfulWrite(s, id)
  PROVE  t \in Client /\ SameNetwork(s, t) /\ Answered(s, t, id, "ok")
<1>1. PICK a : a = NotifyUser(s, id, "ok")
  OBVIOUS
<1>2. PICK b : b = TriggerPendingWriteCallbacks(a, id)
  OBVIOUS
<1>3. t = RemoveMutationBatch(b, id)
  BY <1>1, <1>2 DEF HandleSuccessfulWrite
<1>4. /\ a \in Client /\ SameNetwork(s, a)
      /\ a.user = s.user /\ a.nextBatchId = s.nextBatchId /\ a.queues = s.queues
      /\ a.callbacks = s.callbacks \ Callbacks(s.callbacks, s.user, id)
      /\ a.told = Told(s.told, s.callbacks, s.user, id, "ok")
      /\ a.pending = s.pending /\ a.waiterTold = s.waiterTold
  BY <1>1, NotifyFields
<1>5. /\ b \in Client /\ SameNetwork(a, b)
      /\ b.user = a.user /\ b.nextBatchId = a.nextBatchId /\ b.queues = a.queues
      /\ b.callbacks = a.callbacks /\ b.told = a.told
      /\ b.pending = a.pending \ Awaiting(a.pending, id)
      /\ b.waiterTold = WaiterTold(a.waiterTold, a.pending, id)
  <2>1. a \in Client
    BY <1>4
  <2> QED
    BY <1>2, <2>1, TriggerFields
<1>6. Stored(b) /\ b.queues[b.user] # <<>> /\ id = Head(b.queues[b.user]).id
  BY <1>4, <1>5 DEF Stored
<1>7. /\ t \in Client /\ SameNetwork(b, t)
      /\ t.user = b.user /\ t.nextBatchId = b.nextBatchId
      /\ t.queues = [b.queues EXCEPT ![b.user] = Tail(@)]
      /\ t.callbacks = b.callbacks /\ t.told = b.told
      /\ t.pending = b.pending /\ t.waiterTold = b.waiterTold
  <2>1. b \in Client
    BY <1>5
  <2>2. t = RemoveMutationBatch(b, Head(b.queues[b.user]).id)
    BY <1>3, <1>6
  <2> QED
    BY <1>6, <2>1, <2>2, RemoveFields
<1>8. SameNetwork(s, t)
  <2>1. SameNetwork(s, a) /\ SameNetwork(a, b) /\ SameNetwork(b, t)
    BY <1>4, <1>5, <1>7
  <2>2. SameNetwork(s, b)
    BY <2>1, SameNetworkChains
  <2> QED
    BY <2>1, <2>2, SameNetworkChains
<1>9. Answered(s, t, id, "ok")
  BY <1>4, <1>5, <1>7 DEF Answered
<1> QED
  BY <1>7, <1>8, <1>9

\* HandleRejectedWrite, at the head of the queue.
LEMMA RejectedFields ==
  ASSUME NEW s \in Client, Stored(s), s.queues[s.user] # <<>>,
         NEW id, id = Head(s.queues[s.user]).id, NEW t, t = HandleRejectedWrite(s, id)
  PROVE  t \in Client /\ SameNetwork(s, t) /\ Answered(s, t, id, "error")
<1>1. PICK a : a = RemoveMutationBatch(s, id)
  OBVIOUS
<1>2. PICK b : b = NotifyUser(a, id, "error")
  OBVIOUS
<1>3. t = TriggerPendingWriteCallbacks(b, id)
  BY <1>1, <1>2 DEF HandleRejectedWrite
<1>4. /\ a \in Client /\ SameNetwork(s, a)
      /\ a.user = s.user /\ a.nextBatchId = s.nextBatchId
      /\ a.queues = [s.queues EXCEPT ![s.user] = Tail(@)]
      /\ a.callbacks = s.callbacks /\ a.told = s.told
      /\ a.pending = s.pending /\ a.waiterTold = s.waiterTold
  <2>1. a = RemoveMutationBatch(s, Head(s.queues[s.user]).id)
    BY <1>1
  <2> QED
    BY <2>1, RemoveFields
<1>5. /\ b \in Client /\ SameNetwork(a, b)
      /\ b.user = a.user /\ b.nextBatchId = a.nextBatchId /\ b.queues = a.queues
      /\ b.callbacks = a.callbacks \ Callbacks(a.callbacks, a.user, id)
      /\ b.told = Told(a.told, a.callbacks, a.user, id, "error")
      /\ b.pending = a.pending /\ b.waiterTold = a.waiterTold
  BY <1>2, <1>4, NotifyFields
<1>6. /\ t \in Client /\ SameNetwork(b, t)
      /\ t.user = b.user /\ t.nextBatchId = b.nextBatchId /\ t.queues = b.queues
      /\ t.callbacks = b.callbacks /\ t.told = b.told
      /\ t.pending = b.pending \ Awaiting(b.pending, id)
      /\ t.waiterTold = WaiterTold(b.waiterTold, b.pending, id)
  <2>1. b \in Client
    BY <1>5
  <2> QED
    BY <1>3, <2>1, TriggerFields
<1>7. SameNetwork(s, t)
  <2>1. SameNetwork(s, a) /\ SameNetwork(a, b) /\ SameNetwork(b, t)
    BY <1>4, <1>5, <1>6
  <2>2. SameNetwork(s, b)
    BY <2>1, SameNetworkChains
  <2> QED
    BY <2>1, <2>2, SameNetworkChains
<1>8. Answered(s, t, id, "error")
  BY <1>4, <1>5, <1>6 DEF Answered
<1> QED
  BY <1>6, <1>7, <1>8

\* Queue and pipeline lose the same batch.
LEMMA AnsweredKeeps ==
  ASSUME NEW s, Core(s), s.pipeline # <<>>,
         NEW t \in Client, NEW id, NEW outcome, Answered(s, t, id, outcome),
         t.pipeline = Tail(s.pipeline), t.networkEnabled = s.networkEnabled
  PROVE  Stored(t) /\ Pipelined(t)
<1>1. /\ s \in Client /\ Stored(s) /\ Pipelined(s)
      /\ t.user = s.user /\ t.nextBatchId = s.nextBatchId
      /\ t.queues = [s.queues EXCEPT ![s.user] = Tail(@)]
  BY DEF Core, Answered
<1>2. /\ s.queues \in [Users -> Queue] /\ s.user \in Users /\ s.pipeline \in Queue
      /\ t.pipeline \in Queue
  BY <1>1 DEF Client
<1>3. PICK q \in Queue : q = s.queues[s.user]
  BY <1>2
<1>4. q # <<>> /\ IsPrefixOf(t.pipeline, Tail(q))
  BY <1>1, <1>2, <1>3, PrefixFacts DEF Pipelined
<1>5. /\ Len(q) \in Nat /\ Len(Tail(q)) = Len(q) - 1
      /\ \A i \in 1..Len(Tail(q)) : i + 1 \in 1..Len(q) /\ Tail(q)[i] = q[i + 1]
  <2>1. /\ Len(q) \in Nat /\ Len(Tail(q)) = Len(q) - 1
        /\ \A i \in 1..Len(Tail(q)) : Tail(q)[i] = q[i + 1]
    BY <1>4, HeadTailProperties, LenProperties DEF Queue
  <2> QED
    BY <2>1
<1>6. ASSUME NEW u \in Users
      PROVE  /\ \A i \in 1..Len(t.queues[u]) :
                  1 =< t.queues[u][i].id /\ t.queues[u][i].id < t.nextBatchId
             /\ \A i, j \in 1..Len(t.queues[u]) : i < j => t.queues[u][i].id < t.queues[u][j].id
  <2>1. CASE u # s.user
    <3>1. t.queues[u] = s.queues[u]
      BY <1>1, <1>2, <2>1
    <3> QED
      BY <1>1, <3>1 DEF Stored
  <2>2. CASE u = s.user
    <3>1. t.queues[u] = Tail(q)
      BY <1>1, <1>2, <1>3, <2>2
    <3>2. \A i \in 1..Len(Tail(q)) : 1 =< q[i + 1].id /\ q[i + 1].id < t.nextBatchId
      BY <1>1, <1>3, <1>5, <2>2 DEF Stored
    <3>3. \A i, j \in 1..Len(Tail(q)) : i < j => q[i + 1].id < q[j + 1].id
      <4>1. \A i, j \in 1..Len(Tail(q)) : i < j => i + 1 < j + 1
        OBVIOUS
      <4> QED
        BY <1>1, <1>3, <1>5, <2>2, <4>1 DEF Stored
    <3> QED
      BY <1>5, <3>1, <3>2, <3>3
  <2> QED
    BY <2>1, <2>2
<1>7. Pipelined(t)
  <2>1. t.queues[t.user] = Tail(q)
    BY <1>1, <1>2, <1>3
  <2>2. Len(t.pipeline) =< kMaxPendingWrites
    <3>1. Len(t.pipeline) = Len(s.pipeline) - 1 /\ Len(s.pipeline) \in Nat
      BY <1>2, HeadTailProperties, LenProperties DEF Queue
    <3> QED
      BY <1>1, <3>1, ConstantsAssumption DEF Pipelined
  <2>3. t.networkEnabled
    BY <1>1 DEF Pipelined
  <2> QED
    BY <1>4, <2>1, <2>2, <2>3 DEF Pipelined
<1> QED
  BY <1>1, <1>6, <1>7 DEF Stored
-----------------------------------------------------------------------------
\* The head of a sequence is that of its first part.
LEMMA TailConcat ==
  ASSUME NEW S, NEW a \in Seq(S), NEW b \in Seq(S), a # <<>>
  PROVE  a \o b # <<>> /\ Head(a \o b) = Head(a) /\ Tail(a \o b) = Tail(a) \o b
<1>1. /\ Len(a) \in Nat \ {0} /\ Len(b) \in Nat
      /\ Tail(a) \in Seq(S) /\ Len(Tail(a)) = Len(a) - 1
      /\ \A i \in 1..Len(Tail(a)) : Tail(a)[i] = a[i + 1]
  BY EmptySeq, LenProperties, HeadTailProperties
<1>2. /\ a \o b \in Seq(S) /\ Len(a \o b) = Len(a) + Len(b)
      /\ \A i \in 1..(Len(a) + Len(b)) :
           (a \o b)[i] = IF i <= Len(a) THEN a[i] ELSE b[i - Len(a)]
  BY ConcatProperties
<1>3. a \o b # <<>>
  BY <1>1, <1>2, EmptySeq
<1>4. /\ Tail(a \o b) \in Seq(S) /\ Len(Tail(a \o b)) = Len(a) + Len(b) - 1
      /\ \A i \in 1..Len(Tail(a \o b)) : Tail(a \o b)[i] = (a \o b)[i + 1]
  BY <1>2, <1>3, HeadTailProperties
<1>5. /\ Tail(a) \o b \in Seq(S) /\ Len(Tail(a) \o b) = Len(a) - 1 + Len(b)
      /\ \A i \in 1..(Len(a) - 1 + Len(b)) :
           (Tail(a) \o b)[i] = IF i <= Len(a) - 1 THEN Tail(a)[i] ELSE b[i - (Len(a) - 1)]
  BY <1>1, ConcatProperties
<1>6. ASSUME NEW i \in 1..Len(Tail(a \o b))
      PROVE  Tail(a \o b)[i] = (Tail(a) \o b)[i]
  <2>1. i \in 1..(Len(a) - 1 + Len(b)) /\ i + 1 \in 1..(Len(a) + Len(b))
    BY <1>1, <1>4
  <2>2. CASE i <= Len(a) - 1
    <3>1. i + 1 <= Len(a) /\ i \in 1..Len(Tail(a))
      BY <1>1, <2>1, <2>2
    <3> QED
      BY <1>1, <1>2, <1>4, <1>5, <2>1, <2>2, <3>1
  <2>3. CASE ~(i <= Len(a) - 1)
    <3>1. ~(i + 1 <= Len(a)) /\ i + 1 - Len(a) = i - (Len(a) - 1)
      BY <1>1, <2>1, <2>3
    <3> QED
      BY <1>2, <1>4, <1>5, <2>1, <2>3, <3>1
  <2> QED
    BY <2>2, <2>3
<1>7. Tail(a \o b) = Tail(a) \o b
  <2>1. Len(Tail(a \o b)) = Len(Tail(a) \o b)
    BY <1>1, <1>4, <1>5
  <2> QED
    BY <1>4, <1>5, <1>6, <2>1, SeqEqual
<1>8. Head(a \o b) = Head(a)
  <2>1. Head(a \o b) = (a \o b)[1] /\ Head(a) = a[1]
    BY <1>2, <1>3
  <2>2. 1 \in 1..(Len(a) + Len(b)) /\ 1 <= Len(a)
    BY <1>1
  <2> QED
    BY <1>2, <2>1, <2>2
<1> QED
  BY <1>3, <1>7, <1>8

\* The next answer to be read is about the front of the pipeline.
LEMMA AnswerFitsFront ==
  ASSUME NEW s, Core(s), s.down # <<>>
  PROVE  /\ s.hello = "done" /\ IsOpen(s) /\ s.handshakeComplete /\ s.networkEnabled
         /\ s.pipeline # <<>> /\ Head(s.down) = Head(s.pipeline)
         /\ IF s.status = None THEN Tail(s.down) \o s.up = Tail(s.pipeline)
            ELSE IsPrefixOf(Tail(s.down), Tail(s.pipeline))
<1>1. s.hello = "done"
  BY DEF Core, Streaming, Flying
<1>2. s.down \in Seq(Batch) /\ s.up \in Seq(Batch) /\ s.pipeline \in Seq(Batch)
  BY DEF Core, Client, Queue
<1>3. IsOpen(s) /\ s.handshakeComplete /\ s.networkEnabled
  BY <1>1 DEF Core, Streaming, Timed, IsStarted, IsOpen
<1>4. CASE s.status = None
  <2>1. s.down \o s.up = s.pipeline
    BY <1>1, <1>4 DEF Core, Streaming, Flying
  <2>2. PICK d \in Seq(Batch), u \in Seq(Batch) : d = s.down /\ u = s.up
    BY <1>2
  <2>3. d \o u # <<>> /\ Head(d \o u) = Head(d) /\ Tail(d \o u) = Tail(d) \o u
    BY <2>2, TailConcat
  <2> QED
    BY <1>1, <1>3, <1>4, <2>1, <2>2, <2>3
<1>5. CASE s.status # None
  <2>1. IsPrefixOf(s.down, s.pipeline)
    BY <1>1, <1>5 DEF Core, Streaming, Flying
  <2>2. /\ s.pipeline # <<>> /\ Head(s.down) = Head(s.pipeline)
        /\ IsPrefixOf(Tail(s.down), Tail(s.pipeline))
    BY <1>2, <2>1, PrefixFacts DEF Queue
  <2> QED
    BY <1>1, <1>3, <1>5, <2>2
<1> QED
  BY <1>4, <1>5

\* The front of the pipeline is the head of the queue.
LEMMA FrontIsHead ==
  ASSUME NEW s, Core(s), s.pipeline # <<>>
  PROVE  /\ s.networkEnabled /\ s.queues[s.user] # <<>>
         /\ Head(s.pipeline) = Head(s.queues[s.user])
<1>1. s.pipeline \in Queue /\ s.queues[s.user] \in Queue
  BY DEF Core, Client
<1> QED
  BY <1>1, PrefixFacts DEF Core, Pipelined

\* PopFront.
LEMMA PopFields ==
  ASSUME NEW s \in Client, s.pipeline # <<>>, NEW t, t = PopFront(s)
  PROVE  /\ t \in Client /\ SameRequests(s, t) /\ SameStream(s, t) /\ SameAnswers(s, t)
         /\ t.up = s.up /\ t.networkEnabled = s.networkEnabled /\ t.aborted = s.aborted
         /\ t.pipeline = Tail(s.pipeline)
<1>1. PICK v : v = Tail(s.pipeline)
  OBVIOUS
<1>2. v \in Queue /\ t = [s EXCEPT !.pipeline = v]
  BY <1>1, HeadTailProperties DEF PopFront, Client, Queue
<1>3. t \in Client
  BY <1>2 DEF Client
<1> QED
  BY <1>1, <1>2, <1>3 DEF Client, SameRequests, SameStream, SameAnswers

\* OnStreamRead takes an answer.
ReadFront(s) == [s EXCEPT !.down = Tail(@)]

\* What taking an answer leaves alone.
LEMMA ReadFields ==
  ASSUME NEW s \in Client, s.down # <<>>, NEW t, t = ReadFront(s)
  PROVE  /\ t \in Client /\ SameRequests(s, t) /\ SameStream(s, t)
         /\ t.up = s.up /\ t.networkEnabled = s.networkEnabled /\ t.aborted = s.aborted
         /\ t.pipeline = s.pipeline /\ t.down = Tail(s.down)
         /\ t.hello = s.hello /\ t.status = s.status /\ t.tokenUser = s.tokenUser
<1>1. PICK v : v = Tail(s.down)
  OBVIOUS
<1>2. v \in Queue /\ t = [s EXCEPT !.down = v]
  BY <1>1, HeadTailProperties DEF ReadFront, Client, Queue
<1>3. t \in Client
  BY <1>2 DEF Client
<1> QED
  BY <1>1, <1>2, <1>3 DEF Client, SameRequests, SameStream

\* OnWriteStreamMutationResult: the front of the pipeline is answered.
LEMMA ResultKeeps ==
  ASSUME NEW s, Core(s), s.down # <<>>, NEW a, a = ReadFront(s),
         NEW id, id = Head(s.queues[s.user]).id,
         NEW t, t = OnWriteStreamMutationResult(a)
  PROVE  /\ Core(t) /\ Full(t) /\ Answered(s, t, id, "ok")
         /\ t.networkEnabled = s.networkEnabled
         /\ t.handshakeComplete = s.handshakeComplete /\ IsOpen(t)
         /\ t.hello = s.hello /\ t.down = Tail(s.down)
         /\ t.status = s.status /\ t.tokenUser = s.tokenUser
         /\ IsPrefixOf(Tail(s.pipeline), t.pipeline)
<1>1. s \in Client /\ ~s.aborted /\ Stored(s) /\ Streaming(s)
  BY DEF Core
<1>2. /\ s.hello = "done" /\ IsOpen(s) /\ s.handshakeComplete /\ s.networkEnabled
      /\ s.pipeline # <<>>
      /\ IF s.status = None THEN Tail(s.down) \o s.up = Tail(s.pipeline)
         ELSE IsPrefixOf(Tail(s.down), Tail(s.pipeline))
  BY AnswerFitsFront
<1>3. s.queues[s.user] # <<>> /\ Head(s.pipeline) = Head(s.queues[s.user])
  BY <1>2, FrontIsHead
<1>4. /\ a \in Client /\ SameRequests(s, a) /\ SameStream(s, a)
      /\ a.up = s.up /\ a.networkEnabled = s.networkEnabled /\ a.aborted = s.aborted
      /\ a.pipeline = s.pipeline /\ a.down = Tail(s.down)
      /\ a.hello = s.hello /\ a.status = s.status /\ a.tokenUser = s.tokenUser
  BY <1>1, ReadFields
<1>5. PICK b : b = PopFront(a)
  OBVIOUS
<1>6. /\ b \in Client /\ SameRequests(a, b) /\ SameStream(a, b) /\ SameAnswers(a, b)
      /\ b.up = a.up /\ b.networkEnabled = a.networkEnabled /\ b.aborted = a.aborted
      /\ b.pipeline = Tail(a.pipeline)
  BY <1>2, <1>4, <1>5, PopFields
<1>7. PICK c : c = HandleSuccessfulWrite(b, id)
  OBVIOUS
<1>8. c \in Client /\ SameNetwork(b, c) /\ Answered(b, c, id, "ok")
  <2>1. Stored(b) /\ b.queues[b.user] # <<>> /\ id = Head(b.queues[b.user]).id
    BY <1>1, <1>3, <1>4, <1>6 DEF SameRequests, Stored
  <2> QED
    BY <1>6, <1>7, <2>1, SuccessFields
<1>9. Answered(s, c, id, "ok")
  BY <1>4, <1>6, <1>8 DEF Answered, SameRequests
<1>10. /\ c.pipeline = Tail(s.pipeline) /\ c.networkEnabled = s.networkEnabled
       /\ c.aborted = s.aborted /\ SameStream(s, c) /\ c.up = s.up
       /\ c.down = Tail(s.down) /\ c.hello = s.hello /\ c.status = s.status
       /\ c.tokenUser = s.tokenUser /\ c.user = s.user
  BY <1>4, <1>6, <1>8, <1>9 DEF SameNetwork, SameStream, SameAnswers, Answered
<1>11. Stored(c) /\ Pipelined(c)
  BY <1>2, <1>8, <1>9, <1>10, AnsweredKeeps
<1>12. Streaming(c)
  <2>1. Timed(c)
    BY <1>1, <1>10 DEF Streaming, Timed, SameStream, IsOpen
  <2>2. Flying(c)
    BY <1>2, <1>10 DEF Flying
  <2> QED
    BY <1>1, <1>2, <1>10, <2>1, <2>2 DEF Streaming, SameStream, IsOpen, IsStarted
<1>13. Core(c)
  BY <1>1, <1>8, <1>10, <1>11, <1>12 DEF Core
<1>14. t = FillWritePipeline(c)
  BY <1>2, <1>3, <1>4, <1>5, <1>7 DEF OnWriteStreamMutationResult
<1>15. /\ Core(t) /\ Full(t) /\ SameRequests(c, t) /\ SameAnswers(c, t)
       /\ IsPrefixOf(c.pipeline, t.pipeline)
       /\ t.networkEnabled = c.networkEnabled
       /\ t.handshakeComplete = c.handshakeComplete /\ (IsOpen(t) <=> IsOpen(c))
  BY <1>13, <1>14, FillKeeps
<1>16. Answered(s, t, id, "ok")
  BY <1>9, <1>15 DEF Answered, SameRequests
<1> QED
  BY <1>2, <1>10, <1>15, <1>16 DEF SameAnswers, SameStream, IsOpen
-----------------------------------------------------------------------------
\* InhibitBackoff of a stream that is not started.
LEMMA InhibitFields ==
  ASSUME NEW s \in Client, ~IsStarted(s), NEW t, t = InhibitBackoff(s)
  PROVE  /\ t \in Client /\ SameRequests(s, t) /\ SameAnswers(s, t) /\ t.up = s.up
         /\ t.networkEnabled = s.networkEnabled /\ t.pipeline = s.pipeline
         /\ t.handshakeComplete = s.handshakeComplete /\ t.aborted = s.aborted
         /\ t.stream = "Initial" /\ t.timers = s.timers /\ t.requests = s.requests
<1>1. HardAssert(s, ~IsStarted(s)) = s
  BY AssertHolds DEF IsStarted
<1>2. t = [s EXCEPT !.stream = "Initial"]
  BY <1>1 DEF InhibitBackoff
<1>3. t \in Client
  BY <1>2 DEF Client, Streams
<1> QED
  BY <1>2, <1>3 DEF Client, SameRequests, SameAnswers

\* A call that is not there.
LEMMA NoCall ==
  ASSUME NEW s, Core(s), ~IsOpen(s)
  PROVE  /\ s.hello = "none" /\ s.up = <<>> /\ s.down = <<>> /\ s.status = None
         /\ "idle" \notin s.timers
BY DEF Core, Streaming, Timed, Flying

\* HandleWriteError after a close: the front of the pipeline has failed.
LEMMA RejectKeeps ==
  ASSUME NEW s, Core(s), ~IsStarted(s), s.pipeline # <<>>,
         NEW id, id = Head(s.queues[s.user]).id,
         NEW t, t = HandleWriteError(s, "permissionDenied")
  PROVE  /\ Core(t) /\ Full(t) /\ Answered(s, t, id, "error") /\ ~IsOpen(t)
         /\ t.networkEnabled = s.networkEnabled /\ Going(t)
<1>1. s \in Client /\ ~s.aborted /\ Stored(s) /\ Streaming(s)
  BY DEF Core
<1>2. s.networkEnabled /\ s.queues[s.user] # <<>> /\ Head(s.pipeline) = Head(s.queues[s.user])
  BY FrontIsHead
<1>3. ~IsOpen(s)
  BY DEF IsStarted, IsOpen
<1>4. /\ s.hello = "none" /\ s.up = <<>> /\ s.down = <<>> /\ s.status = None
      /\ "idle" \notin s.timers
  BY <1>3, NoCall
<1>5. PICK a : a = PopFront(s)
  OBVIOUS
<1>6. /\ a \in Client /\ SameRequests(s, a) /\ SameStream(s, a) /\ SameAnswers(s, a)
      /\ a.up = s.up /\ a.networkEnabled = s.networkEnabled /\ a.aborted = s.aborted
      /\ a.pipeline = Tail(s.pipeline)
  BY <1>1, <1>5, PopFields
<1>7. PICK b : b = InhibitBackoff(a)
  OBVIOUS
<1>8. /\ b \in Client /\ SameRequests(a, b) /\ SameAnswers(a, b) /\ b.up = a.up
      /\ b.networkEnabled = a.networkEnabled /\ b.pipeline = a.pipeline
      /\ b.handshakeComplete = a.handshakeComplete /\ b.aborted = a.aborted
      /\ b.stream = "Initial" /\ b.timers = a.timers /\ b.requests = a.requests
  <2>1. ~IsStarted(a)
    BY <1>6 DEF SameStream, IsStarted
  <2> QED
    BY <1>6, <1>7, <2>1, InhibitFields
<1>9. PICK c : c = HandleRejectedWrite(b, id)
  OBVIOUS
<1>10. c \in Client /\ SameNetwork(b, c) /\ Answered(b, c, id, "error")
  <2>1. Stored(b) /\ b.queues[b.user] # <<>> /\ id = Head(b.queues[b.user]).id
    BY <1>1, <1>2, <1>6, <1>8 DEF SameRequests, Stored
  <2> QED
    BY <1>8, <1>9, <2>1, RejectedFields
<1>11. Answered(s, c, id, "error")
  BY <1>6, <1>8, <1>10 DEF Answered, SameRequests
<1>12. /\ c.pipeline = Tail(s.pipeline) /\ c.networkEnabled = s.networkEnabled
       /\ c.aborted = s.aborted /\ c.stream = "Initial" /\ c.timers = s.timers
       /\ c.requests = s.requests /\ c.hello = "none" /\ c.up = <<>> /\ c.down = <<>>
       /\ c.status = None
  BY <1>4, <1>6, <1>8, <1>10 DEF SameNetwork, SameStream, SameAnswers
<1>13. Stored(c) /\ Pipelined(c)
  BY <1>10, <1>11, <1>12, AnsweredKeeps
<1>14. Streaming(c)
  <2>1. ~IsOpen(c) /\ ~IsStarted(c)
    BY <1>12 DEF IsOpen, IsStarted
  <2>2. "backoff" \notin s.timers /\ "live" \notin s.requests
    BY <1>1 DEF Streaming, Timed, IsStarted
  <2>3. Timed(c)
    BY <1>4, <1>12, <2>1, <2>2 DEF Timed
  <2>4. Flying(c)
    BY <1>12 DEF Flying
  <2> QED
    BY <1>4, <1>12, <2>1, <2>3, <2>4 DEF Streaming
<1>15. Core(c)
  BY <1>1, <1>10, <1>12, <1>13, <1>14 DEF Core
<1>16. t = FillWritePipeline(c)
  BY <1>2, <1>5, <1>7, <1>9
     DEF HandleWriteError, IsPermanentWriteError, IsPermanentError
<1>17. /\ Core(t) /\ Full(t) /\ SameRequests(c, t) /\ t.networkEnabled = c.networkEnabled
       /\ (IsOpen(t) <=> IsOpen(c)) /\ Awake(t) /\ (Scheduled(c) => Scheduled(t))
  BY <1>15, <1>16, FillKeeps
<1>18. Answered(s, t, id, "error")
  BY <1>11, <1>17 DEF Answered, SameRequests
<1>19. Going(t)
  BY <1>12, <1>17 DEF Going, Scheduled
<1> QED
  BY <1>12, <1>17, <1>18, <1>19 DEF IsOpen

\* ReleaseCall: nothing of the call is left but an answer about a token.
LEMMA ReleaseFields ==
  ASSUME NEW s \in Client, NEW t, t = ReleaseCall(s)
  PROVE  /\ t \in Client /\ SameRequests(s, t)
         /\ t.networkEnabled = s.networkEnabled /\ t.pipeline = s.pipeline
         /\ t.stream = s.stream /\ t.handshakeComplete = s.handshakeComplete
         /\ t.aborted = s.aborted
         /\ t.timers = {} /\ "live" \notin t.requests
         /\ t.hello = "none" /\ t.up = <<>> /\ t.down = <<>> /\ t.status = None
<1>1. PICK requests : requests = IF s.requests = {} THEN {} ELSE {"stale"}
  OBVIOUS
<1>2. requests \in SUBSET {"live", "stale"} /\ "live" \notin requests
  BY <1>1
<1>3. PICK timers : timers = {}
  OBVIOUS
<1>4. timers \in SUBSET {"backoff", "idle"}
  BY <1>3
<1>5. PICK a : a = [s EXCEPT !.timers = timers]
  OBVIOUS
<1>6. PICK b : b = [a EXCEPT !.requests = requests]
  OBVIOUS
<1>7. PICK empty : empty = <<>>
  OBVIOUS
<1>8. t = [b EXCEPT !.hello = "none", !.up = empty, !.down = empty, !.status = None,
                    !.tokenUser = None]
  BY <1>1, <1>3, <1>5, <1>6, <1>7 DEF ReleaseCall
<1>9. a \in Client
  BY <1>4, <1>5 DEF Client
<1>10. b \in Client
  BY <1>2, <1>6, <1>9 DEF Client
<1>11. empty \in Queue
  BY <1>7, EmptySeq DEF Queue
<1>12. t \in Client
  <2>1. PICK c : c = [b EXCEPT !.hello = "none", !.status = None, !.tokenUser = None]
    OBVIOUS
  <2>2. c \in Client
    BY <1>10, <2>1 DEF Client
  <2>3. PICK d : d = [c EXCEPT !.up = empty]
    OBVIOUS
  <2>4. d \in Client
    BY <1>11, <2>2, <2>3 DEF Client
  <2>5. t = [d EXCEPT !.down = empty]
    BY <1>8, <2>1, <2>3
  <2> QED
    BY <1>11, <2>4, <2>5 DEF Client
<1>13. /\ SameRequests(s, a) /\ a.networkEnabled = s.networkEnabled
       /\ a.pipeline = s.pipeline /\ a.stream = s.stream
       /\ a.handshakeComplete = s.handshakeComplete /\ a.aborted = s.aborted
       /\ a.timers = timers
  BY <1>5 DEF Client, SameRequests
<1>14. /\ SameRequests(a, b) /\ b.networkEnabled = a.networkEnabled
       /\ b.pipeline = a.pipeline /\ b.stream = a.stream
       /\ b.handshakeComplete = a.handshakeComplete /\ b.aborted = a.aborted
       /\ b.timers = a.timers /\ b.requests = requests
  BY <1>6, <1>9 DEF Client, SameRequests
<1>15. /\ SameRequests(b, t) /\ t.networkEnabled = b.networkEnabled
       /\ t.pipeline = b.pipeline /\ t.stream = b.stream
       /\ t.handshakeComplete = b.handshakeComplete /\ t.aborted = b.aborted
       /\ t.timers = b.timers /\ t.requests = b.requests
       /\ t.hello = "none" /\ t.up = empty /\ t.down = empty /\ t.status = None
  BY <1>8, <1>10 DEF Client, SameRequests
<1> QED
  BY <1>2, <1>3, <1>7, <1>12, <1>13, <1>14, <1>15 DEF SameRequests

\* What a user change leaves of the invariant until the stream is restarted.
Loose(s) ==
  /\ s \in Client /\ ~s.aborted /\ Stored(s) /\ Timed(s) /\ Shaken(s)
  /\ ~IsOpen(s) => s.up = <<>> /\ s.down = <<>>

\* Between two tasks a client is at least that.
LEMMA CoreIsLoose ==
  ASSUME NEW s, Core(s), Shaken(s)
  PROVE  Loose(s)
BY NoCall DEF Core, Streaming, Loose

\* The stream after a close, before RemoteStore hears of it.
Closed(s, status) ==
  [ReleaseCall(HardAssert(s, IsStarted(s)))
     EXCEPT !.stream = IF status = "ok" THEN "Initial" ELSE "Error"]

\* Close ends the call and keeps what is asked for.
LEMMA ClosedFields ==
  ASSUME NEW s \in Client, ~s.aborted, Stored(s), IsStarted(s), NEW status,
         NEW t, t = Closed(s, status)
  PROVE  /\ t \in Client /\ SameRequests(s, t) /\ ~t.aborted
         /\ t.networkEnabled = s.networkEnabled /\ t.pipeline = s.pipeline
         /\ t.handshakeComplete = s.handshakeComplete
         /\ t.stream = (IF status = "ok" THEN "Initial" ELSE "Error")
         /\ Stored(t) /\ Timed(t) /\ ~IsStarted(t) /\ t.hello = "none"
         /\ t.up = <<>> /\ t.down = <<>>
         /\ Pipelined(t) => Core(t)
<1>1. HardAssert(s, IsStarted(s)) = s
  BY AssertHolds DEF IsStarted
<1>2. PICK a : a = ReleaseCall(s)
  OBVIOUS
<1>3. /\ a \in Client /\ SameRequests(s, a)
      /\ a.networkEnabled = s.networkEnabled /\ a.pipeline = s.pipeline
      /\ a.stream = s.stream /\ a.handshakeComplete = s.handshakeComplete
      /\ a.aborted = s.aborted
      /\ a.timers = {} /\ "live" \notin a.requests
      /\ a.hello = "none" /\ a.up = <<>> /\ a.down = <<>> /\ a.status = None
  BY <1>2, ReleaseFields
<1>4. PICK stream \in {"Initial", "Error"} :
        stream = (IF status = "ok" THEN "Initial" ELSE "Error")
  OBVIOUS
<1>5. t = [a EXCEPT !.stream = stream]
  BY <1>1, <1>2, <1>4 DEF Closed
<1>6. t \in Client
  BY <1>3, <1>5 DEF Client, Streams
<1>7. /\ SameRequests(a, t) /\ t.networkEnabled = a.networkEnabled
      /\ t.pipeline = a.pipeline /\ t.handshakeComplete = a.handshakeComplete
      /\ t.aborted = a.aborted /\ t.timers = a.timers /\ t.requests = a.requests
      /\ t.hello = a.hello /\ t.up = a.up /\ t.down = a.down /\ t.status = a.status
      /\ t.stream = stream
  BY <1>3, <1>5 DEF Client, SameRequests
<1>8. SameRequests(s, t) /\ Stored(t)
  BY <1>3, <1>7 DEF SameRequests, Stored
<1>9. ~IsStarted(t) /\ ~IsOpen(t)
  BY <1>4, <1>7 DEF IsStarted, IsOpen
<1>10. Timed(t) /\ Flying(t)
  BY <1>3, <1>7, <1>9 DEF Timed, Flying
<1>11. Streaming(t)
  BY <1>3, <1>7, <1>9, <1>10 DEF Streaming
<1> QED
  BY <1>3, <1>4, <1>6, <1>7, <1>8, <1>9, <1>10, <1>11 DEF Core

\* A handshake is over.
LEMMA UnshakenFields ==
  ASSUME NEW s \in Client, NEW t, t = [s EXCEPT !.handshakeComplete = FALSE]
  PROVE  /\ t \in Client /\ SameRequests(s, t) /\ SameAnswers(s, t) /\ t.up = s.up
         /\ t.networkEnabled = s.networkEnabled /\ t.pipeline = s.pipeline
         /\ ~t.handshakeComplete /\ t.aborted = s.aborted
         /\ t.stream = s.stream /\ t.timers = s.timers /\ t.requests = s.requests
<1>1. t \in Client
  BY DEF Client
<1> QED
  BY <1>1 DEF Client, SameRequests, SameAnswers

\* OnWriteStreamClose: at most the front of the pipeline fails, and the stream
\* starts again if there is anything to send.
LEMMA OnCloseKeeps ==
  ASSUME NEW s, Core(s), ~IsStarted(s), Full(s),
         NEW status \in {"ok", "unavailable", "permissionDenied", "aborted"},
         status = "ok" => s.pipeline = <<>>,
         NEW id, id = Head(s.queues[s.user]).id,
         NEW t, t = OnWriteStreamClose(s, status)
  PROVE  /\ Core(t) /\ Full(t) /\ Going(t) /\ ~IsOpen(t) /\ t.networkEnabled = s.networkEnabled
         /\ \/ SameRequests(s, t)
            \/ /\ status = "permissionDenied" /\ s.handshakeComplete
               /\ s.pipeline # <<>> /\ Answered(s, t, id, "error")
<1>1. ~IsOpen(s) /\ s \in Client
  BY DEF IsStarted, IsOpen, Core
<1>2. HardAssert(s, status = "ok" => ~ShouldStartWriteStream(s)) = s
  BY <1>1, AssertHolds DEF ShouldStartWriteStream
<1>3. PICK a : a = IF status # "ok" /\ s.pipeline # <<>> /\ s.handshakeComplete
                   THEN HandleWriteError(s, status) ELSE s
  OBVIOUS
<1>4. t = StartIfNeeded(a)
  BY <1>2, <1>3 DEF OnWriteStreamClose
<1>5. /\ Core(a) /\ Full(a) /\ Scheduled(a) /\ ~IsOpen(a) /\ a.networkEnabled = s.networkEnabled
      /\ \/ SameRequests(s, a)
         \/ /\ status = "permissionDenied" /\ s.handshakeComplete
            /\ s.pipeline # <<>> /\ Answered(s, a, id, "error")
  <2>1. CASE s.pipeline # <<>> /\ s.handshakeComplete /\ status = "permissionDenied"
    <3>1. a = HandleWriteError(s, "permissionDenied")
      BY <1>3, <2>1
    <3>2. /\ Core(a) /\ Full(a) /\ Answered(s, a, id, "error") /\ ~IsOpen(a)
          /\ a.networkEnabled = s.networkEnabled /\ Scheduled(a)
      BY <2>1, <3>1, RejectKeeps DEF Going
    <3> QED
      BY <2>1, <3>2
  <2>2. CASE ~(s.pipeline # <<>> /\ s.handshakeComplete /\ status = "permissionDenied")
    <3>1. a = s
      BY <1>3, <2>2 DEF HandleWriteError, IsPermanentWriteError, IsPermanentError
    <3> QED
      BY <1>1, <3>1, UnstartedIsScheduled DEF SameRequests
  <2> QED
    BY <2>1, <2>2
<1>6. /\ Core(t) /\ SameRequests(a, t) /\ t.networkEnabled = a.networkEnabled
      /\ t.pipeline = a.pipeline /\ (IsOpen(t) <=> IsOpen(a))
      /\ Awake(t) /\ (Scheduled(a) => Scheduled(t))
  BY <1>4, <1>5, StartKeeps
<1>7. Full(t)
  BY <1>5, <1>6 DEF Full, SameRequests
<1> QED
  BY <1>5, <1>6, <1>7 DEF SameRequests, Answered, Going

\* Close, of a stream that is started.
LEMMA CloseKeeps ==
  ASSUME NEW s, Core(s), Full(s), IsStarted(s),
         NEW status \in {"ok", "unavailable", "permissionDenied", "aborted"},
         status = "ok" => s.pipeline = <<>>,
         NEW id, id = Head(s.queues[s.user]).id,
         NEW t, t = Close(s, status)
  PROVE  /\ Steady(t) /\ ~IsOpen(t) /\ t.networkEnabled = s.networkEnabled
         /\ \/ SameRequests(s, t)
            \/ /\ status = "permissionDenied" /\ s.handshakeComplete
               /\ s.pipeline # <<>> /\ Answered(s, t, id, "error")
<1>1. s \in Client /\ ~s.aborted /\ Stored(s) /\ Pipelined(s)
  BY DEF Core
<1>2. PICK a : a = Closed(s, status)
  OBVIOUS
<1>3. /\ a \in Client /\ SameRequests(s, a)
      /\ a.networkEnabled = s.networkEnabled /\ a.pipeline = s.pipeline
      /\ a.handshakeComplete = s.handshakeComplete
  BY <1>1, <1>2, ClosedFields
<1>4. ~IsStarted(a) /\ Core(a) /\ Full(a)
  <2>1. ~IsStarted(a) /\ (Pipelined(a) => Core(a))
    BY <1>1, <1>2, ClosedFields
  <2>2. Pipelined(a) /\ Full(a)
    BY <1>1, <1>3 DEF Pipelined, Full, SameRequests
  <2> QED
    BY <2>1, <2>2
<1>5. PICK b : b = OnWriteStreamClose(a, status)
  OBVIOUS
<1>6. /\ Core(b) /\ Full(b) /\ Going(b) /\ ~IsOpen(b) /\ b.networkEnabled = a.networkEnabled
      /\ \/ SameRequests(a, b)
         \/ /\ status = "permissionDenied" /\ a.handshakeComplete
            /\ a.pipeline # <<>> /\ Answered(a, b, id, "error")
  <2>1. id = Head(a.queues[a.user]).id /\ (status = "ok" => a.pipeline = <<>>)
    BY <1>3 DEF SameRequests
  <2> QED
    BY <1>4, <1>5, <2>1, OnCloseKeeps
<1>7. t = [b EXCEPT !.handshakeComplete = FALSE]
  BY <1>2, <1>5 DEF Close, Closed
<1>8. /\ t \in Client /\ SameRequests(b, t) /\ SameAnswers(b, t) /\ t.up = b.up
      /\ t.networkEnabled = b.networkEnabled /\ t.pipeline = b.pipeline
      /\ ~t.handshakeComplete /\ t.aborted = b.aborted
      /\ t.stream = b.stream /\ t.timers = b.timers /\ t.requests = b.requests
  BY <1>6, <1>7, UnshakenFields DEF Core
<1>9. Stored(t) /\ Pipelined(t) /\ Full(t) /\ Shaken(t) /\ ~IsOpen(t)
  BY <1>6, <1>8 DEF Core, Stored, Pipelined, Full, Shaken, SameRequests, IsOpen
<1>10. Timed(t) /\ Flying(t)
  BY <1>6, <1>8 DEF Core, Streaming, Timed, Flying, SameAnswers, IsOpen
<1>11. Streaming(t)
  BY <1>6, <1>8, <1>9, <1>10 DEF Core, Streaming, SameAnswers, IsOpen, IsStarted
<1>12. \/ SameRequests(s, t)
       \/ /\ status = "permissionDenied" /\ s.handshakeComplete
          /\ s.pipeline # <<>> /\ Answered(s, t, id, "error")
  BY <1>3, <1>6, <1>8 DEF SameRequests, Answered
<1>13. Going(t)
  BY <1>6, <1>8 DEF Going, Scheduled, Awake, IsStarted
<1> QED
  BY <1>3, <1>6, <1>8, <1>9, <1>11, <1>12, <1>13 DEF Steady, Core
-----------------------------------------------------------------------------
\* EnableNetwork fills the pipeline.
LEMMA EnableKeeps ==
  ASSUME NEW s, Core(s), Shaken(s), Scheduled(s), NEW t, t = EnableNetwork(s)
  PROVE  /\ Steady(t) /\ SameRequests(s, t) /\ SameAnswers(s, t)
         /\ IsPrefixOf(s.pipeline, t.pipeline) /\ (IsOpen(t) <=> IsOpen(s))
<1>1. s \in Client
  BY DEF Core
<1>2. PICK a : a = [s EXCEPT !.networkEnabled = TRUE]
  OBVIOUS
<1>3. a \in Client
  BY <1>1, <1>2 DEF Client
<1>4. /\ SameRequests(s, a) /\ SameStream(s, a) /\ SameAnswers(s, a) /\ a.up = s.up
      /\ a.networkEnabled /\ a.pipeline = s.pipeline /\ a.aborted = s.aborted
  BY <1>1, <1>2 DEF Client, SameRequests, SameStream, SameAnswers
<1>5. Stored(a) /\ Pipelined(a)
  BY <1>4 DEF Core, Stored, Pipelined, SameRequests
<1>6. Timed(a) /\ Flying(a)
  BY <1>4 DEF Core, Streaming, Timed, Flying, SameStream, SameAnswers, IsOpen
<1>7. Streaming(a)
  BY <1>4, <1>6
     DEF Core, Streaming, SameRequests, SameStream, SameAnswers, IsOpen, IsStarted
<1>8. Core(a)
  BY <1>3, <1>4, <1>5, <1>7 DEF Core
<1>9. t = FillWritePipeline(a)
  BY <1>2 DEF EnableNetwork
<1>10. /\ Core(t) /\ Full(t) /\ SameRequests(a, t) /\ SameAnswers(a, t)
       /\ IsPrefixOf(a.pipeline, t.pipeline)
       /\ t.handshakeComplete = a.handshakeComplete /\ (IsOpen(t) <=> IsOpen(a))
       /\ Awake(t) /\ (Scheduled(a) => Scheduled(t))
  BY <1>8, <1>9, FillKeeps
<1>11. Going(t)
  BY <1>4, <1>10 DEF Going, Scheduled, SameStream
<1> QED
  BY <1>4, <1>10, <1>11 DEF Steady, Shaken, SameRequests, SameStream, SameAnswers, IsOpen

\* Without a network there is no stream and nothing in the pipeline.
LEMMA UnusedIsCore ==
  ASSUME NEW s \in Client, ~s.aborted, Stored(s), Timed(s), ~IsStarted(s),
         s.up = <<>>, s.down = <<>>, ~s.networkEnabled, s.pipeline = <<>>
  PROVE  Core(s) /\ Full(s)
<1>1. ~IsOpen(s) /\ s.hello = "none"
  BY DEF IsStarted, IsOpen, Timed
<1>2. Flying(s) /\ Streaming(s)
  BY <1>1 DEF Timed, Flying, Streaming
<1>3. s.queues[s.user] \in Queue /\ Len(s.pipeline) = 0
  BY EmptySeq DEF Client
<1>4. Len(s.queues[s.user]) \in Nat
  BY <1>3, LenProperties DEF Queue
<1>5. Pipelined(s)
  BY <1>3, <1>4, ConstantsAssumption DEF Pipelined, IsPrefixOf
<1> QED
  BY <1>2, <1>5 DEF Core, Full

\* DisableNetwork stops the stream, if it is started, and clears the pipeline.
LEMMA DisableKeeps ==
  ASSUME NEW s, Loose(s), NEW t, t = DisableNetwork(s)
  PROVE  /\ Steady(t) /\ SameRequests(s, t)
         /\ ~t.networkEnabled /\ ~IsStarted(t) /\ t.pipeline = <<>>
<1>1. s \in Client /\ ~s.aborted /\ Stored(s) /\ Timed(s) /\ Shaken(s)
  BY DEF Loose
<1>2. PICK a : a = [s EXCEPT !.networkEnabled = FALSE]
  OBVIOUS
<1>3. a \in Client
  BY <1>1, <1>2 DEF Client
<1>4. /\ SameRequests(s, a) /\ SameStream(s, a) /\ SameAnswers(s, a) /\ a.up = s.up
      /\ ~a.networkEnabled /\ a.pipeline = s.pipeline /\ a.aborted = s.aborted
  BY <1>1, <1>2 DEF Client, SameRequests, SameStream, SameAnswers
<1>5. /\ Stored(a) /\ Timed(a) /\ Shaken(a) /\ ~a.aborted
      /\ ~IsOpen(a) => a.up = <<>> /\ a.down = <<>>
  BY <1>1, <1>4 DEF Loose, Stored, Timed, Shaken, IsOpen, SameRequests, SameStream, SameAnswers
<1>6. PICK b : b = Stop(a)
  OBVIOUS
<1>7. /\ b \in Client /\ SameRequests(a, b) /\ ~b.networkEnabled /\ ~b.aborted
      /\ ~IsStarted(b) /\ Stored(b) /\ Timed(b) /\ ~b.handshakeComplete
      /\ b.up = <<>> /\ b.down = <<>>
  <2>1. CASE ~IsStarted(a)
    <3>1. b = a
      BY <1>6, <2>1 DEF Stop, Close
    <3>2. ~IsOpen(a) /\ a.handshakeComplete \in BOOLEAN
      BY <1>3, <2>1 DEF IsStarted, IsOpen, Client
    <3> QED
      BY <1>3, <1>4, <1>5, <2>1, <3>1, <3>2 DEF SameRequests, Shaken
  <2>2. CASE IsStarted(a)
    <3>1. PICK c : c = Closed(a, "ok")
      OBVIOUS
    <3>2. /\ c \in Client /\ SameRequests(a, c) /\ ~c.aborted
          /\ c.networkEnabled = a.networkEnabled
          /\ Stored(c) /\ Timed(c) /\ ~IsStarted(c) /\ c.hello = "none"
          /\ c.up = <<>> /\ c.down = <<>>
      BY <1>3, <1>5, <2>2, <3>1, ClosedFields
    <3>3. ~ShouldStartWriteStream(c)
      BY <1>4, <3>2 DEF ShouldStartWriteStream, CanUseNetwork
    <3>4. OnWriteStreamClose(c, "ok") = c
      <4>1. HardAssert(c, "ok" = "ok" => ~ShouldStartWriteStream(c)) = c
        BY <3>2, <3>3, AssertHolds
      <4> QED
        BY <3>3, <4>1 DEF OnWriteStreamClose, StartIfNeeded
    <3>5. b = [c EXCEPT !.handshakeComplete = FALSE]
      BY <1>6, <2>2, <3>1, <3>4 DEF Stop, Close, Closed
    <3>6. /\ b \in Client /\ SameRequests(c, b) /\ SameAnswers(c, b) /\ b.up = c.up
          /\ b.networkEnabled = c.networkEnabled /\ b.pipeline = c.pipeline
          /\ ~b.handshakeComplete /\ b.aborted = c.aborted
          /\ b.stream = c.stream /\ b.timers = c.timers /\ b.requests = c.requests
      BY <3>2, <3>5, UnshakenFields
    <3>7. ~IsStarted(b) /\ Stored(b) /\ Timed(b)
      BY <3>2, <3>6 DEF Stored, Timed, SameRequests, SameAnswers, IsStarted, IsOpen
    <3> QED
      BY <1>4, <3>2, <3>6, <3>7 DEF SameRequests, SameAnswers
  <2> QED
    BY <2>1, <2>2
<1>8. PICK empty : empty = <<>>
  OBVIOUS
<1>9. empty \in Queue /\ t = [b EXCEPT !.pipeline = empty]
  BY <1>2, <1>6, <1>8, EmptySeq DEF DisableNetwork, Queue
<1>10. t \in Client
  BY <1>7, <1>9 DEF Client
<1>11. /\ SameRequests(b, t) /\ SameStream(b, t) /\ SameAnswers(b, t) /\ t.up = b.up
       /\ t.networkEnabled = b.networkEnabled /\ t.aborted = b.aborted
       /\ t.pipeline = empty
  BY <1>7, <1>9 DEF Client, SameRequests, SameStream, SameAnswers
<1>12. /\ Stored(t) /\ Timed(t) /\ ~IsStarted(t) /\ Shaken(t)
  BY <1>7, <1>11
     DEF Stored, Timed, Shaken, IsStarted, IsOpen, SameRequests, SameStream, SameAnswers
<1>13. t.up = <<>> /\ t.down = <<>> /\ ~t.networkEnabled /\ t.pipeline = <<>> /\ ~t.aborted
  BY <1>7, <1>8, <1>11 DEF SameAnswers
<1>14. Core(t) /\ Full(t)
  BY <1>10, <1>12, <1>13, UnusedIsCore
<1>15. SameRequests(s, t)
  BY <1>4, <1>7, <1>11 DEF SameRequests
<1> QED
  BY <1>12, <1>13, <1>14, <1>15, UnstartedIsScheduled DEF Steady

\* RestartNetwork.
LEMMA RestartKeeps ==
  ASSUME NEW s, Loose(s), NEW t, t = RestartNetwork(s)
  PROVE  Steady(t) /\ SameRequests(s, t) /\ ~IsOpen(t)
<1>1. PICK a : a = DisableNetwork(s)
  OBVIOUS
<1>2. /\ Steady(a) /\ SameRequests(s, a)
      /\ ~a.networkEnabled /\ ~IsStarted(a) /\ a.pipeline = <<>>
  BY <1>1, DisableKeeps
<1>3. PICK b : b = InhibitBackoff(a)
  OBVIOUS
<1>4. /\ b \in Client /\ SameRequests(a, b) /\ SameAnswers(a, b) /\ b.up = a.up
      /\ b.networkEnabled = a.networkEnabled /\ b.pipeline = a.pipeline
      /\ b.handshakeComplete = a.handshakeComplete /\ b.aborted = a.aborted
      /\ b.stream = "Initial" /\ b.timers = a.timers /\ b.requests = a.requests
  BY <1>2, <1>3, InhibitFields DEF Steady, Core
<1>5. ~IsOpen(a) /\ ~IsOpen(b) /\ ~IsStarted(b)
  BY <1>2, <1>4 DEF IsOpen, IsStarted
<1>6. Stored(b) /\ ~b.aborted /\ Shaken(b)
  BY <1>2, <1>4, <1>5 DEF Steady, Core, Stored, Shaken, SameRequests
<1>7. Timed(b)
  BY <1>2, <1>4, <1>5 DEF Steady, Core, Streaming, Timed, SameAnswers, IsStarted, IsOpen
<1>8. b.up = <<>> /\ b.down = <<>>
  BY <1>2, <1>4, <1>5, NoCall DEF Steady, SameAnswers
<1>9. Core(b)
  BY <1>2, <1>4, <1>5, <1>6, <1>7, <1>8, UnusedIsCore
<1>10. t = EnableNetwork(b)
  BY <1>1, <1>3 DEF RestartNetwork
<1>11. Steady(t) /\ SameRequests(b, t) /\ (IsOpen(t) <=> IsOpen(b))
  BY <1>5, <1>6, <1>9, <1>10, EnableKeeps, UnstartedIsScheduled
<1> QED
  BY <1>2, <1>4, <1>5, <1>11 DEF SameRequests
-----------------------------------------------------------------------------
\* A call with nothing to read, or one on which the client has only sent more.
CallGoesOn(s, t) ==
  \/ t.down = <<>> /\ t.status = None
  \/ /\ t.down = s.down /\ t.status = s.status
     /\ t.hello = s.hello \/ (s.hello = "answered" /\ t.hello = "done")
     /\ IsPrefixOf(s.pipeline, t.pipeline)

\* Without an open stream there is nothing to read.
LEMMA CallOver ==
  ASSUME NEW s, NEW t, Core(t), ~IsOpen(t)
  PROVE  CallGoesOn(s, t)
BY NoCall DEF CallGoesOn

\* A queue begins with itself.
LEMMA PrefixOfItself ==
  ASSUME NEW q \in Queue
  PROVE  IsPrefixOf(q, q)
<1>1. Len(q) \in Nat
  BY LenProperties DEF Queue
<1> QED
  BY <1>1 DEF IsPrefixOf

\* EnableNetwork fills the pipeline, and the call goes on.
LEMMA NetworkEnabledStep ==
  ASSUME Steady(client), NetworkEnabled
  PROVE  Steady(client') /\ SameRequests(client, client') /\ CallGoesOn(client, client')
<1>1. client' = EnableNetwork(client)
  BY DEF NetworkEnabled, Task
<1>2. /\ Steady(client') /\ SameRequests(client, client') /\ SameAnswers(client, client')
      /\ IsPrefixOf(client.pipeline, client'.pipeline)
  BY <1>1, EnableKeeps DEF Steady, Going
<1> QED
  BY <1>2 DEF SameAnswers, CallGoesOn

\* DisableNetwork ends the call.
LEMMA NetworkDisabledStep ==
  ASSUME Steady(client), NetworkDisabled
  PROVE  Steady(client') /\ SameRequests(client, client') /\ CallGoesOn(client, client')
<1>1. client' = DisableNetwork(client)
  BY DEF NetworkDisabled, Task
<1>2. Loose(client)
  BY CoreIsLoose DEF Steady
<1>3. Steady(client') /\ SameRequests(client, client') /\ ~IsStarted(client')
  BY <1>1, <1>2, DisableKeeps
<1>4. CallGoesOn(client, client')
  BY <1>3, CallOver DEF Steady, IsStarted, IsOpen
<1> QED
  BY <1>3, <1>4

\* GrpcConnection finishes the call before RemoteStore restarts the stream.
LEMMA ConnectivityChangedStep ==
  ASSUME Steady(client), NEW available, ConnectivityChanged(available)
  PROVE  Steady(client') /\ SameRequests(client, client') /\ CallGoesOn(client, client')
<1>1. PICK a : a = FinishCalls(client)
  OBVIOUS
<1>2. Steady(a) /\ SameRequests(client, a) /\ ~IsOpen(a)
  <2>1. CASE client.hello = "none"
    <3>1. a = client
      BY <1>1, <2>1 DEF FinishCalls
    <3> QED
      BY <2>1, <3>1 DEF Steady, Core, Streaming, Timed, SameRequests
  <2>2. CASE client.hello # "none"
    <3>1. a = Close(client, "unavailable")
      BY <1>1, <2>2 DEF FinishCalls
    <3>2. IsStarted(client) /\ Core(client) /\ Full(client)
      BY <2>2 DEF Steady, Core, Streaming, Timed, IsOpen, IsStarted
    <3> QED
      BY <3>1, <3>2, CloseKeeps
  <2> QED
    BY <2>1, <2>2
<1>3. client' = IF available /\ CanUseNetwork(a) THEN RestartNetwork(a) ELSE a
  BY <1>1 DEF ConnectivityChanged, Task
<1>4. Steady(client') /\ SameRequests(a, client') /\ ~IsOpen(client')
  <2>1. CASE available /\ CanUseNetwork(a)
    <3>1. client' = RestartNetwork(a)
      BY <1>3, <2>1
    <3>2. Loose(a)
      BY <1>2, CoreIsLoose DEF Steady
    <3> QED
      BY <3>1, <3>2, RestartKeeps
  <2>2. CASE ~(available /\ CanUseNetwork(a))
    BY <1>2, <1>3, <2>2 DEF SameRequests
  <2> QED
    BY <2>1, <2>2
<1>5. CallGoesOn(client, client')
  BY <1>4, CallOver DEF Steady
<1> QED
  BY <1>2, <1>4, <1>5 DEF SameRequests

\* The idle timer closes a stream that has nothing to send.
LEMMA IdleTimeoutStep ==
  ASSUME Steady(client), IdleTimeout
  PROVE  Steady(client') /\ SameRequests(client, client') /\ CallGoesOn(client, client')
<1>1. PICK timers : timers = client.timers \ {"idle"}
  OBVIOUS
<1>2. PICK a : a = [client EXCEPT !.timers = timers]
  OBVIOUS
<1>3. client \in Client /\ client.pipeline = <<>> /\ IsOpen(client)
  BY DEF IdleTimeout, Steady, Core, Streaming, Timed
<1>4. timers \in SUBSET {"backoff", "idle"}
  BY <1>1, <1>3 DEF Client
<1>5. a \in Client
  BY <1>2, <1>3, <1>4 DEF Client
<1>6. /\ SameRequests(client, a) /\ SameAnswers(client, a) /\ a.up = client.up
      /\ a.networkEnabled = client.networkEnabled /\ a.pipeline = client.pipeline
      /\ a.handshakeComplete = client.handshakeComplete /\ a.aborted = client.aborted
      /\ a.stream = client.stream /\ a.timers = timers /\ a.requests = client.requests
  BY <1>2, <1>3 DEF Client, SameRequests, SameAnswers
<1>7. Stored(a) /\ Pipelined(a) /\ Full(a)
  BY <1>6 DEF Steady, Core, Stored, Pipelined, Full, SameRequests
<1>8. Timed(a) /\ Flying(a)
  BY <1>1, <1>6 DEF Steady, Core, Streaming, Timed, Flying, SameAnswers, IsOpen
<1>9. Streaming(a) /\ IsStarted(a)
  BY <1>3, <1>6, <1>8
     DEF Steady, Core, Streaming, SameRequests, SameAnswers, IsOpen, IsStarted
<1>10. Core(a)
  BY <1>5, <1>6, <1>7, <1>9 DEF Steady, Core
<1>11. client' = Close(a, "ok")
  BY <1>1, <1>2 DEF IdleTimeout, Task, Stop
<1>12. Steady(client') /\ ~IsOpen(client') /\ SameRequests(a, client')
  BY <1>3, <1>6, <1>7, <1>9, <1>10, <1>11, CloseKeeps
<1>13. CallGoesOn(client, client')
  BY <1>12, CallOver DEF Steady
<1> QED
  BY <1>6, <1>12, <1>13 DEF SameRequests

\* After the backoff the stream asks for a token.
LEMMA BackoffElapsedStep ==
  ASSUME Steady(client), BackoffElapsed
  PROVE  Steady(client') /\ SameRequests(client, client') /\ CallGoesOn(client, client')
<1>1. client \in Client /\ client.stream = "Backoff" /\ ~client.aborted
  BY DEF BackoffElapsed, Steady, Core, Streaming, Timed
<1>2. HardAssert(client, client.stream = "Backoff") = client
  BY <1>1, AssertHolds
<1>3. PICK timers : timers = client.timers \ {"backoff"}
  OBVIOUS
<1>4. timers \in SUBSET {"backoff", "idle"}
  BY <1>1, <1>3 DEF Client
<1>5. PICK a : a = [client EXCEPT !.timers = timers]
  OBVIOUS
<1>6. a \in Client
  BY <1>1, <1>4, <1>5 DEF Client
<1>7. /\ SameRequests(client, a) /\ SameAnswers(client, a) /\ a.up = client.up
      /\ a.networkEnabled = client.networkEnabled /\ a.pipeline = client.pipeline
      /\ a.handshakeComplete = client.handshakeComplete /\ a.aborted = client.aborted
      /\ a.stream = client.stream /\ a.timers = timers /\ a.requests = client.requests
  BY <1>1, <1>5 DEF Client, SameRequests, SameAnswers
<1>8. PICK b : b = [a EXCEPT !.stream = "Initial"]
  OBVIOUS
<1>9. b \in Client
  BY <1>6, <1>8 DEF Client, Streams
<1>10. /\ SameRequests(a, b) /\ SameAnswers(a, b) /\ b.up = a.up
       /\ b.networkEnabled = a.networkEnabled /\ b.pipeline = a.pipeline
       /\ b.handshakeComplete = a.handshakeComplete /\ b.aborted = a.aborted
       /\ b.stream = "Initial" /\ b.timers = a.timers /\ b.requests = a.requests
  BY <1>6, <1>8 DEF Client, SameRequests, SameAnswers
<1>11. ~IsStarted(b) /\ ~IsOpen(b) /\ ~IsOpen(client) /\ IsStarted(client)
  BY <1>1, <1>10 DEF IsStarted, IsOpen
<1>12. /\ client.hello = "none" /\ client.up = <<>> /\ client.down = <<>>
       /\ client.status = None /\ "idle" \notin client.timers
  BY <1>11, NoCall DEF Steady
<1>13. client.networkEnabled /\ client.pipeline # <<>>
  BY <1>11, <1>12 DEF Steady, Core, Streaming
<1>14. Stored(b) /\ Pipelined(b) /\ Full(b)
  BY <1>7, <1>10 DEF Steady, Core, Stored, Pipelined, Full, SameRequests
<1>15. Timed(b)
  BY <1>1, <1>3, <1>7, <1>10, <1>11, <1>12
     DEF Steady, Core, Streaming, Timed, SameAnswers, IsOpen
<1>16. Flying(b) /\ Streaming(b)
  <2>1. b.hello = "none" /\ b.up = <<>> /\ b.down = <<>> /\ "idle" \notin b.timers
    BY <1>3, <1>7, <1>10, <1>12 DEF SameAnswers
  <2>2. Flying(b)
    BY <2>1 DEF Flying
  <2> QED
    BY <1>11, <1>15, <2>1, <2>2 DEF Streaming
<1>17. Core(b)
  BY <1>1, <1>7, <1>9, <1>10, <1>14, <1>16 DEF Core
<1>18. ShouldStartWriteStream(b)
  BY <1>7, <1>10, <1>11, <1>13 DEF ShouldStartWriteStream, CanUseNetwork
<1>19. client' = StartIfNeeded(b)
  <2>1. client' = Start([client EXCEPT !.timers = timers, !.stream = "Initial"])
    BY <1>2, <1>3 DEF BackoffElapsed, Task
  <2>2. b = [client EXCEPT !.timers = timers, !.stream = "Initial"]
    BY <1>5, <1>8
  <2> QED
    BY <1>18, <2>1, <2>2 DEF StartIfNeeded
<1>20. /\ Core(client') /\ SameRequests(b, client')
       /\ client'.networkEnabled = b.networkEnabled /\ client'.pipeline = b.pipeline
       /\ client'.handshakeComplete = b.handshakeComplete
       /\ (IsOpen(client') <=> IsOpen(b))
       /\ Awake(client') /\ (Scheduled(b) => Scheduled(client'))
  BY <1>17, <1>19, StartKeeps
<1>21. Full(client') /\ Shaken(client')
  BY <1>7, <1>10, <1>11, <1>14, <1>20 DEF Steady, Shaken, Full, SameRequests
<1>22. CallGoesOn(client, client')
  BY <1>11, <1>20, CallOver
<1>23. Going(client')
  BY <1>11, <1>20, UnstartedIsScheduled DEF Going
<1> QED
  BY <1>7, <1>10, <1>20, <1>21, <1>22, <1>23 DEF Steady, SameRequests
-----------------------------------------------------------------------------
\* A token that a close has overtaken is dropped.
LEMMA StaleTokenStep ==
  ASSUME Steady(client), NEW granted, TokenArrives("stale", granted)
  PROVE  Steady(client') /\ SameRequests(client, client') /\ CallGoesOn(client, client')
<1>1. PICK requests : requests = client.requests \ {"stale"}
  OBVIOUS
<1>2. client \in Client /\ client' = [client EXCEPT !.requests = requests]
  BY <1>1 DEF TokenArrives, Task, Steady, Core
<1>3. requests \in SUBSET {"live", "stale"}
  BY <1>1, <1>2 DEF Client
<1>4. client' \in Client
  BY <1>2, <1>3 DEF Client
<1>5. /\ SameRequests(client, client') /\ SameAnswers(client, client')
      /\ client'.up = client.up /\ client'.networkEnabled = client.networkEnabled
      /\ client'.pipeline = client.pipeline /\ client'.aborted = client.aborted
      /\ client'.handshakeComplete = client.handshakeComplete
      /\ client'.stream = client.stream /\ client'.timers = client.timers
      /\ client'.requests = requests
  BY <1>2 DEF Client, SameRequests, SameAnswers
<1>6. Stored(client') /\ Pipelined(client') /\ Full(client') /\ Shaken(client')
  BY <1>5 DEF Steady, Core, Stored, Pipelined, Full, Shaken, SameRequests, IsOpen
<1>7. Timed(client') /\ Flying(client')
  BY <1>1, <1>5 DEF Steady, Core, Streaming, Timed, Flying, SameAnswers, IsOpen
<1>8. Streaming(client')
  BY <1>5, <1>7
     DEF Steady, Core, Streaming, SameRequests, SameAnswers, IsOpen, IsStarted
<1>9. CallGoesOn(client, client')
  BY <1>2, <1>5, PrefixOfItself DEF Client, SameAnswers, CallGoesOn
<1>10. Going(client')
  BY <1>1, <1>5 DEF Steady, Going, Scheduled, Awake, IsStarted
<1> QED
  BY <1>4, <1>5, <1>6, <1>7, <1>8, <1>9, <1>10 DEF Steady, Core

\* ResumeStartWithCredentials opens the call with the handshake, or closes.
LEMMA LiveTokenStep ==
  ASSUME Steady(client), NEW granted \in BOOLEAN, TokenArrives("live", granted)
  PROVE  Steady(client') /\ SameRequests(client, client') /\ CallGoesOn(client, client')
<1>1. PICK requests : requests = client.requests \ {"live"}
  OBVIOUS
<1>2. PICK a : a = [client EXCEPT !.requests = requests]
  OBVIOUS
<1>3. /\ client \in Client /\ ~client.aborted /\ client.stream = "Starting"
      /\ IsStarted(client) /\ ~IsOpen(client)
  BY DEF TokenArrives, Steady, Core, Streaming, Timed, IsStarted, IsOpen
<1>4. requests \in SUBSET {"live", "stale"} /\ "live" \notin requests
  BY <1>1, <1>3 DEF Client
<1>5. a \in Client
  BY <1>2, <1>3, <1>4 DEF Client
<1>6. /\ SameRequests(client, a) /\ SameAnswers(client, a) /\ a.up = client.up
      /\ a.networkEnabled = client.networkEnabled /\ a.pipeline = client.pipeline
      /\ a.handshakeComplete = client.handshakeComplete /\ a.aborted = client.aborted
      /\ a.stream = client.stream /\ a.timers = client.timers /\ a.requests = requests
  BY <1>2, <1>3 DEF Client, SameRequests, SameAnswers
<1>7. /\ client.hello = "none" /\ client.up = <<>> /\ client.down = <<>>
      /\ client.status = None /\ "idle" \notin client.timers
      /\ client.networkEnabled /\ client.pipeline # <<>>
  BY <1>3, NoCall DEF Steady, Core, Streaming
<1>8. Stored(a) /\ Pipelined(a) /\ Full(a) /\ IsStarted(a) /\ ~IsOpen(a)
  BY <1>3, <1>6
     DEF Steady, Core, Stored, Pipelined, Full, SameRequests, IsStarted, IsOpen
<1>9. Timed(a) /\ Flying(a)
  BY <1>4, <1>6, <1>7, <1>8
     DEF Steady, Core, Streaming, Timed, Flying, SameAnswers
<1>10. Streaming(a)
  BY <1>6, <1>7, <1>8, <1>9 DEF Streaming, SameAnswers
<1>11. Core(a)
  BY <1>5, <1>6, <1>8, <1>10 DEF Steady, Core
<1>12. HardAssert(a, a.stream = "Starting") = a
  BY <1>3, <1>5, <1>6, AssertHolds
<1>13. client' = ResumeStartWithCredentials(a, granted)
  BY <1>1, <1>2 DEF TokenArrives, Task
<1>14. CASE ~granted
  <2>1. client' = Close(a, "unavailable")
    BY <1>12, <1>13, <1>14 DEF ResumeStartWithCredentials
  <2>2. Steady(client') /\ ~IsOpen(client') /\ SameRequests(a, client')
    BY <1>8, <1>11, <2>1, CloseKeeps
  <2>3. CallGoesOn(client, client')
    BY <2>2, CallOver DEF Steady
  <2> QED
    BY <1>6, <2>2, <2>3 DEF SameRequests
<1>15. CASE granted
  <2>1. PICK b : b = [a EXCEPT !.stream = "Open", !.tokenUser = a.user]
    OBVIOUS
  <2>2. b \in Client
    BY <1>5, <2>1 DEF Client, Streams
  <2>3. /\ SameRequests(a, b) /\ b.up = a.up /\ b.pipeline = a.pipeline
        /\ b.networkEnabled = a.networkEnabled
        /\ b.handshakeComplete = a.handshakeComplete /\ b.aborted = a.aborted
        /\ b.stream = "Open" /\ b.timers = a.timers /\ b.requests = a.requests
        /\ b.hello = a.hello /\ b.down = a.down /\ b.status = a.status
        /\ b.tokenUser = a.user
    BY <1>5, <2>1 DEF Client, SameRequests
  <2>4. IsOpen(b) /\ ~b.handshakeComplete
    <3>1. ~client.handshakeComplete
      BY <1>3 DEF Steady, Shaken, Client
    <3> QED
      BY <1>6, <2>3, <3>1 DEF IsOpen
  <2>5. HardAssert(b, IsOpen(b) /\ ~b.handshakeComplete) = b
    BY <2>2, <2>4, AssertHolds
  <2>6. PICK timers : timers = b.timers \ {"idle"}
    OBVIOUS
  <2>7. timers \in SUBSET {"backoff", "idle"}
    BY <2>2, <2>6 DEF Client
  <2>8. PICK c : c = [b EXCEPT !.timers = timers]
    OBVIOUS
  <2>9. c \in Client
    BY <2>2, <2>7, <2>8 DEF Client
  <2>10. /\ SameRequests(b, c) /\ SameAnswers(b, c) /\ c.up = b.up
         /\ c.pipeline = b.pipeline /\ c.networkEnabled = b.networkEnabled
         /\ c.handshakeComplete = b.handshakeComplete /\ c.aborted = b.aborted
         /\ c.stream = b.stream /\ c.timers = timers /\ c.requests = b.requests
    BY <2>2, <2>8 DEF Client, SameRequests, SameAnswers
  <2>11. client' = [c EXCEPT !.hello = "sent"]
    <3>1. client' = WriteHandshake(b)
      BY <1>12, <1>13, <1>15, <2>1 DEF ResumeStartWithCredentials
    <3>2. WriteHandshake(b) = [CancelIdleCheck(b) EXCEPT !.hello = "sent"]
      BY <2>5 DEF WriteHandshake
    <3> QED
      BY <2>6, <2>8, <3>1, <3>2 DEF CancelIdleCheck
  <2>12. client' \in Client
    BY <2>9, <2>11 DEF Client
  <2>13. /\ SameRequests(c, client') /\ client'.up = c.up
         /\ client'.pipeline = c.pipeline /\ client'.networkEnabled = c.networkEnabled
         /\ client'.handshakeComplete = c.handshakeComplete
         /\ client'.aborted = c.aborted /\ client'.stream = c.stream
         /\ client'.timers = c.timers /\ client'.requests = c.requests
         /\ client'.hello = "sent" /\ client'.down = c.down
         /\ client'.status = c.status /\ client'.tokenUser = c.tokenUser
    BY <2>9, <2>11 DEF Client, SameRequests
  <2>14. SameRequests(a, client')
    BY <2>3, <2>10, <2>13 DEF SameRequests
  <2>15. /\ client'.up = <<>> /\ client'.down = <<>> /\ client'.status = None
         /\ client'.pipeline = a.pipeline /\ client'.networkEnabled
         /\ ~client'.handshakeComplete /\ ~client'.aborted /\ client'.stream = "Open"
         /\ "idle" \notin client'.timers /\ "backoff" \notin client'.timers
         /\ "live" \notin client'.requests /\ client'.tokenUser = client'.user
    <3>1. "backoff" \notin a.timers
      BY <1>3, <1>6, <1>9 DEF Timed
    <3> QED
      BY <1>3, <1>4, <1>6, <1>7, <2>3, <2>4, <2>6, <2>10, <2>13, <2>14, <3>1
         DEF SameRequests, SameAnswers
  <2>16. Stored(client') /\ Pipelined(client') /\ Full(client') /\ Shaken(client')
    <3>1. a.networkEnabled
      BY <1>6, <1>7
    <3>2. Stored(client')
      BY <1>8, <2>14 DEF Stored, SameRequests
    <3>3. Pipelined(client') /\ Full(client')
      BY <1>8, <2>14, <2>15, <3>1 DEF Pipelined, Full, SameRequests
    <3> QED
      BY <2>15, <3>2, <3>3 DEF Shaken
  <2>17. Timed(client') /\ Flying(client') /\ Streaming(client')
    BY <1>6, <1>7, <2>13, <2>15 DEF Timed, Flying, Streaming, IsOpen, IsStarted
  <2>18. Going(client')
    BY <2>15, OpenIsGoing DEF IsOpen
  <2> QED
    BY <1>6, <2>12, <2>14, <2>15, <2>16, <2>17, <2>18
       DEF Steady, Core, SameRequests, CallGoesOn
<1> QED
  BY <1>14, <1>15

\* A call that ends while the client writes and reads.
LEMMA OnStreamFinishStep ==
  ASSUME Steady(client), OnStreamFinish,
         NEW id, id = Head(client.queues[client.user]).id
  PROVE  /\ Steady(client') /\ CallGoesOn(client, client')
         /\ \/ SameRequests(client, client')
            \/ /\ client.status = "permissionDenied" /\ client.hello = "done"
               /\ client.pipeline # <<>> /\ Answered(client, client', id, "error")
<1>1. client' = Close(client, client.status) /\ client.status # None
  BY DEF OnStreamFinish, Task
<1>2. IsOpen(client) /\ IsStarted(client) /\ Core(client) /\ Full(client)
  BY <1>1 DEF Steady, Core, Streaming, Timed, IsOpen, IsStarted
<1>3. client.status \in {"unavailable", "permissionDenied", "aborted"}
  BY <1>1 DEF Steady, Core, Client
<1>4. /\ Steady(client') /\ ~IsOpen(client')
      /\ \/ SameRequests(client, client')
         \/ /\ client.status = "permissionDenied" /\ client.handshakeComplete
            /\ client.pipeline # <<>> /\ Answered(client, client', id, "error")
  BY <1>1, <1>2, <1>3, CloseKeeps
<1>5. CallGoesOn(client, client')
  BY <1>4, CallOver DEF Steady
<1> QED
  BY <1>2, <1>4, <1>5 DEF Core, Streaming

\* The answer to the handshake: the pipeline is sent.
LEMMA HandshakeStep ==
  ASSUME Steady(client), client.hello = "answered",
         client' = OnWriteStreamHandshakeComplete(
           [HardAssert(client, IsStarted(client))
              EXCEPT !.hello = "done", !.handshakeComplete = TRUE])
  PROVE  Steady(client') /\ SameRequests(client, client') /\ CallGoesOn(client, client')
<1>1. /\ client \in Client /\ ~client.aborted /\ IsOpen(client) /\ IsStarted(client)
      /\ client.up = <<>> /\ client.down = <<>> /\ client.pipeline # <<>>
      /\ client.networkEnabled /\ client.tokenUser = client.user
      /\ "idle" \notin client.timers
  BY DEF Steady, Core, Streaming, Timed, Flying, IsOpen, IsStarted
<1>2. HardAssert(client, IsStarted(client)) = client
  BY <1>1, AssertHolds
<1>3. PICK a : a = [client EXCEPT !.hello = "done", !.handshakeComplete = TRUE]
  OBVIOUS
<1>4. a \in Client
  BY <1>1, <1>3 DEF Client
<1>5. /\ SameRequests(client, a) /\ a.up = client.up /\ a.down = client.down
      /\ a.pipeline = client.pipeline /\ a.networkEnabled = client.networkEnabled
      /\ a.handshakeComplete /\ a.aborted = client.aborted /\ a.stream = client.stream
      /\ a.timers = client.timers /\ a.requests = client.requests
      /\ a.hello = "done" /\ a.status = client.status /\ a.tokenUser = client.tokenUser
  BY <1>1, <1>3 DEF Client, SameRequests
<1>6. HardAssert(a, IsOpen(a) /\ a.handshakeComplete) = a
  BY <1>1, <1>4, <1>5, AssertHolds DEF IsOpen
<1>7. PICK timers : timers = a.timers \ {"idle"}
  OBVIOUS
<1>8. timers \in SUBSET {"backoff", "idle"}
  BY <1>4, <1>7 DEF Client
<1>9. PICK b : b = [a EXCEPT !.timers = timers]
  OBVIOUS
<1>10. b \in Client
  BY <1>4, <1>8, <1>9 DEF Client
<1>11. /\ SameRequests(a, b) /\ SameAnswers(a, b) /\ b.up = a.up
       /\ b.pipeline = a.pipeline /\ b.networkEnabled = a.networkEnabled
       /\ b.handshakeComplete = a.handshakeComplete /\ b.aborted = a.aborted
       /\ b.stream = a.stream /\ b.timers = timers /\ b.requests = a.requests
  BY <1>4, <1>9 DEF Client, SameRequests, SameAnswers
<1>12. PICK p \in Queue : p = client.pipeline
  BY <1>1 DEF Client
<1>13. client' = [b EXCEPT !.up = p]
  <2>1. client' = WriteMutations(a, p)
    BY <1>2, <1>3, <1>5, <1>12 DEF OnWriteStreamHandshakeComplete
  <2>2. client' = [CancelIdleCheck(a) EXCEPT !.up = @ \o p]
    BY <1>1, <1>6, <1>12, <2>1 DEF WriteMutations
  <2>3. client' = [b EXCEPT !.up = @ \o p]
    BY <1>7, <1>9, <2>2 DEF CancelIdleCheck
  <2>4. b.up \o p = p
    <3>1. b.up = <<>> /\ p \in Seq(Batch)
      BY <1>1, <1>5, <1>11 DEF Queue
    <3> QED
      BY <3>1, ConcatEmptySeq
  <2> QED
    BY <2>3, <2>4
<1>14. client' \in Client
  BY <1>10, <1>13 DEF Client
<1>15. /\ SameRequests(b, client') /\ SameAnswers(b, client') /\ client'.up = p
       /\ client'.pipeline = b.pipeline /\ client'.networkEnabled = b.networkEnabled
       /\ client'.handshakeComplete = b.handshakeComplete
       /\ client'.aborted = b.aborted /\ client'.stream = b.stream
       /\ client'.timers = b.timers /\ client'.requests = b.requests
  BY <1>10, <1>13 DEF Client, SameRequests, SameAnswers
<1>16. /\ SameRequests(client, client') /\ client'.pipeline = client.pipeline
       /\ client'.networkEnabled /\ client'.handshakeComplete /\ ~client'.aborted
       /\ client'.stream = client.stream /\ client'.requests = client.requests
       /\ "idle" \notin client'.timers /\ client'.timers \subseteq client.timers
       /\ client'.up = client'.pipeline /\ client'.down = <<>> /\ client'.hello = "done"
       /\ client'.status = client.status /\ client'.tokenUser = client'.user
  <2>1. SameRequests(client, client')
    BY <1>5, <1>11, <1>15 DEF SameRequests
  <2>2. client'.timers = client.timers \ {"idle"}
    BY <1>5, <1>7, <1>11, <1>15
  <2>3. /\ client'.down = <<>> /\ client'.hello = "done"
        /\ client'.status = client.status /\ client'.tokenUser = client.tokenUser
    BY <1>1, <1>5, <1>11, <1>15 DEF SameAnswers
  <2>4. /\ client'.pipeline = client.pipeline /\ client'.up = client'.pipeline
        /\ client'.networkEnabled /\ client'.handshakeComplete /\ ~client'.aborted
        /\ client'.stream = client.stream /\ client'.requests = client.requests
    BY <1>1, <1>5, <1>11, <1>12, <1>15
  <2>5. client'.tokenUser = client'.user
    BY <1>1, <2>1, <2>3 DEF SameRequests
  <2> QED
    BY <2>1, <2>2, <2>3, <2>4, <2>5
<1>17. /\ Stored(client') /\ Pipelined(client') /\ Full(client') /\ IsOpen(client')
       /\ Shaken(client') /\ IsStarted(client')
  BY <1>1, <1>16
     DEF Steady, Core, Stored, Pipelined, Full, Shaken, SameRequests, IsOpen, IsStarted
<1>18. Timed(client')
  BY <1>16, <1>17 DEF Steady, Core, Streaming, Timed, IsOpen
<1>19. Flying(client')
  <2>1. client'.pipeline \in Seq(Batch)
    BY <1>14 DEF Client, Queue
  <2>2. client'.down \o client'.up = client'.pipeline
    BY <1>16, <2>1, ConcatEmptySeq
  <2>3. IsPrefixOf(client'.down, client'.pipeline)
    <3>1. Len(client'.down) = 0 /\ Len(client'.pipeline) \in Nat
      BY <1>16, <2>1, EmptySeq, LenProperties
    <3> QED
      BY <3>1 DEF IsPrefixOf
  <2> QED
    BY <1>16, <2>2, <2>3 DEF Flying
<1>20. Streaming(client')
  BY <1>1, <1>16, <1>17, <1>18, <1>19 DEF Streaming
<1>21. CallGoesOn(client, client')
  <2>1. IsPrefixOf(client.pipeline, client'.pipeline)
    BY <1>12, <1>16, PrefixOfItself
  <2> QED
    BY <1>1, <1>16, <2>1 DEF CallGoesOn
<1> QED
  BY <1>14, <1>16, <1>17, <1>20, <1>21, OpenIsGoing DEF Steady, Core

\* A result: the write at the front is done with.
ResultRead(s, t, id) ==
  /\ s.down # <<>> /\ Answered(s, t, id, "ok")
  /\ t.down = Tail(s.down) /\ t.hello = "done" /\ t.status = s.status
  /\ IsPrefixOf(Tail(s.pipeline), t.pipeline)

\* OnStreamRead: the handshake is answered, or a write.
LEMMA OnStreamReadStep ==
  ASSUME Steady(client), OnStreamRead,
         NEW id, id = Head(client.queues[client.user]).id
  PROVE  /\ Steady(client')
         /\ \/ SameRequests(client, client') /\ CallGoesOn(client, client')
            \/ ResultRead(client, client', id)
<1>1. \/ /\ client.hello = "answered"
         /\ client' = OnWriteStreamHandshakeComplete(
              [HardAssert(client, IsStarted(client))
                 EXCEPT !.hello = "done", !.handshakeComplete = TRUE])
      \/ /\ client.down # <<>>
         /\ client' = OnWriteStreamMutationResult(
              [HardAssert(client, IsStarted(client)) EXCEPT !.down = Tail(@)])
  BY DEF OnStreamRead, Task
<1>2. CASE /\ client.hello = "answered"
           /\ client' = OnWriteStreamHandshakeComplete(
                [HardAssert(client, IsStarted(client))
                   EXCEPT !.hello = "done", !.handshakeComplete = TRUE])
  BY <1>2, HandshakeStep
<1>3. CASE /\ client.down # <<>>
           /\ client' = OnWriteStreamMutationResult(
                [HardAssert(client, IsStarted(client)) EXCEPT !.down = Tail(@)])
  <2>1. Core(client) /\ client \in Client
    BY DEF Steady, Core
  <2>2. client.hello = "done" /\ IsOpen(client) /\ IsStarted(client)
    BY <1>3, <2>1, AnswerFitsFront DEF IsOpen, IsStarted
  <2>3. HardAssert(client, IsStarted(client)) = client
    BY <2>1, <2>2, AssertHolds
  <2>4. PICK a : a = ReadFront(client)
    OBVIOUS
  <2>5. client' = OnWriteStreamMutationResult(a)
    BY <1>3, <2>3, <2>4 DEF ReadFront
  <2>6. /\ Core(client') /\ Full(client') /\ Answered(client, client', id, "ok")
        /\ IsOpen(client') /\ client'.hello = client.hello
        /\ client'.down = Tail(client.down) /\ client'.status = client.status
        /\ IsPrefixOf(Tail(client.pipeline), client'.pipeline)
    BY <1>3, <2>1, <2>4, <2>5, ResultKeeps
  <2> QED
    BY <1>3, <2>2, <2>6, OpenIsGoing DEF Steady, Shaken, ResultRead
<1> QED
  BY <1>1, <1>2, <1>3
-----------------------------------------------------------------------------
\* Two sequences in a row, and the first element of the second.
LEMMA NextOfConcat ==
  ASSUME NEW S, NEW a \in Seq(S), NEW b \in Seq(S), b # <<>>
  PROVE  /\ Len(a) \in Nat /\ Len(a) < Len(a \o b) /\ Len(a) + 1 \in 1..Len(a \o b)
         /\ (a \o b)[Len(a) + 1] = Head(b) /\ Head(b) \in S
         /\ Append(a, Head(b)) \in Seq(S) /\ Tail(b) \in Seq(S)
         /\ Append(a, Head(b)) \o Tail(b) = a \o b
<1>1. /\ Len(a) \in Nat /\ Len(b) \in Nat \ {0} /\ Head(b) = b[1]
      /\ Tail(b) \in Seq(S) /\ Len(Tail(b)) = Len(b) - 1
      /\ \A i \in 1..Len(Tail(b)) : Tail(b)[i] = b[i + 1]
  BY EmptySeq, LenProperties, HeadTailProperties
<1>2. /\ a \o b \in Seq(S) /\ Len(a \o b) = Len(a) + Len(b)
      /\ \A i \in 1..(Len(a) + Len(b)) :
           (a \o b)[i] = IF i <= Len(a) THEN a[i] ELSE b[i - Len(a)]
  BY ConcatProperties
<1>3. Head(b) \in S
  BY <1>1, ElementOfSeq
<1>4. Len(a) + 1 \in 1..Len(a \o b) /\ (a \o b)[Len(a) + 1] = Head(b)
  BY <1>1, <1>2
<1>5. PICK c : c = Append(a, Head(b))
  OBVIOUS
<1>6. /\ c \in Seq(S) /\ Len(c) = Len(a) + 1 /\ c[Len(a) + 1] = Head(b)
      /\ \A i \in 1..Len(a) : c[i] = a[i]
  BY <1>3, <1>5, AppendProperties
<1>7. /\ c \o Tail(b) \in Seq(S) /\ Len(c \o Tail(b)) = Len(c) + Len(Tail(b))
      /\ \A i \in 1..(Len(c) + Len(Tail(b))) :
           (c \o Tail(b))[i] = IF i <= Len(c) THEN c[i] ELSE Tail(b)[i - Len(c)]
  BY <1>1, <1>6, ConcatProperties
<1>8. Len(c \o Tail(b)) = Len(a \o b)
  BY <1>1, <1>2, <1>6, <1>7
<1>9. ASSUME NEW i \in 1..Len(c \o Tail(b))
      PROVE  (c \o Tail(b))[i] = (a \o b)[i]
  <2>1. i \in 1..(Len(a) + Len(b)) /\ i \in 1..(Len(c) + Len(Tail(b)))
    BY <1>2, <1>7, <1>8
  <2>2. CASE i <= Len(a)
    <3>1. i <= Len(c) /\ i \in 1..Len(a)
      BY <1>1, <1>6, <2>1, <2>2
    <3> QED
      BY <1>2, <1>6, <1>7, <2>1, <2>2, <3>1
  <2>3. CASE i = Len(a) + 1
    <3>1. i <= Len(c) /\ ~(i <= Len(a)) /\ i - Len(a) = 1
      BY <1>1, <1>6, <2>3
    <3> QED
      BY <1>1, <1>2, <1>6, <1>7, <2>1, <2>3, <3>1
  <2>4. CASE i > Len(a) + 1
    <3>1. /\ ~(i <= Len(c)) /\ ~(i <= Len(a)) /\ i - Len(c) \in 1..Len(Tail(b))
          /\ i - Len(c) + 1 = i - Len(a)
      BY <1>1, <1>6, <2>1, <2>4
    <3>2. (c \o Tail(b))[i] = Tail(b)[i - Len(c)] /\ (a \o b)[i] = b[i - Len(a)]
      BY <1>2, <1>7, <2>1, <3>1
    <3>3. Tail(b)[i - Len(c)] = b[i - Len(c) + 1]
      BY <1>1, <3>1
    <3> QED
      BY <3>1, <3>2, <3>3
  <2> QED
    BY <1>1, <2>1, <2>2, <2>3, <2>4
<1>10. c \o Tail(b) = a \o b
  BY <1>2, <1>7, <1>8, <1>9, SeqEqual
<1> QED
  BY <1>1, <1>2, <1>3, <1>4, <1>5, <1>6, <1>10

\* Two sequences in a row begin with the first.
LEMMA FirstPart ==
  ASSUME NEW a \in Queue, NEW b \in Queue
  PROVE  IsPrefixOf(a, a \o b)
<1>1. a \in Seq(Batch) /\ b \in Seq(Batch)
  BY DEF Queue
<1>2. /\ Len(a) \in Nat /\ Len(b) \in Nat /\ Len(a \o b) = Len(a) + Len(b)
      /\ \A i \in 1..(Len(a) + Len(b)) :
           (a \o b)[i] = IF i <= Len(a) THEN a[i] ELSE b[i - Len(a)]
  BY <1>1, ConcatProperties, LenProperties
<1>3. \A i \in 1..Len(a) : i \in 1..(Len(a) + Len(b)) /\ i <= Len(a)
  BY <1>2
<1> QED
  BY <1>2, <1>3 DEF IsPrefixOf

\* The request that the server reads next.
LEMMA NextRequest ==
  ASSUME NEW s, Core(s), s.status = None, s.up # <<>>,
         NEW batch, batch = Head(s.up), NEW down, down = Append(s.down, batch)
  PROVE  /\ s.hello = "done" /\ IsOpen(s) /\ s.tokenUser = s.user /\ batch \in Batch
         /\ Len(s.down) \in Nat /\ Len(s.down) < Len(s.pipeline)
         /\ s.pipeline[Len(s.down) + 1] = batch
         /\ down \in Queue /\ Tail(s.up) \in Queue /\ down \o Tail(s.up) = s.pipeline
         /\ IsPrefixOf(s.down, s.pipeline)
<1>1. s.hello = "done" /\ s.down \o s.up = s.pipeline
  BY DEF Core, Streaming, Flying
<1>2. IsOpen(s) /\ s.tokenUser = s.user
  BY <1>1 DEF Core, Streaming, Timed
<1>3. PICK d \in Seq(Batch), u \in Seq(Batch) : d = s.down /\ u = s.up
  BY DEF Core, Client, Queue
<1>4. /\ Len(d) \in Nat /\ Len(d) < Len(d \o u)
      /\ (d \o u)[Len(d) + 1] = Head(u) /\ Head(u) \in Batch
      /\ Append(d, Head(u)) \in Seq(Batch) /\ Tail(u) \in Seq(Batch)
      /\ Append(d, Head(u)) \o Tail(u) = d \o u
  <2>1. u # <<>>
    BY <1>3
  <2> QED
    BY <2>1, NextOfConcat
<1>5. IsPrefixOf(d, d \o u)
  BY <1>3, FirstPart DEF Queue
<1> QED
  BY <1>1, <1>2, <1>3, <1>4, <1>5 DEF Queue

\* What a step of the server leaves alone.
SameClient(s, t) ==
  /\ SameRequests(s, t) /\ SameStream(s, t)
  /\ t.networkEnabled = s.networkEnabled /\ t.pipeline = s.pipeline
  /\ t.tokenUser = s.tokenUser /\ t.aborted = s.aborted

\* The server answers the handshake.
LEMMA AnswerHandshakeStep ==
  ASSUME Steady(client), AnswerHandshake
  PROVE  Steady(client') /\ SameRequests(client, client') /\ CallGoesOn(client, client')
<1>1. /\ client \in Client /\ client.hello = "sent" /\ client.status = None
      /\ client' = [client EXCEPT !.hello = "answered"]
  BY DEF AnswerHandshake, CallIsUp, Task, Steady, Core
<1>2. client' \in Client
  BY <1>1 DEF Client
<1>3. /\ SameClient(client, client') /\ client'.up = client.up
      /\ client'.down = client.down /\ client'.status = client.status
      /\ client'.hello = "answered"
  BY <1>1 DEF Client, SameClient, SameRequests, SameStream
<1>4. client.up = <<>> /\ client.down = <<>>
  BY <1>1 DEF Steady, Core, Streaming, Flying
<1>5. Stored(client') /\ Pipelined(client') /\ Full(client') /\ Shaken(client')
  BY <1>3 DEF Steady, Core, Stored, Pipelined, Full, Shaken, SameClient, SameRequests,
              SameStream, IsOpen
<1>6. Timed(client') /\ Flying(client')
  BY <1>1, <1>3, <1>4 DEF Steady, Core, Streaming, Timed, Flying, SameClient, SameStream, IsOpen
<1>7. Streaming(client')
  BY <1>1, <1>3, <1>6
     DEF Steady, Core, Streaming, SameClient, SameRequests, SameStream, IsOpen, IsStarted
<1>8. Going(client')
  BY <1>3, GoingStays DEF Steady, SameClient
<1> QED
  BY <1>1, <1>2, <1>3, <1>4, <1>5, <1>7, <1>8
     DEF Steady, Core, SameClient, CallGoesOn

\* What the server's decision on the next request does to the client.
LEMMA DecidedKeeps ==
  ASSUME NEW s, Steady(s), s.hello = "done", NEW t \in Client, SameClient(s, t),
         t.hello = s.hello, Flying(t)
  PROVE  Steady(t)
<1>1. Stored(t) /\ Pipelined(t) /\ Full(t) /\ Shaken(t)
  BY DEF Steady, Core, Stored, Pipelined, Full, Shaken, SameClient, SameRequests,
         SameStream, IsOpen
<1>2. Timed(t)
  BY DEF Steady, Core, Streaming, Timed, SameClient, SameStream, IsOpen
<1>3. Streaming(t)
  BY <1>2
     DEF Steady, Core, Streaming, SameClient, SameRequests, SameStream, IsOpen, IsStarted
<1>4. Going(t)
  BY GoingStays DEF Steady, SameClient
<1> QED
  BY <1>1, <1>3, <1>4 DEF Steady, Core, SameClient

\* The server commits the first write of the pipeline that it has not answered.
LEMMA CommitStep ==
  ASSUME Steady(client), Commit, NEW batch, batch = Head(client.up)
  PROVE  /\ Steady(client') /\ SameRequests(client, client')
         /\ client.hello = "done" /\ client'.hello = "done" /\ client'.status = None
         /\ client.tokenUser = client.user /\ batch \in Batch
         /\ Len(client.down) \in Nat /\ Len(client.down) < Len(client.pipeline)
         /\ client.pipeline[Len(client.down) + 1] = batch
         /\ client'.down = Append(client.down, batch)
         /\ client'.pipeline = client.pipeline
<1>1. /\ Core(client) /\ client \in Client /\ client.status = None /\ client.up # <<>>
      /\ client' = [client EXCEPT !.up = Tail(@), !.down = Append(@, batch)]
  BY DEF Commit, CallIsUp, Steady, Core
<1>2. PICK down : down = Append(client.down, batch)
  OBVIOUS
<1>3. /\ client.hello = "done" /\ client.tokenUser = client.user /\ batch \in Batch
      /\ Len(client.down) \in Nat /\ Len(client.down) < Len(client.pipeline)
      /\ client.pipeline[Len(client.down) + 1] = batch
      /\ down \in Queue /\ Tail(client.up) \in Queue
      /\ down \o Tail(client.up) = client.pipeline
  BY <1>1, <1>2, NextRequest
<1>4. PICK up \in Queue : up = Tail(client.up)
  BY <1>3
<1>5. client' = [client EXCEPT !.up = up, !.down = down]
  BY <1>1, <1>2, <1>4
<1>6. client' \in Client
  <2>1. client \in Client /\ up \in Queue /\ down \in Queue
    BY <1>1, <1>3
  <2> QED
    BY <1>5, <2>1 DEF Client
<1>7. /\ SameClient(client, client') /\ client'.up = up /\ client'.down = down
      /\ client'.status = client.status /\ client'.hello = client.hello
  BY <1>1, <1>5 DEF Client, SameClient, SameRequests, SameStream
<1>8. Flying(client')
  BY <1>1, <1>3, <1>4, <1>7 DEF Flying, SameClient
<1>9. Steady(client')
  BY <1>3, <1>6, <1>7, <1>8, DecidedKeeps
<1> QED
  BY <1>1, <1>2, <1>3, <1>7, <1>9 DEF SameClient

\* The server refuses that write, and ends the call.
LEMMA RefuseStep ==
  ASSUME Steady(client), NEW status \in {"permissionDenied", "aborted"}, Refuse(status),
         NEW batch, batch = Head(client.up)
  PROVE  /\ Steady(client') /\ SameRequests(client, client')
         /\ client'.hello = "done" /\ client'.status = status
         /\ Len(client.down) \in Nat /\ Len(client.down) < Len(client.pipeline)
         /\ client.pipeline[Len(client.down) + 1] = batch /\ batch \in Batch
         /\ client'.down = client.down /\ client'.pipeline = client.pipeline
<1>1. /\ Core(client) /\ client \in Client /\ client.status = None /\ client.up # <<>>
      /\ client' = [client EXCEPT !.up = Tail(@), !.status = status]
  BY DEF Refuse, CallIsUp, Steady, Core
<1>2. PICK down : down = Append(client.down, batch)
  OBVIOUS
<1>3. /\ client.hello = "done" /\ batch \in Batch
      /\ Len(client.down) \in Nat /\ Len(client.down) < Len(client.pipeline)
      /\ client.pipeline[Len(client.down) + 1] = batch
      /\ Tail(client.up) \in Queue /\ IsPrefixOf(client.down, client.pipeline)
  BY <1>1, <1>2, NextRequest
<1>4. PICK up \in Queue : up = Tail(client.up)
  BY <1>3
<1>5. client' = [client EXCEPT !.up = up, !.status = status]
  BY <1>1, <1>4
<1>6. client' \in Client
  <2>1. client \in Client
    BY <1>1
  <2> QED
    BY <1>5, <2>1 DEF Client
<1>7. /\ SameClient(client, client') /\ client'.up = up /\ client'.down = client.down
      /\ client'.status = status /\ client'.hello = client.hello
  <2>1. client \in Client
    BY <1>1
  <2>2. SameRequests(client, client') /\ SameStream(client, client')
    BY <1>5, <2>1 DEF Client, SameRequests, SameStream
  <2>3. SameClient(client, client')
    BY <1>5, <2>1, <2>2 DEF Client, SameClient
  <2> QED
    BY <1>5, <2>1, <2>3 DEF Client
<1>8. Flying(client')
  <2>1. status # None
    BY ConstantsAssumption
  <2> QED
    BY <1>3, <1>7, <2>1 DEF Flying, SameClient
<1>9. Steady(client')
  BY <1>3, <1>6, <1>7, <1>8, DecidedKeeps
<1> QED
  BY <1>3, <1>7, <1>9 DEF SameClient

\* The call has ended; the client does not know yet.
CallEnds(s, t) ==
  /\ t.down = s.down /\ t.pipeline = s.pipeline /\ t.hello = s.hello
  /\ t.status = "permissionDenied" => t.hello = "sent"

\* The call ends between two requests.
LEMMA EndCallStep ==
  ASSUME Steady(client), NEW status \in {"unavailable", "permissionDenied"}, EndCall(status)
  PROVE  Steady(client') /\ SameRequests(client, client') /\ CallEnds(client, client')
<1>1. /\ client \in Client /\ client.hello # "none" /\ client.status = None
      /\ client' = [client EXCEPT !.status = status]
      /\ status = "permissionDenied" => client.hello = "sent"
  BY DEF EndCall, CallIsUp, Task, Steady, Core
<1>2. client' \in Client
  BY <1>1 DEF Client
<1>3. /\ SameClient(client, client') /\ client'.up = client.up
      /\ client'.down = client.down /\ client'.status = status
      /\ client'.hello = client.hello
  BY <1>1 DEF Client, SameClient, SameRequests, SameStream
<1>4. Stored(client') /\ Pipelined(client') /\ Full(client') /\ Shaken(client')
  BY <1>3 DEF Steady, Core, Stored, Pipelined, Full, Shaken, SameClient, SameRequests,
              SameStream, IsOpen
<1>5. Timed(client')
  BY <1>1, <1>3 DEF Steady, Core, Streaming, Timed, SameClient, SameStream, IsOpen
<1>6. Flying(client')
  <2>1. CASE client.hello # "done"
    BY <1>3, <2>1 DEF Steady, Core, Streaming, Flying
  <2>2. CASE client.hello = "done"
    <3>1. client.down \o client.up = client.pipeline
      BY <1>1, <2>2 DEF Steady, Core, Streaming, Flying
    <3>2. client.down \in Queue /\ client.up \in Queue
      BY <1>1 DEF Client
    <3>3. IsPrefixOf(client.down, client.pipeline)
      BY <3>1, <3>2, FirstPart
    <3>4. status # None
      BY ConstantsAssumption
    <3> QED
      BY <1>3, <2>2, <3>3, <3>4 DEF Flying, SameClient
  <2> QED
    BY <2>1, <2>2
<1>7. Streaming(client')
  BY <1>3, <1>5, <1>6
     DEF Steady, Core, Streaming, SameClient, SameRequests, SameStream, IsOpen, IsStarted
<1>8. Going(client')
  BY <1>3, GoingStays DEF Steady, SameClient
<1> QED
  BY <1>1, <1>2, <1>3, <1>4, <1>7, <1>8 DEF Steady, Core, SameClient, CallEnds
-----------------------------------------------------------------------------
\* A callback belongs to a write that is on disk, under its user and id.
CallbacksOnDisk(s) ==
  \A c \in s.callbacks : \E i \in 1..Len(s.queues[c.user]) :
    s.queues[c.user][i].id = c.id /\ s.queues[c.user][i].write = c.write

\* The setData of write w.
Written(s, t, w) ==
  /\ t.user = s.user /\ t.told = s.told
  /\ t.pending = s.pending /\ t.waiterTold = s.waiterTold
  /\ t.queues = [s.queues EXCEPT ![s.user] = Append(@, [id |-> s.nextBatchId, write |-> w])]
  /\ t.callbacks = s.callbacks \cup {[user |-> s.user, id |-> s.nextBatchId, write |-> w]}

\* SyncEngine::WriteMutations, before it fills the pipeline.
Accept(s, w, callbacks) == [AddMutationBatch(s, w) EXCEPT !.callbacks = callbacks]

\* AddMutationBatch puts a row behind the others.
LEMMA AcceptKeeps ==
  ASSUME NEW s, Core(s), NEW w \in Writes, NEW callbacks \in SUBSET Callback,
         NEW t, t = Accept(s, w, callbacks)
  PROVE  /\ Core(t) /\ SameStream(s, t) /\ SameAnswers(s, t) /\ t.pipeline = s.pipeline
         /\ t.user = s.user /\ t.callbacks = callbacks
         /\ t.told = s.told /\ t.pending = s.pending /\ t.waiterTold = s.waiterTold
         /\ t.queues = [s.queues EXCEPT ![s.user] =
                          Append(@, [id |-> s.nextBatchId, write |-> w])]
<1>1. PICK queues : queues = [s.queues EXCEPT ![s.user] =
                                Append(@, [id |-> s.nextBatchId, write |-> w])]
  OBVIOUS
<1>2. PICK next : next = s.nextBatchId + 1
  OBVIOUS
<1>3. t = [s EXCEPT !.queues = queues, !.nextBatchId = next, !.callbacks = callbacks]
  <2>1. AddMutationBatch(s, w) = [s EXCEPT !.queues = queues, !.nextBatchId = next]
    BY <1>1, <1>2 DEF AddMutationBatch, Core, Client
  <2> QED
    BY <2>1 DEF Accept
<1>4. /\ s \in Client /\ s.user \in Users /\ s.queues \in [Users -> Queue]
      /\ s.nextBatchId \in Nat /\ Stored(s) /\ s.pipeline \in Queue
  BY DEF Core, Client
<1>5. PICK row \in Batch : row = [id |-> s.nextBatchId, write |-> w]
  BY <1>4 DEF Batch
<1>6. PICK q \in Queue : q = s.queues[s.user]
  BY <1>4
<1>7. PICK r : r = Append(q, row)
  OBVIOUS
<1>8. /\ r \in Queue /\ Len(q) \in Nat /\ Len(r) = Len(q) + 1 /\ r[Len(q) + 1] = row
      /\ \A i \in 1..Len(q) : r[i] = q[i]
  BY <1>5, <1>6, <1>7, AppendProperties, LenProperties DEF Queue
<1>9. /\ queues \in [Users -> Queue] /\ queues[s.user] = r
      /\ \A u \in Users : u # s.user => queues[u] = s.queues[u]
  BY <1>1, <1>4, <1>5, <1>6, <1>7, <1>8
<1>10. next \in Nat /\ next = s.nextBatchId + 1
  BY <1>2, <1>4
<1>11. t \in Client
  <2>1. PICK a : a = [s EXCEPT !.queues = queues, !.nextBatchId = next]
    OBVIOUS
  <2>2. a \in Client
    <3>1. s \in Client /\ queues \in [Users -> Queue] /\ next \in Nat
      BY <1>4, <1>9, <1>10
    <3> QED
      BY <2>1, <3>1 DEF Client
  <2>3. t = [a EXCEPT !.callbacks = callbacks]
    BY <1>3, <2>1
  <2> QED
    BY <2>2, <2>3 DEF Client
<1>12. /\ SameStream(s, t) /\ SameAnswers(s, t) /\ t.pipeline = s.pipeline /\ t.up = s.up
      /\ t.networkEnabled = s.networkEnabled /\ t.aborted = s.aborted
      /\ t.user = s.user /\ t.queues = queues /\ t.callbacks = callbacks
      /\ t.nextBatchId = next
      /\ t.told = s.told /\ t.pending = s.pending /\ t.waiterTold = s.waiterTold
  BY <1>3, <1>4 DEF Client, SameStream, SameAnswers
<1>13. ASSUME NEW u \in Users
       PROVE  /\ \A i \in 1..Len(t.queues[u]) :
                   1 =< t.queues[u][i].id /\ t.queues[u][i].id < t.nextBatchId
              /\ \A i, j \in 1..Len(t.queues[u]) :
                   i < j => t.queues[u][i].id < t.queues[u][j].id
  <2>1. /\ Len(s.queues[u]) \in Nat
        /\ \A i \in 1..Len(s.queues[u]) :
             /\ s.queues[u][i].id \in Nat
             /\ 1 =< s.queues[u][i].id /\ s.queues[u][i].id < s.nextBatchId
    <3>1. s.queues[u] \in Queue
      BY <1>4
    <3>2. ASSUME NEW i \in 1..Len(s.queues[u])
          PROVE  s.queues[u][i].id \in Nat
      <4>1. s.queues[u][i] \in Batch
        BY <3>1, ElementOfSeq DEF Queue
      <4> QED
        BY <4>1 DEF Batch
    <3>3. Len(s.queues[u]) \in Nat
      BY <3>1, LenProperties DEF Queue
    <3> QED
      BY <1>4, <3>2, <3>3 DEF Stored
  <2>2. CASE u # s.user
    <3>1. t.queues[u] = s.queues[u]
      BY <1>9, <1>12, <2>2
    <3>2. \A i \in 1..Len(s.queues[u]) : s.queues[u][i].id < t.nextBatchId
      BY <1>4, <1>10, <1>12, <2>1
    <3> QED
      BY <1>4, <2>1, <3>1, <3>2 DEF Stored
  <2>3. CASE u = s.user
    <3>1. t.queues[u] = r /\ s.queues[u] = q
      BY <1>6, <1>9, <1>12, <2>3
    <3>2. ASSUME NEW i \in 1..Len(r)
          PROVE  1 =< r[i].id /\ r[i].id < t.nextBatchId
      <4>1. CASE i \in 1..Len(q)
        BY <1>4, <1>6, <1>8, <1>10, <1>12, <2>1, <2>3, <4>1
      <4>2. CASE i = Len(q) + 1
        BY <1>4, <1>5, <1>8, <1>10, <1>12, <4>2 DEF Stored
      <4> QED
        BY <1>8, <4>1, <4>2
    <3>3. ASSUME NEW i \in 1..Len(r), NEW j \in 1..Len(r), i < j
          PROVE  r[i].id < r[j].id
      <4>1. i \in 1..Len(q)
        BY <1>8, <3>3
      <4>2. CASE j \in 1..Len(q)
        BY <1>4, <1>6, <1>8, <3>3, <4>1, <4>2 DEF Stored
      <4>3. CASE j = Len(q) + 1
        BY <1>5, <1>6, <1>8, <2>1, <2>3, <4>1, <4>3
      <4> QED
        BY <1>8, <4>2, <4>3
    <3> QED
      BY <3>1, <3>2, <3>3
  <2> QED
    BY <2>2, <2>3
<1>14. Stored(t)
  BY <1>4, <1>10, <1>12, <1>13 DEF Stored
<1>15. Pipelined(t)
  <2>1. IsPrefixOf(s.pipeline, q)
    BY <1>6 DEF Core, Pipelined
  <2>2. IsPrefixOf(q, r)
    BY <1>8 DEF IsPrefixOf
  <2>3. IsPrefixOf(s.pipeline, r)
    BY <1>4, <1>8, <2>1, <2>2, PrefixTransitive
  <2> QED
    BY <1>9, <1>12, <2>3 DEF Core, Pipelined
<1>16. Timed(t) /\ Flying(t)
  BY <1>12 DEF Core, Streaming, Timed, Flying, SameStream, SameAnswers, IsOpen
<1>17. Streaming(t)
  BY <1>12, <1>16
     DEF Core, Streaming, SameStream, SameAnswers, IsOpen, IsStarted
<1> QED
  BY <1>1, <1>11, <1>12, <1>14, <1>15, <1>17 DEF Core

\* setData of the next write, with the filling of the pipeline.
LEMMA DoWriteMutationsStep ==
  ASSUME Steady(client), CallbacksOnDisk(client), history.owners \in Seq(Users),
         DoWriteMutations, NEW w, w = Len(history.owners) + 1
  PROVE  /\ w \in Writes /\ Steady(client') /\ Written(client, client', w)
         /\ CallGoesOn(client, client')
<1>1. /\ client \in Client /\ Core(client) /\ Shaken(client) /\ Stored(client)
      /\ client.user \in Users /\ client.nextBatchId \in Nat
      /\ client.queues \in [Users -> Queue] /\ client.callbacks \in SUBSET Callback
  BY DEF Steady, Core, Client
<1>2. w \in Writes
  BY LenProperties, ConstantsAssumption DEF DoWriteMutations, Writes
<1>3. ~\E c \in client.callbacks : c.user = client.user /\ c.id = client.nextBatchId
  <2>1. SUFFICES ASSUME NEW c \in client.callbacks,
                        c.user = client.user, c.id = client.nextBatchId
                 PROVE  FALSE
    OBVIOUS
  <2>2. PICK i \in 1..Len(client.queues[client.user]) :
          client.queues[client.user][i].id = client.nextBatchId
    BY <2>1 DEF CallbacksOnDisk
  <2>3. client.queues[client.user][i].id < client.nextBatchId
    BY <1>1 DEF Stored
  <2> QED
    BY <1>1, <2>2, <2>3
<1>4. PICK c \in Callback :
        c = [user |-> client.user, id |-> client.nextBatchId, write |-> w]
  BY <1>1, <1>2 DEF Callback
<1>5. PICK callbacks \in SUBSET Callback : callbacks = client.callbacks \cup {c}
  BY <1>1
<1>6. PICK a : a = Accept(client, w, callbacks)
  OBVIOUS
<1>7. client' = FillWritePipeline(a)
  <2>1. client' = FillWritePipeline([AddMutationBatch(client, w)
                                       EXCEPT !.callbacks = @ \cup {c}])
    BY <1>3, <1>4 DEF DoWriteMutations
  <2>2. PICK b : b = AddMutationBatch(client, w)
    OBVIOUS
  <2>3. b.callbacks = client.callbacks
    BY <1>1, <2>2 DEF AddMutationBatch, Client
  <2>4. [b EXCEPT !.callbacks = @ \cup {c}] = a
    BY <1>5, <1>6, <2>2, <2>3 DEF Accept
  <2> QED
    BY <2>1, <2>2, <2>4
<1>8. /\ Core(a) /\ SameStream(client, a) /\ SameAnswers(client, a)
       /\ a.pipeline = client.pipeline /\ a.user = client.user /\ a.callbacks = callbacks
       /\ a.told = client.told /\ a.pending = client.pending
       /\ a.waiterTold = client.waiterTold
       /\ a.queues = [client.queues EXCEPT ![client.user] =
                        Append(@, [id |-> client.nextBatchId, write |-> w])]
  BY <1>1, <1>2, <1>6, AcceptKeeps
<1>9. /\ Core(client') /\ Full(client') /\ SameRequests(a, client')
       /\ SameAnswers(a, client') /\ IsPrefixOf(a.pipeline, client'.pipeline)
       /\ client'.handshakeComplete = a.handshakeComplete
       /\ (IsOpen(client') <=> IsOpen(a))
       /\ Awake(client') /\ (Scheduled(a) => Scheduled(client'))
  BY <1>7, <1>8, FillKeeps
<1>10. Shaken(client')
  BY <1>1, <1>8, <1>9 DEF Shaken, SameStream, IsOpen
<1>11. Written(client, client', w)
  BY <1>4, <1>5, <1>8, <1>9 DEF Written, SameRequests
<1>12. CallGoesOn(client, client')
  BY <1>8, <1>9 DEF CallGoesOn, SameAnswers
<1>13. Going(client')
  BY <1>8, <1>9 DEF Steady, Going, Scheduled, SameStream
<1> QED
  BY <1>2, <1>9, <1>10, <1>11, <1>12, <1>13 DEF Steady

\* A change of what neither the network nor the disk knows.
LEMMA OthersKeep ==
  ASSUME NEW s, Steady(s), NEW t \in Client, SameNetwork(s, t),
         t.user = s.user, t.queues = s.queues, t.nextBatchId = s.nextBatchId
  PROVE  Steady(t) /\ CallGoesOn(s, t)
<1>1. Stored(t) /\ Pipelined(t) /\ Full(t) /\ Shaken(t)
  BY DEF Steady, Core, Stored, Pipelined, Full, Shaken, SameNetwork, SameStream, IsOpen
<1>2. Timed(t) /\ Flying(t)
  BY DEF Steady, Core, Streaming, Timed, Flying, SameNetwork, SameStream, SameAnswers, IsOpen
<1>3. Streaming(t)
  BY <1>2
     DEF Steady, Core, Streaming, SameNetwork, SameStream, SameAnswers, IsOpen, IsStarted
<1>4. s.pipeline \in Queue
  BY DEF Steady, Core, Client
<1>5. CallGoesOn(s, t)
  BY <1>4, PrefixOfItself DEF CallGoesOn, SameNetwork, SameAnswers
<1> QED
  BY <1>1, <1>3, <1>5, GoingStays DEF Steady, Core, SameNetwork

\* The call of waitForPendingWrites by x.
Awaited(s, t, x) ==
  /\ t.user = s.user /\ t.queues = s.queues
  /\ t.callbacks = s.callbacks /\ t.told = s.told
  /\ LET queue == s.queues[s.user]
     IN  \/ /\ queue = <<>> /\ t.pending = s.pending
            /\ t.waiterTold = [s.waiterTold EXCEPT ![x] = "ok"]
         \/ /\ queue # <<>> /\ t.waiterTold = s.waiterTold
            /\ t.pending = s.pending \cup {[waiter |-> x, id |-> queue[Len(queue)].id]}

\* waitForPendingWrites changes neither the disk nor the network.
LEMMA RegisterPendingWritesCallbackStep ==
  ASSUME Steady(client), NEW x \in Waiters, RegisterPendingWritesCallback(x)
  PROVE  /\ Steady(client') /\ CallGoesOn(client, client') /\ Awaited(client, client', x)
<1>1. /\ client \in Client /\ client.user \in Users /\ client.queues \in [Users -> Queue]
      /\ client.waiterTold \in [Waiters -> {"none", "ok", "cancelled"}]
      /\ client.pending \in SUBSET [waiter : Waiters, id : Nat]
  BY DEF Steady, Core, Client
<1>2. PICK queue \in Queue : queue = client.queues[client.user]
  BY <1>1
<1>3. CASE queue = <<>>
  <2>1. PICK told : told = [client.waiterTold EXCEPT ![x] = "ok"]
    OBVIOUS
  <2>2. told \in [Waiters -> {"none", "ok", "cancelled"}]
    BY <1>1, <2>1
  <2>3. client' = [client EXCEPT !.waiterTold = told]
    BY <1>2, <1>3, <2>1
       DEF RegisterPendingWritesCallback, GetHighestUnacknowledgedBatchId
  <2>4. client' \in Client
    <3>1. client \in Client
      BY <1>1
    <3> QED
      BY <2>2, <2>3, <3>1 DEF Client
  <2>5. /\ SameNetwork(client, client') /\ client'.user = client.user
        /\ client'.queues = client.queues /\ client'.nextBatchId = client.nextBatchId
        /\ client'.callbacks = client.callbacks /\ client'.told = client.told
        /\ client'.pending = client.pending /\ client'.waiterTold = told
    BY <1>1, <2>3 DEF Client, SameNetwork, SameStream, SameAnswers
  <2>6. Steady(client') /\ CallGoesOn(client, client')
    BY <2>4, <2>5, OthersKeep
  <2> QED
    BY <1>2, <1>3, <2>1, <2>5, <2>6 DEF Awaited
<1>4. CASE queue # <<>>
  <2>1. queue[Len(queue)].id \in Nat
    <3>1. Len(queue) \in 1..Len(queue)
      BY <1>4, EmptySeq, LenProperties DEF Queue
    <3>2. queue[Len(queue)] \in Batch
      BY <3>1, ElementOfSeq DEF Queue
    <3> QED
      BY <3>2 DEF Batch
  <2>2. PICK pending : pending = client.pending \cup
                                   {[waiter |-> x, id |-> queue[Len(queue)].id]}
    OBVIOUS
  <2>3. pending \in SUBSET [waiter : Waiters, id : Nat]
    BY <1>1, <2>1, <2>2
  <2>4. client' = [client EXCEPT !.pending = pending]
    <3>1. GetHighestUnacknowledgedBatchId(client) = queue[Len(queue)].id
      BY <1>2, <1>4 DEF GetHighestUnacknowledgedBatchId
    <3>2. queue[Len(queue)].id # kBatchIdUnknown
      BY <2>1 DEF kBatchIdUnknown
    <3> QED
      BY <2>2, <3>1, <3>2 DEF RegisterPendingWritesCallback
  <2>5. client' \in Client
    <3>1. client \in Client
      BY <1>1
    <3> QED
      BY <2>3, <2>4, <3>1 DEF Client
  <2>6. /\ SameNetwork(client, client') /\ client'.user = client.user
        /\ client'.queues = client.queues /\ client'.nextBatchId = client.nextBatchId
        /\ client'.callbacks = client.callbacks /\ client'.told = client.told
        /\ client'.pending = pending /\ client'.waiterTold = client.waiterTold
    BY <1>1, <2>4 DEF Client, SameNetwork, SameStream, SameAnswers
  <2>7. Steady(client') /\ CallGoesOn(client, client')
    BY <2>5, <2>6, OthersKeep
  <2> QED
    BY <1>2, <1>4, <2>2, <2>6, <2>7 DEF Awaited
<1> QED
  BY <1>3, <1>4
-----------------------------------------------------------------------------
\* SyncEngine's side of HandleCredentialChange.
Switched(s, u) ==
  [FailOutstandingPendingWriteCallbacks(s)
     EXCEPT !.user = u, !.nextBatchId = LoadNextBatchIdFromDb(s.queues)]

Cancelled(told, pending) ==
  [x \in Waiters |-> IF \E p \in pending : p.waiter = x THEN "cancelled" ELSE told[x]]

\* A switch of user keeps the disk and the callbacks, and cancels the waiters.
LEMMA SwitchedFields ==
  ASSUME NEW s \in Client, Stored(s), NEW u \in Users, NEW t, t = Switched(s, u)
  PROVE  /\ t \in Client /\ Stored(t) /\ SameNetwork(s, t)
         /\ t.user = u /\ t.queues = s.queues /\ t.callbacks = s.callbacks
         /\ t.told = s.told /\ t.pending = {}
         /\ t.waiterTold = Cancelled(s.waiterTold, s.pending)
<1>1. PICK told : told = Cancelled(s.waiterTold, s.pending)
  OBVIOUS
<1>2. told \in [Waiters -> {"none", "ok", "cancelled"}]
  BY <1>1 DEF Client, Cancelled
<1>3. PICK next \in Nat : next = LoadNextBatchIdFromDb(s.queues)
  BY NextBatchId
<1>4. PICK a : a = FailOutstandingPendingWriteCallbacks(s)
  OBVIOUS
<1>5. a = [s EXCEPT !.waiterTold = told, !.pending = {}]
  BY <1>1, <1>4 DEF FailOutstandingPendingWriteCallbacks, Cancelled
<1>6. PICK none \in SUBSET [waiter : Waiters, id : Nat] : none = {}
  OBVIOUS
<1>7. a \in Client
  <2>1. PICK b : b = [s EXCEPT !.waiterTold = told]
    OBVIOUS
  <2>2. b \in Client
    BY <1>2, <2>1 DEF Client
  <2>3. a = [b EXCEPT !.pending = none]
    BY <1>5, <1>6, <2>1
  <2> QED
    BY <2>2, <2>3 DEF Client
<1>8. t = [a EXCEPT !.user = u, !.nextBatchId = next]
  BY <1>3, <1>4 DEF Switched
<1>9. t \in Client
  <2>1. PICK b : b = [a EXCEPT !.user = u]
    OBVIOUS
  <2>2. b \in Client
    BY <1>7, <2>1 DEF Client
  <2>3. t = [b EXCEPT !.nextBatchId = next]
    BY <1>8, <2>1
  <2> QED
    BY <1>3, <2>2, <2>3 DEF Client
<1>10. /\ a.user = s.user /\ a.queues = s.queues /\ a.callbacks = s.callbacks
       /\ a.told = s.told /\ a.pending = {} /\ a.waiterTold = told /\ SameNetwork(s, a)
  BY <1>5 DEF Client, SameNetwork, SameStream, SameAnswers
<1>11. /\ t.user = u /\ t.queues = a.queues /\ t.callbacks = a.callbacks
       /\ t.told = a.told /\ t.pending = a.pending /\ t.waiterTold = a.waiterTold
       /\ SameNetwork(a, t) /\ t.nextBatchId = next
  BY <1>7, <1>8 DEF Client, SameNetwork, SameStream, SameAnswers
<1>12. SameNetwork(s, t)
  BY <1>10, <1>11 DEF SameNetwork, SameStream, SameAnswers
<1>13. Stored(t)
  BY <1>3, <1>10, <1>11, NextBatchId DEF Stored
<1> QED
  BY <1>1, <1>9, <1>10, <1>11, <1>12, <1>13

\* Another user, or the same one with a new token.
UserChanged(s, t, u) ==
  /\ t.user = u /\ t.queues = s.queues
  /\ t.callbacks = s.callbacks /\ t.told = s.told
  /\ \/ u = s.user /\ t.pending = s.pending /\ t.waiterTold = s.waiterTold
     \/ t.pending = {} /\ t.waiterTold = Cancelled(s.waiterTold, s.pending)

\* A user change ends the call, and restarts the network if it is in use.
LEMMA HandleCredentialChangeStep ==
  ASSUME Steady(client), NEW u \in Users, HandleCredentialChange(u)
  PROVE  Steady(client') /\ UserChanged(client, client', u) /\ ~IsOpen(client')
<1>1. /\ client \in Client /\ ~client.aborted /\ Stored(client) /\ Timed(client)
      /\ Pipelined(client) /\ Streaming(client) /\ Core(client) /\ Shaken(client)
      /\ client.pipeline \in Queue
  BY DEF Steady, Core, Streaming, Client
<1>2. PICK s : s = IF u = client.user THEN client ELSE Switched(client, u)
  OBVIOUS
<1>3. client' = IF CanUseNetwork(client) THEN RestartNetwork(s) ELSE s
  BY <1>2 DEF HandleCredentialChange, Task, Switched
<1>4. /\ s \in Client /\ Stored(s) /\ SameNetwork(client, s)
      /\ UserChanged(client, s, u)
  <2>1. CASE u = client.user
    BY <1>1, <1>2, <2>1 DEF SameNetwork, SameStream, SameAnswers, UserChanged
  <2>2. CASE u # client.user
    <3>1. s = Switched(client, u)
      BY <1>2, <2>2
    <3> QED
      BY <1>1, <3>1, SwitchedFields DEF UserChanged
  <2> QED
    BY <2>1, <2>2
<1>5. /\ ~s.aborted /\ Timed(s) /\ Shaken(s)
      /\ s.pipeline = client.pipeline /\ s.networkEnabled = client.networkEnabled
      /\ (IsOpen(s) <=> IsOpen(client)) /\ (IsStarted(s) <=> IsStarted(client))
      /\ s.up = client.up /\ s.down = client.down
  BY <1>1, <1>4
     DEF Timed, Shaken, SameNetwork, SameStream, SameAnswers, IsOpen, IsStarted
<1>6. CASE CanUseNetwork(client)
  <2>1. ~IsOpen(s) => s.up = <<>> /\ s.down = <<>>
    BY <1>1, <1>5, NoCall
  <2>2. Loose(s)
    BY <1>4, <1>5, <2>1 DEF Loose
  <2>3. client' = RestartNetwork(s)
    BY <1>3, <1>6
  <2>4. Steady(client') /\ SameRequests(s, client') /\ ~IsOpen(client')
    BY <2>2, <2>3, RestartKeeps
  <2> QED
    BY <1>4, <2>4 DEF UserChanged, SameRequests
<1>7. CASE ~CanUseNetwork(client)
  <2>1. client' = s /\ ~client.networkEnabled
    BY <1>3, <1>7 DEF CanUseNetwork
  <2>2. client.pipeline = <<>> /\ ~IsStarted(client)
    BY <1>1, <2>1 DEF Pipelined, Streaming
  <2>3. ~IsOpen(client)
    BY <2>2 DEF IsStarted, IsOpen
  <2>4. client.up = <<>> /\ client.down = <<>>
    BY <1>1, <2>3, NoCall
  <2>5. Core(s) /\ Full(s)
    BY <1>4, <1>5, <2>1, <2>2, <2>4, UnusedIsCore
  <2>6. Steady(client') /\ ~IsOpen(client')
    BY <1>5, <2>1, <2>2, <2>3, <2>5, UnstartedIsScheduled DEF Steady
  <2> QED
    BY <1>4, <2>1, <2>6
<1> QED
  BY <1>6, <1>7

\* FirestoreClient::Initialize in a new process, up to EnableNetwork.
Fresh(s, u) ==
  [s EXCEPT !.user = u, !.nextBatchId = LoadNextBatchIdFromDb(s.queues),
            !.callbacks = {}, !.pending = {}, !.networkEnabled = FALSE,
            !.pipeline = <<>>, !.stream = "Initial", !.handshakeComplete = FALSE,
            !.timers = {}, !.requests = {}, !.hello = "none", !.up = <<>>,
            !.down = <<>>, !.status = None, !.tokenUser = None]

Restarted(s, t, u) ==
  /\ t.user = u /\ t.queues = s.queues
  /\ t.told = s.told /\ t.waiterTold = s.waiterTold
  /\ t.callbacks = {} /\ t.pending = {}

\* A process that starts finds the disk, and nothing else.
LEMMA FreshIsCore ==
  ASSUME NEW s \in Client, ~s.aborted, Stored(s), NEW u \in Users,
         NEW t, t = Fresh(s, u)
  PROVE  Core(t) /\ Shaken(t) /\ ~IsStarted(t) /\ ~IsOpen(t) /\ Restarted(s, t, u)
<1>1. PICK next \in Nat : next = LoadNextBatchIdFromDb(s.queues)
  BY NextBatchId
<1>2. PICK callbacks \in SUBSET Callback : callbacks = {}
  OBVIOUS
<1>3. PICK pending \in SUBSET [waiter : Waiters, id : Nat] : pending = {}
  OBVIOUS
<1>4. PICK empty \in Queue : empty = <<>>
  BY EmptySeq DEF Queue
<1>5. PICK timers \in SUBSET {"backoff", "idle"} : timers = {}
  OBVIOUS
<1>6. PICK requests \in SUBSET {"live", "stale"} : requests = {}
  OBVIOUS
<1>7. t = [s EXCEPT !.user = u, !.nextBatchId = next, !.callbacks = callbacks,
                    !.pending = pending, !.networkEnabled = FALSE, !.pipeline = empty,
                    !.stream = "Initial", !.handshakeComplete = FALSE,
                    !.timers = timers, !.requests = requests, !.hello = "none",
                    !.up = empty, !.down = empty, !.status = None, !.tokenUser = None]
  BY <1>1, <1>2, <1>3, <1>4, <1>5, <1>6 DEF Fresh
<1>8. t \in Client
  <2>1. PICK a : a = [s EXCEPT !.user = u, !.networkEnabled = FALSE, !.stream = "Initial",
                               !.handshakeComplete = FALSE, !.hello = "none",
                               !.status = None, !.tokenUser = None]
    OBVIOUS
  <2>2. a \in Client
    <3>1. s \in Client
      OBVIOUS
    <3>2. PICK l : l = [s EXCEPT !.user = u, !.networkEnabled = FALSE]
      OBVIOUS
    <3>3. l \in Client
      <4>1. PICK k : k = [s EXCEPT !.user = u]
        OBVIOUS
      <4>2. k \in Client
        BY <3>1, <4>1 DEF Client
      <4>3. l = [k EXCEPT !.networkEnabled = FALSE]
        BY <3>2, <4>1
      <4> QED
        BY <4>2, <4>3 DEF Client
    <3>4. PICK m : m = [l EXCEPT !.stream = "Initial"]
      OBVIOUS
    <3>5. m \in Client
      BY <3>3, <3>4 DEF Client, Streams
    <3>6. PICK n : n = [m EXCEPT !.handshakeComplete = FALSE, !.hello = "none"]
      OBVIOUS
    <3>7. n \in Client
      BY <3>5, <3>6 DEF Client
    <3>8. a = [n EXCEPT !.status = None, !.tokenUser = None]
      BY <2>1, <3>2, <3>4, <3>6
    <3> QED
      BY <3>7, <3>8 DEF Client
  <2>3. PICK b : b = [a EXCEPT !.nextBatchId = next]
    OBVIOUS
  <2>4. b \in Client
    BY <2>2, <2>3 DEF Client
  <2>5. PICK c : c = [b EXCEPT !.callbacks = callbacks]
    OBVIOUS
  <2>6. c \in Client
    BY <2>4, <2>5 DEF Client
  <2>7. PICK d : d = [c EXCEPT !.pending = pending]
    OBVIOUS
  <2>8. d \in Client
    BY <2>6, <2>7 DEF Client
  <2>9. PICK e : e = [d EXCEPT !.timers = timers]
    OBVIOUS
  <2>10. e \in Client
    BY <2>8, <2>9 DEF Client
  <2>11. PICK f : f = [e EXCEPT !.requests = requests]
    OBVIOUS
  <2>12. f \in Client
    BY <2>10, <2>11 DEF Client
  <2>13. PICK g : g = [f EXCEPT !.pipeline = empty]
    OBVIOUS
  <2>14. g \in Client
    BY <2>12, <2>13 DEF Client
  <2>15. PICK h : h = [g EXCEPT !.up = empty]
    OBVIOUS
  <2>16. h \in Client
    BY <2>14, <2>15 DEF Client
  <2>17. t = [h EXCEPT !.down = empty]
    BY <1>7, <2>1, <2>3, <2>5, <2>7, <2>9, <2>11, <2>13, <2>15
  <2> QED
    BY <2>16, <2>17 DEF Client
<1>9. /\ t.user = u /\ t.queues = s.queues /\ t.nextBatchId = next
      /\ t.told = s.told /\ t.waiterTold = s.waiterTold
      /\ t.callbacks = callbacks /\ t.pending = pending
      /\ ~t.networkEnabled /\ t.pipeline = empty /\ t.stream = "Initial"
      /\ ~t.handshakeComplete /\ t.timers = timers /\ t.requests = requests
      /\ t.hello = "none" /\ t.up = empty /\ t.down = empty /\ t.status = None
      /\ t.aborted = s.aborted
  BY <1>7 DEF Client
<1>10. ~IsStarted(t) /\ ~IsOpen(t) /\ Timed(t) /\ Shaken(t)
  BY <1>5, <1>6, <1>9 DEF IsStarted, IsOpen, Timed, Shaken
<1>11. Stored(t)
  BY <1>1, <1>9, NextBatchId DEF Stored
<1>12. Core(t)
  BY <1>4, <1>8, <1>9, <1>10, <1>11, UnusedIsCore
<1> QED
  BY <1>2, <1>3, <1>9, <1>10, <1>12 DEF Restarted

\* The process ends and is started again.
LEMMA RestartStep ==
  ASSUME Steady(client), NEW u \in Users, Restart(u)
  PROVE  Steady(client') /\ Restarted(client, client', u) /\ ~IsOpen(client')
<1>1. client \in Client /\ ~client.aborted /\ Stored(client)
  BY DEF Steady, Core
<1>2. PICK s : s = Fresh(client, u)
  OBVIOUS
<1>3. client' = EnableNetwork(s)
  BY <1>2 DEF Restart, Task, Initialize, Fresh
<1>4. Core(s) /\ Shaken(s) /\ ~IsStarted(s) /\ ~IsOpen(s) /\ Restarted(client, s, u)
  BY <1>1, <1>2, FreshIsCore
<1>5. Steady(client') /\ SameRequests(s, client') /\ ~IsOpen(client')
  BY <1>3, <1>4, EnableKeeps, UnstartedIsScheduled
<1> QED
  BY <1>4, <1>5 DEF Restarted, SameRequests

\* The first process starts with an empty disk.
LEMMA InitIsSteady ==
  ASSUME Init
  PROVE  Steady(client)
<1>1. PICK u \in Users :
        client = [user |-> u, queues |-> [v \in Users |-> <<>>], nextBatchId |-> 1,
                  callbacks |-> {}, told |-> [w \in Writes |-> "none"],
                  pending |-> {}, waiterTold |-> [x \in Waiters |-> "none"],
                  networkEnabled |-> TRUE, pipeline |-> <<>>,
                  stream |-> "Initial", handshakeComplete |-> FALSE,
                  timers |-> {}, requests |-> {}, hello |-> "none", up |-> <<>>,
                  down |-> <<>>, status |-> None, tokenUser |-> None,
                  aborted |-> FALSE]
  BY DEF Init
<1>2. PICK empty \in Queue : empty = <<>>
  BY EmptySeq DEF Queue
<1>3. Len(empty) = 0
  BY <1>2, EmptySeq DEF Queue
<1>4. PICK queues \in [Users -> Queue] : queues = [v \in Users |-> empty]
  BY <1>2
<1>5. PICK callbacks \in SUBSET Callback : callbacks = {}
  OBVIOUS
<1>6. PICK pending \in SUBSET [waiter : Waiters, id : Nat] : pending = {}
  OBVIOUS
<1>7. PICK told \in [Writes -> {"none", "ok", "error"}] : told = [w \in Writes |-> "none"]
  OBVIOUS
<1>8. PICK waiterTold \in [Waiters -> {"none", "ok", "cancelled"}] :
        waiterTold = [x \in Waiters |-> "none"]
  OBVIOUS
<1>9. PICK timers \in SUBSET {"backoff", "idle"} : timers = {}
  OBVIOUS
<1>10. PICK requests \in SUBSET {"live", "stale"} : requests = {}
  OBVIOUS
<1>11. client = [user |-> u, queues |-> queues, nextBatchId |-> 1,
                 callbacks |-> callbacks, told |-> told,
                 pending |-> pending, waiterTold |-> waiterTold,
                 networkEnabled |-> TRUE, pipeline |-> empty,
                 stream |-> "Initial", handshakeComplete |-> FALSE,
                 timers |-> timers, requests |-> requests, hello |-> "none",
                 up |-> empty, down |-> empty, status |-> None,
                 tokenUser |-> None, aborted |-> FALSE]
  BY <1>1, <1>2, <1>4, <1>5, <1>6, <1>7, <1>8, <1>9, <1>10
<1>12. client \in Client
  BY <1>11 DEF Client, Streams
<1>13. Stored(client)
  BY <1>3, <1>4, <1>11 DEF Stored
<1>14. Pipelined(client)
  BY <1>3, <1>4, <1>11, ConstantsAssumption DEF Pipelined, IsPrefixOf
<1>15. Full(client)
  BY <1>3, <1>4, <1>11 DEF Full
<1>16. Timed(client) /\ Shaken(client)
  BY <1>9, <1>10, <1>11 DEF Timed, Shaken, IsOpen
<1>17. Flying(client)
  BY <1>2, <1>11 DEF Flying
<1>18. Streaming(client)
  BY <1>2, <1>9, <1>11, <1>16, <1>17 DEF Streaming, IsOpen, IsStarted
<1>19. Going(client)
  BY <1>2, <1>11, UnstartedIsScheduled DEF IsStarted
<1> QED
  BY <1>11, <1>12, <1>13, <1>14, <1>15, <1>16, <1>18, <1>19 DEF Steady, Core
-----------------------------------------------------------------------------
\* Writes on disk belong to the user of the queue, and are in the order of setData.
Owned ==
  /\ history \in [owners : Seq(Users), awaited : [Waiters -> SUBSET Nat]]
  /\ Len(history.owners) =< MaxWrites
  /\ \A u \in Users :
       /\ \A i \in 1..Len(client.queues[u]) :
            /\ client.queues[u][i].write \in 1..Len(history.owners)
            /\ history.owners[client.queues[u][i].write] = u
       /\ \A i, j \in 1..Len(client.queues[u]) :
            i < j => client.queues[u][i].write < client.queues[u][j].write

OnDisk(s, w) == \E u \in Users : \E i \in 1..Len(s.queues[u]) : s.queues[u][i].write = w

\* What has left the disk is older than what is on it, was decided on, and has
\* not been replaced by an older write.
Forgotten ==
  \A w \in 1..Len(history.owners) : ~OnDisk(client, w) =>
    LET u == history.owners[w]
    IN  /\ \A i \in 1..Len(client.queues[u]) : w < client.queues[u][i].write
        /\ w \in server.committed \cup server.refused
        /\ w \notin server.refused => w =< server.stored[u]

\* What the server has is a write of its user.
Kept ==
  /\ server \in [committed : SUBSET Nat, refused : SUBSET Nat, stored : [Users -> Nat]]
  /\ server.committed \subseteq 1..Len(history.owners)
  /\ \A u \in Users : server.stored[u] # 0 =>
       server.stored[u] \in 1..Len(history.owners) /\ history.owners[server.stored[u]] = u

\* An answer tells what the server has done, and the server has not gone back since.
Delivered ==
  /\ \A i \in 1..Len(client.down) :
       /\ client.down[i].write \in server.committed
       /\ client.down[i].write =< server.stored[client.user]
  /\ client.status = "permissionDenied" =>
       /\ client.hello # "answered"
       /\ client.hello = "done" =>
            /\ Len(client.down) < Len(client.pipeline)
            /\ client.pipeline[Len(client.down) + 1].write \in server.refused

\* What completions were told.
ToldRight ==
  \A w \in Writes :
    /\ client.told[w] = "ok" => w \in server.committed
    /\ client.told[w] = "error" => w \in server.committed \cup server.refused

\* Whoever waits has the last of its writes to wait for.
Waited ==
  /\ \A x \in Waiters : history.awaited[x] \subseteq 1..Len(history.owners)
  /\ \A p \in client.pending : \A u \in Users : \A i \in 1..Len(client.queues[u]) :
       client.queues[u][i].write \in history.awaited[p.waiter] =>
         u = client.user /\ client.queues[u][i].id =< p.id
  /\ \A x \in Waiters : client.waiterTold[x] = "ok" =>
       \A u \in Users : \A i \in 1..Len(client.queues[u]) :
         client.queues[u][i].write \notin history.awaited[x]

Remembered == Owned /\ Forgotten /\ Kept /\ Delivered /\ ToldRight /\ Waited

IInv == Steady(client) /\ CallbacksOnDisk(client) /\ Remembered
-----------------------------------------------------------------------------
\* A step that leaves the disk and the completions alone, and may forget
\* callbacks and who waits.
Quiet(s, t) ==
  /\ t.queues = s.queues /\ t.told = s.told /\ t.callbacks \subseteq s.callbacks
  /\ (t.user = s.user /\ t.pending \subseteq s.pending) \/ t.pending = {}
  /\ \A x \in Waiters : t.waiterTold[x] = "ok" => s.waiterTold[x] = "ok"

\* A step of the stream is quiet.
LEMMA SameIsQuiet ==
  ASSUME NEW s, NEW t, SameRequests(s, t)
  PROVE  Quiet(s, t)
BY DEF SameRequests, Quiet

\* So is a user change.
LEMMA UserChangedIsQuiet ==
  ASSUME NEW s, NEW t, NEW u, UserChanged(s, t, u)
  PROVE  Quiet(s, t)
BY DEF UserChanged, Quiet, Cancelled

\* So is a restart.
LEMMA RestartedIsQuiet ==
  ASSUME NEW s, NEW t, NEW u, Restarted(s, t, u)
  PROVE  Quiet(s, t)
BY DEF Restarted, Quiet

\* While the server only moves on.
LEMMA QuietKeeps ==
  ASSUME Quiet(client, client'), UNCHANGED history,
         CallbacksOnDisk(client), Owned, ToldRight, Waited,
         server.committed \subseteq server'.committed,
         server.refused \subseteq server'.refused
  PROVE  CallbacksOnDisk(client') /\ Owned' /\ ToldRight' /\ Waited'
<1>1. CallbacksOnDisk(client')
  BY DEF Quiet, CallbacksOnDisk
<1>2. Owned'
  BY DEF Quiet, Owned
<1>3. ToldRight'
  BY DEF Quiet, ToldRight
<1>4. Waited'
  BY DEF Quiet, Waited
<1> QED
  BY <1>1, <1>2, <1>3, <1>4

\* While the server rests.
LEMMA QuietServer ==
  ASSUME client'.queues = client.queues, UNCHANGED <<server, history>>, Forgotten, Kept
  PROVE  Forgotten' /\ Kept'
BY DEF Forgotten, Kept, OnDisk

\* The answers that are to be read stay true.
LEMMA DeliveredStays ==
  ASSUME Core(client), Core(client'), UNCHANGED server, Delivered,
         \/ ~IsOpen(client')
         \/ client'.user = client.user /\ CallGoesOn(client, client')
         \/ client'.user = client.user /\ CallEnds(client, client')
  PROVE  Delivered'
<1>1. CASE client'.down = <<>> /\ client'.status = None
  BY <1>1, EmptySeq, ConstantsAssumption DEF Delivered
<1>2. CASE ~IsOpen(client')
  BY <1>1, <1>2, NoCall
<1>3. CASE client'.user = client.user /\ CallGoesOn(client, client')
  <2>1. SUFFICES ASSUME client'.down = client.down, client'.status = client.status,
                        client'.hello = client.hello
                          \/ (client.hello = "answered" /\ client'.hello = "done"),
                        IsPrefixOf(client.pipeline, client'.pipeline)
                 PROVE  Delivered'
    BY <1>1, <1>3 DEF CallGoesOn
  <2>2. \A i \in 1..Len(client'.down) :
          /\ client'.down[i].write \in server'.committed
          /\ client'.down[i].write =< server'.stored[client'.user]
    BY <1>3, <2>1 DEF Delivered
  <2>3. ASSUME client'.status = "permissionDenied"
        PROVE  client'.hello # "answered" /\ client'.hello = client.hello
    BY <2>1, <2>3 DEF Delivered
  <2>4. ASSUME client'.status = "permissionDenied", client'.hello = "done"
        PROVE  /\ Len(client'.down) < Len(client'.pipeline)
               /\ client'.pipeline[Len(client'.down) + 1].write \in server'.refused
    <3>1. /\ Len(client.down) < Len(client.pipeline)
          /\ client.pipeline[Len(client.down) + 1].write \in server.refused
      BY <2>1, <2>3, <2>4 DEF Delivered
    <3>2. client.down \in Queue /\ client.pipeline \in Queue /\ client'.pipeline \in Queue
      BY DEF Core, Client
    <3>3. /\ Len(client.down) \in Nat /\ Len(client.pipeline) \in Nat
          /\ Len(client'.pipeline) \in Nat
      BY <3>2, LenProperties DEF Queue
    <3>4. Len(client.down) + 1 \in 1..Len(client.pipeline)
      BY <3>1, <3>3
    <3>5. /\ Len(client.pipeline) =< Len(client'.pipeline)
          /\ client'.pipeline[Len(client.down) + 1] = client.pipeline[Len(client.down) + 1]
      BY <2>1, <3>4 DEF IsPrefixOf
    <3> QED
      BY <2>1, <3>1, <3>3, <3>5
  <2> QED
    BY <2>2, <2>3, <2>4 DEF Delivered
<1>4. CASE client'.user = client.user /\ CallEnds(client, client')
  BY <1>4 DEF CallEnds, Delivered
<1> QED
  BY <1>2, <1>3, <1>4

\* A queue without its head.
LEMMA RowsOfTail ==
  ASSUME NEW q \in Queue, q # <<>>, NEW r, r = Tail(q)
  PROVE  /\ r \in Queue /\ Len(q) \in Nat /\ Len(r) \in Nat /\ Len(q) = Len(r) + 1
         /\ 1 \in 1..Len(q) /\ q[1] = Head(q)
         /\ \A i \in 1..Len(r) : i + 1 \in 1..Len(q) /\ r[i] = q[i + 1]
         /\ \A i \in 1..Len(q) : i = 1 \/ (i - 1 \in 1..Len(r) /\ r[i - 1] = q[i])
<1>1. /\ r \in Queue /\ Len(q) \in Nat /\ Len(r) \in Nat /\ Len(r) = Len(q) - 1
      /\ \A i \in 1..Len(r) : r[i] = q[i + 1]
  BY HeadTailProperties, LenProperties DEF Queue
<1>2. q[1] = Head(q)
  BY HeadTailProperties DEF Queue
<1>3. Len(q) # 0
  BY EmptySeq DEF Queue
<1> QED
  BY <1>1, <1>2, <1>3

\* A queue with one more row.
LEMMA RowsOfAppend ==
  ASSUME NEW q \in Queue, NEW row \in Batch, NEW r, r = Append(q, row)
  PROVE  /\ r \in Queue /\ Len(q) \in Nat /\ Len(r) \in Nat /\ Len(r) = Len(q) + 1
         /\ r[Len(q) + 1] = row
         /\ \A i \in 1..Len(q) : i \in 1..Len(r) /\ r[i] = q[i]
         /\ \A i \in 1..Len(r) : i \in 1..Len(q) \/ i = Len(q) + 1
<1>1. /\ r \in Queue /\ Len(q) \in Nat /\ Len(r) = Len(q) + 1 /\ r[Len(q) + 1] = row
      /\ \A i \in 1..Len(q) : r[i] = q[i]
  BY AppendProperties, LenProperties DEF Queue
<1> QED
  BY <1>1
-----------------------------------------------------------------------------
\* The next write is one of user u.
Noted(u) == history' = [history EXCEPT !.owners = Append(@, u)]

\* The state after setData of write w.
LEMMA WrittenKeeps ==
  ASSUME Core(client), NEW w \in Writes, w = Len(history.owners) + 1,
         Written(client, client', w), UNCHANGED server,
         Noted(client.user),
         CallbacksOnDisk(client), Owned, Forgotten, Kept, ToldRight, Waited
  PROVE  CallbacksOnDisk(client') /\ Owned' /\ Forgotten' /\ Kept' /\ ToldRight' /\ Waited'
<1>1. /\ client.user \in Users /\ client.queues \in [Users -> Queue]
      /\ client.nextBatchId \in Nat /\ client.callbacks \in SUBSET Callback
      /\ client.pending \in SUBSET [waiter : Waiters, id : Nat]
  BY DEF Core, Client
<1>2. PICK row \in Batch : row = [id |-> client.nextBatchId, write |-> w]
  BY <1>1 DEF Batch
<1>3. PICK q \in Queue : q = client.queues[client.user]
  BY <1>1
<1>4. PICK r : r = Append(q, row)
  OBVIOUS
<1>5. /\ r \in Queue /\ Len(q) \in Nat /\ Len(r) \in Nat /\ Len(r) = Len(q) + 1
      /\ r[Len(q) + 1] = row
      /\ \A i \in 1..Len(q) : i \in 1..Len(r) /\ r[i] = q[i]
      /\ \A i \in 1..Len(r) : i \in 1..Len(q) \/ i = Len(q) + 1
  <2>1. /\ r \in Queue /\ Len(q) \in Nat /\ Len(r) \in Nat /\ Len(r) = Len(q) + 1
        /\ r[Len(q) + 1] = row
    BY <1>4, RowsOfAppend
  <2>2. \A i \in 1..Len(q) : i \in 1..Len(r) /\ r[i] = q[i]
    BY <1>4, RowsOfAppend
  <2> QED
    BY <2>1, <2>2
<1>6. /\ client'.queues[client.user] = r
      /\ \A u \in Users : u # client.user => client'.queues[u] = client.queues[u]
  BY <1>1, <1>2, <1>3, <1>4 DEF Written
<1>7. \A u \in Users :
        /\ \A i \in 1..Len(client.queues[u]) :
             i \in 1..Len(client'.queues[u]) /\ client'.queues[u][i] = client.queues[u][i]
        /\ \A i \in 1..Len(client'.queues[u]) :
             \/ i \in 1..Len(client.queues[u])
             \/ u = client.user /\ i = Len(q) + 1 /\ client'.queues[u][i] = row
  BY <1>3, <1>5, <1>6
<1>8. Len(q) + 1 \in 1..Len(r)
  BY <1>5
<1>9. PICK o \in Seq(Users) : o = history.owners
  BY DEF Owned
<1>10. PICK p \in Seq(Users) : p = Append(o, client.user)
  BY <1>1, AppendProperties
<1>11. /\ Len(o) \in Nat /\ Len(p) = w /\ w = Len(o) + 1 /\ p[w] = client.user
       /\ \A i \in 1..Len(o) : i \in 1..Len(p) /\ p[i] = o[i]
       /\ \A i \in 1..Len(p) : i \in 1..Len(o) \/ i = w
  <2>1. /\ Len(o) \in Nat /\ Len(p) = Len(o) + 1 /\ p[Len(o) + 1] = client.user
        /\ \A i \in 1..Len(o) : p[i] = o[i]
    BY <1>1, <1>10, AppendProperties, LenProperties
  <2> QED
    BY <1>9, <2>1
<1>12. /\ history' \in [owners : Seq(Users), awaited : [Waiters -> SUBSET Nat]]
       /\ history'.owners = p /\ history'.awaited = history.awaited
  <2>1. history' = [history EXCEPT !.owners = p]
    BY <1>9, <1>10 DEF Noted
  <2> QED
    BY <1>10, <2>1 DEF Owned
<1>13. w \in Nat /\ w =< MaxWrites
  BY <1>11, ConstantsAssumption DEF Writes
<1>14. CallbacksOnDisk(client')
  <2>1. SUFFICES ASSUME NEW c \in client'.callbacks
                 PROVE  \E i \in 1..Len(client'.queues[c.user]) :
                          /\ client'.queues[c.user][i].id = c.id
                          /\ client'.queues[c.user][i].write = c.write
    BY DEF CallbacksOnDisk
  <2>2. CASE c \in client.callbacks
    <3>1. c.user \in Users
      BY <1>1, <2>2 DEF Callback
    <3> QED
      BY <1>7, <2>2, <3>1 DEF CallbacksOnDisk
  <2>3. CASE c = [user |-> client.user, id |-> client.nextBatchId, write |-> w]
    BY <1>2, <1>5, <1>6, <1>8, <2>3
  <2> QED
    BY <2>2, <2>3 DEF Written
<1>15. \A u \in Users : \A i \in 1..Len(client.queues[u]) :
         /\ client.queues[u][i].write \in 1..Len(o)
         /\ o[client.queues[u][i].write] = u
  BY <1>9 DEF Owned
<1>16. Owned'
  <2>1. ASSUME NEW u \in Users, NEW i \in 1..Len(client'.queues[u])
        PROVE  /\ client'.queues[u][i].write \in 1..Len(p)
               /\ p[client'.queues[u][i].write] = u
    <3>1. CASE i \in 1..Len(client.queues[u])
      <4>1. /\ client'.queues[u][i] = client.queues[u][i]
            /\ client.queues[u][i].write \in 1..Len(o)
            /\ o[client.queues[u][i].write] = u
        BY <1>7, <1>15, <3>1
      <4> QED
        BY <1>11, <4>1
    <3>2. CASE u = client.user /\ client'.queues[u][i] = row
      <4>1. client'.queues[u][i].write = w
        BY <1>2, <3>2
      <4> QED
        BY <1>11, <1>13, <3>2, <4>1
    <3> QED
      BY <1>7, <3>1, <3>2
  <2>2. ASSUME NEW u \in Users, NEW i \in 1..Len(client'.queues[u]),
               NEW j \in 1..Len(client'.queues[u]), i < j
        PROVE  client'.queues[u][i].write < client'.queues[u][j].write
    <3>1. CASE j \in 1..Len(client.queues[u])
      <4>1. Len(client.queues[u]) \in Nat
        BY <1>1, LenProperties DEF Queue
      <4>2. i \in 1..Len(client.queues[u])
        BY <2>2, <3>1, <4>1
      <4>3. /\ client'.queues[u][i] = client.queues[u][i]
            /\ client'.queues[u][j] = client.queues[u][j]
        BY <1>7, <3>1, <4>2
      <4> QED
        BY <1>7, <2>2, <3>1, <4>2, <4>3 DEF Owned
    <3>2. CASE u = client.user /\ j = Len(q) + 1 /\ client'.queues[u][j] = row
      <4>1. i \in 1..Len(client.queues[u])
        BY <1>3, <1>5, <1>7, <2>2, <3>2
      <4>2. /\ client'.queues[u][i] = client.queues[u][i]
            /\ client.queues[u][i].write \in 1..Len(o)
        BY <1>7, <1>15, <4>1
      <4>3. client'.queues[u][j].write = w
        BY <1>2, <3>2
      <4> QED
        BY <1>11, <4>2, <4>3
    <3> QED
      BY <1>7, <3>1, <3>2
  <2> QED
    BY <1>11, <1>12, <1>13, <2>1, <2>2 DEF Owned
<1>17. Forgotten'
  <2>1. SUFFICES ASSUME NEW v \in 1..Len(p), ~OnDisk(client', v)
                 PROVE  /\ \A i \in 1..Len(client'.queues[p[v]]) :
                             v < client'.queues[p[v]][i].write
                        /\ v \in server.committed \cup server.refused
                        /\ v \notin server.refused => v =< server.stored[p[v]]
    BY <1>12 DEF Forgotten
  <2>2. v # w
    <3>1. /\ client'.queues[client.user][Len(q) + 1].write = w
          /\ Len(q) + 1 \in 1..Len(client'.queues[client.user])
      BY <1>2, <1>5, <1>6, <1>8
    <3> QED
      BY <1>1, <2>1, <3>1 DEF OnDisk
  <2>3. v \in 1..Len(o) /\ p[v] = o[v] /\ o[v] \in Users
    BY <1>9, <1>11, <2>2, ElementOfSeq
  <2>4. ~OnDisk(client, v)
    <3>1. SUFFICES ASSUME NEW u \in Users, NEW i \in 1..Len(client.queues[u]),
                          client.queues[u][i].write = v
                   PROVE  FALSE
      BY DEF OnDisk
    <3>2. i \in 1..Len(client'.queues[u]) /\ client'.queues[u][i] = client.queues[u][i]
      BY <1>7
    <3> QED
      BY <2>1, <3>1, <3>2 DEF OnDisk
  <2>5. /\ \A i \in 1..Len(client.queues[o[v]]) : v < client.queues[o[v]][i].write
        /\ v \in server.committed \cup server.refused
        /\ v \notin server.refused => v =< server.stored[o[v]]
    BY <1>9, <2>3, <2>4 DEF Forgotten
  <2>6. v < w /\ row.write = w
    BY <1>2, <1>11, <2>3
  <2>7. ASSUME NEW i \in 1..Len(client'.queues[o[v]])
        PROVE  v < client'.queues[o[v]][i].write
    <3>1. CASE i \in 1..Len(client.queues[o[v]])
      BY <1>7, <2>3, <2>5, <3>1
    <3>2. CASE client'.queues[o[v]][i] = row
      BY <2>6, <3>2
    <3> QED
      BY <1>7, <2>3, <3>1, <3>2
  <2> QED
    BY <2>3, <2>5, <2>7
<1>18. Kept'
  BY <1>9, <1>11, <1>12 DEF Kept
<1>19. ToldRight'
  BY DEF ToldRight, Written
<1>20. Waited'
  <2>1. \A x \in Waiters : history.awaited[x] \subseteq 1..Len(o)
    BY <1>9 DEF Waited
  <2>2. \A x \in Waiters : history'.awaited[x] \subseteq 1..Len(p)
    BY <1>11, <1>12, <2>1
  <2>3. \A x \in Waiters : row.write \notin history.awaited[x]
    BY <1>2, <1>11, <2>1
  <2>4. ASSUME NEW x \in Waiters, NEW u \in Users, NEW i \in 1..Len(client'.queues[u]),
               client'.queues[u][i].write \in history.awaited[x]
        PROVE  /\ i \in 1..Len(client.queues[u])
               /\ client'.queues[u][i] = client.queues[u][i]
    BY <1>7, <2>3, <2>4
  <2>5. ASSUME NEW b \in client'.pending, NEW u \in Users,
               NEW i \in 1..Len(client'.queues[u]),
               client'.queues[u][i].write \in history'.awaited[b.waiter]
        PROVE  u = client'.user /\ client'.queues[u][i].id =< b.id
    <3>1. b \in client.pending /\ b.waiter \in Waiters
      BY <1>1 DEF Written
    <3>2. client.queues[u][i].write \in history.awaited[b.waiter]
      BY <1>12, <2>4, <2>5, <3>1
    <3>3. i \in 1..Len(client.queues[u]) /\ client'.queues[u][i] = client.queues[u][i]
      BY <1>12, <2>4, <2>5, <3>1
    <3>4. u = client.user /\ client.queues[u][i].id =< b.id
      BY <3>1, <3>2, <3>3 DEF Waited
    <3> QED
      BY <3>3, <3>4 DEF Written
  <2>6. ASSUME NEW x \in Waiters, client'.waiterTold[x] = "ok", NEW u \in Users,
               NEW i \in 1..Len(client'.queues[u])
        PROVE  client'.queues[u][i].write \notin history'.awaited[x]
    BY <1>12, <2>4, <2>6 DEF Waited, Written
  <2> QED
    BY <1>12, <2>2, <2>5, <2>6 DEF Waited
<1> QED
  BY <1>14, <1>16, <1>17, <1>18, <1>19, <1>20

\* The state after waitForPendingWrites.
LEMMA AwaitedKeeps ==
  ASSUME Core(client), NEW x \in Waiters, RegisterPendingWritesCallback(x),
         Awaited(client, client', x), Stored(client),
         CallbacksOnDisk(client), Owned, Forgotten, Kept, ToldRight, Waited
  PROVE  CallbacksOnDisk(client') /\ Owned' /\ Forgotten' /\ Kept' /\ ToldRight' /\ Waited'
<1>1. /\ client.user \in Users /\ client.queues \in [Users -> Queue]
      /\ client.pending \in SUBSET [waiter : Waiters, id : Nat]
      /\ client.waiterTold \in [Waiters -> {"none", "ok", "cancelled"}]
  BY DEF Core, Client
<1>2. PICK q \in Queue : q = client.queues[client.user]
  BY <1>1
<1>3. Len(q) \in Nat /\ DOMAIN q = 1..Len(q)
  BY LenProperties DEF Queue
<1>4. PICK A : A = {q[i].write : i \in DOMAIN q}
  OBVIOUS
<1>5. /\ history' = [history EXCEPT !.awaited[x] = A] /\ UNCHANGED server
      /\ \A p \in client.pending : p.waiter # x
  BY <1>2, <1>4 DEF RegisterPendingWritesCallback
<1>6. \A a \in A : \E i \in 1..Len(q) : q[i].write = a
  BY <1>3, <1>4
<1>7. \A a \in A : a \in 1..Len(history.owners) /\ history.owners[a] = client.user
  <2>1. SUFFICES ASSUME NEW a \in A
                 PROVE  a \in 1..Len(history.owners) /\ history.owners[a] = client.user
    OBVIOUS
  <2>2. PICK i \in 1..Len(client.queues[client.user]) :
          client.queues[client.user][i].write = a
    BY <1>2, <1>6
  <2> QED
    BY <1>1, <2>2 DEF Owned
<1>8. /\ history \in [owners : Seq(Users), awaited : [Waiters -> SUBSET Nat]]
      /\ Len(history.owners) \in Nat
  BY LenProperties DEF Owned
<1>9. PICK B : B = [history.awaited EXCEPT ![x] = A]
  OBVIOUS
<1>10. /\ B \in [Waiters -> SUBSET Nat] /\ B[x] = A
       /\ \A y \in Waiters : y # x => B[y] = history.awaited[y]
  <2>1. A \subseteq Nat
    BY <1>7, <1>8
  <2>2. history.awaited \in [Waiters -> SUBSET Nat]
    BY <1>8
  <2> QED
    BY <1>9, <2>1, <2>2
<1>11. /\ history' \in [owners : Seq(Users), awaited : [Waiters -> SUBSET Nat]]
       /\ history'.owners = history.owners /\ history'.awaited = B
  <2>1. history' = [history EXCEPT !.awaited = B]
    BY <1>5, <1>8, <1>9
  <2> QED
    BY <1>8, <1>10, <2>1
<1>12. client'.user = client.user /\ client'.queues = client.queues
       /\ client'.callbacks = client.callbacks /\ client'.told = client.told
  BY DEF Awaited
<1>13. CallbacksOnDisk(client')
  BY <1>12 DEF CallbacksOnDisk
<1>14. Owned'
  BY <1>11, <1>12 DEF Owned
<1>15. Forgotten' /\ Kept'
  BY <1>5, <1>11, <1>12 DEF Forgotten, Kept, OnDisk
<1>16. ToldRight'
  BY <1>5, <1>12 DEF ToldRight
<1>17. \A y \in Waiters : B[y] \subseteq 1..Len(history.owners)
  BY <1>7, <1>10 DEF Waited
<1>18. ASSUME NEW u \in Users, NEW i \in 1..Len(client.queues[u]),
              client.queues[u][i].write \in A
       PROVE  u = client.user
  BY <1>7, <1>18 DEF Owned
<1>19. CASE q = <<>>
  <2>1. client'.pending = client.pending
        /\ client'.waiterTold = [client.waiterTold EXCEPT ![x] = "ok"]
    BY <1>2, <1>19 DEF Awaited
  <2>2. \A y \in Waiters : y # x => client'.waiterTold[y] = client.waiterTold[y]
    BY <1>1, <2>1
  <2>3. A = {}
    <3>1. Len(q) = 0
      BY <1>19, EmptySeq
    <3> QED
      BY <1>6, <3>1
  <2>4. ASSUME NEW b \in client'.pending, NEW u \in Users,
               NEW i \in 1..Len(client'.queues[u]),
               client'.queues[u][i].write \in B[b.waiter]
        PROVE  u = client'.user /\ client'.queues[u][i].id =< b.id
    <3>1. b \in client.pending /\ b.waiter \in Waiters /\ b.waiter # x
      BY <1>1, <1>5, <2>1
    <3> QED
      BY <1>10, <1>12, <2>4, <3>1 DEF Waited
  <2>5. ASSUME NEW y \in Waiters, client'.waiterTold[y] = "ok", NEW u \in Users,
               NEW i \in 1..Len(client'.queues[u])
        PROVE  client'.queues[u][i].write \notin B[y]
    <3>1. CASE y = x
      BY <1>10, <2>3, <3>1
    <3>2. CASE y # x
      BY <1>10, <1>12, <2>2, <2>5, <3>2 DEF Waited
    <3> QED
      BY <3>1, <3>2
  <2> QED
    BY <1>11, <1>13, <1>14, <1>15, <1>16, <1>17, <2>4, <2>5 DEF Waited
<1>20. CASE q # <<>>
  <2>1. /\ client'.waiterTold = client.waiterTold
        /\ client'.pending = client.pending \cup {[waiter |-> x, id |-> q[Len(q)].id]}
    BY <1>2, <1>20 DEF Awaited
  <2>2. \A i \in 1..Len(q) : q[i].id =< q[Len(q)].id
    <3>1. SUFFICES ASSUME NEW i \in 1..Len(q)
                   PROVE  q[i].id =< q[Len(q)].id
      OBVIOUS
    <3>2. Len(q) \in Nat /\ Len(q) \in 1..Len(q)
      BY <1>3, <3>1
    <3>3. q[i] \in Batch /\ q[Len(q)] \in Batch
      BY <3>2, ElementOfSeq DEF Queue
    <3>4. q[i].id \in Nat /\ q[Len(q)].id \in Nat
      BY <3>3 DEF Batch
    <3>5. i = Len(q) \/ i < Len(q)
      BY <3>1, <3>2
    <3>6. i < Len(q) => q[i].id < q[Len(q)].id
      BY <1>1, <1>2, <3>2 DEF Stored
    <3> QED
      BY <3>4, <3>5, <3>6
  <2>3. ASSUME NEW b \in client'.pending, NEW u \in Users,
               NEW i \in 1..Len(client'.queues[u]),
               client'.queues[u][i].write \in B[b.waiter]
        PROVE  u = client'.user /\ client'.queues[u][i].id =< b.id
    <3>1. CASE b \in client.pending
      <4>1. b.waiter \in Waiters /\ b.waiter # x
        BY <1>1, <1>5, <3>1
      <4> QED
        BY <1>10, <1>12, <2>3, <3>1, <4>1 DEF Waited
    <3>2. CASE b = [waiter |-> x, id |-> q[Len(q)].id]
      <4>1. b.waiter = x /\ b.id = q[Len(q)].id
        BY <3>2
      <4>2. u = client.user
        BY <1>10, <1>12, <1>18, <2>3, <4>1
      <4>3. client'.queues[u][i].id = q[i].id /\ i \in 1..Len(q)
        BY <1>2, <1>12, <4>2
      <4> QED
        BY <1>12, <2>2, <4>1, <4>2, <4>3
    <3> QED
      BY <2>1, <3>1, <3>2
  <2>4. ASSUME NEW y \in Waiters, client'.waiterTold[y] = "ok", NEW u \in Users,
               NEW i \in 1..Len(client'.queues[u])
        PROVE  client'.queues[u][i].write \notin B[y]
    <3>1. y # x
      BY <2>1, <2>4 DEF RegisterPendingWritesCallback
    <3> QED
      BY <1>10, <1>12, <2>1, <2>4, <3>1 DEF Waited
  <2> QED
    BY <1>11, <1>13, <1>14, <1>15, <1>16, <1>17, <2>3, <2>4 DEF Waited
<1> QED
  BY <1>19, <1>20

\* The state after an answer to the head of the queue.
LEMMA HeadGone ==
  ASSUME Core(client), client.queues[client.user] # <<>>,
         NEW first, first = Head(client.queues[client.user]),
         NEW outcome \in {"ok", "error"},
         Answered(client, client', first.id, outcome), UNCHANGED <<server, history>>,
         CallbacksOnDisk(client), Owned, Forgotten, Kept, ToldRight, Waited,
         first.write \in server.committed \cup server.refused,
         outcome = "ok" => first.write \in server.committed,
         first.write \notin server.refused => first.write =< server.stored[client.user]
  PROVE  CallbacksOnDisk(client') /\ Owned' /\ Forgotten' /\ Kept' /\ ToldRight' /\ Waited'
<1>1. /\ client.user \in Users /\ client.queues \in [Users -> Queue] /\ Stored(client)
      /\ client.callbacks \in SUBSET Callback
      /\ client.pending \in SUBSET [waiter : Waiters, id : Nat]
  BY DEF Core, Client
<1>2. PICK q \in Queue : q = client.queues[client.user]
  BY <1>1
<1>3. PICK r : r = Tail(q)
  OBVIOUS
<1>4. /\ r \in Queue /\ Len(q) \in Nat /\ Len(r) \in Nat /\ Len(q) = Len(r) + 1
      /\ 1 \in 1..Len(q) /\ q[1] = first
  BY <1>2, <1>3, RowsOfTail
<1>5. \A i \in 1..Len(r) : i + 1 \in 1..Len(q) /\ r[i] = q[i + 1]
  BY <1>2, <1>3, RowsOfTail
<1>6. \A i \in 1..Len(q) : i = 1 \/ (i - 1 \in 1..Len(r) /\ r[i - 1] = q[i])
  BY <1>2, <1>3, RowsOfTail
<1>7. /\ client'.queues[client.user] = r
      /\ \A u \in Users : u # client.user => client'.queues[u] = client.queues[u]
  BY <1>1, <1>2, <1>3 DEF Answered
<1>8. ASSUME NEW i \in 1..Len(q), i # 1
      PROVE  q[1].id < q[i].id /\ q[1].write < q[i].write
  <2>1. 1 \in 1..Len(q) /\ 1 < i
    BY <1>4, <1>8
  <2>2. q[1].id < q[i].id
    BY <1>1, <1>2, <2>1 DEF Stored
  <2>3. q[1].write < q[i].write
    BY <1>1, <1>2, <2>1 DEF Owned
  <2> QED
    BY <2>2, <2>3
\* A row that is left was there, and not at the head.
<1>9. ASSUME NEW u \in Users, NEW i \in 1..Len(client'.queues[u])
      PROVE  \E j \in 1..Len(client.queues[u]) :
               client'.queues[u][i] = client.queues[u][j] /\ (u = client.user => j # 1)
  <2>1. CASE u # client.user
    BY <1>7, <2>1
  <2>2. CASE u = client.user
    <3>1. i \in 1..Len(r) /\ client'.queues[u][i] = r[i]
      BY <1>7, <2>2
    <3>2. i + 1 \in 1..Len(q) /\ r[i] = q[i + 1] /\ i + 1 # 1
      BY <1>4, <1>5, <3>1
    <3> QED
      BY <1>2, <2>2, <3>1, <3>2
  <2> QED
    BY <2>1, <2>2
\* A row that was not at the head is left.
<1>10. ASSUME NEW u \in Users, NEW j \in 1..Len(client.queues[u]), u = client.user => j # 1
       PROVE  \E i \in 1..Len(client'.queues[u]) : client'.queues[u][i] = client.queues[u][j]
  <2>1. CASE u # client.user
    BY <1>7, <2>1
  <2>2. CASE u = client.user
    BY <1>2, <1>6, <1>7, <1>10, <2>2
  <2> QED
    BY <2>1, <2>2
<1>11. CallbacksOnDisk(client')
  <2>1. SUFFICES ASSUME NEW c \in client'.callbacks
                 PROVE  \E i \in 1..Len(client'.queues[c.user]) :
                          /\ client'.queues[c.user][i].id = c.id
                          /\ client'.queues[c.user][i].write = c.write
    BY DEF CallbacksOnDisk
  <2>2. /\ c \in client.callbacks /\ c.user \in Users
        /\ ~(c.user = client.user /\ c.id = first.id)
    BY <1>1 DEF Answered, Callbacks, Callback
  <2>3. PICK j \in 1..Len(client.queues[c.user]) :
          client.queues[c.user][j].id = c.id /\ client.queues[c.user][j].write = c.write
    BY <2>2 DEF CallbacksOnDisk
  <2>4. c.user = client.user => j # 1
    BY <1>2, <1>4, <2>2, <2>3
  <2> QED
    BY <1>10, <2>2, <2>3, <2>4
<1>12. Owned'
  <2>1. ASSUME NEW u \in Users, NEW i \in 1..Len(client'.queues[u])
        PROVE  /\ client'.queues[u][i].write \in 1..Len(history.owners)
               /\ history.owners[client'.queues[u][i].write] = u
    <3>1. PICK j \in 1..Len(client.queues[u]) : client'.queues[u][i] = client.queues[u][j]
      BY <1>9
    <3> QED
      BY <3>1 DEF Owned
  <2>2. ASSUME NEW u \in Users, NEW i \in 1..Len(client'.queues[u]),
               NEW j \in 1..Len(client'.queues[u]), i < j
        PROVE  client'.queues[u][i].write < client'.queues[u][j].write
    <3>1. CASE u # client.user
      BY <1>7, <2>2, <3>1 DEF Owned
    <3>2. CASE u = client.user
      <4>1. i \in 1..Len(r) /\ j \in 1..Len(r)
        BY <1>7, <3>2
      <4>2. /\ i + 1 \in 1..Len(q) /\ r[i] = q[i + 1]
            /\ j + 1 \in 1..Len(q) /\ r[j] = q[j + 1]
        BY <1>5, <4>1
      <4>3. i + 1 < j + 1
        BY <1>4, <2>2, <4>1
      <4>4. q[i + 1].write < q[j + 1].write
        BY <1>1, <1>2, <4>2, <4>3 DEF Owned
      <4> QED
        BY <1>7, <3>2, <4>2, <4>4
    <3> QED
      BY <3>1, <3>2
  <2> QED
    BY <2>1, <2>2 DEF Owned
<1>13. Forgotten'
  <2>1. SUFFICES ASSUME NEW v \in 1..Len(history.owners), ~OnDisk(client', v),
                        NEW u, u = history.owners[v]
                 PROVE  /\ \A i \in 1..Len(client'.queues[u]) : v < client'.queues[u][i].write
                        /\ v \in server.committed \cup server.refused
                        /\ v \notin server.refused => v =< server.stored[u]
    BY DEF Forgotten
  <2>2. u \in Users
    BY <2>1, ElementOfSeq DEF Owned
  <2>3. CASE OnDisk(client, v)
    <3>1. PICK o \in Users : \E i \in 1..Len(client.queues[o]) : client.queues[o][i].write = v
      BY <2>3 DEF OnDisk
    <3>2. PICK j \in 1..Len(client.queues[o]) : client.queues[o][j].write = v
      BY <3>1
    <3>3. o = client.user /\ j = 1
      BY <1>10, <2>1, <3>2 DEF OnDisk
    <3>4. v = first.write
      BY <1>2, <1>4, <3>2, <3>3
    <3>5. u = client.user
      BY <2>1, <3>2, <3>3 DEF Owned
    <3>6. ASSUME NEW i \in 1..Len(client'.queues[u])
          PROVE  v < client'.queues[u][i].write
      <4>1. PICK k \in 1..Len(q) : client'.queues[u][i] = q[k] /\ k # 1
        BY <1>2, <1>9, <2>2, <3>5
      <4> QED
        BY <1>4, <1>8, <3>4, <4>1
    <3> QED
      BY <3>4, <3>5, <3>6
  <2>4. CASE ~OnDisk(client, v)
    <3>1. /\ \A i \in 1..Len(client.queues[u]) : v < client.queues[u][i].write
          /\ v \in server.committed \cup server.refused
          /\ v \notin server.refused => v =< server.stored[u]
      BY <2>1, <2>4 DEF Forgotten
    <3> QED
      BY <1>9, <2>2, <3>1
  <2> QED
    BY <2>3, <2>4
<1>14. Kept'
  BY DEF Kept
<1>15. ToldRight'
  <2>1. SUFFICES ASSUME NEW w \in Writes
                 PROVE  /\ client'.told[w] = "ok" => w \in server.committed
                        /\ client'.told[w] = "error" =>
                             w \in server.committed \cup server.refused
    BY DEF ToldRight
  <2>2. CASE \E c \in Callbacks(client.callbacks, client.user, first.id) : c.write = w
    <3>1. PICK c \in client.callbacks :
            c.user = client.user /\ c.id = first.id /\ c.write = w
      BY <2>2 DEF Callbacks
    <3>2. PICK j \in 1..Len(q) : q[j].id = c.id /\ q[j].write = w
      BY <1>2, <3>1 DEF CallbacksOnDisk
    <3>3. j = 1
      <4>1. q[1] \in Batch
        BY <1>4, ElementOfSeq DEF Queue
      <4>2. q[1].id \in Nat /\ q[j].id = q[1].id
        BY <1>4, <3>1, <3>2, <4>1 DEF Batch
      <4> QED
        BY <1>8, <4>2
    <3>4. w = first.write /\ client'.told[w] = outcome
      BY <1>4, <2>2, <3>2, <3>3 DEF Answered, Told
    <3> QED
      BY <3>4
  <2>3. CASE ~\E c \in Callbacks(client.callbacks, client.user, first.id) : c.write = w
    <3>1. client'.told[w] = client.told[w]
      BY <2>3 DEF Answered, Told
    <3> QED
      BY <3>1 DEF ToldRight
  <2> QED
    BY <2>2, <2>3
<1>16. Waited'
  <2>1. client'.user = client.user
    BY DEF Answered
  <2>2. ASSUME NEW b \in client'.pending, NEW u \in Users,
               NEW i \in 1..Len(client'.queues[u]),
               client'.queues[u][i].write \in history.awaited[b.waiter]
        PROVE  u = client'.user /\ client'.queues[u][i].id =< b.id
    <3>1. b \in client.pending
      BY DEF Answered
    <3>2. PICK j \in 1..Len(client.queues[u]) : client'.queues[u][i] = client.queues[u][j]
      BY <1>9
    <3> QED
      BY <2>1, <2>2, <3>1, <3>2 DEF Waited
  <2>3. ASSUME NEW x \in Waiters, client'.waiterTold[x] = "ok", NEW u \in Users,
               NEW i \in 1..Len(client'.queues[u])
        PROVE  client'.queues[u][i].write \notin history.awaited[x]
    <3>1. PICK j \in 1..Len(client.queues[u]) :
            client'.queues[u][i] = client.queues[u][j] /\ (u = client.user => j # 1)
      BY <1>9
    <3>2. CASE \E p \in Awaiting(client.pending, first.id) : p.waiter = x
      <4>1. PICK p \in client.pending : p.id = first.id /\ p.waiter = x
        BY <3>2 DEF Awaiting
      <4>2. SUFFICES ASSUME client.queues[u][j].write \in history.awaited[x]
                     PROVE  FALSE
        BY <3>1
      <4>3. u = client.user /\ client.queues[u][j].id =< p.id
        BY <4>1, <4>2 DEF Waited
      <4>4. /\ j \in 1..Len(q) /\ j # 1 /\ q[j].id =< q[1].id
        BY <1>2, <1>4, <3>1, <4>1, <4>3
      <4>5. q[1].id < q[j].id
        BY <1>8, <4>4
      <4>6. q[1] \in Batch /\ q[j] \in Batch
        BY <1>4, <4>4, ElementOfSeq DEF Queue
      <4>7. q[1].id \in Nat /\ q[j].id \in Nat
        BY <4>6 DEF Batch
      <4> QED
        BY <4>4, <4>5, <4>7
    <3>3. CASE ~\E p \in Awaiting(client.pending, first.id) : p.waiter = x
      <4>1. client.waiterTold[x] = "ok"
        BY <2>3, <3>3 DEF Answered, WaiterTold
      <4> QED
        BY <3>1, <4>1 DEF Waited
    <3> QED
      BY <3>2, <3>3
  <2>4. \A x \in Waiters : history.awaited[x] \subseteq 1..Len(history.owners)
    BY DEF Waited
  <2> QED
    BY <2>2, <2>3, <2>4 DEF Waited
<1> QED
  BY <1>11, <1>12, <1>13, <1>14, <1>15, <1>16
-----------------------------------------------------------------------------
\* A step that no one asked for, and that only the client takes.
LEMMA QuietStep ==
  ASSUME IInv, Steady(client'), Quiet(client, client'), UNCHANGED <<server, history>>,
         \/ ~IsOpen(client')
         \/ client'.user = client.user /\ CallGoesOn(client, client')
         \/ client'.user = client.user /\ CallEnds(client, client')
  PROVE  IInv'
<1>1. CallbacksOnDisk(client') /\ Owned' /\ ToldRight' /\ Waited'
  BY QuietKeeps DEF IInv, Remembered
<1>2. Forgotten' /\ Kept'
  BY QuietServer DEF IInv, Remembered, Quiet
<1>3. Delivered'
  BY DeliveredStays DEF IInv, Remembered, Steady
<1> QED
  BY <1>1, <1>2, <1>3 DEF IInv, Remembered

\* A row that the pipeline holds.
LEMMA RowOfPipeline ==
  ASSUME IInv, NEW k \in 1..Len(client.pipeline)
  PROVE  /\ k \in 1..Len(client.queues[client.user]) /\ client.user \in Users
         /\ client.pipeline[k] = client.queues[client.user][k]
         /\ client.pipeline[k].write \in Nat
         /\ client.pipeline[k].write \in 1..Len(history.owners)
         /\ history.owners[client.pipeline[k].write] = client.user
<1>1. /\ client.user \in Users /\ client.pipeline \in Queue
      /\ client.queues[client.user] \in Queue
      /\ IsPrefixOf(client.pipeline, client.queues[client.user])
  BY DEF IInv, Steady, Core, Client, Pipelined
<1>2. /\ k \in 1..Len(client.queues[client.user])
      /\ client.pipeline[k] = client.queues[client.user][k]
  BY <1>1, PrefixFacts
<1>3. /\ client.pipeline[k].write \in 1..Len(history.owners)
      /\ history.owners[client.pipeline[k].write] = client.user
  BY <1>1, <1>2 DEF IInv, Remembered, Owned
<1>4. Len(history.owners) \in Nat
  BY LenProperties DEF IInv, Remembered, Owned
<1> QED
  BY <1>1, <1>2, <1>3, <1>4

\* A commit is of a write newer than all that have been forgotten.
LEMMA CommitKeeps ==
  ASSUME IInv, Commit
  PROVE  IInv'
<1>1. PICK batch : batch = Head(client.up)
  OBVIOUS
<1>2. /\ Steady(client') /\ SameRequests(client, client')
      /\ client.hello = "done" /\ client'.hello = "done" /\ client'.status = None
      /\ client.tokenUser = client.user /\ batch \in Batch
      /\ Len(client.down) \in Nat /\ Len(client.down) < Len(client.pipeline)
      /\ client.pipeline[Len(client.down) + 1] = batch
      /\ client'.down = Append(client.down, batch)
      /\ client'.pipeline = client.pipeline
  BY <1>1, CommitStep DEF IInv
<1>3. /\ client.user \in Users /\ client.down \in Queue /\ client.pipeline \in Queue
      /\ client'.down \in Queue /\ client'.up \in Queue
  BY <1>2 DEF IInv, Steady, Core, Client
<1>4. PICK w : w = batch.write
  OBVIOUS
<1>5. PICK k : k = Len(client.down) + 1
  OBVIOUS
<1>6. /\ k \in 1..Len(client.pipeline) /\ client.pipeline[k].write = w
      /\ k \in 1..Len(client.queues[client.user])
      /\ client.pipeline[k] = client.queues[client.user][k]
      /\ w \in Nat /\ w \in 1..Len(history.owners) /\ history.owners[w] = client.user
  <2>1. k \in 1..Len(client.pipeline)
    BY <1>2, <1>3, <1>5, LenProperties DEF Queue
  <2>2. client.pipeline[k].write = w
    BY <1>2, <1>4, <1>5
  <2> QED
    BY <2>1, <2>2, RowOfPipeline
<1>7. /\ UNCHANGED history
      /\ server' = [server EXCEPT !.committed = @ \cup {w}, !.stored[client.user] = w]
  BY <1>1, <1>2, <1>4 DEF Commit
<1>8. /\ server \in [committed : SUBSET Nat, refused : SUBSET Nat, stored : [Users -> Nat]]
      /\ server.committed \in SUBSET Nat /\ server.stored \in [Users -> Nat]
  BY DEF IInv, Remembered, Kept
<1>9. PICK committed : committed = server.committed \cup {w}
  OBVIOUS
<1>10. PICK stored : stored = [server.stored EXCEPT ![client.user] = w]
  OBVIOUS
<1>11. /\ committed \in SUBSET Nat /\ stored \in [Users -> Nat]
       /\ w \in committed /\ server.committed \subseteq committed
       /\ stored[client.user] = w
       /\ \A u \in Users : u # client.user => stored[u] = server.stored[u]
  BY <1>3, <1>6, <1>8, <1>9, <1>10
<1>12. /\ server' \in [committed : SUBSET Nat, refused : SUBSET Nat, stored : [Users -> Nat]]
       /\ server'.committed = committed /\ server'.refused = server.refused
       /\ server'.stored = stored
  <2>1. server' = [server EXCEPT !.committed = committed, !.stored = stored]
    BY <1>7, <1>9, <1>10
  <2> QED
    BY <1>8, <1>11, <2>1
<1>13. CallbacksOnDisk(client') /\ Owned' /\ ToldRight' /\ Waited'
  BY <1>2, <1>7, <1>11, <1>12, SameIsQuiet, QuietKeeps DEF IInv, Remembered
<1>14. Forgotten'
  <2>1. SUFFICES ASSUME NEW v \in 1..Len(history.owners), ~OnDisk(client', v),
                        NEW u, u = history.owners[v]
                 PROVE  /\ \A i \in 1..Len(client'.queues[u]) : v < client'.queues[u][i].write
                        /\ v \in committed \cup server.refused
                        /\ v \notin server.refused => v =< stored[u]
    BY <1>7, <1>12 DEF Forgotten
  <2>2. u \in Users
    BY <2>1, ElementOfSeq DEF IInv, Remembered, Owned
  <2>3. client'.queues = client.queues
    BY <1>2 DEF SameRequests
  <2>4. /\ \A i \in 1..Len(client.queues[u]) : v < client.queues[u][i].write
        /\ v \in server.committed \cup server.refused
        /\ v \notin server.refused => v =< server.stored[u]
    BY <2>1, <2>3 DEF IInv, Remembered, Forgotten, OnDisk
  <2>5. u = client.user => v < w
    BY <1>6, <2>4
  <2> QED
    BY <1>6, <1>11, <2>2, <2>3, <2>4, <2>5
<1>15. Kept'
  <2>1. ASSUME NEW u \in Users, stored[u] # 0
        PROVE  stored[u] \in 1..Len(history.owners) /\ history.owners[stored[u]] = u
    BY <1>6, <1>11, <2>1 DEF IInv, Remembered, Kept
  <2>2. committed \subseteq 1..Len(history.owners)
    BY <1>6, <1>9 DEF IInv, Remembered, Kept
  <2> QED
    BY <1>7, <1>12, <2>1, <2>2 DEF Kept
<1>16. Delivered'
  <2>1. \A i \in 1..Len(client.down) : client'.down[i] = client.down[i]
    BY <1>2, <1>3, AppendProperties DEF Queue
  <2>2. /\ client'.down[k] = batch /\ Len(client'.down) = k /\ k \in Nat
    BY <1>2, <1>3, <1>5, AppendProperties DEF Queue
  <2>3. IsPrefixOf(client'.down, client.pipeline)
    <3>1. client'.down \o client'.up = client.pipeline
      BY <1>2 DEF Steady, Core, Streaming, Flying
    <3> QED
      BY <1>3, <3>1, FirstPart
  <2>4. ASSUME NEW i \in 1..Len(client'.down)
        PROVE  client'.down[i].write \in committed /\ client'.down[i].write =< w
    <3>1. CASE i = k
      BY <1>4, <1>6, <1>11, <2>2, <3>1
    <3>2. CASE i # k
      <4>1. i \in 1..Len(client.down) /\ i < k
        BY <1>2, <1>5, <2>2, <3>2
      <4>2. client'.down[i].write \in committed
        BY <1>11, <2>1, <4>1 DEF IInv, Remembered, Delivered
      <4>3. i \in 1..Len(client.pipeline) /\ client'.down[i] = client.pipeline[i]
        BY <1>3, <2>3, PrefixFacts
      <4>4. /\ i \in 1..Len(client.queues[client.user])
            /\ client.pipeline[i] = client.queues[client.user][i]
            /\ client.pipeline[i].write \in Nat
        BY <4>3, RowOfPipeline
      <4>5. client.queues[client.user][i].write < client.queues[client.user][k].write
        BY <1>3, <1>6, <4>1, <4>4 DEF IInv, Remembered, Owned
      <4> QED
        BY <1>6, <4>2, <4>3, <4>4, <4>5
    <3> QED
      BY <3>1, <3>2
  <2>5. client'.user = client.user
    BY <1>2 DEF SameRequests
  <2>6. client'.status # "permissionDenied"
    BY <1>2, ConstantsAssumption
  <2> QED
    BY <1>11, <1>12, <2>4, <2>5, <2>6 DEF Delivered
<1> QED
  BY <1>2, <1>13, <1>14, <1>15, <1>16 DEF IInv, Remembered

\* A refusal is of the write behind those that are to be read.
LEMMA RefuseKeeps ==
  ASSUME IInv, NEW status \in {"permissionDenied", "aborted"}, Refuse(status)
  PROVE  IInv'
<1>1. PICK batch : batch = Head(client.up)
  OBVIOUS
<1>2. /\ Steady(client') /\ SameRequests(client, client')
      /\ client'.hello = "done" /\ client'.status = status
      /\ Len(client.down) \in Nat /\ Len(client.down) < Len(client.pipeline)
      /\ client.pipeline[Len(client.down) + 1] = batch /\ batch \in Batch
      /\ client'.down = client.down /\ client'.pipeline = client.pipeline
  BY <1>1, RefuseStep DEF IInv
<1>3. PICK refused : refused = server.refused \cup
                                 IF status = "aborted" THEN {} ELSE {batch.write}
  OBVIOUS
<1>4. /\ batch.write \in Nat
      /\ server \in [committed : SUBSET Nat, refused : SUBSET Nat, stored : [Users -> Nat]]
      /\ server.refused \in SUBSET Nat
  <2>1. batch.write \in 1..MaxWrites
    BY <1>2 DEF Batch, Writes
  <2> QED
    BY <2>1, ConstantsAssumption DEF IInv, Remembered, Kept
<1>5. /\ refused \in SUBSET Nat /\ server.refused \subseteq refused
      /\ status = "permissionDenied" => batch.write \in refused
  BY <1>3, <1>4
<1>6. /\ server' \in [committed : SUBSET Nat, refused : SUBSET Nat, stored : [Users -> Nat]]
      /\ server'.committed = server.committed /\ server'.refused = refused
      /\ server'.stored = server.stored /\ UNCHANGED history
  <2>1. server' = [server EXCEPT !.refused = refused] /\ UNCHANGED history
    BY <1>1, <1>3 DEF Refuse
  <2> QED
    BY <1>4, <1>5, <2>1
<1>7. CallbacksOnDisk(client') /\ Owned' /\ ToldRight' /\ Waited'
  BY <1>2, <1>5, <1>6, SameIsQuiet, QuietKeeps DEF IInv, Remembered
<1>8. client'.queues = client.queues /\ client'.user = client.user
  BY <1>2 DEF SameRequests
<1>9. Forgotten'
  BY <1>5, <1>6, <1>8 DEF IInv, Remembered, Forgotten, OnDisk
<1>10. Kept'
  BY <1>6 DEF IInv, Remembered, Kept
<1>11. Delivered'
  <2>1. \A i \in 1..Len(client.down) :
          /\ client.down[i].write \in server.committed
          /\ client.down[i].write =< server.stored[client.user]
    BY DEF IInv, Remembered, Delivered
  <2> QED
    BY <1>2, <1>5, <1>6, <1>8, <2>1 DEF Delivered
<1> QED
  BY <1>2, <1>7, <1>9, <1>10, <1>11 DEF IInv, Remembered

\* The front of the pipeline, when a result is read or when the call has failed.
LEMMA FrontDecided ==
  ASSUME IInv, client.pipeline # <<>>, client.hello = "done",
         client.down # <<>> \/ client.status = "permissionDenied",
         NEW first, first = Head(client.queues[client.user])
  PROVE  /\ client.queues[client.user] # <<>>
         /\ client.down # <<>> => first.write \in server.committed
         /\ first.write \in server.committed \cup server.refused
         /\ first.write \notin server.refused => first.write =< server.stored[client.user]
<1>1. /\ Core(client) /\ client.down \in Queue /\ client.pipeline \in Queue
      /\ client.queues[client.user] # <<>>
      /\ first = Head(client.pipeline)
  BY FrontIsHead DEF IInv, Steady, Core, Client
<1>2. CASE client.down # <<>>
  <2>1. first = Head(client.down)
    BY <1>1, <1>2, AnswerFitsFront
  <2>2. 1 \in 1..Len(client.down) /\ client.down[1] = first
    BY <1>1, <1>2, <2>1, RowsOfTail
  <2>3. /\ client.down[1].write \in server.committed
        /\ client.down[1].write =< server.stored[client.user]
    BY <2>2 DEF IInv, Remembered, Delivered
  <2> QED
    BY <1>1, <2>2, <2>3
<1>3. CASE client.down = <<>>
  <2>1. client.pipeline[Len(client.down) + 1].write \in server.refused
    BY <1>3 DEF IInv, Remembered, Delivered
  <2>2. Len(client.down) + 1 = 1
    BY <1>3, EmptySeq
  <2>3. client.pipeline[1] = first
    BY <1>1, RowsOfTail
  <2>4. first.write \in server.refused
    BY <2>1, <2>2, <2>3
  <2> QED
    BY <1>1, <1>3, <2>4
<1> QED
  BY <1>2, <1>3

\* The result that is read is of a write that the server has committed.
LEMMA ReadKeeps ==
  ASSUME IInv, OnStreamRead
  PROVE  IInv'
<1>1. PICK first : first = Head(client.queues[client.user])
  OBVIOUS
<1>2. UNCHANGED <<server, history>>
  BY DEF OnStreamRead, Task
<1>3. /\ Steady(client')
      /\ \/ SameRequests(client, client') /\ CallGoesOn(client, client')
         \/ ResultRead(client, client', first.id)
  BY <1>1, OnStreamReadStep DEF IInv
<1>4. CASE SameRequests(client, client') /\ CallGoesOn(client, client')
  <2>1. client'.user = client.user
    BY <1>4 DEF SameRequests
  <2> QED
    BY <1>2, <1>3, <1>4, <2>1, SameIsQuiet, QuietStep
<1>5. CASE ResultRead(client, client', first.id)
  <2>1. /\ client.down # <<>> /\ Answered(client, client', first.id, "ok")
        /\ client'.down = Tail(client.down) /\ client'.hello = "done"
        /\ client'.status = client.status
        /\ IsPrefixOf(Tail(client.pipeline), client'.pipeline)
    BY <1>5 DEF ResultRead
  <2>2. /\ Core(client) /\ client.down \in Queue /\ client.pipeline \in Queue
        /\ client'.pipeline \in Queue
    BY <1>3 DEF IInv, Steady, Core, Client
  <2>3. client.hello = "done" /\ client.pipeline # <<>>
    BY <2>1, <2>2, AnswerFitsFront
  <2>4. /\ client.queues[client.user] # <<>>
        /\ first.write \in server.committed
        /\ first.write \in server.committed \cup server.refused
        /\ first.write \notin server.refused =>
             first.write =< server.stored[client.user]
    BY <1>1, <2>1, <2>3, FrontDecided
  <2>5. /\ CallbacksOnDisk(client') /\ Owned' /\ Forgotten' /\ Kept' /\ ToldRight' /\ Waited'
    BY <1>1, <1>2, <2>1, <2>2, <2>4, HeadGone DEF IInv, Remembered
  <2>6. client'.user = client.user
    BY <2>1 DEF Answered
  <2>7. PICK down : down = Tail(client.down)
    OBVIOUS
  <2>8. /\ Len(down) \in Nat /\ Len(client.down) = Len(down) + 1
        /\ \A i \in 1..Len(down) : i + 1 \in 1..Len(client.down) /\ down[i] = client.down[i + 1]
    BY <2>1, <2>2, <2>7, RowsOfTail
  <2>9. PICK rest : rest = Tail(client.pipeline)
    OBVIOUS
  <2>10. /\ rest \in Queue /\ Len(rest) \in Nat /\ Len(client.pipeline) = Len(rest) + 1
         /\ \A i \in 1..Len(rest) : rest[i] = client.pipeline[i + 1]
    <3>1. rest \in Queue /\ Len(rest) \in Nat /\ Len(client.pipeline) = Len(rest) + 1
      BY <2>2, <2>3, <2>9, RowsOfTail
    <3>2. \A i \in 1..Len(rest) : rest[i] = client.pipeline[i + 1]
      BY <2>2, <2>3, <2>9, RowsOfTail
    <3> QED
      BY <3>1, <3>2
  <2>11. \A i \in 1..Len(down) :
           /\ down[i].write \in server.committed
           /\ down[i].write =< server.stored[client.user]
    BY <2>8 DEF IInv, Remembered, Delivered
  <2>12. ASSUME client.status = "permissionDenied"
         PROVE  /\ Len(down) < Len(client'.pipeline)
                /\ client'.pipeline[Len(down) + 1].write \in server.refused
    <3>1. /\ Len(client.down) < Len(client.pipeline)
          /\ client.pipeline[Len(client.down) + 1].write \in server.refused
      BY <2>3, <2>12 DEF IInv, Remembered, Delivered
    <3>2. /\ Len(down) + 1 \in 1..Len(rest)
          /\ rest[Len(down) + 1] = client.pipeline[Len(client.down) + 1]
      BY <2>8, <2>10, <3>1
    <3>3. IsPrefixOf(rest, client'.pipeline)
      BY <2>1, <2>9
    <3>4. /\ Len(down) + 1 \in 1..Len(client'.pipeline)
          /\ client'.pipeline[Len(down) + 1] = rest[Len(down) + 1]
      BY <2>2, <2>10, <3>2, <3>3, PrefixFacts
    <3>5. Len(client'.pipeline) \in Nat
      BY <2>2, LenProperties DEF Queue
    <3> QED
      BY <2>8, <3>1, <3>2, <3>4, <3>5
  <2>13. Delivered'
    BY <1>2, <2>1, <2>6, <2>7, <2>11, <2>12 DEF Delivered
  <2> QED
    BY <1>3, <2>5, <2>13 DEF IInv, Remembered
<1> QED
  BY <1>3, <1>4, <1>5

\* The write that fails with the call has been decided on.
LEMMA FinishKeeps ==
  ASSUME IInv, OnStreamFinish
  PROVE  IInv'
<1>1. PICK first : first = Head(client.queues[client.user])
  OBVIOUS
<1>2. UNCHANGED <<server, history>>
  BY DEF OnStreamFinish, Task
<1>3. /\ Steady(client') /\ CallGoesOn(client, client')
      /\ \/ SameRequests(client, client')
         \/ /\ client.status = "permissionDenied" /\ client.hello = "done"
            /\ client.pipeline # <<>> /\ Answered(client, client', first.id, "error")
  BY <1>1, OnStreamFinishStep DEF IInv
<1>4. CASE SameRequests(client, client')
  <2>1. client'.user = client.user
    BY <1>4 DEF SameRequests
  <2> QED
    BY <1>2, <1>3, <1>4, <2>1, SameIsQuiet, QuietStep
<1>5. CASE /\ client.status = "permissionDenied" /\ client.hello = "done"
           /\ client.pipeline # <<>> /\ Answered(client, client', first.id, "error")
  <2>1. /\ client.queues[client.user] # <<>>
        /\ first.write \in server.committed \cup server.refused
        /\ first.write \notin server.refused =>
             first.write =< server.stored[client.user]
    BY <1>1, <1>5, FrontDecided
  <2>2. Core(client) /\ Core(client')
    BY <1>3 DEF IInv, Steady
  <2>3. CallbacksOnDisk(client') /\ Owned' /\ Forgotten' /\ Kept' /\ ToldRight' /\ Waited'
    BY <1>1, <1>2, <1>5, <2>1, <2>2, HeadGone DEF IInv, Remembered
  <2>4. client'.user = client.user
    BY <1>5 DEF Answered
  <2>5. Delivered'
    BY <1>2, <1>3, <2>2, <2>4, DeliveredStays DEF IInv, Remembered
  <2> QED
    BY <1>3, <2>3, <2>5 DEF IInv, Remembered
<1> QED
  BY <1>3, <1>4, <1>5

\* setData.
LEMMA WriteKeeps ==
  ASSUME IInv, DoWriteMutations
  PROVE  IInv'
<1>1. PICK w : w = Len(history.owners) + 1
  OBVIOUS
<1>2. /\ w \in Writes /\ Steady(client') /\ Written(client, client', w)
      /\ CallGoesOn(client, client')
  BY <1>1, DoWriteMutationsStep DEF IInv, Remembered, Owned
<1>3. Noted(client.user) /\ UNCHANGED server /\ Core(client) /\ Core(client')
  BY <1>2 DEF DoWriteMutations, Noted, IInv, Steady
<1>4. CallbacksOnDisk(client') /\ Owned' /\ Forgotten' /\ Kept' /\ ToldRight' /\ Waited'
  BY <1>1, <1>2, <1>3, WrittenKeeps DEF IInv, Remembered
<1>5. client'.user = client.user
  BY <1>2 DEF Written
<1>6. Delivered'
  BY <1>2, <1>3, <1>5, DeliveredStays DEF IInv, Remembered
<1> QED
  BY <1>2, <1>4, <1>6 DEF IInv, Remembered

\* waitForPendingWrites.
LEMMA AwaitKeeps ==
  ASSUME IInv, NEW x \in Waiters, RegisterPendingWritesCallback(x)
  PROVE  IInv'
<1>1. /\ Steady(client') /\ CallGoesOn(client, client') /\ Awaited(client, client', x)
  BY RegisterPendingWritesCallbackStep DEF IInv
<1>2. UNCHANGED server /\ Core(client) /\ Core(client') /\ Stored(client)
  BY <1>1 DEF RegisterPendingWritesCallback, IInv, Steady, Core
<1>3. CallbacksOnDisk(client') /\ Owned' /\ Forgotten' /\ Kept' /\ ToldRight' /\ Waited'
  BY <1>1, <1>2, AwaitedKeeps DEF IInv, Remembered
<1>4. client'.user = client.user
  BY <1>1 DEF Awaited
<1>5. Delivered'
  BY <1>1, <1>2, <1>4, DeliveredStays DEF IInv, Remembered
<1> QED
  BY <1>1, <1>3, <1>5 DEF IInv, Remembered
-----------------------------------------------------------------------------
\* The invariant holds when the first process starts.
LEMMA InitInv ==
  ASSUME Init
  PROVE  IInv
<1>1. Steady(client)
  BY InitIsSteady
<1>2. /\ client.queues = [v \in Users |-> <<>>] /\ client.callbacks = {}
      /\ client.told = [w \in Writes |-> "none"] /\ client.pending = {}
      /\ client.waiterTold = [x \in Waiters |-> "none"]
      /\ client.down = <<>> /\ client.status = None /\ client.user \in Users
  BY DEF Init
<1>3. /\ server.committed = {} /\ server.refused = {}
      /\ server.stored = [u \in Users |-> 0]
      /\ server \in [committed : SUBSET Nat, refused : SUBSET Nat, stored : [Users -> Nat]]
  BY DEF Init
<1>4. /\ history.owners = <<>> /\ history.awaited = [x \in Waiters |-> {}]
      /\ history \in [owners : Seq(Users), awaited : [Waiters -> SUBSET Nat]]
      /\ Len(history.owners) = 0
  <2>1. history = [owners |-> <<>>, awaited |-> [x \in Waiters |-> {}]]
    BY DEF Init
  <2>2. PICK empty \in Seq(Users) : empty = <<>> /\ Len(empty) = 0
    BY EmptySeq
  <2> QED
    BY <2>1, <2>2
<1>5. \A u \in Users : Len(client.queues[u]) = 0
  BY <1>2, EmptySeq
<1>6. CallbacksOnDisk(client)
  BY <1>2 DEF CallbacksOnDisk
<1>7. Owned
  BY <1>4, <1>5, ConstantsAssumption DEF Owned
<1>8. Forgotten /\ Kept
  BY <1>3, <1>4 DEF Forgotten, Kept
<1>9. Delivered
  <2>1. Len(client.down) = 0
    BY <1>2, EmptySeq
  <2> QED
    BY <1>2, <2>1, ConstantsAssumption DEF Delivered
<1>10. ToldRight /\ Waited
  BY <1>2, <1>4, <1>5 DEF ToldRight, Waited
<1> QED
  BY <1>1, <1>6, <1>7, <1>8, <1>9, <1>10 DEF IInv, Remembered

\* What the program, the client and the server do keeps the invariant.
LEMMA UndisturbedKeeps ==
  ASSUME IInv, Undisturbed
  PROVE  IInv'
<1> USE DEF IInv
<1>1. CASE DoWriteMutations
  BY <1>1, WriteKeeps
<1>2. CASE \E x \in Waiters : RegisterPendingWritesCallback(x)
  BY <1>2, AwaitKeeps
<1>3. CASE TokenArrives("live", TRUE)
  <2>1. Steady(client') /\ SameRequests(client, client') /\ CallGoesOn(client, client')
    BY <1>3, LiveTokenStep
  <2> QED
    BY <1>3, <2>1, SameIsQuiet, QuietStep DEF TokenArrives, Task, SameRequests
<1>4. CASE TokenArrives("stale", TRUE)
  <2>1. Steady(client') /\ SameRequests(client, client') /\ CallGoesOn(client, client')
    BY <1>4, StaleTokenStep
  <2> QED
    BY <1>4, <2>1, SameIsQuiet, QuietStep DEF TokenArrives, Task, SameRequests
<1>5. CASE BackoffElapsed
  <2>1. Steady(client') /\ SameRequests(client, client') /\ CallGoesOn(client, client')
    BY <1>5, BackoffElapsedStep
  <2> QED
    BY <1>5, <2>1, SameIsQuiet, QuietStep DEF BackoffElapsed, Task, SameRequests
<1>6. CASE OnStreamRead
  BY <1>6, ReadKeeps
<1>7. CASE OnStreamFinish
  BY <1>7, FinishKeeps
<1>8. CASE IdleTimeout
  <2>1. Steady(client') /\ SameRequests(client, client') /\ CallGoesOn(client, client')
    BY <1>8, IdleTimeoutStep
  <2> QED
    BY <1>8, <2>1, SameIsQuiet, QuietStep DEF IdleTimeout, Task, SameRequests
<1>9. CASE AnswerHandshake
  <2>1. Steady(client') /\ SameRequests(client, client') /\ CallGoesOn(client, client')
    BY <1>9, AnswerHandshakeStep
  <2> QED
    BY <1>9, <2>1, SameIsQuiet, QuietStep DEF AnswerHandshake, Task, SameRequests
<1>10. CASE Commit
  BY <1>10, CommitKeeps
<1>11. CASE Refuse("permissionDenied")
  BY <1>11, RefuseKeeps
<1> QED
  BY <1>1, <1>2, <1>3, <1>4, <1>5, <1>6, <1>7, <1>8, <1>9, <1>10, <1>11
     DEF Undisturbed, ClientTask, ServerStep

\* So does what disturbs them.
LEMMA DisturbanceKeeps ==
  ASSUME IInv, Disturbance
  PROVE  IInv'
<1>1. ASSUME NEW u \in Users, Restart(u)
      PROVE  IInv'
  <2>1. Steady(client') /\ Restarted(client, client', u) /\ ~IsOpen(client')
    BY <1>1, RestartStep DEF IInv
  <2> QED
    BY <1>1, <2>1, RestartedIsQuiet, QuietStep DEF Restart, Task
<1>2. ASSUME NEW u \in Users, HandleCredentialChange(u)
      PROVE  IInv'
  <2>1. Steady(client') /\ UserChanged(client, client', u) /\ ~IsOpen(client')
    BY <1>2, HandleCredentialChangeStep DEF IInv
  <2> QED
    BY <1>2, <2>1, UserChangedIsQuiet, QuietStep DEF HandleCredentialChange, Task
<1>3. CASE NetworkEnabled
  <2>1. Steady(client') /\ SameRequests(client, client') /\ CallGoesOn(client, client')
    BY <1>3, NetworkEnabledStep DEF IInv
  <2> QED
    BY <1>3, <2>1, SameIsQuiet, QuietStep DEF NetworkEnabled, Task, SameRequests
<1>4. CASE NetworkDisabled
  <2>1. Steady(client') /\ SameRequests(client, client') /\ CallGoesOn(client, client')
    BY <1>4, NetworkDisabledStep DEF IInv
  <2> QED
    BY <1>4, <2>1, SameIsQuiet, QuietStep DEF NetworkDisabled, Task, SameRequests
<1>5. ASSUME NEW available \in BOOLEAN, ConnectivityChanged(available)
      PROVE  IInv'
  <2>1. Steady(client') /\ SameRequests(client, client') /\ CallGoesOn(client, client')
    BY <1>5, ConnectivityChangedStep DEF IInv
  <2> QED
    BY <1>5, <2>1, SameIsQuiet, QuietStep DEF ConnectivityChanged, Task, SameRequests
<1>6. CASE TokenArrives("live", FALSE)
  <2>1. Steady(client') /\ SameRequests(client, client') /\ CallGoesOn(client, client')
    BY <1>6, LiveTokenStep DEF IInv
  <2> QED
    BY <1>6, <2>1, SameIsQuiet, QuietStep DEF TokenArrives, Task, SameRequests
<1>7. CASE Refuse("aborted")
  BY <1>7, RefuseKeeps
<1>8. ASSUME NEW status \in {"unavailable", "permissionDenied"}, EndCall(status)
      PROVE  IInv'
  <2>1. Steady(client') /\ SameRequests(client, client') /\ CallEnds(client, client')
    BY <1>8, EndCallStep DEF IInv
  <2> QED
    BY <1>8, <2>1, SameIsQuiet, QuietStep DEF EndCall, Task, SameRequests
<1> QED
  BY <1>1, <1>2, <1>3, <1>4, <1>5, <1>6, <1>7, <1>8 DEF Disturbance

\* Nothing that the client, the server or the program does breaks the invariant.
THEOREM Inductive == Spec => []IInv
<1>1. Init => IInv
  BY InitInv
<1>2. IInv /\ [Next]_vars => IInv'
  <2> SUFFICES ASSUME IInv, [Next]_vars PROVE IInv'
    OBVIOUS
  <2>1. CASE Next
    BY <2>1, UndisturbedKeeps, DisturbanceKeeps DEF Next
  <2>2. CASE UNCHANGED vars
    <3>1. client' = client /\ server' = server /\ history' = history
      BY <2>2 DEF vars
    <3>2. Steady(client') /\ CallbacksOnDisk(client')
      BY <3>1 DEF IInv
    <3>3. Owned' /\ Waited'
      BY <3>1 DEF IInv, Remembered, Owned, Waited
    <3>4. Forgotten' /\ Kept'
      BY <3>1, QuietServer DEF IInv, Remembered
    <3>5. Delivered' /\ ToldRight'
      BY <3>1 DEF IInv, Remembered, Delivered, ToldRight
    <3> QED
      BY <3>2, <3>3, <3>4, <3>5 DEF IInv, Remembered
  <2> QED
    BY <2>1, <2>2
<1> QED
  BY <1>1, <1>2, PTL DEF Spec
-----------------------------------------------------------------------------
(***************************************************************************)
(* No HARD_ASSERT of the write path fails, for any number of users, writes,*)
(* waiters and any capacity of the pipeline.                               *)
(***************************************************************************)
THEOREM AssertionsHold == Spec => []NoHardAssert
<1>1. IInv => NoHardAssert
  BY DEF IInv, Steady, Core, NoHardAssert
<1> QED
  BY <1>1, Inductive, PTL

(***************************************************************************)
(* Pipeline, queue on disk, the messages of the call and the callbacks name*)
(* the same writes in the same order, whatever restarts the stream.        *)
(***************************************************************************)
THEOREM AnswersMeetTheirWrites == Spec => []Correlated
<1>1. IInv => PipelineIsFull
  <2> SUFFICES ASSUME IInv PROVE PipelineIsFull
    OBVIOUS
  <2>1. /\ client.pipeline \in Queue /\ client.queues[client.user] \in Queue
        /\ Pipelined(client) /\ Full(client)
    BY DEF IInv, Steady, Core, Client
  <2>2. Len(client.pipeline) \in Nat /\ Len(client.queues[client.user]) \in Nat
    BY <2>1, LenProperties DEF Queue
  <2>3. IsPrefixOf(client.pipeline, client.queues[client.user])
    BY <2>1 DEF Pipelined
  <2>4. Len(client.pipeline) =< Len(client.queues[client.user])
    BY <2>3 DEF IsPrefixOf
  <2>5. ~client.networkEnabled => Len(client.pipeline) = 0
    BY <2>1, EmptySeq DEF Pipelined
  <2>6. Len(client.pipeline) =< kMaxPendingWrites
    BY <2>1 DEF Pipelined
  <2> QED
    BY <2>1, <2>2, <2>3, <2>4, <2>5, <2>6, ConstantsAssumption DEF PipelineIsFull, Full
<1>2. IInv => InFlight
  <2> SUFFICES ASSUME IInv PROVE InFlight
    OBVIOUS
  <2>1. Flying(client) /\ client.down \in Queue /\ client.up \in Queue
    BY DEF IInv, Steady, Core, Streaming, Client
  <2>2. CASE client.hello # "done"
    <3>1. client.down = <<>> /\ client.up = <<>>
      BY <2>1, <2>2 DEF Flying
    <3>2. client.down \o client.up = <<>>
      BY <2>1, <3>1, ConcatEmptySeq DEF Queue
    <3> QED
      BY <2>2, <3>2 DEF InFlight
  <2>3. CASE client.hello = "done"
    BY <2>1, <2>3 DEF Flying, InFlight
  <2> QED
    BY <2>2, <2>3
<1>3. IInv => CallbacksMatchBatches
  <2> SUFFICES ASSUME IInv PROVE CallbacksMatchBatches
    OBVIOUS
  <2>1. /\ client.queues \in [Users -> Queue] /\ Stored(client)
        /\ client.callbacks \in SUBSET Callback /\ CallbacksOnDisk(client)
    BY DEF IInv, Steady, Core, Client
  <2>2. ASSUME NEW c \in client.callbacks
        PROVE  /\ c \in Callback /\ c.user \in Users
               /\ DOMAIN client.queues[c.user] = 1..Len(client.queues[c.user])
    <3>1. c \in Callback /\ c.user \in Users
      BY <2>1 DEF Callback
    <3>2. client.queues[c.user] \in Queue
      BY <2>1, <3>1
    <3> QED
      BY <3>1, <3>2, LenProperties DEF Queue
  <2>3. ASSUME NEW c \in client.callbacks
        PROVE  \E i \in DOMAIN client.queues[c.user] :
                 client.queues[c.user][i] = [id |-> c.id, write |-> c.write]
    <3>1. PICK i \in 1..Len(client.queues[c.user]) :
            client.queues[c.user][i].id = c.id /\ client.queues[c.user][i].write = c.write
      BY <2>1 DEF CallbacksOnDisk
    <3>2. client.queues[c.user][i] \in Batch
      BY <2>1, <2>2, ElementOfSeq DEF Queue
    <3>3. client.queues[c.user][i] = [id |-> c.id, write |-> c.write]
      BY <3>1, <3>2 DEF Batch
    <3> QED
      BY <2>2, <3>3
  <2>4. ASSUME NEW c \in client.callbacks, NEW d \in client.callbacks,
               c.user = d.user, c.id = d.id
        PROVE  c = d
    <3>1. PICK q \in Queue : q = client.queues[c.user]
      BY <2>1, <2>2
    <3>2. PICK i \in 1..Len(q) : q[i].id = c.id /\ q[i].write = c.write
      BY <2>1, <3>1 DEF CallbacksOnDisk
    <3>3. PICK j \in 1..Len(q) : q[j].id = c.id /\ q[j].write = d.write
      BY <2>1, <2>4, <3>1 DEF CallbacksOnDisk
    <3>4. q[i] \in Batch /\ q[j] \in Batch /\ Len(q) \in Nat
      BY ElementOfSeq, LenProperties DEF Queue
    <3>5. q[i].id \in Nat /\ q[j].id \in Nat
      BY <3>4 DEF Batch
    <3>6. ~(i < j) /\ ~(j < i)
      BY <2>1, <2>2, <3>1, <3>2, <3>3, <3>5 DEF Stored
    <3>7. i = j
      BY <3>4, <3>6
    <3>8. c \in Callback /\ d \in Callback /\ c.write = d.write
      BY <2>2, <3>2, <3>3, <3>7
    <3> QED
      BY <2>4, <3>8 DEF Callback
  <2> QED
    BY <2>3, <2>4 DEF CallbacksMatchBatches
<1> QED
  BY <1>1, <1>2, <1>3, Inductive, PTL DEF Correlated

\* Issued and Queued, by the numbers of the rows.
LEMMA RowsOfQueues ==
  ASSUME IInv, NEW u \in Users
  PROVE  /\ DOMAIN client.queues[u] = 1..Len(client.queues[u])
         /\ Issued = 1..Len(history.owners)
         /\ \A w : w \in Queued(u) <=>
              \E i \in 1..Len(client.queues[u]) : client.queues[u][i].write = w
<1>1. client.queues[u] \in Queue
  BY DEF IInv, Steady, Core, Client
<1>2. DOMAIN client.queues[u] = 1..Len(client.queues[u])
  BY <1>1, LenProperties DEF Queue
<1>3. Issued = 1..Len(history.owners)
  BY LenProperties DEF IInv, Remembered, Owned, Issued
<1> QED
  BY <1>2, <1>3 DEF Queued

(***************************************************************************)
(* A write is on disk until the server has decided on it, and completions  *)
(* are told what the server did.                                           *)
(***************************************************************************)
THEOREM WritesAreKept == Spec => []NoWriteIsLost
<1>1. IInv => NoWriteIsLost
  <2> SUFFICES ASSUME IInv, NEW w \in Issued
               PROVE  /\ w \in Queued(history.owners[w]) \cup Decided
                      /\ client.told[w] = "ok" => w \in server.committed
                      /\ client.told[w] = "error" => w \in Decided
    BY DEF NoWriteIsLost
  <2>1. /\ history.owners \in Seq(Users) /\ Len(history.owners) \in Nat
        /\ Len(history.owners) =< MaxWrites
    BY LenProperties DEF IInv, Remembered, Owned
  <2>2. w \in 1..Len(history.owners)
    BY <2>1, LenProperties DEF Issued
  <2>3. history.owners[w] \in Users /\ w \in Writes
    BY <2>1, <2>2, ElementOfSeq, ConstantsAssumption DEF Writes
  <2>4. CASE OnDisk(client, w)
    <3>1. PICK u \in Users : \E i \in 1..Len(client.queues[u]) : client.queues[u][i].write = w
      BY <2>4 DEF OnDisk
    <3>2. history.owners[w] = u
      BY <3>1 DEF IInv, Remembered, Owned
    <3> QED
      BY <2>3, <3>1, <3>2, RowsOfQueues DEF IInv, Remembered, ToldRight, Decided
  <2>5. CASE ~OnDisk(client, w)
    BY <2>2, <2>3, <2>5 DEF IInv, Remembered, Forgotten, ToldRight, Decided
  <2> QED
    BY <2>4, <2>5
<1> QED
  BY <1>1, Inductive, PTL

(***************************************************************************)
(* The server's document is never older than a write that the client has   *)
(* seen committed, although writes are sent again.                         *)
(***************************************************************************)
THEOREM DocumentsDoNotRegress == Spec => []NoRegression
<1>1. IInv => NoRegression
  <2> SUFFICES ASSUME IInv, NEW u \in Users
               PROVE  /\ \A w \in server.committed \ server.refused :
                           history.owners[w] = u /\ w \notin Queued(u) => w =< server.stored[u]
                      /\ server.stored[u] # 0 => history.owners[server.stored[u]] = u
    BY DEF NoRegression
  <2>1. server.stored[u] # 0 => history.owners[server.stored[u]] = u
    BY DEF IInv, Remembered, Kept
  <2>2. ASSUME NEW w \in server.committed \ server.refused,
               history.owners[w] = u, w \notin Queued(u)
        PROVE  w =< server.stored[u]
    <3>1. w \in 1..Len(history.owners)
      BY DEF IInv, Remembered, Kept
    <3>2. ~OnDisk(client, w)
      <4>1. SUFFICES ASSUME NEW o \in Users, NEW i \in 1..Len(client.queues[o]),
                            client.queues[o][i].write = w
                     PROVE  FALSE
        BY DEF OnDisk
      <4>2. o = u
        BY <2>2, <4>1 DEF IInv, Remembered, Owned
      <4> QED
        BY <2>2, <4>1, <4>2, RowsOfQueues
    <3> QED
      BY <2>2, <3>1, <3>2 DEF IInv, Remembered, Forgotten
  <2> QED
    BY <2>1, <2>2
<1> QED
  BY <1>1, Inductive, PTL

(***************************************************************************)
(* Whoever waited for pending writes, and was told so, has none pending.   *)
(***************************************************************************)
THEOREM WaitingEndsRight == Spec => []WaitersWereRight
<1>1. IInv => WaitersWereRight
  <2> SUFFICES ASSUME IInv, NEW x \in Waiters, client.waiterTold[x] = "ok",
                      NEW u \in Users
               PROVE  history.awaited[x] \cap Queued(u) = {}
    BY DEF WaitersWereRight
  <2>1. \A i \in 1..Len(client.queues[u]) : client.queues[u][i].write \notin history.awaited[x]
    BY DEF IInv, Remembered, Waited
  <2> QED
    BY <2>1, RowsOfQueues
<1> QED
  BY <1>1, Inductive, PTL
-----------------------------------------------------------------------------
\* The writes of a queue.
WritesOf(q) == [i \in DOMAIN q |-> q[i].write]

\* There is one write for each row.
LEMMA WritesOfQueue ==
  ASSUME NEW q \in Queue
  PROVE  /\ WritesOf(q) \in Seq(Writes) /\ Len(WritesOf(q)) = Len(q) /\ Len(q) \in Nat
         /\ \A i \in 1..Len(q) : WritesOf(q)[i] = q[i].write
<1>1. DOMAIN q = 1..Len(q) /\ Len(q) \in Nat
  BY LenProperties DEF Queue
<1>2. \A i \in 1..Len(q) : q[i].write \in Writes
  <2>1. \A i \in 1..Len(q) : q[i] \in Batch
    BY ElementOfSeq DEF Queue
  <2> QED
    BY <2>1 DEF Batch
<1>3. PICK f : f = WritesOf(q)
  OBVIOUS
<1>4. f \in [1..Len(q) -> Writes] /\ \A i \in 1..Len(q) : f[i] = q[i].write
  BY <1>1, <1>2, <1>3 DEF WritesOf
<1>5. f \in Seq(Writes)
  BY <1>1, <1>4, SeqDef
<1>6. Len(f) = Len(q)
  BY <1>1, <1>4, <1>5, LenProperties
<1> QED
  BY <1>1, <1>3, <1>4, <1>5, <1>6

\* A row more is a write more.
LEMMA WritesOfAppend ==
  ASSUME NEW q \in Queue, NEW row \in Batch, NEW r, r = Append(q, row)
  PROVE  WritesOf(r) = Append(WritesOf(q), row.write)
<1>1. /\ r \in Queue /\ Len(q) \in Nat /\ Len(r) = Len(q) + 1 /\ r[Len(q) + 1] = row
      /\ \A i \in 1..Len(q) : r[i] = q[i]
  <2>1. /\ r \in Queue /\ Len(q) \in Nat /\ Len(r) = Len(q) + 1 /\ r[Len(q) + 1] = row
    BY RowsOfAppend
  <2>2. \A i \in 1..Len(q) : r[i] = q[i]
    BY RowsOfAppend
  <2> QED
    BY <2>1, <2>2
<1>2. PICK a : a = WritesOf(q)
  OBVIOUS
<1>3. a \in Seq(Writes) /\ Len(a) = Len(q) /\ \A i \in 1..Len(q) : a[i] = q[i].write
  BY <1>2, WritesOfQueue
<1>4. PICK w \in Writes : w = row.write
  BY DEF Batch
<1>5. PICK b : b = Append(a, w)
  OBVIOUS
<1>6. /\ b \in Seq(Writes) /\ Len(b) = Len(q) + 1 /\ b[Len(q) + 1] = w
      /\ \A i \in 1..Len(q) : b[i] = q[i].write
  <2>1. /\ b \in Seq(Writes) /\ Len(b) = Len(a) + 1 /\ b[Len(a) + 1] = w
        /\ \A i \in 1..Len(a) : b[i] = a[i]
    BY <1>3, <1>5, AppendProperties
  <2> QED
    BY <1>3, <2>1
<1>7. PICK d : d = WritesOf(r)
  OBVIOUS
<1>8. d \in Seq(Writes) /\ Len(d) = Len(r) /\ \A i \in 1..Len(r) : d[i] = r[i].write
  BY <1>1, <1>7, WritesOfQueue
<1>9. ASSUME NEW i \in 1..Len(d)
      PROVE  d[i] = b[i]
  <2>1. i \in 1..Len(q) \/ i = Len(q) + 1
    BY <1>1, <1>8
  <2>2. d[i] = r[i].write
    BY <1>8
  <2> QED
    BY <1>1, <1>4, <1>6, <2>1, <2>2
<1>10. d = b
  BY <1>1, <1>6, <1>8, <1>9, SeqEqual
<1> QED
  BY <1>2, <1>4, <1>5, <1>7, <1>10

\* A queue without its head has the writes without the first.
LEMMA WritesOfTail ==
  ASSUME NEW q \in Queue, q # <<>>
  PROVE  /\ WritesOf(q) # <<>> /\ Head(WritesOf(q)) = Head(q).write
         /\ WritesOf(Tail(q)) = Tail(WritesOf(q))
<1>1. PICK r : r = Tail(q)
  OBVIOUS
<1>2. /\ r \in Queue /\ Len(q) \in Nat /\ Len(r) \in Nat /\ Len(q) = Len(r) + 1
      /\ 1 \in 1..Len(q) /\ q[1] = Head(q)
  BY <1>1, RowsOfTail
<1>3. \A i \in 1..Len(r) : i + 1 \in 1..Len(q) /\ r[i] = q[i + 1]
  BY <1>1, RowsOfTail
<1>4. PICK a : a = WritesOf(q)
  OBVIOUS
<1>5. a \in Seq(Writes) /\ Len(a) = Len(q) /\ \A i \in 1..Len(q) : a[i] = q[i].write
  BY <1>4, WritesOfQueue
<1>6. a # <<>>
  <2>1. Len(a) # 0
    BY <1>2, <1>5
  <2> QED
    BY <2>1, EmptySeq
<1>7. Head(a) = Head(q).write
  <2>1. Head(a) = a[1]
    BY <1>5, <1>6
  <2> QED
    BY <1>2, <1>5, <2>1
<1>8. PICK b : b = Tail(a)
  OBVIOUS
<1>9. /\ b \in Seq(Writes) /\ Len(b) = Len(r)
      /\ \A i \in 1..Len(b) : b[i] = a[i + 1]
  <2>1. /\ b \in Seq(Writes) /\ Len(b) = Len(a) - 1
        /\ \A i \in 1..Len(b) : b[i] = a[i + 1]
    BY <1>5, <1>6, <1>8, HeadTailProperties
  <2> QED
    BY <1>2, <1>5, <2>1
<1>10. PICK d : d = WritesOf(r)
  OBVIOUS
<1>11. d \in Seq(Writes) /\ Len(d) = Len(r) /\ \A i \in 1..Len(r) : d[i] = r[i].write
  BY <1>2, <1>10, WritesOfQueue
<1>12. \A i \in 1..Len(d) : d[i] = b[i]
  BY <1>3, <1>5, <1>9, <1>11
<1>13. d = b
  BY <1>9, <1>11, <1>12, SeqEqual
<1> QED
  BY <1>1, <1>4, <1>6, <1>7, <1>8, <1>10, <1>13

\* The state of the promise.
Pending(s) == [u \in Users |-> WritesOf(s.queues[u])]
Waits(s) == {c.write : c \in s.callbacks}

\* setData is Enqueue.
LEMMA WriteEnqueues ==
  ASSUME IInv, DoWriteMutations
  PROVE  \E w \in Writes :
           /\ client'.user = client.user /\ w \notin Waits(client)
           /\ Pending(client') = [Pending(client) EXCEPT ![client.user] = Append(@, w)]
           /\ Waits(client') = Waits(client) \cup {w}
<1>1. PICK w : w = Len(history.owners) + 1
  OBVIOUS
<1>2. w \in Writes /\ Written(client, client', w)
  BY <1>1, DoWriteMutationsStep DEF IInv, Remembered, Owned
<1>3. /\ client.user \in Users /\ client.queues \in [Users -> Queue]
      /\ client.nextBatchId \in Nat /\ client.callbacks \in SUBSET Callback
      /\ Len(history.owners) \in Nat
  BY LenProperties DEF IInv, Steady, Core, Client, Remembered, Owned
<1>4. PICK row \in Batch : row = [id |-> client.nextBatchId, write |-> w]
  BY <1>2, <1>3 DEF Batch
<1>5. row.write = w
  BY <1>4
<1>6. PICK q \in Queue : q = client.queues[client.user]
  BY <1>3
<1>7. PICK r : r = Append(q, row)
  OBVIOUS
<1>8. client'.queues = [client.queues EXCEPT ![client.user] = r]
  BY <1>2, <1>4, <1>6, <1>7 DEF Written
<1>9. WritesOf(r) = Append(WritesOf(q), w)
  BY <1>5, <1>7, WritesOfAppend
<1>10. Pending(client') = [Pending(client) EXCEPT ![client.user] = Append(@, w)]
  BY <1>3, <1>6, <1>8, <1>9 DEF Pending
<1>11. w \notin Waits(client)
  <2>1. SUFFICES ASSUME NEW c \in client.callbacks, c.write = w
                 PROVE  FALSE
    BY DEF Waits
  <2>2. c.user \in Users
    BY <1>3 DEF Callback
  <2>3. PICK i \in 1..Len(client.queues[c.user]) : client.queues[c.user][i].write = w
    BY <2>1 DEF IInv, CallbacksOnDisk
  <2>4. w \in 1..Len(history.owners)
    BY <2>2, <2>3 DEF IInv, Remembered, Owned
  <2> QED
    BY <1>1, <1>3, <2>4
<1>12. Waits(client') = Waits(client) \cup {w}
  <2>1. PICK c : c = [user |-> client.user, id |-> client.nextBatchId, write |-> w]
    OBVIOUS
  <2>2. client'.callbacks = client.callbacks \cup {c} /\ c.write = w
    BY <1>2, <2>1 DEF Written
  <2> QED
    BY <2>2 DEF Waits
<1> QED
  BY <1>2, <1>10, <1>11, <1>12 DEF Written

\* An answer is Answer: it calls the completion of its write and no other.
LEMMA HeadIsAnswered ==
  ASSUME IInv, client.queues[client.user] # <<>>,
         NEW first, first = Head(client.queues[client.user]),
         NEW outcome, Answered(client, client', first.id, outcome)
  PROVE  /\ client'.user = client.user /\ Pending(client)[client.user] # <<>>
         /\ Pending(client') = [Pending(client) EXCEPT ![client.user] = Tail(@)]
         /\ Waits(client') = Waits(client) \ {Head(Pending(client)[client.user])}
<1>1. /\ client.user \in Users /\ client.queues \in [Users -> Queue] /\ Stored(client)
      /\ client.callbacks \in SUBSET Callback
  BY DEF IInv, Steady, Core, Client
<1>2. PICK q \in Queue : q = client.queues[client.user]
  BY <1>1
<1>3. PICK r : r = Tail(q)
  OBVIOUS
<1>4. /\ Len(q) \in Nat /\ 1 \in 1..Len(q) /\ q[1] = first
  BY <1>2, RowsOfTail
<1>5. /\ WritesOf(q) # <<>> /\ Head(WritesOf(q)) = first.write
      /\ WritesOf(r) = Tail(WritesOf(q))
  BY <1>2, <1>3, WritesOfTail
<1>6. Pending(client)[client.user] = WritesOf(q)
  BY <1>1, <1>2 DEF Pending
<1>7. client'.queues = [client.queues EXCEPT ![client.user] = r]
  BY <1>2, <1>3 DEF Answered
<1>8. Pending(client') = [Pending(client) EXCEPT ![client.user] = Tail(@)]
  BY <1>1, <1>2, <1>5, <1>7 DEF Pending
<1>9. q[1] \in Batch /\ q[1].id \in Nat /\ q[1].write \in Nat
  <2>1. q[1] \in Batch
    BY <1>4, ElementOfSeq DEF Queue
  <2> QED
    BY <2>1, ConstantsAssumption DEF Batch, Writes
\* A callback is of the first batch if and only if it is of its write.
<1>10. ASSUME NEW c \in client.callbacks
       PROVE  c.user = client.user /\ c.id = first.id <=> c.write = first.write
  <2>1. c.user \in Users
    BY <1>1 DEF Callback
  <2>2. PICK j \in 1..Len(client.queues[c.user]) :
          client.queues[c.user][j].id = c.id /\ client.queues[c.user][j].write = c.write
    BY DEF IInv, CallbacksOnDisk
  <2>3. ASSUME c.user = client.user, j # 1
        PROVE  q[1].id < c.id /\ q[1].write < c.write
    <3>1. j \in 1..Len(q) /\ 1 < j /\ q[j].id = c.id /\ q[j].write = c.write
      BY <1>2, <1>4, <2>2, <2>3
    <3>2. q[1].id < q[j].id
      BY <1>1, <1>2, <1>4, <3>1 DEF Stored
    <3>3. q[1].write < q[j].write
      BY <1>1, <1>2, <1>4, <3>1 DEF IInv, Remembered, Owned
    <3> QED
      BY <3>1, <3>2, <3>3
  <2>4. ASSUME c.user = client.user, c.id = first.id
        PROVE  c.write = first.write
    BY <1>2, <1>4, <1>9, <2>2, <2>3, <2>4
  <2>5. ASSUME c.write = first.write
        PROVE  c.user = client.user /\ c.id = first.id
    <3>1. history.owners[c.write] = c.user
      BY <2>1, <2>2 DEF IInv, Remembered, Owned
    <3>2. history.owners[q[1].write] = client.user
      BY <1>1, <1>2, <1>4 DEF IInv, Remembered, Owned
    <3>3. c.user = client.user
      BY <1>4, <2>5, <3>1, <3>2
    <3>4. j = 1
      BY <1>4, <1>9, <2>3, <2>5, <3>3
    <3> QED
      BY <1>2, <1>4, <2>2, <3>3, <3>4
  <2> QED
    BY <2>4, <2>5
<1>11. client'.callbacks = {c \in client.callbacks : c.write # first.write}
  <2>1. client'.callbacks = client.callbacks \ Callbacks(client.callbacks, client.user, first.id)
    BY DEF Answered
  <2> QED
    BY <1>10, <2>1 DEF Callbacks
<1>12. Waits(client') = Waits(client) \ {first.write}
  BY <1>11 DEF Waits
<1> QED
  BY <1>5, <1>6, <1>8, <1>12 DEF Answered

\* The promise's view of a step.
Enqueued(s, t) ==
  \E w \in Writes :
    /\ t.user = s.user /\ w \notin Waits(s)
    /\ Pending(t) = [Pending(s) EXCEPT ![s.user] = Append(@, w)]
    /\ Waits(t) = Waits(s) \cup {w}

HeadAnswered(s, t) ==
  /\ t.user = s.user /\ Pending(s)[s.user] # <<>>
  /\ Pending(t) = [Pending(s) EXCEPT ![s.user] = Tail(@)]
  /\ Waits(t) = Waits(s) \ {Head(Pending(s)[s.user])}

UserMoved(s, t) ==
  t.user \in Users /\ Pending(t) = Pending(s) /\ (Waits(t) = Waits(s) \/ Waits(t) = {})

Promised(s, t) == Enqueued(s, t) \/ HeadAnswered(s, t) \/ UserMoved(s, t)

\* These are the steps of WriteQueue.
LEMMA PromisedIsNext ==
  ASSUME client.user \in Users, Promised(client, client')
  PROVE  Promise!Next
<1>1. CASE Enqueued(client, client')
  BY <1>1 DEF Enqueued, Pending, Waits, WritesOf, Promise!Next, Promise!Enqueue
<1>2. CASE HeadAnswered(client, client')
  BY <1>2 DEF HeadAnswered, Pending, Waits, WritesOf, Promise!Next, Promise!Answer
<1>3. CASE UserMoved(client, client') /\ Waits(client') = Waits(client)
  BY <1>3 DEF UserMoved, Pending, Waits, WritesOf, Promise!Next, Promise!SwitchUser
<1>4. CASE UserMoved(client, client') /\ Waits(client') = {}
  BY <1>4 DEF UserMoved, Pending, Waits, WritesOf, Promise!Next, Promise!Restart
<1> QED
  BY <1>1, <1>2, <1>3, <1>4 DEF Promised, UserMoved

\* A step that changes no queue and no callback.
LEMMA SameIsPromised ==
  ASSUME client.user \in Users, client'.user = client.user,
         client'.queues = client.queues, client'.callbacks = client.callbacks
  PROVE  Promised(client, client')
BY DEF Promised, UserMoved, Pending, Waits

\* What the program, the client and the server do, as the promise sees it.
LEMMA UndisturbedPromised ==
  ASSUME IInv, Undisturbed
  PROVE  Promised(client, client')
<1>1. client.user \in Users /\ Steady(client)
  BY DEF IInv, Steady, Core, Client
<1>2. ASSUME SameRequests(client, client')
      PROVE  Promised(client, client')
  BY <1>1, <1>2, SameIsPromised DEF SameRequests
<1>3. PICK first : first = Head(client.queues[client.user])
  OBVIOUS
<1>4. CASE DoWriteMutations
  BY <1>4, WriteEnqueues DEF Promised, Enqueued
<1>5. CASE \E x \in Waiters : RegisterPendingWritesCallback(x)
  BY <1>1, <1>5, RegisterPendingWritesCallbackStep, SameIsPromised DEF Awaited
<1>6. CASE TokenArrives("live", TRUE) \/ TokenArrives("stale", TRUE)
  BY <1>1, <1>2, <1>6, LiveTokenStep, StaleTokenStep
<1>7. CASE BackoffElapsed \/ IdleTimeout \/ AnswerHandshake
  BY <1>1, <1>2, <1>7, BackoffElapsedStep, IdleTimeoutStep, AnswerHandshakeStep
<1>8. CASE OnStreamRead
  <2>1. CASE SameRequests(client, client')
    BY <1>2, <2>1
  <2>2. CASE ResultRead(client, client', first.id)
    <3>1. Answered(client, client', first.id, "ok") /\ client.down # <<>>
      BY <2>2 DEF ResultRead
    <3>2. client.queues[client.user] # <<>>
      BY <1>1, <3>1, AnswerFitsFront, FrontIsHead DEF Steady
    <3> QED
      BY <1>3, <3>1, <3>2, HeadIsAnswered DEF Promised, HeadAnswered
  <2> QED
    BY <1>1, <1>3, <1>8, <2>1, <2>2, OnStreamReadStep
<1>9. CASE OnStreamFinish
  <2>1. CASE SameRequests(client, client')
    BY <1>2, <2>1
  <2>2. CASE client.pipeline # <<>> /\ Answered(client, client', first.id, "error")
    <3>1. client.queues[client.user] # <<>>
      BY <1>1, <2>2, FrontIsHead DEF Steady
    <3> QED
      BY <1>3, <2>2, <3>1, HeadIsAnswered DEF Promised, HeadAnswered
  <2> QED
    BY <1>1, <1>3, <1>9, <2>1, <2>2, OnStreamFinishStep
<1>10. CASE Commit
  BY <1>1, <1>2, <1>10, CommitStep
<1>11. CASE Refuse("permissionDenied")
  BY <1>1, <1>2, <1>11, RefuseStep
<1> QED
  BY <1>4, <1>5, <1>6, <1>7, <1>8, <1>9, <1>10, <1>11
     DEF Undisturbed, ClientTask, ServerStep

\* What disturbs them, as the promise sees it.
LEMMA DisturbancePromised ==
  ASSUME IInv, Disturbance
  PROVE  Promised(client, client')
<1>1. client.user \in Users /\ Steady(client)
  BY DEF IInv, Steady, Core, Client
<1>2. ASSUME SameRequests(client, client')
      PROVE  Promised(client, client')
  BY <1>1, <1>2, SameIsPromised DEF SameRequests
<1>3. ASSUME NEW u \in Users, Restart(u)
      PROVE  Promised(client, client')
  BY <1>1, <1>3, RestartStep DEF Restarted, Promised, UserMoved, Pending, Waits
<1>4. ASSUME NEW u \in Users, HandleCredentialChange(u)
      PROVE  Promised(client, client')
  BY <1>1, <1>4, HandleCredentialChangeStep
     DEF UserChanged, Promised, UserMoved, Pending, Waits
<1>5. CASE NetworkEnabled \/ NetworkDisabled
  BY <1>1, <1>2, <1>5, NetworkEnabledStep, NetworkDisabledStep
<1>6. ASSUME NEW available \in BOOLEAN, ConnectivityChanged(available)
      PROVE  Promised(client, client')
  BY <1>1, <1>2, <1>6, ConnectivityChangedStep
<1>7. CASE TokenArrives("live", FALSE)
  BY <1>1, <1>2, <1>7, LiveTokenStep
<1>8. CASE Refuse("aborted")
  BY <1>1, <1>2, <1>8, RefuseStep
<1>9. CASE EndCall("unavailable") \/ EndCall("permissionDenied")
  BY <1>1, <1>2, <1>9, EndCallStep
<1> QED
  BY <1>3, <1>4, <1>5, <1>6, <1>7, <1>8, <1>9 DEF Disturbance

(***************************************************************************)
(* Every step of the write path is a step of Firestore's promise, or none  *)
(* that the program could notice.                                          *)
(***************************************************************************)
THEOREM KeepsItsPromise == Spec => KeepsPromise
<1>1. Init => Promise!Init
  <2> SUFFICES ASSUME Init PROVE Promise!Init
    OBVIOUS
  <2>1. /\ client.user \in Users /\ client.queues = [v \in Users |-> <<>>]
        /\ client.callbacks = {}
    BY DEF Init
  <2>2. \A u \in Users : [i \in DOMAIN client.queues[u] |-> client.queues[u][i].write] = <<>>
    <3>1. PICK empty \in Queue : empty = <<>> /\ Len(empty) = 0
      BY EmptySeq DEF Queue
    <3>2. WritesOf(empty) \in Seq(Writes) /\ Len(WritesOf(empty)) = 0
      BY <3>1, WritesOfQueue
    <3>3. WritesOf(empty) = <<>>
      BY <3>2, EmptySeq
    <3> QED
      BY <2>1, <3>1, <3>3 DEF WritesOf
  <2> QED
    BY <2>1, <2>2 DEF Promise!Init
<1>2. IInv /\ [Next]_vars => [Promise!Next]_(Promise!vars)
  <2> SUFFICES ASSUME IInv, [Next]_vars PROVE [Promise!Next]_(Promise!vars)
    OBVIOUS
  <2>1. CASE Next
    <3>1. client.user \in Users
      BY DEF IInv, Steady, Core, Client
    <3>2. Promised(client, client')
      BY <2>1, UndisturbedPromised, DisturbancePromised DEF Next
    <3> QED
      BY <3>1, <3>2, PromisedIsNext
  <2>2. CASE UNCHANGED vars
    BY <2>2 DEF vars, Promise!vars
  <2> QED
    BY <2>1, <2>2
<1> QED
  BY <1>1, <1>2, Inductive, PTL DEF Spec, KeepsPromise, Promise!Spec
-----------------------------------------------------------------------------
\* What can happen next on the client or the server: a token is granted, a
\* backoff is over, a message is taken from the call, or its end is noticed.
UnderWay ==
  \/ "live" \in client.requests \/ "backoff" \in client.timers
  \/ client.hello = "answered" \/ client.down # <<>>
  \/ CallIsUp /\ (client.hello = "sent" \/ client.up # <<>>)
  \/ client.status # None

(***************************************************************************)
(* No wake-up is lost: after any sequence of closes, failed requests for   *)
(* tokens, timers, user changes and restarts, a client that may use the    *)
(* network and has a write of its user on disk has something under way     *)
(* that carries the write on.  It never waits for a start of the stream,   *)
(* a token or a timer that nobody will deliver.                            *)
(***************************************************************************)
NeverStuck == client.networkEnabled /\ client.queues[client.user] # <<>> => UnderWay

(***************************************************************************)
(* Some step of the client or the server is always there to carry the      *)
(* writes of the current user on, for any number of users and writes and   *)
(* any capacity of the pipeline.                                           *)
(***************************************************************************)
THEOREM QueuesNeverGetStuck == Spec => []NeverStuck
<1>1. IInv => NeverStuck
  <2>1. SUFFICES ASSUME IInv, client.networkEnabled, client.queues[client.user] # <<>>
                 PROVE  UnderWay
    BY DEF NeverStuck
  <2>2. /\ Full(client) /\ Streaming(client) /\ Going(client) /\ client \in Client
    BY <2>1 DEF IInv, Steady, Core
  <2>3. client.pipeline # <<>>
    <3>1. Len(client.queues[client.user]) # 0
      BY <2>1, <2>2, EmptySeq DEF Client, Queue
    <3>2. Len(client.pipeline) # 0
      BY <2>1, <2>2, <3>1, ConstantsAssumption DEF Full
    <3> QED
      BY <2>2, <3>2, EmptySeq DEF Client, Queue
  <2>4. client.stream \in {"Starting", "Backoff", "Open"}
    BY <2>1, <2>2, <2>3 DEF Going, Awake, IsStarted
  <2>5. CASE client.stream # "Open"
    BY <2>2, <2>4, <2>5 DEF Going, Scheduled, UnderWay
  <2>6. CASE client.stream = "Open"
    <3>1. client.hello \in {"sent", "answered", "done"}
      BY <2>2, <2>6 DEF Streaming, Timed, IsOpen, Client
    <3>2. CASE client.status # None \/ client.hello # "done"
      BY <3>1, <3>2 DEF UnderWay, CallIsUp
    <3>3. CASE client.status = None /\ client.hello = "done"
      <4>1. client.down \o client.up = client.pipeline
        BY <2>2, <3>3 DEF Streaming, Flying
      <4>2. client.down # <<>> \/ client.up # <<>>
        BY <2>3, <4>1, EmptySeq, ConcatEmptySeq
      <4> QED
        BY <3>3, <4>2 DEF UnderWay, CallIsUp
    <3> QED
      BY <3>2, <3>3
  <2> QED
    BY <2>4, <2>5, <2>6
<1> QED
  BY <1>1, Inductive, PTL
=============================================================================
