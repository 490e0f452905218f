--------------------------- MODULE ExecutorProofs ---------------------------
(***************************************************************************)
(* Memory safety of the executor, and the silence of cancelled tasks, for  *)
(* any number of tasks and threads.                                        *)
(*                                                                         *)
(* The reference counts are right because a task has one owner at a time   *)
(* besides libdispatch: the executor or one of the threads (OwnerInv).     *)
(* The executor is not called after Dispose because a task that will call  *)
(* it is still in it, or with a thread that is about to cancel it          *)
(* (FlagInv).  A cancelled task does not start because the worker that     *)
(* cancels it can start none before it has marked it (QuietInv).           *)
(***************************************************************************)
EXTENDS Executor, TLAPS

\* The thread has a reference of its own to the task.
OwnedBy(th, t) ==
  t \in thread[th].todo \/ (thread[th].pc = "enqueue" /\ thread[th].task = t)

\* The thread has taken the task out of the executor and not yet cancelled it.
Uncancelled(th, t) ==
  /\ t \in thread[th].todo
  /\ ~(thread[th].pc \in {"await", "release"} /\ thread[th].task = t)

\* The reference count is the number of owners.
RefOK(t) ==
  /\ task[t].ref_count = Holds(t \in tasks) + Holds(t \in dispatched \/ t = executing)
                          + Holds(Owned(t))
  /\ task[t].ref_count = 0 <=> task[t].state \in {"none", "deleted"}

\* What a thread holds, where it is, and what it has locked fit together.
ThreadOK(th) ==
  /\ thread[th].pc \in {"ready", "enqueue", "inserted"} =>
       thread[th].todo = {} /\ thread[th].call = "none"
  /\ thread[th].pc \in {"cancel", "await", "release"} => thread[th].call # "none"
  /\ thread[th].pc = "dispose" =>
       thread[th].todo = {} /\ thread[th].call = "Dispose" /\ ~disposed
  /\ thread[th].pc \in {"enqueue", "inserted"} =>
       queueMutex = th /\ mode # "kDisposed" /\ thread[th].task \in Tasks
  /\ thread[th].pc \in {"await", "release"} => thread[th].task \in thread[th].todo
  /\ thread[th].call = "Cancel" => th = Worker
  /\ thread[th].call = "Dispose" =>
       mode = "kDisposed" /\ returned = None /\ (thread[th].pc # "dispose" => disposed)

RefInv    == \A t \in Tasks : RefOK(t)
ThreadInv == \A th \in Threads : ThreadOK(th)

\* AsyncQueue is disposed of once, before its executor.
ModeInv ==
  /\ disposed => mode = "kDisposed" /\ tasks = {}
  /\ returned # None => disposed
  /\ \A th1, th2 \in Threads :
       thread[th1].call = "Dispose" /\ thread[th2].call = "Dispose" => th1 = th2

\* The executor, or one thread, owns a task, not both.
OwnerInv ==
  \A t \in Tasks :
    /\ t \in tasks => \A th \in Threads : ~OwnedBy(th, t)
    /\ \A th1, th2 \in Threads : OwnedBy(th1, t) /\ OwnedBy(th2, t) => th1 = th2

\* A task that is being enqueued has not been dispatched, and nobody else has
\* the means to take it out of the executor.
InsertInv ==
  \A th \in Threads : thread[th].pc \in {"enqueue", "inserted"} =>
    /\ thread[th].task \notin dispatched /\ thread[th].task # executing
    /\ thread[th].pc = "inserted" =>
         /\ thread[th].task \in tasks
         /\ th # Worker => thread[th].task \notin schedule

\* The task that the worker executes.
ExecInv ==
  /\ stage = "idle" <=> executing = None
  /\ executing \notin dispatched
  /\ stage = "operation" => task[executing].state = "kRunning"
  /\ stage = "completing" =>
       /\ task[executing].state = "kDone" /\ task[executing].locked
       /\ task[executing].executor /\ returned = None /\ thread[Worker].pc = "ready"
  /\ \A t \in Tasks : task[t].locked => t = executing /\ stage # "operation"

\* The task has not been cancelled, nor has it let go of the executor.
Live(t) ==
  task[t].state \in {"kInitial", "kRunning"} \/ (t = executing /\ stage = "completing")

\* A task that will call the executor is in the executor, or with a thread
\* that is about to cancel it.
FlagInv ==
  \A t \in Tasks : Live(t) /\ task[t].executor =>
    \/ t \in tasks
    \/ \E th \in Threads : \/ Uncancelled(th, t)
                           \/ thread[th].pc = "enqueue" /\ thread[th].task = t

\* The inductive invariant.
IInv ==
  /\ TypeOK /\ RefInv /\ ThreadInv /\ ModeInv /\ OwnerInv /\ InsertInv /\ ExecInv
  /\ FlagInv /\ NoUseAfterFree

\* A Task.
Record == [state : States, ref_count : Nat, executor : BOOLEAN, locked : BOOLEAN]

\* Task::Release gives up a reference that there is.
LEMMA ReleaseRecord ==
  ASSUME NEW r \in Record, r.ref_count # 0
  PROVE  Release(r) \in Record
<1>1. r.ref_count - 1 \in Nat
  BY DEF Record
<1>2. \E s \in States : Release(r) = [[r EXCEPT !.ref_count = @ - 1] EXCEPT !.state = s]
  BY DEF Record, Release, States
<1>3. [r EXCEPT !.ref_count = @ - 1] \in Record
  BY <1>1 DEF Record
<1> QED
  BY <1>2, <1>3 DEF Record

\* Task::Cancel leaves a task.
LEMMA CancelledRecord ==
  ASSUME NEW r \in Record
  PROVE  CancelledTask(r) \in Record
<1>1. CASE r.state = "kInitial"
  BY <1>1 DEF CancelledTask, Record, States
<1>2. CASE r.state # "kInitial"
  BY <1>2 DEF CancelledTask, Record, States
<1> QED BY <1>1, <1>2

\* A thread, and the steps of its calls.
Steps == {"ready", "enqueue", "inserted", "dispose", "cancel", "await", "release"}

Thread == [pc : Steps, call : {"none", "Cancel", "Dispose"},
           task : Tasks \cup {None}, todo : SUBSET Tasks]

\* A thread goes on to another step, with another task.
LEMMA MovedThread ==
  ASSUME NEW f \in [Threads -> Thread], NEW th \in Threads,
         NEW pc \in Steps, NEW t \in Tasks \cup {None}
  PROVE  [f EXCEPT ![th].pc = pc, ![th].task = t] \in [Threads -> Thread]
<1>1. [f[th] EXCEPT !.pc = pc, !.task = t] \in Thread
  BY DEF Thread
<1>2. [f EXCEPT ![th].pc = pc, ![th].task = t]
        = [f EXCEPT ![th] = [f[th] EXCEPT !.pc = pc, !.task = t]]
  OBVIOUS
<1> QED
  BY <1>1, <1>2

(***************************************************************************)
(* Every action preserves the inductive invariant.                         *)
(***************************************************************************)

\* A thread makes a task, of which it is the first owner.
LEMMA EnqueueStep ==
  ASSUME IInv, NEW th \in Threads, NEW t \in Tasks, Enqueue(th, t)
  PROVE  IInv'
<1>1. TypeOK'
  BY DEF IInv, TypeOK, States, Enqueue, Create, MayCall, history, executor,
     Threads
<1>2. RefInv'
  BY SMTT(30)
  DEF IInv, TypeOK, RefInv, RefOK, Owned, Holds, Enqueue, Create, MayCall, history,
      executor, Threads
<1>3. ThreadInv'
  BY ThreadsAssumption DEF IInv, TypeOK, ThreadInv, ThreadOK, Enqueue, Create,
     MayCall
<1>4. ModeInv'
  BY DEF IInv, TypeOK, ModeInv, Enqueue, Create, executor
<1>5. OwnerInv'
  BY DEF IInv, TypeOK, RefInv, RefOK, Owned, Holds, OwnerInv, OwnedBy, Enqueue,
     Create, executor
<1>6. InsertInv'
  BY DEF IInv, TypeOK, RefInv, RefOK, Holds, InsertInv, Enqueue, Create,
     executor
<1>7. ExecInv'
  <2>1. /\ task[t].state = "none" /\ t # executing
        /\ UNCHANGED <<stage, executing, dispatched, returned>>
    BY DEF IInv, TypeOK, RefInv, RefOK, Holds, Enqueue, Create, ExecInv
  <2>2. task' = [task EXCEPT ![t] = [state |-> "kInitial", ref_count |-> 1,
                                     executor |-> TRUE, locked |-> FALSE]]
    BY DEF Enqueue, Create
  <2>3. task'[t].locked = FALSE /\ \A x \in Tasks : x # t => task'[x] = task[x]
    BY <2>2 DEF IInv, TypeOK
  <2>4. stage = "completing" => thread'[Worker].pc = "ready"
    BY DEF IInv, TypeOK, ExecInv, Enqueue, Create, MayCall, InOperation, Threads
  <2>5. stage \in {"operation", "completing"} => executing \in Tasks
    BY DEF IInv, TypeOK, ExecInv
  <2> QED
    BY <2>1, <2>3, <2>4, <2>5 DEF IInv, ExecInv
<1>8. FlagInv'
  BY DEF IInv, TypeOK, FlagInv, Live, Uncancelled, Enqueue, Create, executor,
     Threads
<1>9. NoUseAfterFree'
  BY DEF IInv, NoUseAfterFree, Enqueue, Create
<1> QED
  BY <1>1, <1>2, <1>3, <1>4, <1>5, <1>6, <1>7, <1>8, <1>9 DEF IInv

\* Only the mode changes.
LEMMA EnterRestrictedModeStep ==
  ASSUME IInv, EnterRestrictedMode
  PROVE  IInv'
<1>1. TypeOK'
  BY DEF IInv, TypeOK, EnterRestrictedMode, history, executor
<1>2. RefInv'
  BY DEF IInv, RefInv, RefOK, Owned, Holds, EnterRestrictedMode, executor
<1>3. ThreadInv'
  BY DEF IInv, ThreadInv, ThreadOK, EnterRestrictedMode
<1>4. ModeInv'
  BY DEF IInv, ModeInv, EnterRestrictedMode, executor
<1>5. OwnerInv'
  BY DEF IInv, OwnerInv, OwnedBy, EnterRestrictedMode, executor
<1>6. InsertInv'
  BY DEF IInv, InsertInv, EnterRestrictedMode, executor
<1>7. ExecInv'
  BY DEF IInv, ExecInv, EnterRestrictedMode
<1>8. FlagInv'
  BY DEF IInv, FlagInv, Live, Uncancelled, EnterRestrictedMode, executor
<1>9. NoUseAfterFree'
  BY DEF IInv, NoUseAfterFree, EnterRestrictedMode
<1> QED
  BY <1>1, <1>2, <1>3, <1>4, <1>5, <1>6, <1>7, <1>8, <1>9 DEF IInv

\* Dispose makes the task that runs TerminateInternal.
LEMMA EnqueueEvenWhileRestrictedStep ==
  ASSUME IInv, EnqueueEvenWhileRestricted
  PROVE  IInv'
<1>1. TypeOK'
  <2>1. task' \in [Tasks -> Record]
    BY ThreadsAssumption
    DEF IInv, TypeOK, States, Record, EnqueueEvenWhileRestricted, Create
  <2>2. thread' \in [Threads -> Thread]
    <3>1. Disposer \in Threads /\ TerminateInternal \in Tasks
      BY ThreadsAssumption DEF Threads
    <3>2. thread' = [thread EXCEPT ![Disposer].pc = "enqueue",
                                   ![Disposer].task = TerminateInternal]
      BY DEF EnqueueEvenWhileRestricted, Create
    <3>3. /\ thread \in [Threads -> Thread]
          /\ TerminateInternal \in Tasks \cup {None} /\ "enqueue" \in Steps
      BY <3>1 DEF IInv, TypeOK, Thread, Steps
    <3> QED
      BY <3>1, <3>2, <3>3, MovedThread
  <2>3. /\ tasks' \subseteq Tasks /\ schedule' \subseteq tasks'
        /\ dispatched' \subseteq Tasks
    BY DEF IInv, TypeOK, EnqueueEvenWhileRestricted, Create, executor
  <2> QED
    BY <2>1, <2>2, <2>3, ThreadsAssumption
    DEF IInv, TypeOK, States, Record, Thread, Steps, EnqueueEvenWhileRestricted, Create,
       history, executor, Threads
<1>2. RefInv'
  BY DEF IInv, TypeOK, RefInv, RefOK, Owned, Holds, EnqueueEvenWhileRestricted,
     Create, executor, Threads
<1>3. ThreadInv'
  BY ThreadsAssumption DEF IInv, TypeOK, ThreadInv, ThreadOK,
     EnqueueEvenWhileRestricted, Create
<1>4. ModeInv'
  BY DEF IInv, TypeOK, ModeInv, EnqueueEvenWhileRestricted, Create, executor
<1>5. OwnerInv'
  BY DEF IInv, TypeOK, RefInv, RefOK, Owned, Holds, OwnerInv, OwnedBy,
     EnqueueEvenWhileRestricted, Create, executor
<1>6. InsertInv'
  BY ThreadsAssumption DEF IInv, TypeOK, RefInv, RefOK, Holds, InsertInv,
     EnqueueEvenWhileRestricted, Create, executor
<1>7. ExecInv'
  BY ThreadsAssumption DEF IInv, TypeOK, ExecInv, EnqueueEvenWhileRestricted,
     Create, Threads
<1>8. FlagInv'
  BY DEF IInv, TypeOK, FlagInv, Live, Uncancelled, EnqueueEvenWhileRestricted,
     Create, executor, Threads
<1>9. NoUseAfterFree'
  BY DEF IInv, NoUseAfterFree, EnqueueEvenWhileRestricted, Create
<1> QED
  BY <1>1, <1>2, <1>3, <1>4, <1>5, <1>6, <1>7, <1>8, <1>9 DEF IInv

\* The reference goes from the thread to tasks_, or is released.
LEMMA InsertStep ==
  ASSUME IInv, NEW th \in Threads, Insert(th)
  PROVE  IInv'
<1>1. TypeOK'
  <2>1. ~disposed
    BY DEF IInv, ThreadInv, ThreadOK, ModeInv, Insert
  <2>2. thread[th].task \in Tasks
    BY DEF IInv, ThreadInv, ThreadOK, Insert
  <2>3. thread' \in [Threads -> Thread]
    BY <2>1 DEF IInv, TypeOK, Thread, Steps, Insert
  <2> QED
    BY <2>1, <2>2, <2>3 DEF IInv, TypeOK, Thread, Steps, Insert, history
<1>2. RefInv'
  <2>1. /\ ~disposed /\ thread[th].task \in Tasks /\ thread[th].pc = "enqueue"
        /\ thread[th].todo = {}
    BY DEF IInv, ThreadInv, ThreadOK, ModeInv, Insert
  <2>2. /\ tasks' = tasks \cup {thread[th].task}
        /\ thread' = [thread EXCEPT ![th].pc = "inserted"]
        /\ UNCHANGED <<task, dispatched, executing>>
    BY <2>1 DEF Insert
  <2>3. ASSUME NEW other \in Threads, other # th
        PROVE  thread'[other] = thread[other] /\ ~OwnedBy(other, thread[th].task)
    BY <2>1, <2>2, <2>3 DEF IInv, TypeOK, OwnerInv, OwnedBy
  <2>4. /\ thread[th].task \notin tasks
        /\ thread'[th].pc = "inserted" /\ thread'[th].todo = {}
    BY <2>1, <2>2 DEF IInv, TypeOK, OwnerInv, OwnedBy
  <2>5. ASSUME NEW t \in Tasks
        PROVE  Holds(t \in tasks') + Holds(Owned(t)')
                 = Holds(t \in tasks) + Holds(Owned(t))
    <3>1. CASE t = thread[th].task
      BY <3>1, <2>1, <2>2, <2>3, <2>4 DEF Holds, Owned, OwnedBy
    <3>2. CASE t # thread[th].task
      <4>1. Owned(t)' <=> Owned(t)
        BY <3>2, <2>1, <2>3, <2>4 DEF Owned
      <4> QED
        BY <3>2, <4>1, <2>2 DEF Holds
    <3> QED
      BY <3>1, <3>2
  <2> QED
    BY <2>2, <2>5 DEF IInv, TypeOK, RefInv, RefOK, Holds
<1>3. ThreadInv'
  BY DEF IInv, TypeOK, ThreadInv, ThreadOK, Insert, Ready
<1>4. ModeInv'
  BY DEF IInv, TypeOK, ModeInv, Insert, Ready
<1>5. OwnerInv'
  BY SMTT(30) DEF IInv, TypeOK, ThreadInv, ThreadOK, ModeInv, OwnerInv, OwnedBy,
                  Insert, Unlock
<1>6. InsertInv'
  BY DEF IInv, TypeOK, OwnerInv, OwnedBy, InsertInv, Insert, Ready
<1>7. ExecInv'
  BY DEF IInv, TypeOK, ThreadInv, ThreadOK, ModeInv, ExecInv, Insert, Threads
<1>8. FlagInv'
  BY DEF IInv, TypeOK, ThreadInv, ThreadOK, ModeInv, FlagInv, Live,
     Uncancelled, Insert
<1>9. NoUseAfterFree'
  BY DEF IInv, NoUseAfterFree, Insert
<1> QED
  BY <1>1, <1>2, <1>3, <1>4, <1>5, <1>6, <1>7, <1>8, <1>9 DEF IInv

\* libdispatch gets a reference of its own.
LEMMA DispatchStep ==
  ASSUME IInv, NEW th \in Threads, Dispatch(th)
  PROVE  IInv'
<1>1. TypeOK'
  BY DEF IInv, TypeOK, ThreadInv, ThreadOK, Dispatch, Unlock, Ready, Touch,
     history, executor
<1>2. RefInv'
  BY DEF IInv, TypeOK, RefInv, RefOK, Owned, Holds, ThreadInv, ThreadOK,
     InsertInv, Dispatch, Ready, executor
<1>3. ThreadInv'
  BY DEF IInv, TypeOK, ThreadInv, ThreadOK, Dispatch, Ready
<1>4. ModeInv'
  BY DEF IInv, ModeInv, Dispatch, Ready, executor
<1>5. OwnerInv'
  BY DEF IInv, OwnerInv, OwnedBy, Dispatch, Ready, executor
<1>6. InsertInv'
  BY DEF IInv, TypeOK, ThreadInv, ThreadOK, InsertInv, Dispatch, Ready
<1>7. ExecInv'
  BY DEF IInv, InsertInv, ExecInv, Dispatch
<1>8. FlagInv'
  BY DEF IInv, ThreadInv, ThreadOK, FlagInv, Live, Uncancelled, Dispatch,
     executor
<1>9. NoUseAfterFree'
  BY DEF IInv, TypeOK, RefInv, RefOK, Holds, InsertInv, NoUseAfterFree,
     Dispatch, Touch
<1> QED
  BY <1>1, <1>2, <1>3, <1>4, <1>5, <1>6, <1>7, <1>8, <1>9 DEF IInv

\* The worker takes over libdispatch's reference.
LEMMA ExecuteStep ==
  ASSUME IInv, NEW t \in Tasks, Execute(t)
  PROVE  IInv'
<1>1. TypeOK'
  BY DEF IInv, TypeOK, States, Execute, Touch, history, executor
<1>2. RefInv'
  BY ThreadsAssumption DEF IInv, TypeOK, RefInv, RefOK, Owned, Holds, ExecInv,
     Execute, executor
<1>3. ThreadInv'
  BY DEF IInv, ThreadInv, ThreadOK, Execute, executor
<1>4. ModeInv'
  BY DEF IInv, ModeInv, Execute, executor
<1>5. OwnerInv'
  BY DEF IInv, OwnerInv, OwnedBy, Execute, executor
<1>6. InsertInv'
  BY DEF IInv, InsertInv, Execute, executor
<1>7. ExecInv'
  BY ThreadsAssumption DEF IInv, TypeOK, ExecInv, Execute
<1>8. FlagInv'
  BY DEF IInv, TypeOK, FlagInv, Live, Uncancelled, Execute, executor
<1>9. NoUseAfterFree'
  BY DEF IInv, TypeOK, RefInv, RefOK, Holds, NoUseAfterFree, Execute, Touch
<1> QED
  BY <1>1, <1>2, <1>3, <1>4, <1>5, <1>6, <1>7, <1>8, <1>9 DEF IInv

\* From kRunning to kDone, with the task's lock.
LEMMA OperationReturnedStep ==
  ASSUME IInv, OperationReturned
  PROVE  IInv'
<1>1. TypeOK'
  BY DEF IInv, TypeOK, ExecInv, OperationReturned, InOperation
<1>2. RefInv'
  BY DEF IInv, TypeOK, ExecInv, OperationReturned, InOperation
<1>3. ThreadInv'
  BY DEF IInv, TypeOK, ExecInv, OperationReturned, InOperation
<1>4. ModeInv'
  BY DEF IInv, TypeOK, ExecInv, OperationReturned, InOperation
<1>5. OwnerInv'
  BY DEF IInv, TypeOK, ExecInv, OperationReturned, InOperation
<1>6. InsertInv'
  BY DEF IInv, TypeOK, ExecInv, OperationReturned, InOperation
<1>7. ExecInv'
  BY DEF IInv, TypeOK, ExecInv, OperationReturned, InOperation
<1>8. FlagInv'
  BY DEF IInv, TypeOK, ExecInv, OperationReturned, InOperation
<1>9. NoUseAfterFree'
  BY DEF IInv, TypeOK, ExecInv, OperationReturned, InOperation
<1> QED
  BY <1>1, <1>2, <1>3, <1>4, <1>5, <1>6, <1>7, <1>8, <1>9 DEF IInv

\* The executor gives up the reference it may still have.
LEMMA OnCompletionStep ==
  ASSUME IInv, OnCompletion
  PROVE  IInv'
<1>1. TypeOK'
  <2>1. task' \in [Tasks -> Record]
    <3>1. executing \in Tasks /\ task[executing] \in Record
      BY DEF IInv, TypeOK, ExecInv, Record, OnCompletion
    <3>2. task[executing].ref_count # 0
      BY <3>1 DEF IInv, RefInv, RefOK, Holds
    <3>3. Release(task[executing]) \in Record
      BY <3>1, <3>2, ReleaseRecord
    <3> QED
      BY <3>1, <3>3 DEF IInv, TypeOK, Record, OnCompletion
  <2>2. thread' \in [Threads -> Thread]
    BY DEF IInv, TypeOK, Thread, Steps, OnCompletion, Release
  <2>3. /\ tasks' \subseteq Tasks /\ schedule' \subseteq tasks'
        /\ dispatched' \subseteq Tasks
    BY DEF IInv, TypeOK, OnCompletion, Release, executor
  <2> QED
    BY <2>1, <2>2, <2>3, ThreadsAssumption
    DEF IInv, TypeOK, States, Record, Thread, Steps, OnCompletion, Release,
       history, executor, Threads
<1>2. RefInv'
  BY DEF IInv, TypeOK, RefInv, RefOK, Owned, Holds, OnCompletion, Release
<1>3. ThreadInv'
  BY DEF IInv, ThreadInv, ThreadOK, OnCompletion
<1>4. ModeInv'
  BY DEF IInv, ModeInv, OnCompletion
<1>5. OwnerInv'
  BY DEF IInv, OwnerInv, OwnedBy, OnCompletion
<1>6. InsertInv'
  BY DEF IInv, InsertInv, OnCompletion
<1>7. ExecInv'
  BY DEF IInv, ExecInv, OnCompletion
<1>8. FlagInv'
  BY DEF IInv, ExecInv, FlagInv, Live, Uncancelled, OnCompletion, Release
<1>9. NoUseAfterFree'
  BY DEF IInv, TypeOK, ExecInv, NoUseAfterFree, OnCompletion
<1> QED
  BY <1>1, <1>2, <1>3, <1>4, <1>5, <1>6, <1>7, <1>8, <1>9 DEF IInv

\* ExecuteAndRelease gives up the worker's reference.
LEMMA LeaveStep ==
  ASSUME IInv, Leave
  PROVE  IInv'
<1>1. TypeOK'
  <2>1. task' \in [Tasks -> Record]
    <3>1. executing \in Tasks /\ task[executing] \in Record
      BY DEF IInv, TypeOK, ExecInv, Record, Leave
    <3>2. task[executing].ref_count # 0
      BY <3>1 DEF IInv, RefInv, RefOK, Holds
    <3>3. Release(task[executing]) \in Record
      BY <3>1, <3>2, ReleaseRecord
    <3>4. [Release(task[executing]) EXCEPT !.locked = FALSE] \in Record
      BY <3>3 DEF Record
    <3> QED
      BY <3>1, <3>4 DEF IInv, TypeOK, Record, Leave
  <2>2. thread' \in [Threads -> Thread]
    BY DEF IInv, TypeOK, Thread, Steps, Leave, Release, Touch
  <2>3. /\ tasks' \subseteq Tasks /\ schedule' \subseteq tasks'
        /\ dispatched' \subseteq Tasks
    BY DEF IInv, TypeOK, Leave, Release, Touch, executor
  <2> QED
    BY <2>1, <2>2, <2>3, ThreadsAssumption
    DEF IInv, TypeOK, States, Record, Thread, Steps, Leave, Release, Touch,
       history, executor, Threads
<1>2. RefInv'
  BY ThreadsAssumption DEF IInv, TypeOK, RefInv, RefOK, Owned, Holds, ExecInv,
     Leave, Release, executor
<1>3. ThreadInv'
  BY DEF IInv, ThreadInv, ThreadOK, Leave, executor
<1>4. ModeInv'
  BY DEF IInv, ModeInv, Leave, executor
<1>5. OwnerInv'
  BY DEF IInv, OwnerInv, OwnedBy, Leave, executor
<1>6. InsertInv'
  BY ThreadsAssumption DEF IInv, ThreadInv, ThreadOK, InsertInv, Leave,
     executor
<1>7. ExecInv'
  BY ThreadsAssumption DEF IInv, TypeOK, ExecInv, Leave
<1>8. FlagInv'
  BY DEF IInv, FlagInv, Live, Uncancelled, Leave, Release, executor
<1>9. NoUseAfterFree'
  BY DEF IInv, TypeOK, RefInv, RefOK, Holds, ExecInv, NoUseAfterFree, Leave,
     Touch
<1> QED
  BY <1>1, <1>2, <1>3, <1>4, <1>5, <1>6, <1>7, <1>8, <1>9 DEF IInv

\* The reference goes from tasks_ to the operation that cancels.
LEMMA CancelStep ==
  ASSUME IInv, NEW t \in Tasks, Cancel(t)
  PROVE  IInv'
<1>1. TypeOK'
  BY DEF IInv, TypeOK, Cancel, Threads
<1>2. RefInv'
  BY DEF IInv, TypeOK, RefInv, RefOK, Owned, Holds, ThreadInv, ThreadOK,
     OwnerInv, OwnedBy, Cancel, MayCall, Threads
<1>3. ThreadInv'
  BY DEF IInv, ThreadInv, ThreadOK, Cancel
<1>4. ModeInv'
  BY DEF IInv, ModeInv, Cancel
<1>5. OwnerInv'
  BY DEF IInv, TypeOK, OwnerInv, OwnedBy, Cancel
<1>6. InsertInv'
  BY DEF IInv, InsertInv, Cancel, MayCall
<1>7. ExecInv'
  BY DEF IInv, ExecInv, Cancel, MayCall, InOperation
<1>8. FlagInv'
  BY DEF IInv, TypeOK, ThreadInv, ThreadOK, FlagInv, Live, Uncancelled, Cancel,
     MayCall, Threads
<1>9. NoUseAfterFree'
  BY DEF IInv, NoUseAfterFree, Cancel
<1> QED
  BY <1>1, <1>2, <1>3, <1>4, <1>5, <1>6, <1>7, <1>8, <1>9 DEF IInv

\* The thread that disposes of the queue is the only one.
LEMMA DisposeStep ==
  ASSUME IInv, NEW th \in Threads, Dispose(th)
  PROVE  IInv'
<1>1. TypeOK'
  BY DEF IInv, TypeOK, Dispose, history, executor, Threads
<1>2. RefInv'
  BY DEF IInv, TypeOK, ThreadInv, ThreadOK, Dispose
<1>3. ThreadInv'
  BY DEF IInv, TypeOK, ThreadInv, ThreadOK, Dispose
<1>4. ModeInv'
  BY DEF IInv, TypeOK, ThreadInv, ThreadOK, Dispose
<1>5. OwnerInv'
  BY DEF IInv, TypeOK, ThreadInv, ThreadOK, Dispose
<1>6. InsertInv'
  BY DEF IInv, TypeOK, ThreadInv, ThreadOK, Dispose
<1>7. ExecInv'
  BY DEF IInv, TypeOK, ExecInv, Dispose, MayCall, InOperation, Threads
<1>8. FlagInv'
  BY DEF IInv, TypeOK, ThreadInv, ThreadOK, Dispose
<1>9. NoUseAfterFree'
  BY DEF IInv, TypeOK, ThreadInv, ThreadOK, Dispose
<1> QED
  BY <1>1, <1>2, <1>3, <1>4, <1>5, <1>6, <1>7, <1>8, <1>9 DEF IInv

\* All references of tasks_ go to the thread that disposes of it.
LEMMA DisposeExecutorStep ==
  ASSUME IInv, NEW th \in Threads, DisposeExecutor(th)
  PROVE  IInv'
<1>1. TypeOK'
  <2>1. thread' \in [Threads -> Thread]
    <3>1. thread \in [Threads -> Thread] /\ tasks \in SUBSET Tasks
      BY DEF IInv, TypeOK, Thread, Steps
    <3>2. [thread[th] EXCEPT !.pc = "cancel", !.todo = tasks] \in Thread
      BY <3>1 DEF Thread, Steps
    <3>3. thread' = [thread EXCEPT ![th] =
                       [thread[th] EXCEPT !.pc = "cancel", !.todo = tasks]]
      BY DEF DisposeExecutor
    <3> QED
      BY <3>1, <3>2, <3>3
  <2> QED
    BY <2>1 DEF IInv, TypeOK, Thread, Steps, DisposeExecutor, history, Threads
<1>2. RefInv'
  BY SMTT(30) DEF IInv, TypeOK, RefInv, RefOK, Owned, Holds, ThreadInv, ThreadOK,
                  DisposeExecutor
<1>3. ThreadInv'
  BY DEF IInv, TypeOK, ThreadInv, ThreadOK, ModeInv, DisposeExecutor
<1>4. ModeInv'
  BY DEF IInv, TypeOK, ThreadInv, ThreadOK, ModeInv, DisposeExecutor
<1>5. OwnerInv'
  BY DEF IInv, TypeOK, OwnerInv, OwnedBy, DisposeExecutor
<1>6. InsertInv'
  BY DEF IInv, TypeOK, ThreadInv, ThreadOK, InsertInv, DisposeExecutor
<1>7. ExecInv'
  BY DEF IInv, TypeOK, ExecInv, DisposeExecutor, Threads
<1>8. FlagInv'
  BY DEF IInv, TypeOK, FlagInv, Live, Uncancelled, DisposeExecutor
<1>9. NoUseAfterFree'
  BY DEF IInv, NoUseAfterFree, DisposeExecutor
<1> QED
  BY <1>1, <1>2, <1>3, <1>4, <1>5, <1>6, <1>7, <1>8, <1>9 DEF IInv

\* A task that is cancelled will not call the executor.
LEMMA CancelTaskStep ==
  ASSUME IInv, NEW th \in Threads, CancelTask(th)
  PROVE  IInv'
<1>1. TypeOK'
  <2>1. task' \in [Tasks -> Record]
    <3>1. PICK x \in thread[th].todo : task' = [task EXCEPT ![x] = CancelledTask(@)]
      BY DEF CancelTask
    <3>2. x \in Tasks
      BY DEF IInv, TypeOK
    <3>3. task[x] \in Record
      BY <3>2 DEF IInv, TypeOK, Record
    <3>4. CancelledTask(task[x]) \in Record
      BY <3>3, CancelledRecord
    <3> QED
      BY <3>1, <3>2, <3>4 DEF IInv, TypeOK, Record
  <2>2. thread' \in [Threads -> Thread]
    <3>1. PICK x \in thread[th].todo :
            thread' = [thread EXCEPT ![th].pc = AfterCancel(th, x), ![th].task = x]
      BY DEF CancelTask
    <3>2. x \in Tasks \cup {None} /\ AfterCancel(th, x) \in Steps
      BY DEF IInv, TypeOK, AfterCancel, Steps
    <3>3. thread \in [Threads -> Thread]
      BY DEF IInv, TypeOK, Thread, Steps
    <3> QED
      BY <3>1, <3>2, <3>3, MovedThread
  <2>3. /\ tasks' \subseteq Tasks /\ schedule' \subseteq tasks'
        /\ dispatched' \subseteq Tasks
    BY DEF IInv, TypeOK, CancelTask, AfterCancel, CancelledTask, Touch, executor
  <2> QED
    BY <2>1, <2>2, <2>3, ThreadsAssumption
    DEF IInv, TypeOK, States, Record, Thread, Steps, CancelTask, AfterCancel,
       CancelledTask, Touch, history, executor, Threads
<1>2. RefInv'
  BY DEF IInv, TypeOK, RefInv, RefOK, Owned, Holds, CancelTask, AfterCancel,
     CancelledTask, executor
<1>3. ThreadInv'
  BY DEF IInv, TypeOK, ThreadInv, ThreadOK, CancelTask, AfterCancel, executor
<1>4. ModeInv'
  BY DEF IInv, TypeOK, ModeInv, CancelTask, executor
<1>5. OwnerInv'
  BY DEF IInv, TypeOK, OwnerInv, OwnedBy, CancelTask, executor
<1>6. InsertInv'
  BY DEF IInv, TypeOK, InsertInv, CancelTask, AfterCancel, executor
<1>7. ExecInv'
  BY DEF IInv, TypeOK, ExecInv, CancelTask, CancelledTask, Threads
<1>8. FlagInv'
  BY DEF IInv, TypeOK, ExecInv, FlagInv, Live, Uncancelled, CancelTask,
     CancelledTask, executor
<1>9. NoUseAfterFree'
  BY DEF IInv, TypeOK, RefInv, RefOK, Owned, Holds, NoUseAfterFree, CancelTask,
     Touch
<1> QED
  BY <1>1, <1>2, <1>3, <1>4, <1>5, <1>6, <1>7, <1>8, <1>9 DEF IInv

\* A thread waits for a task that it owns.
LEMMA AwaitStep ==
  ASSUME IInv, NEW th \in Threads, Await(th)
  PROVE  IInv'
<1>1. TypeOK'
  BY DEF IInv, TypeOK, Await, history, executor
<1>2. RefInv'
  BY DEF IInv, RefInv, RefOK, Owned, Holds, Await, executor
<1>3. ThreadInv'
  BY DEF IInv, ThreadInv, ThreadOK, Await, executor
<1>4. ModeInv'
  BY DEF IInv, ModeInv, Await, executor
<1>5. OwnerInv'
  BY DEF IInv, OwnerInv, OwnedBy, Await, executor
<1>6. InsertInv'
  BY DEF IInv, InsertInv, Await, executor
<1>7. ExecInv'
  BY DEF IInv, ExecInv, Await
<1>8. FlagInv'
  BY DEF IInv, FlagInv, Live, Uncancelled, Await, executor
<1>9. NoUseAfterFree'
  BY DEF IInv, NoUseAfterFree, Await
<1> QED
  BY <1>1, <1>2, <1>3, <1>4, <1>5, <1>6, <1>7, <1>8, <1>9 DEF IInv

\* The thread gives up the reference it took out of tasks_.
LEMMA ReleaseTaskStep ==
  ASSUME IInv, NEW th \in Threads, ReleaseTask(th)
  PROVE  IInv'
<1>1. TypeOK'
  BY DEF IInv, TypeOK, ThreadInv, ThreadOK, ReleaseTask
<1>2. RefInv'
  BY DEF IInv, TypeOK, ThreadInv, ThreadOK, ReleaseTask
<1>3. ThreadInv'
  BY DEF IInv, TypeOK, ThreadInv, ThreadOK, ReleaseTask
<1>4. ModeInv'
  BY DEF IInv, TypeOK, ThreadInv, ThreadOK, ReleaseTask
<1>5. OwnerInv'
  BY DEF IInv, TypeOK, ThreadInv, ThreadOK, ReleaseTask
<1>6. InsertInv'
  BY DEF IInv, TypeOK, ThreadInv, ThreadOK, ReleaseTask
<1>7. ExecInv'
  BY DEF IInv, TypeOK, ExecInv, ReleaseTask, Release, Threads
<1>8. FlagInv'
  BY DEF IInv, TypeOK, ThreadInv, ThreadOK, ReleaseTask
<1>9. NoUseAfterFree'
  BY DEF IInv, TypeOK, ThreadInv, ThreadOK, ReleaseTask
<1> QED
  BY <1>1, <1>2, <1>3, <1>4, <1>5, <1>6, <1>7, <1>8, <1>9 DEF IInv

\* Every task taken out has been cancelled and released.
LEMMA ReturnStep ==
  ASSUME IInv, NEW th \in Threads, Return(th)
  PROVE  IInv'
<1>1. TypeOK'
  BY DEF IInv, TypeOK, Return, Ready, history, executor
<1>2. RefInv'
  BY DEF IInv, RefInv, RefOK, Owned, Holds, Return, Ready, executor
<1>3. ThreadInv'
  BY DEF IInv, TypeOK, ThreadInv, ThreadOK, ModeInv, Return, Ready, executor
<1>4. ModeInv'
  BY DEF IInv, ThreadInv, ThreadOK, ModeInv, Return, Ready, executor
<1>5. OwnerInv'
  BY DEF IInv, OwnerInv, OwnedBy, Return, Ready, executor
<1>6. InsertInv'
  BY DEF IInv, InsertInv, Return, Ready, executor
<1>7. ExecInv'
  BY DEF IInv, TypeOK, ThreadInv, ThreadOK, ModeInv, ExecInv, FlagInv, Live,
     Uncancelled, Return, Ready
<1>8. FlagInv'
  BY DEF IInv, FlagInv, Live, Uncancelled, Return, executor
<1>9. NoUseAfterFree'
  BY DEF IInv, NoUseAfterFree, Return
<1> QED
  BY <1>1, <1>2, <1>3, <1>4, <1>5, <1>6, <1>7, <1>8, <1>9 DEF IInv

-----------------------------------------------------------------------------
\* The steps that stutter.
LEMMA StutterStep ==
  ASSUME IInv, UNCHANGED vars
  PROVE  IInv'
BY DEF vars, IInv, TypeOK, RefInv, RefOK, Owned, Holds, ThreadInv, ThreadOK,
       ModeInv, OwnerInv, OwnedBy, InsertInv, ExecInv, FlagInv, Live, Uncancelled,
       NoUseAfterFree

\* At first nothing exists but the threads.
LEMMA InitInv == Init => IInv
<1> SUFFICES ASSUME Init PROVE IInv
  OBVIOUS
<1> USE ThreadsAssumption
<1>1. \A th \in Threads : thread[th] = Ready
  BY DEF Init
<1>2. \A t \in Tasks : task[t].state = "none" /\ task[t].ref_count = 0
                        /\ ~task[t].executor /\ ~task[t].locked
  BY DEF Init
<1>3. TypeOK
  BY DEF Init, Ready, TypeOK, States
<1>4. RefInv
  BY <1>1, <1>2 DEF Init, Ready, RefInv, RefOK, Owned, Holds
<1>5. ThreadInv /\ OwnerInv /\ InsertInv
  BY <1>1 DEF Init, Ready, ThreadInv, ThreadOK, OwnerInv, OwnedBy, InsertInv
<1>6. ModeInv /\ ExecInv /\ FlagInv /\ NoUseAfterFree
  BY <1>1, <1>2 DEF Init, Ready, ModeInv, ExecInv, FlagInv, NoUseAfterFree
<1> QED
  BY <1>3, <1>4, <1>5, <1>6 DEF IInv

\* Every step preserves the inductive invariant.
LEMMA NextInv == IInv /\ [Next]_vars => IInv'
<1> SUFFICES ASSUME IInv, [Next]_vars PROVE IInv'
  OBVIOUS
<1>1. CASE \E th \in Threads, t \in Tasks : Enqueue(th, t)
  BY <1>1, EnqueueStep
<1>2. CASE EnterRestrictedMode \/ EnqueueEvenWhileRestricted
  BY <1>2, EnterRestrictedModeStep, EnqueueEvenWhileRestrictedStep
<1>3. CASE \E th \in Threads : Dispose(th) \/ ThreadStep(th)
  BY <1>3, DisposeStep, InsertStep, DispatchStep, DisposeExecutorStep,
     CancelTaskStep, AwaitStep, ReleaseTaskStep, ReturnStep DEF ThreadStep
<1>4. CASE \E t \in Tasks : Cancel(t)
  BY <1>4, CancelStep
<1>5. CASE WorkerStep
  BY <1>5, ExecuteStep, OperationReturnedStep, OnCompletionStep, LeaveStep
  DEF WorkerStep
<1>6. CASE UNCHANGED vars
  BY <1>6, StutterStep
<1> QED
  BY <1>1, <1>2, <1>3, <1>4, <1>5, <1>6 DEF Next

\* What is known of every state that the executor can reach.
THEOREM Inductive == Spec => []IInv
BY InitInv, NextInv, PTL DEF Spec

(***************************************************************************)
(* AsyncQueue, ExecutorLibdispatch and their tasks keep their types,       *)
(* whatever threads call them.                                             *)
(***************************************************************************)
THEOREM TypeCorrect == Spec => []TypeOK
<1>1. IInv => TypeOK
  BY DEF IInv
<1> QED
  BY <1>1, Inductive, PTL

(***************************************************************************)
(* No thread uses a Task that has been deleted and no Task calls the       *)
(* executor after its Dispose, for any number of tasks and callers,        *)
(* although Task::Release deletes without a lock.                          *)
(***************************************************************************)
THEOREM NothingIsUsedAfterFree == Spec => []NoUseAfterFree
<1>1. IInv => NoUseAfterFree
  BY DEF IInv
<1> QED
  BY <1>1, Inductive, PTL

(***************************************************************************)
(* Task::Retain and Task::Release keep the count equal to the owners, for  *)
(* any number of tasks and callers.                                        *)
(***************************************************************************)
THEOREM RefCountsAreRight == Spec => []RefCountIsOwners
<1>1. IInv => RefCountIsOwners
  BY DEF IInv, RefInv, RefOK, RefCountIsOwners
<1> QED
  BY <1>1, Inductive, PTL
-----------------------------------------------------------------------------
(***************************************************************************)
(* Why cancelled tasks stay quiet.  Beside IInv it takes who is about to   *)
(* cancel what (WorkerInv, CancelInv), that Dispose has not let go of a    *)
(* task that runs unless it is called by that task (DisposeInv), and that  *)
(* nothing is scheduled once TerminateInternal has run (ClientInv).        *)
(***************************************************************************)

\* A task that has started, or never will.
Begun(t) == task[t].state \notin {"none", "kInitial"}

\* A task whose operation is not run, now or later.
Over(t) == Begun(t) /\ task[t].state # "kRunning"

\* What runs is what the worker executes, and only that calls the queue.
WorkerInv ==
  /\ \A t \in Tasks :
       /\ task[t].state = "kInitial" => task[t].executor /\ t # executing
       /\ task[t].state = "kRunning" => t = executing /\ stage = "operation"
  /\ stage # "operation" => thread[Worker].pc = "ready"
  /\ thread[Worker].call = "Cancel" => thread[Worker].todo \subseteq revoked \cup recalled

\* A task that has been cancelled will not start, at the latest when the worker,
\* which is cancelling it, is done with the operation.
CancelInv ==
  /\ \A t \in revoked :
       /\ task[t].state \notin {"none", "kRunning"}
       /\ task[t].state = "kInitial" => Uncancelled(Worker, t)
  /\ \A t \in recalled : Begun(t)

\* A thread that disposes of the queue lets go of no task that runs, except of
\* one that has cancelled itself or disposes of the queue itself.
DisposeInv ==
  /\ \A th \in Threads \ {Worker} :
       thread[th].pc = "release" => Over(thread[th].task)
  /\ returned # Worker /\ thread[Worker].call # "Dispose" =>
       \A t \in Tasks : task[t].state = "kRunning" =>
         \/ t \in tasks \cup recalled
         \/ \E th \in Threads \ {Worker} : t \in thread[th].todo

\* The queue of a FirestoreClient.
ClientInv ==
  client =>
    /\ TerminateInternal \notin schedule \cup recalled
    /\ \A th \in Threads :
         /\ thread[th].pc \in {"enqueue", "inserted"} =>
              /\ (thread[th].task = TerminateInternal) <=> (th = Disposer)
              /\ mode # "kRunning" => th = Disposer
         /\ thread[th].call = "Dispose" => th = Disposer
         /\ TerminateInternal \in thread[th].todo =>
              th = Disposer /\ thread[th].call = "Dispose"
    /\ task[TerminateInternal].state # "none" => mode # "kRunning"
    /\ mode = "kDisposed" => Begun(TerminateInternal)
    /\ returned # Worker
    /\ Over(TerminateInternal) =>
         schedule = {} /\ (InOperation => executing \notin recalled)

QuietInv == WorkerInv /\ CancelInv /\ DisposeInv /\ ClientInv
-----------------------------------------------------------------------------
\* A thread makes a task, which nobody has cancelled.
LEMMA EnqueueQuiet ==
  ASSUME IInv, QuietInv, NEW th \in Threads, NEW t \in Tasks, Enqueue(th, t)
  PROVE  QuietInv'
<1>1. /\ t # executing /\ t \notin revoked \cup recalled
      /\ task[t].state = "none" /\ thread[th].pc = "ready" /\ thread[th].todo = {}
      /\ thread[th].call = "none" /\ mode = "kRunning"
  BY DEF IInv, RefInv, RefOK, Holds, ThreadInv, ThreadOK, QuietInv, CancelInv, Begun,
         Enqueue, MayCall, Create
<1>2. /\ \A x \in Tasks : x # t => task'[x] = task[x]
      /\ task'[t].state = "kInitial" /\ task'[t].executor
      /\ \A other \in Threads : other # th => thread'[other] = thread[other]
      /\ thread'[th].pc = "enqueue" /\ thread'[th].task = t /\ thread'[th].todo = {}
      /\ thread'[th].call = "none"
      /\ UNCHANGED <<mode, executor, returned, executing, stage, history>>
  BY <1>1 DEF IInv, TypeOK, Enqueue, Create
<1>3. WorkerInv'
  BY <1>1, <1>2 DEF IInv, TypeOK, QuietInv, WorkerInv, Enqueue, MayCall, InOperation,
                    history, Threads
<1>4. CancelInv'
  BY <1>1, <1>2 DEF IInv, TypeOK, QuietInv, CancelInv, Begun, Uncancelled, history, Threads
<1>5. DisposeInv'
  <2>1. ASSUME NEW x \in Tasks, task'[x].state = "kRunning"
        PROVE  task[x].state = "kRunning"
    BY <1>2, <2>1
  <2>2. Worker \in Threads
    BY DEF Threads
  <2> QED
    BY <1>1, <1>2, <2>1, <2>2
    DEF IInv, TypeOK, ThreadInv, ThreadOK, QuietInv, DisposeInv, Begun, Over, executor,
        history
<1>6. ClientInv'
  <2>1. client => t # TerminateInternal /\ th # Disposer
    BY DEF Enqueue, Create
  <2>2. client' = client /\ TerminateInternal \in Tasks
    BY <1>2, ThreadsAssumption DEF history
  <2> QED
    BY <1>1, <1>2, <2>1, <2>2
    DEF QuietInv, ClientInv, Begun, Over, InOperation, executor, history
<1> QED
  BY <1>3, <1>4, <1>5, <1>6 DEF QuietInv

\* No operation is being enqueued when the mode changes.
LEMMA EnterRestrictedModeQuiet ==
  ASSUME IInv, QuietInv, EnterRestrictedMode
  PROVE  QuietInv'
<1>1. \A th \in Threads : thread[th].pc \notin {"enqueue", "inserted"}
  BY ThreadsAssumption DEF IInv, ThreadInv, ThreadOK, EnterRestrictedMode
<1>2. WorkerInv' /\ CancelInv' /\ DisposeInv'
  BY DEF QuietInv, WorkerInv, CancelInv, DisposeInv, Begun, Over, Uncancelled,
         EnterRestrictedMode, executor, history
<1>3. ClientInv'
  BY <1>1 DEF QuietInv, ClientInv, Begun, Over, InOperation, EnterRestrictedMode,
              executor, history
<1> QED
  BY <1>2, <1>3 DEF QuietInv

\* Dispose makes the task that runs TerminateInternal.
LEMMA EnqueueEvenWhileRestrictedQuiet ==
  ASSUME IInv, QuietInv, EnqueueEvenWhileRestricted
  PROVE  QuietInv'
<1> DEFINE t == TerminateInternal
<1>1. /\ t \in Tasks /\ Disposer \in Threads /\ Disposer # Worker
      /\ t # executing /\ t \notin revoked \cup recalled
      /\ task[t].state = "none" /\ mode = "kRestricted"
      /\ thread[Disposer].call = "none"
  BY ThreadsAssumption
  DEF IInv, TypeOK, RefInv, RefOK, Holds, ThreadInv, ThreadOK, QuietInv, CancelInv, Begun,
      EnqueueEvenWhileRestricted, Create, Threads
<1>2. thread[Disposer].todo = {}
  BY <1>1 DEF IInv, TypeOK, ThreadInv, ThreadOK
<1>3. /\ \A x \in Tasks : x # t => task'[x] = task[x]
      /\ task'[t].state = "kInitial" /\ task'[t].executor
      /\ \A other \in Threads : other # Disposer => thread'[other] = thread[other]
      /\ thread'[Disposer].pc = "enqueue" /\ thread'[Disposer].task = t
      /\ thread'[Disposer].todo = {} /\ thread'[Disposer].call = "none"
      /\ UNCHANGED <<mode, executor, returned, executing, stage, history>>
  BY <1>1, <1>2 DEF IInv, TypeOK, EnqueueEvenWhileRestricted, Create
<1> HIDE DEF t
<1>4. WorkerInv'
  BY <1>1, <1>3 DEF IInv, TypeOK, QuietInv, WorkerInv, history, Threads
<1>5. CancelInv'
  BY <1>1, <1>3 DEF IInv, TypeOK, QuietInv, CancelInv, Begun, Uncancelled, history, Threads
<1>6. DisposeInv'
  <2>1. ASSUME NEW x \in Tasks, task'[x].state = "kRunning"
        PROVE  task[x].state = "kRunning"
    BY <1>3, <2>1
  <2>2. Worker \in Threads
    BY DEF Threads
  <2> QED
    BY <1>1, <1>2, <1>3, <2>1, <2>2
    DEF IInv, TypeOK, ThreadInv, ThreadOK, QuietInv, DisposeInv, Begun, Over, executor, history
<1>7. ClientInv'
  BY <1>1, <1>2, <1>3 DEF t, QuietInv, ClientInv, Begun, Over, InOperation, executor, history
<1> QED
  BY <1>4, <1>5, <1>6, <1>7 DEF QuietInv

\* The worker schedules nothing once TerminateInternal exists.
LEMMA InsertQuiet ==
  ASSUME IInv, QuietInv, NEW th \in Threads, Insert(th)
  PROVE  QuietInv'
<1>1. /\ ~disposed /\ thread[th].pc = "enqueue"
      /\ thread[th].todo = {} /\ thread[th].call = "none" /\ mode # "kDisposed"
  BY DEF IInv, ThreadInv, ThreadOK, ModeInv, Insert
<1>2. /\ tasks' = tasks \cup {thread[th].task}
      /\ schedule' = IF th = Worker THEN schedule \cup {thread[th].task} ELSE schedule
      /\ \A other \in Threads : other # th => thread'[other] = thread[other]
      /\ thread'[th].pc = "inserted" /\ thread'[th].task = thread[th].task
      /\ thread'[th].todo = {} /\ thread'[th].call = "none"
      /\ UNCHANGED <<mode, task, returned, executing, stage, history>>
  BY <1>1 DEF IInv, TypeOK, Insert
<1>3. Worker \in Threads /\ Worker # Disposer
  BY ThreadsAssumption DEF Threads
<1>4. WorkerInv' /\ CancelInv'
  BY <1>1, <1>2, <1>3 DEF QuietInv, WorkerInv, CancelInv, Begun, Uncancelled, history
<1>5. DisposeInv'
  BY <1>1, <1>2, <1>3 DEF QuietInv, DisposeInv, Begun, Over, history
<1>6. ClientInv'
  BY <1>1, <1>2, <1>3 DEF QuietInv, ClientInv, Begun, Over, InOperation, history
<1> QED
  BY <1>4, <1>5, <1>6 DEF QuietInv

\* libdispatch's reference changes nothing that counts here.
LEMMA DispatchQuiet ==
  ASSUME IInv, QuietInv, NEW th \in Threads, Dispatch(th)
  PROVE  QuietInv'
<1>1. /\ thread[th].pc = "inserted" /\ thread[th].todo = {} /\ thread[th].call = "none"
  BY DEF IInv, ThreadInv, ThreadOK, Dispatch
<1>2. /\ \A t \in Tasks : /\ task'[t].state = task[t].state
                          /\ task'[t].executor = task[t].executor
      /\ \A other \in Threads : other # th => thread'[other] = thread[other]
      /\ thread'[th].pc = "ready" /\ thread'[th].todo = {} /\ thread'[th].call = "none"
      /\ UNCHANGED <<mode, executor, returned, executing, stage, history>>
  BY <1>1 DEF IInv, TypeOK, Dispatch, Ready
<1>3. Worker \in Threads /\ TerminateInternal \in Tasks
  BY ThreadsAssumption DEF Threads
<1>4. WorkerInv'
  BY <1>1, <1>2, <1>3 DEF QuietInv, WorkerInv, history
<1>5. CancelInv'
  BY <1>1, <1>2, <1>3 DEF IInv, TypeOK, QuietInv, CancelInv, Begun, Uncancelled, history
<1>6. DisposeInv'
  BY <1>1, <1>2, <1>3
  DEF IInv, TypeOK, ThreadInv, ThreadOK, QuietInv, DisposeInv, Begun, Over, executor, history
<1>7. ClientInv'
  BY <1>1, <1>2, <1>3 DEF QuietInv, ClientInv, Begun, Over, InOperation, executor, history
<1> QED
  BY <1>4, <1>5, <1>6, <1>7 DEF QuietInv

\* A task that starts has not been cancelled, and is still in the executor or
\* with a thread that disposes of it.
LEMMA ExecuteQuiet ==
  ASSUME IInv, QuietInv, NEW t \in Tasks, Execute(t)
  PROVE  QuietInv'
<1>1. /\ Worker \in Threads /\ TerminateInternal \in Tasks
      /\ stage = "idle" /\ t \in dispatched
      /\ thread[Worker].pc = "ready" /\ thread[Worker].todo = {}
  BY ThreadsAssumption DEF IInv, ThreadInv, ThreadOK, QuietInv, WorkerInv, Execute, Threads
<1>2. /\ executing' = t
      /\ UNCHANGED <<mode, executor, returned, thread, history>>
  BY DEF Execute
<1>3. \A x \in Tasks : task[x].state # "kRunning"
  BY <1>1 DEF QuietInv, WorkerInv
<1>4. CASE task[t].state = "kInitial"
  <2>1. /\ \A x \in Tasks : x # t => task'[x] = task[x]
        /\ task'[t].state = "kRunning" /\ stage' = "operation"
    BY <1>4 DEF IInv, TypeOK, Execute
  <2>2. t \notin revoked /\ t \notin recalled
    BY <1>1, <1>4 DEF QuietInv, CancelInv, Begun, Uncancelled
  <2>3. t \in tasks \/ \E th \in Threads \ {Worker} : t \in thread[th].todo
    BY <1>1, <1>4
    DEF IInv, FlagInv, Live, Uncancelled, InsertInv, QuietInv, WorkerInv
  <2>4. WorkerInv'
    BY <1>1, <1>2, <1>3, <2>1 DEF QuietInv, WorkerInv, history
  <2>5. CancelInv'
    BY <1>1, <1>2, <2>1, <2>2
    DEF IInv, TypeOK, QuietInv, CancelInv, Begun, Uncancelled, history
  <2>6. DisposeInv'
    <3>1. ASSUME NEW th \in Threads \ {Worker}, thread'[th].pc = "release"
          PROVE  Over(thread[th].task)'
      <4>1. Over(thread[th].task) /\ thread[th].task \in Tasks
        BY <1>2, <3>1 DEF IInv, TypeOK, ThreadInv, ThreadOK, QuietInv, DisposeInv
      <4> QED
        BY <1>2, <1>4, <2>1, <4>1 DEF Over, Begun
    <3>2. ASSUME NEW x \in Tasks, task'[x].state = "kRunning"
          PROVE  x = t
      BY <1>3, <2>1, <3>2
    <3> QED
      BY <1>2, <2>3, <3>1, <3>2 DEF DisposeInv, executor
  <2>7. ClientInv'
    BY <1>1, <1>2, <1>4, <2>1, <2>2
    DEF QuietInv, ClientInv, Begun, Over, InOperation, executor, history
  <2> QED
    BY <2>4, <2>5, <2>6, <2>7 DEF QuietInv
<1>5. CASE task[t].state # "kInitial"
  <2>1. stage' = "leaving" /\ UNCHANGED task
    BY <1>5 DEF Execute
  <2>2. WorkerInv'
    BY <1>1, <1>2, <1>3, <1>5, <2>1 DEF QuietInv, WorkerInv, history
  <2>3. CancelInv' /\ DisposeInv'
    BY <1>2, <2>1 DEF QuietInv, CancelInv, DisposeInv, Begun, Over, Uncancelled, executor,
                      history
  <2>4. ClientInv'
    BY <1>2, <2>1 DEF QuietInv, ClientInv, Begun, Over, InOperation, executor, history
  <2> QED
    BY <2>2, <2>3, <2>4 DEF QuietInv
<1> QED
  BY <1>4, <1>5

\* The worker has nothing left to do for the queue when an operation returns,
\* and nothing is scheduled when TerminateInternal does.
LEMMA OperationReturnedQuiet ==
  ASSUME IInv, QuietInv, OperationReturned
  PROVE  QuietInv'
<1>1. /\ Worker \in Threads /\ TerminateInternal \in Tasks /\ executing \in Tasks
      /\ stage = "operation" /\ task[executing].state = "kRunning"
      /\ thread[Worker].pc = "ready"
  BY ThreadsAssumption
  DEF IInv, TypeOK, ExecInv, OperationReturned, InOperation, Threads
<1>2. /\ \A x \in Tasks : x # executing => task'[x] = task[x]
      /\ task'[executing].state = "kDone"
      /\ stage' \in {"completing", "leaving"}
      /\ client /\ executing = TerminateInternal => schedule = {}
      /\ UNCHANGED <<mode, executor, returned, executing, thread, history>>
  BY <1>1 DEF IInv, TypeOK, OperationReturned
<1>3. WorkerInv'
  BY <1>1, <1>2 DEF QuietInv, WorkerInv, history
<1>4. CancelInv'
  BY <1>1, <1>2 DEF IInv, TypeOK, QuietInv, CancelInv, Begun, Uncancelled, history
<1>5. DisposeInv'
  <2>1. ASSUME NEW th \in Threads \ {Worker}, thread'[th].pc = "release"
        PROVE  Over(thread[th].task)'
    <3>1. Over(thread[th].task) /\ thread[th].task \in Tasks
      BY <1>2, <2>1 DEF IInv, TypeOK, ThreadInv, ThreadOK, QuietInv, DisposeInv
    <3> QED
      BY <1>2, <3>1 DEF Over, Begun
  <2>2. ASSUME NEW x \in Tasks, task'[x].state = "kRunning"
        PROVE  task[x].state = "kRunning"
    BY <1>2, <2>2
  <2> QED
    BY <1>2, <2>1, <2>2 DEF QuietInv, DisposeInv, executor, history
<1>6. ClientInv'
  BY <1>1, <1>2 DEF QuietInv, ClientInv, Begun, Over, InOperation, executor, history
<1> QED
  BY <1>3, <1>4, <1>5, <1>6 DEF QuietInv

\* The executor lets go of a task that is done.
LEMMA OnCompletionQuiet ==
  ASSUME IInv, QuietInv, OnCompletion
  PROVE  QuietInv'
<1>1. /\ Worker \in Threads /\ TerminateInternal \in Tasks /\ executing \in Tasks
      /\ task[executing].state = "kDone" /\ stage = "completing"
  BY ThreadsAssumption DEF IInv, TypeOK, ExecInv, OnCompletion, Threads
<1>2. /\ \A x \in Tasks : x # executing => task'[x] = task[x]
      /\ task'[executing].state \in {"kDone", "deleted"}
      /\ tasks' = tasks \ {executing} /\ schedule' \subseteq schedule
      /\ stage' = "leaving"
      /\ UNCHANGED <<mode, returned, executing, thread, history>>
  BY <1>1 DEF IInv, TypeOK, OnCompletion, Release
<1>3. WorkerInv'
  BY <1>1, <1>2 DEF QuietInv, WorkerInv, history
<1>4. CancelInv'
  BY <1>1, <1>2 DEF IInv, TypeOK, QuietInv, CancelInv, Begun, Uncancelled, history
<1>5. DisposeInv'
  <2>1. ASSUME NEW th \in Threads \ {Worker}, thread'[th].pc = "release"
        PROVE  Over(thread[th].task)'
    <3>1. Over(thread[th].task) /\ thread[th].task \in Tasks
      BY <1>2, <2>1 DEF IInv, TypeOK, ThreadInv, ThreadOK, QuietInv, DisposeInv
    <3> QED
      BY <1>2, <3>1 DEF Over, Begun
  <2>2. ASSUME NEW x \in Tasks, task'[x].state = "kRunning"
        PROVE  task[x].state = "kRunning" /\ x # executing
    BY <1>2, <2>2
  <2> QED
    BY <1>2, <2>1, <2>2 DEF QuietInv, DisposeInv, history
<1>6. ClientInv'
  BY <1>1, <1>2 DEF QuietInv, ClientInv, Begun, Over, InOperation, history
<1> QED
  BY <1>3, <1>4, <1>5, <1>6 DEF QuietInv

\* libdispatch lets go of a task that is over.
LEMMA LeaveQuiet ==
  ASSUME IInv, QuietInv, Leave
  PROVE  QuietInv'
<1>1. /\ Worker \in Threads /\ TerminateInternal \in Tasks /\ executing \in Tasks
      /\ stage = "leaving" /\ None \notin Tasks
  BY ThreadsAssumption DEF IInv, TypeOK, ExecInv, Leave, Threads
<1>2. task[executing].state \notin {"none", "kInitial", "kRunning"}
  BY <1>1 DEF IInv, RefInv, RefOK, Holds, TypeOK, QuietInv, WorkerInv
<1>3. /\ \A x \in Tasks : x # executing => task'[x] = task[x]
      /\ task'[executing].state \in {task[executing].state, "deleted"}
      /\ executing' = None /\ stage' = "idle"
      /\ UNCHANGED <<mode, executor, returned, thread, history>>
  BY <1>1 DEF IInv, TypeOK, Leave, Release
<1>4. WorkerInv'
  BY <1>1, <1>2, <1>3 DEF QuietInv, WorkerInv, history
<1>5. CancelInv'
  BY <1>1, <1>2, <1>3 DEF IInv, TypeOK, QuietInv, CancelInv, Begun, Uncancelled, history
<1>6. DisposeInv'
  <2>1. ASSUME NEW th \in Threads \ {Worker}, thread'[th].pc = "release"
        PROVE  Over(thread[th].task)'
    <3>1. Over(thread[th].task) /\ thread[th].task \in Tasks
      BY <1>3, <2>1 DEF IInv, TypeOK, ThreadInv, ThreadOK, QuietInv, DisposeInv
    <3> QED
      BY <1>2, <1>3, <3>1 DEF Over, Begun
  <2>2. ASSUME NEW x \in Tasks, task'[x].state = "kRunning"
        PROVE  task[x].state = "kRunning"
    BY <1>2, <1>3, <2>2
  <2> QED
    BY <1>3, <2>1, <2>2 DEF QuietInv, DisposeInv, executor, history
<1>7. ClientInv'
  BY <1>1, <1>2, <1>3 DEF QuietInv, ClientInv, Begun, Over, InOperation, executor, history
<1> QED
  BY <1>4, <1>5, <1>6, <1>7 DEF QuietInv

\* An operation takes a task out of the executor, which is then to be cancelled;
\* if it runs, it is that of the operation itself.
LEMMA CancelQuiet ==
  ASSUME IInv, QuietInv, NEW t \in Tasks, Cancel(t)
  PROVE  QuietInv'
<1>1. /\ Worker \in Threads /\ TerminateInternal \in Tasks /\ Worker # Disposer
      /\ stage = "operation" /\ executing \in Tasks /\ task[executing].state = "kRunning"
      /\ thread[Worker].pc = "ready" /\ thread[Worker].todo = {}
      /\ thread[Worker].call = "none" /\ t \in schedule /\ t \in tasks
  BY ThreadsAssumption
  DEF IInv, TypeOK, ThreadInv, ThreadOK, ExecInv, Cancel, MayCall, InOperation, Threads
<1>2. /\ task[t].state # "none"
      /\ t # executing => task[t].state # "kRunning"
  BY <1>1 DEF IInv, RefInv, RefOK, Holds, TypeOK, QuietInv, WorkerInv
<1>3. /\ tasks' = tasks \ {t} /\ schedule' = schedule \ {t}
      /\ \A other \in Threads : other # Worker => thread'[other] = thread[other]
      /\ thread'[Worker].pc = "cancel" /\ thread'[Worker].call = "Cancel"
      /\ thread'[Worker].todo = {t}
      /\ UNCHANGED <<client, mode, returned, task, executing, stage>>
  BY <1>1 DEF IInv, TypeOK, Cancel
<1>4. /\ t = executing => recalled' = recalled \cup {t} /\ revoked' = revoked
      /\ t # executing => revoked' = revoked \cup {t} /\ recalled' = recalled
  BY DEF Cancel
<1>5. WorkerInv'
  BY <1>1, <1>3, <1>4 DEF QuietInv, WorkerInv
<1>6. CancelInv'
  <2>1. ASSUME NEW x \in revoked PROVE task[x].state # "kInitial"
    BY <1>1, <2>1 DEF QuietInv, CancelInv, Uncancelled
  <2>2. ASSUME NEW x \in revoked'
        PROVE  /\ task[x].state \notin {"none", "kRunning"}
               /\ task[x].state = "kInitial" => Uncancelled(Worker, x)'
    BY <1>2, <1>3, <1>4, <2>1 DEF QuietInv, CancelInv, Uncancelled
  <2>3. ASSUME NEW x \in recalled' PROVE Begun(x)
    BY <1>1, <1>4 DEF QuietInv, CancelInv, Begun
  <2> QED
    BY <1>3, <2>2, <2>3 DEF CancelInv, Begun
<1>7. DisposeInv'
  <2>1. ASSUME NEW x \in Tasks, task[x].state = "kRunning", x \in tasks
        PROVE  x \in tasks' \cup recalled'
    BY <1>2, <1>3, <1>4, <2>1
  <2> QED
    BY <1>1, <1>3, <1>4, <2>1 DEF QuietInv, DisposeInv, Begun, Over
<1>8. ClientInv'
  BY <1>1, <1>3, <1>4 DEF QuietInv, ClientInv, Begun, Over, InOperation
<1> QED
  BY <1>5, <1>6, <1>7, <1>8 DEF QuietInv

\* A FirestoreClient disposes of its queue when TerminateInternal has started.
LEMMA DisposeQuiet ==
  ASSUME IInv, QuietInv, NEW th \in Threads, Dispose(th)
  PROVE  QuietInv'
<1>1. /\ Worker \in Threads
      /\ thread[th].pc = "ready" /\ thread[th].todo = {} /\ thread[th].call = "none"
      /\ th = Worker => stage = "operation"
      /\ client => th = Disposer /\ Begun(TerminateInternal)
  BY DEF IInv, ThreadInv, ThreadOK, Dispose, MayCall, InOperation, Disposable, Begun,
         Threads
<1>2. /\ \A other \in Threads : other # th => thread'[other] = thread[other]
      /\ thread'[th].pc = "dispose" /\ thread'[th].todo = {}
      /\ thread'[th].call = "Dispose" /\ mode' = "kDisposed"
      /\ \A other \in Threads : thread[other].pc \notin {"enqueue", "inserted"}
      /\ UNCHANGED <<executor, returned, task, executing, stage, history>>
  BY <1>1, ThreadsAssumption DEF IInv, TypeOK, ThreadInv, ThreadOK, Dispose
<1>3. WorkerInv' /\ CancelInv'
  BY <1>1, <1>2 DEF QuietInv, WorkerInv, CancelInv, Begun, Uncancelled, history
<1>4. DisposeInv'
  BY <1>1, <1>2 DEF QuietInv, DisposeInv, Begun, Over, executor, history
<1>5. ClientInv'
  BY <1>1, <1>2 DEF QuietInv, ClientInv, Begun, Over, InOperation, executor, history
<1> QED
  BY <1>3, <1>4, <1>5 DEF QuietInv

\* What the executor owned is now to be cancelled by the thread.
LEMMA DisposeExecutorQuiet ==
  ASSUME IInv, QuietInv, NEW th \in Threads, DisposeExecutor(th)
  PROVE  QuietInv'
<1>1. /\ Worker \in Threads
      /\ thread[th].pc = "dispose" /\ thread[th].todo = {} /\ thread[th].call = "Dispose"
      /\ mode = "kDisposed"
  BY DEF IInv, ThreadInv, ThreadOK, DisposeExecutor, Threads
<1>2. /\ \A other \in Threads : other # th => thread'[other] = thread[other]
      /\ thread'[th].pc = "cancel" /\ thread'[th].todo = tasks
      /\ thread'[th].call = "Dispose"
      /\ tasks' = {} /\ schedule' = {}
      /\ UNCHANGED <<mode, returned, task, executing, stage, history>>
  BY <1>1 DEF IInv, TypeOK, DisposeExecutor
<1>3. WorkerInv' /\ CancelInv'
  BY <1>1, <1>2 DEF QuietInv, WorkerInv, CancelInv, Begun, Uncancelled, history
<1>4. DisposeInv'
  <2>1. ASSUME returned' # Worker, thread'[Worker].call # "Dispose",
               NEW x \in Tasks, task'[x].state = "kRunning", x \notin recalled'
        PROVE  \E other \in Threads \ {Worker} : x \in thread'[other].todo
    <3>1. th # Worker /\ returned # Worker /\ thread[Worker].call # "Dispose"
          /\ task[x].state = "kRunning" /\ x \notin recalled
      BY <1>1, <1>2, <2>1 DEF history
    <3>2. x \in tasks \/ \E other \in Threads \ {Worker} : x \in thread[other].todo
      BY <3>1 DEF QuietInv, DisposeInv
    <3> QED
      BY <1>1, <1>2, <3>1, <3>2
  <2>2. \A other \in Threads \ {Worker} :
          thread'[other].pc = "release" => Over(thread[other].task)'
    BY <1>1, <1>2 DEF QuietInv, DisposeInv, Begun, Over
  <2> QED
    BY <2>1, <2>2 DEF DisposeInv
<1>5. ClientInv'
  BY <1>1, <1>2 DEF QuietInv, ClientInv, Begun, Over, InOperation, history
<1> QED
  BY <1>3, <1>4, <1>5 DEF QuietInv

\* A task that has not started is marked; one that runs on another thread is
\* waited for.
LEMMA CancelTaskQuiet ==
  ASSUME IInv, QuietInv, NEW th \in Threads, CancelTask(th)
  PROVE  QuietInv'
<1>1. PICK t \in thread[th].todo :
        /\ task' = [task EXCEPT ![t] = CancelledTask(@)]
        /\ thread' = [thread EXCEPT ![th].pc = AfterCancel(th, t), ![th].task = t]
  BY DEF CancelTask
<1>2. /\ Worker \in Threads /\ TerminateInternal \in Tasks /\ t \in Tasks
      /\ thread[th].pc = "cancel"
      /\ UNCHANGED <<mode, executor, returned, executing, stage, history>>
  BY ThreadsAssumption DEF IInv, TypeOK, CancelTask, Threads
<1>3. task[t].state # "none"
  BY <1>1, <1>2 DEF IInv, RefInv, RefOK, Owned, Holds, TypeOK
<1>4. /\ \A x \in Tasks : x # t => task'[x] = task[x]
      /\ task[t].state = "kInitial" => task'[t].state = "kCancelled"
      /\ task[t].state # "kInitial" => task'[t].state = task[t].state
  BY <1>1, <1>2 DEF IInv, TypeOK, CancelledTask
<1>5. /\ \A other \in Threads : other # th => thread'[other] = thread[other]
      /\ thread'[th].pc = AfterCancel(th, t) /\ thread'[th].task = t
      /\ thread'[th].todo = thread[th].todo /\ thread'[th].call = thread[th].call
      /\ thread'[th].pc \in {"await", "release"}
  BY <1>1 DEF IInv, TypeOK, AfterCancel
<1>6. \A x \in Tasks : Over(x) => Over(x)'
  BY <1>4 DEF Over, Begun
<1>7. \A x \in Tasks : /\ task'[x].state = "kRunning" <=> task[x].state = "kRunning"
                       /\ task'[x].state = "none" <=> task[x].state = "none"
                       /\ task'[x].state = "kInitial" => task[x].state = "kInitial" /\ x # t
  BY <1>4
<1>8. WorkerInv'
  BY <1>2, <1>4, <1>5, <1>7 DEF IInv, TypeOK, QuietInv, WorkerInv, history
<1>9. CancelInv'
  <2>1. ASSUME NEW x \in revoked, task'[x].state = "kInitial"
        PROVE  Uncancelled(Worker, x)'
    <3>1. x \in Tasks
      BY DEF IInv, TypeOK
    <3>2. x # t /\ Uncancelled(Worker, x)
      BY <1>7, <2>1, <3>1 DEF QuietInv, CancelInv
    <3> QED
      BY <1>2, <1>5, <3>2 DEF Uncancelled
  <2> QED
    BY <1>2, <1>7, <2>1 DEF IInv, TypeOK, QuietInv, CancelInv, Begun, history
<1>10. DisposeInv'
  <2>1. ASSUME NEW other \in Threads \ {Worker}, thread'[other].pc = "release"
        PROVE  Over(thread[other].task)'
    <3>1. CASE other = th
      <4>1. thread'[th].task = t /\ task[t].state # "kRunning"
        BY <1>5, <2>1, <3>1 DEF AfterCancel
      <4> QED
        BY <1>2, <1>3, <1>4, <3>1, <4>1 DEF Over, Begun
    <3>2. CASE other # th
      <4>1. Over(thread[other].task) /\ thread[other].task \in Tasks
        BY <1>5, <2>1, <3>2 DEF IInv, TypeOK, ThreadInv, ThreadOK, QuietInv, DisposeInv
      <4> QED
        BY <1>5, <1>6, <3>2, <4>1 DEF Over, Begun
    <3> QED
      BY <3>1, <3>2
  <2>2. \A other \in Threads : thread'[other].todo = thread[other].todo
                               /\ thread'[other].call = thread[other].call
    BY <1>5
  <2> QED
    BY <1>2, <1>7, <2>1, <2>2 DEF QuietInv, DisposeInv, executor, history
<1>11. ClientInv'
  <2>1. ASSUME client, Over(TerminateInternal)'
        PROVE  Over(TerminateInternal)
    <3>1. CASE t = TerminateInternal
      <4>1. Begun(TerminateInternal)
        BY <2>1, <3>1 DEF QuietInv, ClientInv, IInv, ThreadInv, ThreadOK
      <4> QED
        BY <1>4, <2>1, <3>1, <4>1 DEF Over, Begun
    <3>2. CASE t # TerminateInternal
      BY <1>2, <1>4, <2>1, <3>2 DEF Over, Begun
    <3> QED
      BY <3>1, <3>2
  <2>2. Begun(TerminateInternal) => Begun(TerminateInternal)'
    BY <1>2, <1>4 DEF Begun
  <2>3. task'[TerminateInternal].state = "none" <=> task[TerminateInternal].state = "none"
    BY <1>2, <1>7
  <2> QED
    BY <1>2, <1>5, <2>1, <2>2, <2>3 DEF QuietInv, ClientInv, InOperation, executor, history
<1> QED
  BY <1>8, <1>9, <1>10, <1>11 DEF QuietInv

\* The task that was waited for is over.
LEMMA AwaitQuiet ==
  ASSUME IInv, QuietInv, NEW th \in Threads, Await(th)
  PROVE  QuietInv'
<1>1. /\ Worker \in Threads /\ thread[th].pc = "await" /\ Over(thread[th].task)
  BY DEF Await, Over, Begun, Threads
<1>2. /\ \A other \in Threads : other # th => thread'[other] = thread[other]
      /\ thread'[th].pc = "release" /\ thread'[th].task = thread[th].task
      /\ thread'[th].todo = thread[th].todo /\ thread'[th].call = thread[th].call
      /\ UNCHANGED <<mode, executor, returned, task, executing, stage, history>>
  BY DEF IInv, TypeOK, Await
<1>3. WorkerInv' /\ CancelInv'
  BY <1>1, <1>2 DEF QuietInv, WorkerInv, CancelInv, Begun, Uncancelled, history
<1>4. DisposeInv'
  BY <1>1, <1>2 DEF QuietInv, DisposeInv, Begun, Over, executor, history
<1>5. ClientInv'
  BY <1>1, <1>2 DEF QuietInv, ClientInv, Begun, Over, InOperation, executor, history
<1> QED
  BY <1>3, <1>4, <1>5 DEF QuietInv

\* The thread lets go of a task that is cancelled or, if it is the worker, that
\* is its own.
LEMMA ReleaseTaskQuiet ==
  ASSUME IInv, QuietInv, NEW th \in Threads, ReleaseTask(th)
  PROVE  QuietInv'
<1>1. PICK t : t = thread[th].task
  OBVIOUS
<1>2. /\ Worker \in Threads /\ TerminateInternal \in Tasks /\ t \in Tasks
      /\ thread[th].pc = "release"
      /\ UNCHANGED <<mode, executor, returned, executing, stage, history>>
  BY <1>1, ThreadsAssumption DEF IInv, TypeOK, ThreadInv, ThreadOK, ReleaseTask, Threads
<1>3. /\ \A x \in Tasks : x # t => task'[x] = task[x]
      /\ task'[t].state \in {task[t].state, "deleted"}
      /\ task'[t].executor = task[t].executor
  BY <1>1, <1>2 DEF IInv, TypeOK, ReleaseTask, Release
<1>4. /\ \A other \in Threads : other # th => thread'[other] = thread[other]
      /\ thread'[th].pc = "cancel" /\ thread'[th].task = None
      /\ thread'[th].todo = thread[th].todo \ {t} /\ thread'[th].call = thread[th].call
  BY <1>1 DEF IInv, TypeOK, ReleaseTask
<1>5. th # Worker => Over(t)
  BY <1>1, <1>2 DEF QuietInv, DisposeInv
<1>6. \A x \in Tasks : /\ task'[x].state = "kRunning" => task[x].state = "kRunning"
                       /\ task'[x].state = "none" => task[x].state = "none"
                       /\ task'[x].state = "kInitial" => task[x].state = "kInitial"
                       /\ Over(x) => Over(x)'
                       /\ Begun(x) => Begun(x)'
  BY <1>3 DEF Over, Begun
<1>7. WorkerInv'
  BY <1>2, <1>3, <1>4, <1>6 DEF IInv, TypeOK, QuietInv, WorkerInv, history
<1>8. CancelInv'
  <2>1. ASSUME NEW x \in revoked, task'[x].state = "kInitial"
        PROVE  Uncancelled(Worker, x)'
    <3>1. x \in Tasks
      BY DEF IInv, TypeOK
    <3>2. Uncancelled(Worker, x)
      BY <1>6, <2>1, <3>1 DEF QuietInv, CancelInv
    <3> QED
      BY <1>1, <1>2, <1>4, <3>2 DEF Uncancelled
  <2> QED
    BY <1>2, <1>6, <2>1 DEF IInv, TypeOK, QuietInv, CancelInv, history
<1>9. DisposeInv'
  <2>1. ASSUME NEW other \in Threads \ {Worker}, thread'[other].pc = "release"
        PROVE  Over(thread[other].task)'
    <3>1. other # th
      BY <1>4, <2>1
    <3>2. Over(thread[other].task) /\ thread[other].task \in Tasks
      BY <1>4, <2>1, <3>1 DEF IInv, TypeOK, ThreadInv, ThreadOK, QuietInv, DisposeInv
    <3> QED
      BY <1>4, <1>6, <3>1, <3>2 DEF Over, Begun
  <2>2. ASSUME NEW x \in Tasks, task'[x].state = "kRunning",
               NEW other \in Threads \ {Worker}, x \in thread[other].todo
        PROVE  x \in thread'[other].todo
    BY <1>4, <1>5, <1>6, <2>2 DEF Over
  <2> QED
    BY <1>2, <1>4, <1>6, <2>1, <2>2 DEF QuietInv, DisposeInv, executor, history
<1>10. ClientInv'
  <2>1. ASSUME client, Over(TerminateInternal)'
        PROVE  Over(TerminateInternal)
    <3>1. CASE t = TerminateInternal
      <4>1. th # Worker
        BY <1>1, <1>2, <2>1, <3>1, ThreadsAssumption
        DEF IInv, ThreadInv, ThreadOK, QuietInv, ClientInv
      <4> QED
        BY <1>5, <3>1, <4>1
    <3>2. CASE t # TerminateInternal
      BY <1>2, <1>3, <2>1, <3>2 DEF Over, Begun
    <3> QED
      BY <3>1, <3>2
  <2>2. Begun(TerminateInternal) => Begun(TerminateInternal)'
    BY <1>2, <1>3 DEF Begun
  <2>3. task[TerminateInternal].state = "none" => task'[TerminateInternal].state = "none"
    <3>1. t \in thread[th].todo
      BY <1>1, <1>2 DEF IInv, ThreadInv, ThreadOK
    <3>2. task[t].state # "none"
      BY <1>2, <3>1 DEF IInv, TypeOK, RefInv, RefOK, Owned, Holds
    <3> QED
      BY <1>2, <1>3, <3>2
  <2> QED
    BY <1>2, <1>4, <2>1, <2>2, <2>3
    DEF QuietInv, ClientInv, InOperation, executor, history
<1> QED
  BY <1>7, <1>8, <1>9, <1>10 DEF QuietInv

\* Cancel or Dispose has nothing left to do.
LEMMA ReturnQuiet ==
  ASSUME IInv, QuietInv, NEW th \in Threads, Return(th)
  PROVE  QuietInv'
<1>1. /\ Worker \in Threads /\ Worker # Disposer
      /\ thread[th].pc = "cancel" /\ thread[th].todo = {}
      /\ thread[th].call = "Dispose" => returned = None
      /\ returned' = IF thread[th].call = "Dispose" THEN th ELSE returned
  BY ThreadsAssumption DEF IInv, ThreadInv, ThreadOK, Return, Threads
<1>2. /\ \A other \in Threads : other # th => thread'[other] = thread[other]
      /\ thread'[th].pc = "ready" /\ thread'[th].todo = {} /\ thread'[th].call = "none"
      /\ UNCHANGED <<mode, executor, task, executing, stage, history>>
  BY DEF IInv, TypeOK, Return, Ready
<1>3. WorkerInv' /\ CancelInv'
  BY <1>1, <1>2 DEF QuietInv, WorkerInv, CancelInv, Begun, Uncancelled, history
<1>4. DisposeInv'
  <2>1. ASSUME returned' # Worker, thread'[Worker].call # "Dispose"
        PROVE  returned # Worker /\ thread[Worker].call # "Dispose"
    BY <1>1, <1>2, <2>1, ThreadsAssumption DEF IInv, ThreadInv, ThreadOK, Threads
  <2> QED
    BY <1>1, <1>2, <2>1 DEF QuietInv, DisposeInv, Begun, Over, executor, history
<1>5. ClientInv'
  BY <1>1, <1>2 DEF QuietInv, ClientInv, Begun, Over, InOperation, executor, history
<1> QED
  BY <1>3, <1>4, <1>5 DEF QuietInv

\* At first there is nothing to cancel.
LEMMA InitQuiet == Init => QuietInv
<1> SUFFICES ASSUME Init PROVE QuietInv
  OBVIOUS
<1>1. /\ \A th \in Threads : thread[th] = Ready
      /\ \A t \in Tasks : task[t].state = "none"
      /\ Worker \in Threads /\ TerminateInternal \in Tasks /\ None # Worker
  BY ThreadsAssumption DEF Init, Threads
<1>2. WorkerInv /\ CancelInv /\ DisposeInv
  BY <1>1 DEF Init, Ready, WorkerInv, CancelInv, DisposeInv
<1>3. ClientInv
  BY <1>1 DEF Init, Ready, ClientInv, Begun, Over
<1> QED
  BY <1>2, <1>3 DEF QuietInv

\* Every step preserves it.
LEMMA NextQuiet == IInv /\ QuietInv /\ [Next]_vars => QuietInv'
<1> SUFFICES ASSUME IInv, QuietInv, [Next]_vars PROVE QuietInv'
  OBVIOUS
<1>1. CASE \E th \in Threads, t \in Tasks : Enqueue(th, t)
  BY <1>1, EnqueueQuiet
<1>2. CASE EnterRestrictedMode \/ EnqueueEvenWhileRestricted
  BY <1>2, EnterRestrictedModeQuiet, EnqueueEvenWhileRestrictedQuiet
<1>3. CASE \E th \in Threads : Dispose(th) \/ ThreadStep(th)
  BY <1>3, DisposeQuiet, InsertQuiet, DispatchQuiet, DisposeExecutorQuiet,
     CancelTaskQuiet, AwaitQuiet, ReleaseTaskQuiet, ReturnQuiet DEF ThreadStep
<1>4. CASE \E t \in Tasks : Cancel(t)
  BY <1>4, CancelQuiet
<1>5. CASE WorkerStep
  BY <1>5, ExecuteQuiet, OperationReturnedQuiet, OnCompletionQuiet, LeaveQuiet
  DEF WorkerStep
<1>6. CASE UNCHANGED vars
  BY <1>6 DEF vars, QuietInv, WorkerInv, CancelInv, DisposeInv, ClientInv, Begun, Over,
              Uncancelled, InOperation
<1> QED
  BY <1>1, <1>2, <1>3, <1>4, <1>5, <1>6 DEF Next

(***************************************************************************)
(* A timer that is cancelled does not execute, and when Dispose has        *)
(* returned nothing can start and nothing runs but what Dispose cannot     *)
(* wait for, for any number of tasks and callers.                          *)
(***************************************************************************)
THEOREM CancelledTasksStayQuiet == Spec => []CancelledStaysQuiet
<1>1. IInv /\ QuietInv => CancelledStaysQuiet
  <2> SUFFICES ASSUME IInv, QuietInv PROVE CancelledStaysQuiet
    OBVIOUS
  <2>1. InOperation => executing \in Tasks /\ task[executing].state = "kRunning"
    BY ThreadsAssumption DEF IInv, TypeOK, ExecInv, InOperation
  <2>2. InOperation => executing \notin revoked
    BY <2>1 DEF QuietInv, CancelInv
  <2>3. ASSUME returned # None
        PROVE  /\ tasks = {} /\ mode = "kDisposed"
               /\ \A th \in Threads : /\ thread[th].pc # "enqueue"
                                      /\ thread[th].call # "Dispose"
                                      /\ thread[th].todo # {} =>
                                           th = Worker /\ thread[th].call = "Cancel"
    BY <2>3 DEF IInv, TypeOK, ModeInv, ThreadInv, ThreadOK
  <2>4. ASSUME returned # None, NEW t \in Tasks, task[t].state = "kInitial"
        PROVE  t \in revoked
    <3>1. task[t].executor
      BY <2>4 DEF QuietInv, WorkerInv
    <3>2. t \in thread[Worker].todo /\ thread[Worker].call = "Cancel"
      BY <2>3, <2>4, <3>1 DEF IInv, FlagInv, Live, Uncancelled
    <3> QED
      BY <2>4, <3>2 DEF QuietInv, WorkerInv, CancelInv, Begun
  <2>5. ASSUME returned = Disposer, InOperation
        PROVE  ~client /\ executing \in recalled
    <3>1. returned # None /\ returned # Worker /\ Worker \in Threads /\ Disposer \in Threads
      BY <2>5, ThreadsAssumption DEF Threads
    <3>2. \A t \in Tasks : task[t].state = "kRunning" => t \in recalled
      BY <2>3, <3>1 DEF QuietInv, DisposeInv
    <3>3. ASSUME client PROVE FALSE
      <4>1. Begun(TerminateInternal) /\ TerminateInternal \notin recalled
        BY <2>3, <3>1, <3>3 DEF QuietInv, ClientInv
      <4>2. Over(TerminateInternal)
        BY <3>2, <4>1, ThreadsAssumption DEF Over
      <4> QED
        BY <2>1, <2>5, <3>2, <3>3, <4>2 DEF QuietInv, ClientInv
    <3> QED
      BY <2>1, <2>5, <3>2, <3>3
  <2> QED
    BY <2>2, <2>4, <2>5 DEF CancelledStaysQuiet
<1>2. Spec => []QuietInv
  BY Inductive, InitQuiet, NextQuiet, PTL DEF Spec
<1> QED
  BY <1>1, <1>2, Inductive, PTL
=============================================================================
