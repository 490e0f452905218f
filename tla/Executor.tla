------------------------------ MODULE Executor ------------------------------
(***************************************************************************)
(* The executor below every Firestore task: AsyncQueue, ExecutorLibdispatch*)
(* and the reference-counted Task (Firestore/core/src/util).               *)
(*                                                                         *)
(* Callers enqueue operations from their own threads, the worker (the      *)
(* serial libdispatch queue) runs them, and an operation may schedule a    *)
(* delayed operation or cancel one.  A queue that belongs to a             *)
(* FirestoreClient is disposed of by FirestoreClient::Dispose, any other   *)
(* by any thread or operation.  libdispatch cannot take back a task, so a  *)
(* task outlives its cancellation and even the executor.                   *)
(*                                                                         *)
(* A block under ExecutorLibdispatch::mutex_ is one step: it calls nothing *)
(* that waits.  AsyncQueue::mutex_ and Task::mutex_ are held across steps. *)
(* The order in which libdispatch runs tasks, and delays, are left open.   *)
(***************************************************************************)
EXTENDS Naturals, FiniteSets

CONSTANTS Tasks,     \* operations that are ever enqueued
          Callers,   \* threads that call AsyncQueue::Enqueue
          Disposer,  \* a thread that disposes of the queue
          TerminateInternal,  \* the task of FirestoreClient::Dispose
          Worker,    \* the thread of the libdispatch queue
          None

Threads == Callers \cup {Disposer, Worker}

ASSUME ThreadsAssumption ==
  /\ Worker \notin Callers /\ Disposer \notin Callers /\ Worker # Disposer
  /\ None \notin Threads /\ None \notin Tasks
  /\ TerminateInternal \in Tasks

VARIABLES
  client,      \* the queue belongs to a FirestoreClient
  mode,        \* AsyncQueue::mode_
  queueMutex,  \* AsyncQueue::mutex_: the thread that holds it
  tasks,       \* ExecutorLibdispatch::tasks_, which owns its members
  schedule,    \* ExecutorLibdispatch::schedule_
  disposed,    \* ExecutorLibdispatch::disposed_
  returned,    \* the thread whose Dispose has returned: no executor any more
  dispatched,  \* what libdispatch owns and has yet to run
  task,        \* every Task
  executing,   \* the task that the worker executes
  stage,       \* how far ExecuteAndRelease is
  thread,      \* where every thread is in the calls it makes
  revoked,     \* history: tasks that an operation has cancelled
  recalled,    \* history: tasks that have cancelled themselves
  usedAfterFree

vars == <<client, mode, queueMutex, tasks, schedule, disposed, returned, dispatched,
          task, executing, stage, thread, revoked, recalled, usedAfterFree>>

history == <<client, revoked, recalled>>

executor == <<tasks, schedule, disposed>>
-----------------------------------------------------------------------------
States == {"none", "kInitial", "kRunning", "kDone", "kCancelled", "deleted"}

\* call: the method that takes tasks out of the executor; todo: those tasks,
\* which the thread now owns.
Ready == [pc |-> "ready", call |-> "none", task |-> None, todo |-> {}]

Init ==
  /\ client \in BOOLEAN
  /\ mode = "kRunning" /\ queueMutex = None
  /\ tasks = {} /\ schedule = {} /\ disposed = FALSE /\ returned = None
  /\ dispatched = {}
  /\ task = [t \in Tasks |-> [state |-> "none", ref_count |-> 0,
                              executor |-> FALSE, locked |-> FALSE]]
  /\ executing = None /\ stage = "idle"
  /\ thread = [th \in Threads |-> Ready]
  /\ revoked = {} /\ recalled = {}
  /\ usedAfterFree = FALSE

\* Reading or writing a task that has been deleted.
Touch(t) == usedAfterFree' = (usedAfterFree \/ task[t].state = "deleted")

Release(record) ==
  [record EXCEPT !.ref_count = @ - 1,
                 !.state = IF record.ref_count = 1 THEN "deleted" ELSE @]

\* The worker is inside an operation, where it may call the queue.
InOperation == stage = "operation"

MayCall(th) == thread[th].pc = "ready" /\ (th = Worker => InOperation)
-----------------------------------------------------------------------------
\* Task::Create, for an operation that has not been enqueued before.
Create(th, t) ==
  /\ task[t].state = "none"
  /\ client => (t = TerminateInternal <=> th = Disposer)
  /\ task' = [task EXCEPT ![t] = [state |-> "kInitial", ref_count |-> 1,
                                  executor |-> TRUE, locked |-> FALSE]]
  /\ thread' = [thread EXCEPT ![th].pc = "enqueue", ![th].task = t]
  /\ UNCHANGED <<mode, executor, returned, dispatched, executing, stage, history,
                 usedAfterFree>>

\* Mutant: AsyncQueue::mutex_ is not held while the executor is called.
EnqueueUnguarded(th, t) ==
  /\ th # Disposer /\ MayCall(th)
  /\ mode = "kRunning" /\ queueMutex = None
  /\ Create(th, t)
  /\ UNCHANGED queueMutex

\* AsyncQueue::EnqueueRelaxed (callers) and EnqueueAfterDelay (the worker),
\* which reject an operation unless the mode is kRunning.
Enqueue(th, t) ==
  /\ th # Disposer /\ MayCall(th)
  /\ mode = "kRunning" /\ queueMutex = None
  /\ Create(th, t)
  /\ queueMutex' = th

\* FirestoreClient::Dispose: AsyncQueue::EnterRestrictedMode, then
\* EnqueueEvenWhileRestricted for the task that runs TerminateInternal.
EnterRestrictedMode ==
  /\ client
  /\ mode = "kRunning" /\ queueMutex = None
  /\ mode' = "kRestricted"
  /\ UNCHANGED <<queueMutex, executor, returned, dispatched, task, executing, stage,
                 thread, history, usedAfterFree>>

EnqueueEvenWhileRestricted ==
  /\ mode = "kRestricted" /\ queueMutex = None
  /\ Create(Disposer, TerminateInternal)
  /\ queueMutex' = Disposer

Unlock(th) == queueMutex' = IF queueMutex = th THEN None ELSE queueMutex

\* Execute and Schedule: the task goes into tasks_, and a delayed one into
\* schedule_.  A disposed executor drops it.
Insert(th) ==
  LET t == thread[th].task
  IN  /\ thread[th].pc = "enqueue"
      /\ IF disposed
         THEN /\ task' = [task EXCEPT ![t] = Release(@)]
              /\ thread' = [thread EXCEPT ![th] = Ready]
              /\ Unlock(th)
              /\ UNCHANGED <<tasks, schedule>>
         ELSE /\ tasks' = tasks \cup {t}
              /\ schedule' = IF th = Worker THEN schedule \cup {t} ELSE schedule
              /\ thread' = [thread EXCEPT ![th].pc = "inserted"]
              /\ UNCHANGED <<task, queueMutex>>
      /\ UNCHANGED <<mode, disposed, returned, dispatched, executing, stage,
                     history, usedAfterFree>>

\* Retain for libdispatch, dispatch_async_f or dispatch_after_f, and the return
\* (with a DelayedOperation) that unlocks AsyncQueue::mutex_.
Dispatch(th) ==
  LET t == thread[th].task
  IN  /\ thread[th].pc = "inserted"
      /\ Touch(t)
      /\ task' = [task EXCEPT ![t].ref_count = @ + 1]
      /\ dispatched' = dispatched \cup {t}
      /\ thread' = [thread EXCEPT ![th] = Ready]
      /\ Unlock(th)
      /\ UNCHANGED <<mode, executor, returned, executing, stage, history>>
-----------------------------------------------------------------------------
\* Task::ExecuteAndRelease, up to operation_().
Execute(t) ==
  /\ stage = "idle" /\ t \in dispatched /\ ~task[t].locked
  /\ Touch(t)
  /\ dispatched' = dispatched \ {t}
  /\ executing' = t
  /\ IF task[t].state = "kInitial"
     THEN task' = [task EXCEPT ![t].state = "kRunning"] /\ stage' = "operation"
     ELSE stage' = "leaving" /\ UNCHANGED task
  /\ UNCHANGED <<mode, queueMutex, executor, returned, thread, history>>

\* operation_() has returned: the lock again, kDone, and the test of executor_.
\* TerminateInternal has by then cancelled every timer.
OperationReturned ==
  /\ client /\ executing = TerminateInternal => schedule = {}
  /\ InOperation /\ thread[Worker].pc = "ready" /\ ~task[executing].locked
  /\ task' = [task EXCEPT ![executing].state = "kDone", ![executing].locked = TRUE]
  /\ stage' = IF task[executing].executor THEN "completing" ELSE "leaving"
  /\ UNCHANGED <<mode, queueMutex, executor, returned, dispatched, executing, thread,
                 history, usedAfterFree>>

\* ExecutorLibdispatch::OnCompletion, called with the lock of the task.
OnCompletion ==
  /\ stage = "completing"
  /\ usedAfterFree' = (usedAfterFree \/ returned # None)
  /\ tasks' = tasks \ {executing}
  /\ schedule' = IF executing \in tasks THEN schedule \ {executing} ELSE schedule
  /\ task' = IF executing \in tasks
             THEN [task EXCEPT ![executing] = Release(@)] ELSE task
  /\ stage' = "leaving"
  /\ UNCHANGED <<mode, queueMutex, disposed, returned, dispatched, executing, thread,
                 history>>

\* Mutant: a task that has been cancelled is not released.
LeaveCancelled ==
  /\ stage = "leaving"
  /\ Touch(executing)
  /\ task' = [task EXCEPT ![executing] =
                [(IF @.state = "kCancelled" THEN @ ELSE Release(@)) EXCEPT !.locked = FALSE]]
  /\ executing' = None /\ stage' = "idle"
  /\ UNCHANGED <<mode, queueMutex, executor, returned, dispatched, thread, history>>

\* notify_all, the lock is let go, and libdispatch's reference is released.
Leave ==
  /\ stage = "leaving"
  /\ Touch(executing)
  /\ task' = [task EXCEPT ![executing] = [Release(@) EXCEPT !.locked = FALSE]]
  /\ executing' = None /\ stage' = "idle"
  /\ UNCHANGED <<mode, queueMutex, executor, returned, dispatched, thread,
                 history>>
-----------------------------------------------------------------------------
\* DelayedOperation::Cancel, called by an operation: ExecutorLibdispatch::
\* Cancel takes the task out of the executor, whose reference it now holds.
Cancel(t) ==
  /\ MayCall(Worker)
  /\ t \in schedule
  /\ tasks' = tasks \ {t} /\ schedule' = schedule \ {t}
  /\ thread' = [thread EXCEPT ![Worker] = [pc |-> "cancel", call |-> "Cancel",
                                           task |-> None, todo |-> {t}]]
  /\ IF t = executing THEN recalled' = recalled \cup {t} /\ UNCHANGED revoked
     ELSE revoked' = revoked \cup {t} /\ UNCHANGED recalled
  /\ UNCHANGED <<client, mode, queueMutex, disposed, returned, dispatched, task,
                 executing, stage, usedAfterFree>>

\* FirestoreClient::Dispose waits until TerminateInternal has started.
Disposable(th) ==
  IF ~client THEN th \notin Callers
  ELSE /\ th = Disposer
       /\ task[TerminateInternal].state \notin {"none", "kInitial"}

\* AsyncQueue::Dispose.
Dispose(th) ==
  /\ Disposable(th) /\ MayCall(th)
  /\ mode # "kDisposed" /\ queueMutex = None
  /\ mode' = "kDisposed"
  /\ thread' = [thread EXCEPT ![th].pc = "dispose", ![th].call = "Dispose"]
  /\ UNCHANGED <<queueMutex, executor, returned, dispatched, task, executing, stage,
                 history, usedAfterFree>>

\* ExecutorLibdispatch::Dispose swaps tasks_ with an empty set.
DisposeExecutor(th) ==
  /\ thread[th].pc = "dispose"
  /\ disposed' = TRUE
  /\ tasks' = {} /\ schedule' = {}
  /\ thread' = [thread EXCEPT ![th].pc = "cancel", ![th].todo = tasks]
  /\ UNCHANGED <<mode, queueMutex, returned, dispatched, task, executing, stage,
                 history, usedAfterFree>>

\* Mutant: Cancel waits for a task that runs, even on its own thread.
AwaitAlways(th, t) ==
  IF task[t].state = "kRunning" THEN "await" ELSE "release"

\* Task::Cancel waits for a task that another thread runs.
AfterCancel(th, t) ==
  IF task[t].state = "kRunning" /\ th # Worker THEN "await" ELSE "release"

\* Mutant: a task that has not started is not marked.
CancelledTaskUnmarked(record) ==
  [record EXCEPT !.executor = @ /\ record.state \notin {"kInitial", "kRunning"}]

CancelledTask(record) ==
  [record EXCEPT !.state = IF @ = "kInitial" THEN "kCancelled" ELSE @,
                 !.executor = @ /\ record.state \notin {"kInitial", "kRunning"}]

\* Task::Cancel, for one of the tasks the thread has taken.
CancelTask(th) ==
  /\ thread[th].pc = "cancel"
  /\ \E t \in thread[th].todo :
       /\ ~task[t].locked
       /\ Touch(t)
       /\ task' = [task EXCEPT ![t] = CancelledTask(@)]
       /\ thread' = [thread EXCEPT ![th].pc = AfterCancel(th, t), ![th].task = t]
  /\ UNCHANGED <<mode, queueMutex, executor, returned, dispatched, executing, stage,
                 history>>

\* Task::AwaitLocked.
Await(th) ==
  LET t == thread[th].task
  IN  /\ thread[th].pc = "await"
      /\ task[t].state \in {"kCancelled", "kDone"} /\ ~task[t].locked
      /\ thread' = [thread EXCEPT ![th].pc = "release"]
      /\ UNCHANGED <<mode, queueMutex, executor, returned, dispatched, task, executing,
                     stage, history, usedAfterFree>>

ReleaseTask(th) ==
  LET t == thread[th].task
  IN  /\ thread[th].pc = "release"
      /\ Touch(t)
      /\ task' = [task EXCEPT ![t] = Release(@)]
      /\ thread' = [thread EXCEPT ![th].pc = "cancel", ![th].task = None,
                                  ![th].todo = @ \ {t}]
      /\ UNCHANGED <<mode, queueMutex, executor, returned, dispatched, executing, stage,
                     history>>

\* The last task is dealt with: Cancel or Dispose returns.
Return(th) ==
  /\ thread[th].pc = "cancel" /\ thread[th].todo = {}
  /\ thread' = [thread EXCEPT ![th] = Ready]
  /\ returned' = IF thread[th].call = "Dispose" THEN th ELSE returned
  /\ UNCHANGED <<mode, queueMutex, executor, dispatched, task, executing, stage,
                 history, usedAfterFree>>
-----------------------------------------------------------------------------
ThreadStep(th) ==
  \/ Insert(th) \/ Dispatch(th)
  \/ DisposeExecutor(th) \/ CancelTask(th) \/ Await(th) \/ ReleaseTask(th) \/ Return(th)

WorkerStep ==
  \/ \E t \in Tasks : Execute(t)
  \/ OperationReturned \/ OnCompletion \/ Leave

Next ==
  \/ \E th \in Threads, t \in Tasks : Enqueue(th, t)
  \/ EnterRestrictedMode \/ EnqueueEvenWhileRestricted
  \/ \E th \in Threads : Dispose(th) \/ ThreadStep(th)
  \/ \E t \in Tasks : Cancel(t)
  \/ WorkerStep

Spec == Init /\ [][Next]_vars

\* No thread stops in the middle of a call, libdispatch runs what it has been
\* given, and every operation returns.
FairSpec ==
  /\ Spec
  /\ \A th \in Threads : WF_vars(ThreadStep(th))
  /\ WF_vars(WorkerStep)
  /\ WF_vars(EnqueueEvenWhileRestricted)
  /\ WF_vars(mode = "kRestricted" /\ Dispose(Disposer))
-----------------------------------------------------------------------------
\* The queue, the executor, its tasks and the threads have their types.
TypeOK ==
  /\ client \in BOOLEAN
  /\ mode \in {"kRunning", "kRestricted", "kDisposed"} /\ queueMutex \in Threads \cup {None}
  /\ tasks \subseteq Tasks /\ schedule \subseteq tasks
  /\ disposed \in BOOLEAN /\ returned \in Threads \cup {None}
  /\ dispatched \subseteq Tasks
  /\ task \in [Tasks -> [state : States, ref_count : Nat, executor : BOOLEAN,
                         locked : BOOLEAN]]
  /\ executing \in Tasks \cup {None}
  /\ stage \in {"idle", "operation", "completing", "leaving"}
  /\ thread \in [Threads -> [pc : {"ready", "enqueue", "inserted", "dispose", "cancel",
                                   "await", "release"},
                             call : {"none", "Cancel", "Dispose"},
                             task : Tasks \cup {None}, todo : SUBSET Tasks]]
  /\ revoked \subseteq Tasks /\ recalled \subseteq Tasks
  /\ usedAfterFree \in BOOLEAN

(***************************************************************************)
(* No thread uses a task that has been deleted, and no task calls an       *)
(* executor whose Dispose has returned ("by the time Cancel has returned,  *)
(* the task will make no callbacks to the owning executor"), although      *)
(* Enqueue, Cancel, Dispose and ExecuteAndRelease run side by side.        *)
(***************************************************************************)
NoUseAfterFree == ~usedAfterFree

Holds(condition) == IF condition THEN 1 ELSE 0

\* A thread has a reference of its own to a task.
Owned(t) ==
  \E th \in Threads : \/ t \in thread[th].todo
                      \/ thread[th].pc = "enqueue" /\ thread[th].task = t

(***************************************************************************)
(* The reference count of a task is the number of its owners: the executor *)
(* (tasks_), libdispatch (until ExecuteAndRelease ends), and the thread    *)
(* that makes, cancels or disposes of it; with no owner it is deleted.     *)
(***************************************************************************)
RefCountIsOwners ==
  \A t \in Tasks :
    /\ task[t].ref_count = Holds(t \in tasks) + Holds(t \in dispatched \/ t = executing)
                            + Holds(Owned(t))
    /\ task[t].ref_count = 0 <=> task[t].state \in {"none", "deleted"}

(***************************************************************************)
(* Stream::Close relies on timers that are "guaranteed not to execute"     *)
(* once they are cancelled.  When Dispose has returned no task can start,  *)
(* and none runs but the one that called it, or a timer that had cancelled *)
(* itself, as the idle timer does; executor.h promises more ("waiting for  *)
(* any tasks that are currently running"), and a FirestoreClient, which    *)
(* first waits until TerminateInternal runs, gets it.                      *)
(***************************************************************************)
CancelledStaysQuiet ==
  /\ InOperation => executing \notin revoked
  /\ returned # None => \A t \in Tasks : task[t].state = "kInitial" => t \in revoked
  /\ returned = Disposer /\ InOperation => ~client /\ executing \in recalled

\* Dispose returns, even if an operation of the queue itself calls it.
DisposeReturns == mode # "kRunning" ~> returned # None

\* Once the queue is disposed of, every task is deleted at some time, with
\* what its operation holds on to.
NothingLeaks ==
  returned # None ~> \A t \in Tasks : task[t].state \in {"none", "deleted"}
=============================================================================
