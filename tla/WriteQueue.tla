----------------------------- MODULE WriteQueue -----------------------------
(***************************************************************************)
(* What Firestore promises about setData, without streams, retries or      *)
(* persistence: every user has a queue of writes; only the queue of the    *)
(* current user moves, from its head; a write that leaves its queue calls  *)
(* the completion of the setData that made it, if that process still runs. *)
(* WritePipeline (Firestore's C++ core) and AuthManager (the program's use *)
(* of Firestore) are both shown to implement it.                           *)
(***************************************************************************)
EXTENDS Sequences

CONSTANTS Users,    \* users of Firestore, the one that is not signed in too
          Writes    \* calls of setData

VARIABLES user,     \* the user whose queue is active
          queue,    \* each user's writes without an answer
          waiting   \* the writes whose completion has yet to be called

vars == <<user, queue, waiting>>
-----------------------------------------------------------------------------
Init ==
  /\ user \in Users
  /\ queue = [u \in Users |-> <<>>]
  /\ waiting = {}

\* setData: the write goes to the end of a queue.
Enqueue(u, w) ==
  /\ u = user
  /\ w \notin waiting
  /\ queue' = [queue EXCEPT ![u] = Append(@, w)]
  /\ waiting' = waiting \cup {w}
  /\ UNCHANGED user

\* The oldest write of the current user is acknowledged or rejected.
Answer ==
  /\ queue[user] # <<>>
  /\ queue' = [queue EXCEPT ![user] = Tail(@)]
  /\ waiting' = waiting \ {Head(queue[user])}
  /\ UNCHANGED user

SwitchUser(u) ==
  /\ user' = u
  /\ UNCHANGED <<queue, waiting>>

\* The process ends, is started again, and a user is restored: the queues
\* are on disk, the completions are gone.
Restart(u) ==
  /\ user' = u
  /\ waiting' = {}
  /\ UNCHANGED queue

Next ==
  \/ \E u \in Users, w \in Writes : Enqueue(u, w)
  \/ Answer
  \/ \E u \in Users : SwitchUser(u) \/ Restart(u)

Spec == Init /\ [][Next]_vars
=============================================================================
