------------------------- MODULE ExponentialBackoff -------------------------
(***************************************************************************)
(* When a stream of Firestore tries again: ExponentialBackoff and how      *)
(* Stream, WriteStream and RemoteStore use it (Firestore/core/src/remote). *)
(*                                                                         *)
(* Time passes in milliseconds.  Instead of a clock there are the times    *)
(* that have passed since events; beyond the longest delay they make no    *)
(* difference, so they stop there.  The jitter is any the code can draw.   *)
(***************************************************************************)
EXTENDS Integers

CONSTANTS initial_delay,   \* kBackoffInitialDelay
          max_delay,       \* kBackoffMaxDelay
          MaxErrors        \* bound: more errors in a row are not counted

ASSUME DelaysAssumption ==
  /\ initial_delay \in Nat \ {0} /\ max_delay \in Nat /\ initial_delay =< max_delay
  /\ MaxErrors \in Nat /\ MaxErrors >= 2

VARIABLES
  state,         \* Stream::state_
  current_base,  \* ExponentialBackoff::current_base_
  sinceBackoff,  \* now - last_attempt_time_
  remaining,     \* until the delayed operation runs, in state Backoff
  sinceAttempt,  \* history: since the stream last tried to connect
  errors,        \* history: errors since the backoff was last reset
  exhausted      \* history: RESOURCE_EXHAUSTED was among them

vars == <<state, current_base, sinceBackoff, remaining, sinceAttempt, errors, exhausted>>

history == <<sinceAttempt, errors, exhausted>>
-----------------------------------------------------------------------------
Half(delay) == delay \div 2

LongestDelay == max_delay + Half(max_delay)

\* GetDelayWithJitter: what is added to the base, rounded towards zero.
Jitter(base) == (-Half(base))..(IF base = 0 THEN 0 ELSE Half(base - 1))

ClampDelay(delay) ==
  IF delay < initial_delay THEN initial_delay
  ELSE IF delay > max_delay THEN max_delay ELSE delay

\* kBackoffFactor is 1.5.
Grown(base) == ClampDelay((3 * base) \div 2)

AtLeastZero(n) == IF n < 0 THEN 0 ELSE n

Init ==
  /\ state = "Initial" /\ current_base = 0 /\ remaining = 0
  /\ sinceBackoff = 0 /\ sinceAttempt = LongestDelay
  /\ errors = 0 /\ exhausted = FALSE

Reset == current_base' = 0 /\ errors' = 0 /\ exhausted' = FALSE

\* Mutant: the base grows from initial_delay at once.
BackoffAndRunFromInitial(base) ==
  /\ state' = "Backoff"
  /\ \E jitter \in Jitter(base) : remaining' = AtLeastZero(base + jitter - sinceBackoff)
  /\ current_base' = Grown(ClampDelay(base))

\* BackoffAndTryRestarting and BackoffAndRun, with the base they start from.
BackoffAndRun(base) ==
  /\ state' = "Backoff"
  /\ \E jitter \in Jitter(base) : remaining' = AtLeastZero(base + jitter - sinceBackoff)
  /\ current_base' = Grown(base)

\* Stream::Start with no error before it.
Start ==
  /\ state = "Initial"
  /\ state' = "Started" /\ sinceAttempt' = 0
  /\ UNCHANGED <<current_base, sinceBackoff, remaining, errors, exhausted>>

\* Stream::Start after an error: a write comes when there was none.
StartAfterError ==
  /\ state = "Error"
  /\ BackoffAndRun(current_base)
  /\ UNCHANGED <<sinceBackoff, history>>

\* Mutant: last_attempt_time_ is not updated.
BackoffElapsedUnrecorded ==
  /\ state = "Backoff" /\ remaining = 0
  /\ state' = "Started" /\ sinceAttempt' = 0
  /\ UNCHANGED <<current_base, sinceBackoff, remaining, errors, exhausted>>

\* The delayed operation: the stream tries again.
BackoffElapsed ==
  /\ state = "Backoff" /\ remaining = 0
  /\ state' = "Started" /\ sinceBackoff' = 0 /\ sinceAttempt' = 0
  /\ UNCHANGED <<current_base, remaining, errors, exhausted>>

\* NotifyStreamResponse: the result of a write.
NotifyStreamResponse ==
  /\ state = "Started"
  /\ Reset
  /\ UNCHANGED <<state, sinceBackoff, remaining, sinceAttempt>>

\* HandleErrorStatus.
HandleErrorStatus(status) == IF status = "exhausted" THEN max_delay ELSE current_base

Counted == IF errors < MaxErrors THEN errors + 1 ELSE errors

\* Stream::Close with an error, and what OnWriteStreamClose does then: with
\* writes in the pipeline the stream is started again.
CloseWithError(status) ==
  /\ state = "Started"
  /\ errors' = Counted /\ exhausted' = (exhausted \/ status = "exhausted")
  /\ \/ BackoffAndRun(HandleErrorStatus(status))
     \/ /\ state' = "Error" /\ current_base' = HandleErrorStatus(status)
        /\ UNCHANGED remaining
  /\ UNCHANGED <<sinceBackoff, sinceAttempt>>

\* HandleWriteError for a permanent error: InhibitBackoff, and Start if there
\* are more writes.
CloseWithBadWrite ==
  /\ state = "Started"
  /\ Reset
  /\ \/ state' = "Initial" /\ UNCHANGED sinceAttempt
     \/ state' = "Started" /\ sinceAttempt' = 0
  /\ UNCHANGED <<sinceBackoff, remaining>>

\* Stop (idle, network disabled), or RestartNetwork's Stop and InhibitBackoff,
\* which also ends the error of a stream that is at rest.
Stop ==
  /\ state \in {"Started", "Backoff", "Error"}
  /\ state' = "Initial" /\ remaining' = 0
  /\ Reset
  /\ UNCHANGED <<sinceBackoff, sinceAttempt>>

Older(age) == IF age < LongestDelay THEN age + 1 ELSE age

Tick ==
  /\ sinceBackoff' = Older(sinceBackoff) /\ sinceAttempt' = Older(sinceAttempt)
  /\ remaining' = AtLeastZero(remaining - 1)
  /\ UNCHANGED <<state, current_base, errors, exhausted>>
-----------------------------------------------------------------------------
Next ==
  \/ Start \/ StartAfterError \/ BackoffElapsed
  \/ NotifyStreamResponse \/ CloseWithBadWrite \/ Stop
  \/ \E status \in {"unavailable", "exhausted"} : CloseWithError(status)
  \/ Tick

Spec == Init /\ [][Next]_vars
-----------------------------------------------------------------------------
Delays == 0..LongestDelay

\* The stream, its backoff and the history have their types.
TypeOK ==
  /\ state \in {"Initial", "Started", "Error", "Backoff"}
  /\ current_base \in {0} \cup initial_delay..max_delay
  /\ sinceBackoff \in Delays /\ sinceAttempt \in Delays
  /\ remaining \in Delays
  /\ errors \in 0..MaxErrors /\ exhausted \in BOOLEAN

TriesAgain == state = "Backoff" /\ state' = "Started"

(***************************************************************************)
(* "The actual delay could be as little as 0.5*initial_delay": from the    *)
(* second error in a row on, two attempts are never closer to each other,  *)
(* whatever the jitter, and after RESOURCE_EXHAUSTED half of max_delay.    *)
(* Healthy answers, bad writes, stops, restarts and idle times come in     *)
(* between in any order.                                                   *)
(***************************************************************************)
NoHammering ==
  [][TriesAgain /\ errors >= 2 =>
       sinceAttempt + Half(IF exhausted THEN max_delay ELSE initial_delay) >=
         IF exhausted THEN max_delay ELSE initial_delay]_vars

\* The base delay of the n-th retry: none, initial_delay, and 1.5 times the
\* one before, up to max_delay.
Curve[n \in Nat] ==
  IF n =< 1 THEN 0
  ELSE IF n = 2 THEN initial_delay
  ELSE LET delay == (3 * Curve[n - 1]) \div 2
       IN  IF delay < max_delay THEN delay ELSE max_delay

(***************************************************************************)
(* "Each retry will have a delay ... which follows the exponential backoff *)
(* curve": the wait for the n-th retry in a row is at least half and at    *)
(* most one and a half times the n-th point of the curve.                  *)
(***************************************************************************)
FollowsCurve ==
  /\ errors < MaxErrors /\ ~exhausted => remaining =< Curve[errors] + Half(Curve[errors])
  /\ state = "Backoff" /\ errors < MaxErrors /\ ~exhausted =>
       remaining + sinceAttempt >= Curve[errors] - Half(Curve[errors])
=============================================================================
