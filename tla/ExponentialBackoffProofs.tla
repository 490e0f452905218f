---------------------- MODULE ExponentialBackoffProofs ----------------------
(***************************************************************************)
(* NoHammering and FollowsCurve for every initial_delay and max_delay.     *)
(*                                                                         *)
(* The code measures from last_attempt_time_, which only an attempt that   *)
(* has backed off sets; the property is about all attempts.  The invariant *)
(* says when the two times agree: after the second error in a row.         *)
(***************************************************************************)
EXTENDS ExponentialBackoff, WellFoundedInduction, TLAPS

\* The least delay between attempts, before half of it goes to the jitter.
Owed == IF exhausted THEN max_delay ELSE initial_delay

\* A stream without errors waits for nothing; the errors are counted.
RestInv ==
  /\ state # "Backoff" => remaining = 0
  /\ state = "Initial" => errors = 0
  /\ state \in {"Error", "Backoff"} => errors >= 1
  /\ state = "Backoff" => current_base >= initial_delay
  /\ exhausted => errors >= 1 /\ current_base = max_delay

\* Where the next delay is measured from, and how long it is at least.
AttemptInv ==
  /\ state = "Started" /\ errors >= 1 =>
       current_base >= initial_delay /\ sinceAttempt = sinceBackoff
  /\ state \in {"Error", "Backoff"} /\ errors >= 2 =>
       current_base >= initial_delay /\ sinceAttempt = sinceBackoff
  /\ state = "Backoff" /\ errors >= 2 => sinceAttempt + remaining + Half(Owed) >= Owed

IInv == TypeOK /\ RestInv /\ AttemptInv
-----------------------------------------------------------------------------
\* Half of a delay, as ExponentialBackoff rounds it.
LEMMA HalfFacts ==
  ASSUME NEW n \in Nat
  PROVE  /\ Half(n) \in Nat /\ 2 * Half(n) =< n /\ n =< 2 * Half(n) + 1
BY DEF Half

\* ClampDelay returns a delay between the two limits, and what the factor 1.5
\* makes of a delay at the upper limit stays there.
LEMMA GrownFacts ==
  ASSUME NEW base \in {0} \cup initial_delay..max_delay
  PROVE  /\ Grown(base) \in initial_delay..max_delay
         /\ base = max_delay => Grown(base) = max_delay
BY DelaysAssumption DEF Grown, ClampDelay

\* Jitter takes at most half of the base away and adds at most half of it.
LEMMA JitterFacts ==
  ASSUME NEW base \in Nat, NEW jitter \in Jitter(base)
  PROVE  jitter \in Int /\ base + jitter + Half(base) >= base /\ jitter =< Half(base)
BY DEF Jitter, Half

\* A larger base leaves at least as much after the jitter.
LEMMA HalfMonotone ==
  ASSUME NEW m \in Nat, NEW n \in Nat, m =< n
  PROVE  m - Half(m) =< n - Half(n) /\ m + Half(m) =< n + Half(n)
BY DEF Half

\* No delay is longer than LongestDelay, and after that time every delay that
\* is owed has passed.
LEMMA LongestFacts ==
  LongestDelay \in Nat /\ max_delay =< LongestDelay /\ initial_delay =< LongestDelay
<1>1. max_delay \in Nat /\ initial_delay \in Nat /\ initial_delay =< max_delay
  BY DelaysAssumption
<1>2. Half(max_delay) \in Nat
  BY <1>1, HalfFacts
<1> QED
  BY <1>1, <1>2 DEF LongestDelay

\* BackoffAndRun, in whichever action: what it schedules is a delay, and with
\* the time that has passed already it makes up for what is owed.
LEMMA BackoffAndRunFacts ==
  ASSUME TypeOK, NEW base \in {0} \cup initial_delay..max_delay, BackoffAndRun(base)
  PROVE  /\ state' = "Backoff"
         /\ current_base' \in initial_delay..max_delay
         /\ base = max_delay => current_base' = max_delay
         /\ remaining' \in Delays
         /\ \A d \in Nat : d =< base => sinceBackoff + remaining' + Half(d) >= d
<1>1. PICK jitter \in Jitter(base) :
        remaining' = AtLeastZero(base + jitter - sinceBackoff)
  BY DEF BackoffAndRun
<1>2. base \in Nat /\ base =< max_delay /\ max_delay \in Nat
  BY DelaysAssumption
<1>3. jitter \in Int /\ base + jitter + Half(base) >= base /\ jitter =< Half(base)
  BY <1>1, <1>2, JitterFacts
<1>4. sinceBackoff \in Nat
  BY LongestFacts DEF TypeOK, Delays
<1>5. Half(base) \in Nat /\ base + Half(base) =< LongestDelay
  BY <1>2, HalfMonotone, HalfFacts DEF LongestDelay
<1>6. remaining' \in Delays
  BY <1>1, <1>2, <1>3, <1>4, <1>5, LongestFacts DEF AtLeastZero, Delays
<1>7. ASSUME NEW d \in Nat, d =< base
      PROVE  sinceBackoff + remaining' + Half(d) >= d
  <2>1. d - Half(d) =< base - Half(base)
    BY <1>2, <1>7, HalfMonotone
  <2>2. Half(d) \in Nat
    BY HalfFacts
  <2>3. sinceBackoff + remaining' >= base + jitter
    BY <1>1, <1>2, <1>3, <1>4 DEF AtLeastZero
  <2> QED
    <3>1. remaining' \in Nat
      BY <1>6, LongestFacts DEF Delays
    <3>2. base + jitter >= base - Half(base)
      BY <1>2, <1>3, <1>5
    <3>3. base + jitter >= d - Half(d)
      BY <1>2, <1>3, <1>5, <1>7, <2>1, <2>2, <3>2
    <3>4. ASSUME NEW s \in Nat, NEW r \in Nat, NEW x \in Int, NEW h \in Nat,
                 s + r >= x, x >= d - h
          PROVE  s + r + h >= d
      BY <3>4
    <3>5. base + jitter \in Int
      BY <1>2, <1>3
    <3> QED
      BY <3>1, <3>3, <3>4, <3>5, <1>4, <2>2, <2>3
<1> QED
  BY <1>6, <1>7, GrownFacts DEF BackoffAndRun
-----------------------------------------------------------------------------
\* The invariant holds at the start.
LEMMA InitInv == Init => IInv
<1> SUFFICES ASSUME Init PROVE IInv
  OBVIOUS
<1>1. TypeOK
  <2>1. exhausted \in BOOLEAN
    BY DEF Init
  <2>2. 0 \in Delays /\ LongestDelay \in Delays /\ 0 \in 0..MaxErrors
    BY DelaysAssumption, LongestFacts DEF Delays
  <2> QED
    BY <2>1, <2>2 DEF Init, TypeOK
<1>2. RestInv
  BY DEF Init, RestInv
<1>3. AttemptInv
  BY DEF Init, AttemptInv
<1> QED
  BY <1>1, <1>2, <1>3 DEF IInv

\* A first attempt.
LEMMA StartInv == IInv /\ Start => IInv'
BY DelaysAssumption, LongestFacts
DEF Start, IInv, TypeOK, RestInv, AttemptInv, Delays, Owed

\* Stop, a bad write and a healthy answer reset the backoff.
LEMMA ResetInv == IInv /\ (Stop \/ CloseWithBadWrite \/ NotifyStreamResponse) => IInv'
<1> SUFFICES ASSUME IInv, Stop \/ CloseWithBadWrite \/ NotifyStreamResponse PROVE IInv'
  OBVIOUS
<1>1. /\ current_base' = 0 /\ errors' = 0 /\ exhausted' = FALSE
      /\ state' \in {"Initial", "Started"} /\ UNCHANGED sinceBackoff
      /\ remaining' = 0 /\ sinceAttempt' \in {0, sinceAttempt}
  BY DEF Stop, CloseWithBadWrite, NotifyStreamResponse, Reset, IInv, RestInv
<1>2. TypeOK'
  <2>1. exhausted' \in BOOLEAN
    BY <1>1
  <2>2. 0 \in Delays /\ 0 \in 0..MaxErrors
    BY DelaysAssumption, LongestFacts DEF Delays
  <2> QED
    BY <1>1, <2>1, <2>2 DEF IInv, TypeOK
<1>3. RestInv'
  BY <1>1 DEF RestInv
<1>4. AttemptInv'
  BY <1>1 DEF AttemptInv
<1> QED
  BY <1>2, <1>3, <1>4 DEF IInv

\* An attempt that has backed off is the one the code remembers.
LEMMA ElapsedInv == IInv /\ BackoffElapsed => IInv'
<1> SUFFICES ASSUME IInv, BackoffElapsed PROVE IInv'
  OBVIOUS
<1>1. current_base >= initial_delay
  BY DEF BackoffElapsed, IInv, RestInv
<1> QED
  BY <1>1, DelaysAssumption, LongestFacts
  DEF BackoffElapsed, IInv, TypeOK, RestInv, AttemptInv, Delays, Owed

\* A write comes after an error.
LEMMA StartAfterErrorInv == IInv /\ StartAfterError => IInv'
<1> SUFFICES ASSUME IInv, StartAfterError PROVE IInv'
  OBVIOUS
<1>1. /\ state' = "Backoff"
      /\ current_base' \in initial_delay..max_delay
      /\ current_base = max_delay => current_base' = max_delay
      /\ remaining' \in Delays
      /\ \A d \in Nat : d =< current_base => sinceBackoff + remaining' + Half(d) >= d
  BY BackoffAndRunFacts DEF StartAfterError, IInv, TypeOK
<1>2. UNCHANGED <<sinceBackoff, sinceAttempt, errors, exhausted>> /\ state = "Error"
  BY DEF StartAfterError, history
<1>3. TypeOK'
  BY <1>1, <1>2 DEF IInv, TypeOK
<1>4. RestInv'
  BY <1>1, <1>2, DelaysAssumption DEF IInv, RestInv
<1>5. ASSUME errors' >= 2
      PROVE  /\ current_base' >= initial_delay /\ sinceAttempt' = sinceBackoff'
             /\ sinceAttempt' + remaining' + Half(Owed') >= Owed'
  <2>1. sinceAttempt = sinceBackoff /\ current_base >= initial_delay
    BY <1>2, <1>5 DEF IInv, AttemptInv
  <2>2. Owed' \in Nat /\ Owed' =< current_base
    BY <1>2, <2>1, DelaysAssumption DEF IInv, RestInv, Owed
  <2> QED
    BY <1>1, <1>2, <2>1, <2>2, DelaysAssumption
<1>6. AttemptInv'
  BY <1>1, <1>5 DEF AttemptInv
<1> QED
  BY <1>3, <1>4, <1>6 DEF IInv

\* An error, with which the stream rests or backs off.
LEMMA CloseInv ==
  ASSUME IInv, NEW status \in {"unavailable", "exhausted"}, CloseWithError(status)
  PROVE  IInv'
<1> DEFINE base == HandleErrorStatus(status)
<1>1. /\ errors' = Counted /\ exhausted' = (exhausted \/ status = "exhausted")
      /\ UNCHANGED <<sinceBackoff, sinceAttempt>> /\ state = "Started"
  BY DEF CloseWithError
<1>2. base \in {0} \cup initial_delay..max_delay
  BY DelaysAssumption DEF HandleErrorStatus, IInv, TypeOK
<1>3. exhausted' => base = max_delay
  BY <1>1 DEF HandleErrorStatus, IInv, RestInv
<1>4. errors' \in 0..MaxErrors /\ errors' >= 1 /\ exhausted' \in BOOLEAN
  BY <1>1, DelaysAssumption DEF Counted, IInv, TypeOK
<1>5. ASSUME errors' >= 2
      PROVE  sinceAttempt = sinceBackoff /\ base >= initial_delay
  <2>1. errors >= 1
    BY <1>1, <1>5 DEF Counted, IInv, TypeOK
  <2>2. sinceAttempt = sinceBackoff /\ current_base >= initial_delay
    BY <1>1, <2>1 DEF IInv, AttemptInv
  <2> QED
    BY <2>2, DelaysAssumption DEF HandleErrorStatus
<1>6. CASE BackoffAndRun(base)
  <2>1. /\ state' = "Backoff"
        /\ current_base' \in initial_delay..max_delay
        /\ base = max_delay => current_base' = max_delay
        /\ remaining' \in Delays
        /\ \A d \in Nat : d =< base => sinceBackoff + remaining' + Half(d) >= d
    BY <1>2, <1>6, BackoffAndRunFacts DEF IInv
  <2>2. TypeOK'
    BY <1>1, <1>4, <2>1 DEF IInv, TypeOK
  <2>3. RestInv'
    BY <1>3, <1>4, <2>1, DelaysAssumption DEF RestInv
  <2>4. ASSUME errors' >= 2
        PROVE  /\ current_base' >= initial_delay /\ sinceAttempt' = sinceBackoff'
               /\ sinceAttempt' + remaining' + Half(Owed') >= Owed'
    <3>1. sinceAttempt = sinceBackoff /\ base >= initial_delay
      BY <1>5, <2>4
    <3>2. Owed' \in Nat /\ Owed' =< base
      BY <1>2, <1>3, <3>1, DelaysAssumption DEF Owed
    <3> HIDE DEF base
    <3> QED
      BY <1>1, <2>1, <3>1, <3>2, DelaysAssumption
  <2>5. AttemptInv'
    BY <2>1, <2>4 DEF AttemptInv
  <2> QED
    BY <2>2, <2>3, <2>5 DEF IInv
<1>7. CASE state' = "Error" /\ current_base' = base /\ UNCHANGED remaining
  <2>1. TypeOK'
    BY <1>1, <1>2, <1>4, <1>7 DEF IInv, TypeOK
  <2>2. remaining' = 0
    BY <1>1, <1>7 DEF IInv, RestInv
  <2>3. RestInv'
    BY <1>3, <1>4, <1>7, <2>2 DEF RestInv
  <2>4. AttemptInv'
    BY <1>1, <1>5, <1>7 DEF AttemptInv
  <2> QED
    BY <2>1, <2>3, <2>4 DEF IInv
<1> QED
  BY <1>6, <1>7 DEF CloseWithError

\* Time that passes goes from what remains to what has passed.
LEMMA TickInv == IInv /\ Tick => IInv'
<1> SUFFICES ASSUME IInv, Tick PROVE IInv'
  OBVIOUS
<1>1. UNCHANGED <<state, current_base, errors, exhausted>>
  BY DEF Tick
<1>2. sinceBackoff \in Nat /\ sinceAttempt \in Nat /\ remaining \in Nat
  BY LongestFacts DEF IInv, TypeOK, Delays
<1>3. TypeOK'
  BY <1>1, <1>2, LongestFacts DEF Tick, Older, AtLeastZero, IInv, TypeOK, Delays
<1>4. RestInv'
  BY <1>1 DEF Tick, AtLeastZero, IInv, RestInv
<1>5. sinceAttempt = sinceBackoff => sinceAttempt' = sinceBackoff'
  BY DEF Tick
<1>6. Owed \in Nat /\ Owed =< LongestDelay /\ Half(Owed) \in Nat /\ Owed' = Owed
  <2>1. Owed \in Nat /\ Owed =< LongestDelay
    BY DelaysAssumption, LongestFacts DEF Owed
  <2> QED
    BY <1>1, <2>1, HalfFacts DEF Owed
<1>7. ASSUME sinceAttempt + remaining + Half(Owed) >= Owed
      PROVE  sinceAttempt' + remaining' + Half(Owed) >= Owed
  <2>1. CASE sinceAttempt < LongestDelay
    BY <1>2, <1>6, <1>7, <2>1, LongestFacts DEF Tick, Older, AtLeastZero
  <2>2. CASE ~(sinceAttempt < LongestDelay)
    BY <1>2, <1>6, <2>2, LongestFacts DEF Tick, Older, AtLeastZero
  <2> QED
    BY <2>1, <2>2
<1>8. AttemptInv'
  BY <1>1, <1>5, <1>6, <1>7 DEF IInv, AttemptInv
<1> QED
  BY <1>3, <1>4, <1>8 DEF IInv

\* Every step of the stream, its backoff and the clock keeps the invariant.
LEMMA StepInv == IInv /\ [Next]_vars => IInv'
<1> SUFFICES ASSUME IInv, [Next]_vars PROVE IInv'
  OBVIOUS
<1>1. ASSUME NEW status \in {"unavailable", "exhausted"}, CloseWithError(status)
      PROVE  IInv'
  BY <1>1, CloseInv
<1>2. CASE UNCHANGED vars
  BY <1>2 DEF vars, IInv, TypeOK, RestInv, AttemptInv, Owed
<1> QED
  BY <1>1, <1>2, StartInv, ResetInv, ElapsedInv, StartAfterErrorInv, TickInv DEF Next

(***************************************************************************)
(* Types, for all delays: among them, current_base_ is zero or lies        *)
(* between kBackoffInitialDelay and kBackoffMaxDelay.                      *)
(***************************************************************************)
THEOREM TypeCorrect == Spec => []TypeOK
<1>1. IInv => TypeOK
  BY DEF IInv
<1> QED
  BY <1>1, InitInv, StepInv, PTL DEF Spec

\* Only BackoffElapsed goes from Backoff to an attempt.
LEMMA OnlyElapsed == Next /\ TriesAgain => BackoffElapsed
BY DEF Next, TriesAgain, Start, StartAfterError, BackoffElapsed, NotifyStreamResponse,
       CloseWithBadWrite, Stop, CloseWithError, Tick

(***************************************************************************)
(* Whatever the delays, the jitter and the order of errors, answers, stops *)
(* and restarts: from the second error in a row on, attempts are at least  *)
(* half of initial_delay apart, or of max_delay after RESOURCE_EXHAUSTED.  *)
(***************************************************************************)
THEOREM AttemptsAreSpaced == Spec => NoHammering
<1> DEFINE owed == IF exhausted THEN max_delay ELSE initial_delay
           Spaced == TriesAgain /\ errors >= 2 => sinceAttempt + Half(owed) >= owed
<1>1. IInv /\ [Next]_vars => [Spaced]_vars
  <2> SUFFICES ASSUME IInv, Next, TriesAgain, errors >= 2
               PROVE  sinceAttempt + Half(owed) >= owed
    OBVIOUS
  <2>1. state = "Backoff" /\ remaining = 0
    BY OnlyElapsed DEF BackoffElapsed
  <2>2. sinceAttempt + remaining + Half(Owed) >= Owed
    BY <2>1 DEF IInv, AttemptInv
  <2>3. sinceAttempt \in Nat
    BY LongestFacts DEF IInv, TypeOK, Delays
  <2>4. sinceAttempt + Half(Owed) >= Owed
    BY <2>1, <2>2, <2>3
  <2> QED
    BY <2>4 DEF Owed
<1>2. NoHammering <=> [][Spaced]_vars
  BY DEF NoHammering
<1> QED
  BY <1>1, <1>2, InitInv, StepInv, PTL DEF Spec
-----------------------------------------------------------------------------
(***************************************************************************)
(* The curve.  Curve is defined by recursion: that there is a function     *)
(* that satisfies its equation is proved first, from the well-ordering of  *)
(* the natural numbers.                                                    *)
(***************************************************************************)

\* The equation, for the n-th point of the curve f.
Point(f, n) ==
  IF n =< 1 THEN 0
  ELSE IF n = 2 THEN initial_delay
  ELSE LET delay == (3 * f[n - 1]) \div 2
       IN  IF delay < max_delay THEN delay ELSE max_delay

\* f satisfies it up to m.
CurveTo(f, m) == f \in [0..m -> Nat] /\ \A n \in 0..m : f[n] = Point(f, n)

\* Every set of natural numbers but the empty one has a least member.
LEMMA LeastNatural ==
  ASSUME NEW S, S \subseteq Nat, S # {}
  PROVE  \E n \in S : \A m \in S : n =< m
<1> DEFINE Less == OpToRel(<, Nat)
<1>1. IsWellFoundedOn(Less, Nat)
  BY NatLessThanWellFounded
<1> HIDE DEF Less
<1>2. PICK n \in S : \A m \in S : <<m, n>> \notin Less
  BY <1>1, WFMin
<1>3. ASSUME NEW m \in S
      PROVE  n =< m
  <2>1. m \in Nat /\ n \in Nat /\ <<m, n>> \notin Less
    BY <1>2
  <2>2. ~(m < n)
    BY <2>1 DEF Less, OpToRel
  <2> QED
    BY <2>1, <2>2
<1> QED
  BY <1>3

\* Points are delays.
LEMMA PointIsDelay ==
  ASSUME NEW f, NEW n \in Nat, n >= 3 => f[n - 1] \in Nat
  PROVE  Point(f, n) \in Nat
<1>1. initial_delay \in Nat /\ max_delay \in Nat
  BY DelaysAssumption
<1>2. CASE n >= 3
  <2>1. (3 * f[n - 1]) \div 2 \in Nat
    BY <1>2
  <2> QED
    BY <1>1, <1>2, <2>1 DEF Point
<1>3. CASE ~(n >= 3)
  BY <1>1, <1>3 DEF Point
<1> QED
  BY <1>2, <1>3

\* Beginnings of the curve agree.
LEMMA CurvesAgree ==
  ASSUME NEW f, NEW g, NEW m \in Nat, NEW k \in Nat, CurveTo(f, m), CurveTo(g, k)
  PROVE  \A n \in Nat : n =< m /\ n =< k => f[n] = g[n]
<1> DEFINE S == {n \in Nat : n =< m /\ n =< k /\ f[n] # g[n]}
<1> SUFFICES ASSUME S # {} PROVE FALSE
  OBVIOUS
<1>1. PICK n \in S : \A i \in S : n =< i
  BY LeastNatural
<1>2. n \in Nat /\ n =< m /\ n =< k /\ f[n] # g[n]
  BY <1>1
<1>3. f[n] = Point(f, n) /\ g[n] = Point(g, n)
  BY <1>2 DEF CurveTo
<1>4. CASE n >= 3
  <2>1. n - 1 \in Nat /\ n - 1 =< m /\ n - 1 =< k /\ ~(n =< n - 1)
    BY <1>2, <1>4
  <2>2. f[n - 1] = g[n - 1]
    BY <1>1, <2>1
  <2> QED
    BY <1>2, <1>3, <2>2 DEF Point
<1>5. CASE ~(n >= 3)
  BY <1>2, <1>3, <1>5 DEF Point
<1> QED
  BY <1>4, <1>5

\* There are beginnings of every length.
LEMMA CurvesExist == \A m \in Nat : \E f : CurveTo(f, m)
<1> DEFINE S == {m \in Nat : ~ \E f : CurveTo(f, m)}
<1> SUFFICES ASSUME S # {} PROVE FALSE
  OBVIOUS
<1>1. PICK m \in S : \A i \in S : m =< i
  BY LeastNatural
<1>2. m \in Nat /\ ~ \E f : CurveTo(f, m)
  BY <1>1
<1>3. CASE m = 0
  <2> DEFINE f == [n \in 0..0 |-> 0]
  <2>1. f \in [0..0 -> Nat] /\ \A n \in 0..0 : f[n] = Point(f, n)
    BY DEF Point
  <2>2. CurveTo(f, m)
    BY <1>3, <2>1 DEF CurveTo
  <2> QED
    BY <1>2, <2>2
<1>4. CASE m > 0
  <2>1. m - 1 \in Nat /\ m - 1 \notin S
    BY <1>1, <1>2, <1>4
  <2>2. PICK g : CurveTo(g, m - 1)
    BY <2>1
  <2> DEFINE f == [n \in 0..m |-> IF n = m THEN Point(g, m) ELSE g[n]]
  <2>3. g \in [0..(m - 1) -> Nat] /\ \A n \in 0..(m - 1) : g[n] = Point(g, n)
    BY <2>2 DEF CurveTo
  <2>4. Point(g, m) \in Nat
    <3>1. m >= 3 => g[m - 1] \in Nat
      BY <1>2, <2>3
    <3> QED
      BY <1>2, <3>1, PointIsDelay
  <2>5. f \in [0..m -> Nat]
    BY <1>2, <2>3, <2>4
  <2>6. ASSUME NEW n \in 0..m
        PROVE  f[n] = Point(f, n)
    <3>1. n >= 3 => f[n - 1] = g[n - 1]
      BY <1>2, <2>6
    <3>2. Point(f, n) = Point(g, n)
      BY <2>6, <3>1 DEF Point
    <3> QED
      BY <1>2, <2>3, <2>6, <3>2
  <2>7. CurveTo(f, m)
    BY <2>5, <2>6 DEF CurveTo
  <2> QED
    BY <1>2, <2>7
<1> QED
  BY <1>2, <1>3, <1>4

\* Curve satisfies the equation everywhere.
LEMMA CurveUnfolds == \A n \in Nat : Curve[n] = Point(Curve, n)
<1> DEFINE part(n) == CHOOSE f : CurveTo(f, n)
           whole == [n \in Nat |-> part(n)[n]]
<1>1. \A n \in Nat : CurveTo(part(n), n)
  BY CurvesExist
<1> HIDE DEF part
<1>2. \A n \in Nat : whole[n] \in Nat /\ whole[n] = Point(part(n), n)
  BY <1>1 DEF CurveTo
<1>3. ASSUME NEW n \in Nat
      PROVE  Point(part(n), n) = Point(whole, n)
  <2>1. CASE n >= 3
    <3>1. n - 1 \in Nat /\ n - 1 =< n
      BY <2>1
    <3>2. part(n)[n - 1] = part(n - 1)[n - 1]
      BY <1>1, <3>1, CurvesAgree
    <3>3. whole[n - 1] = part(n)[n - 1]
      BY <3>1, <3>2
    <3> HIDE DEF whole
    <3> QED
      BY <2>1, <3>3 DEF Point
  <2>2. CASE ~(n >= 3)
    BY <2>2 DEF Point
  <2> QED
    BY <2>1, <2>2
<1>4. whole = [n \in Nat |-> Point(whole, n)]
  BY <1>2, <1>3
<1> HIDE DEF whole
<1>5. \E f : f = [n \in Nat |-> Point(f, n)]
  BY <1>4
<1>6. Curve = [n \in Nat |-> Point(Curve, n)]
  BY <1>5 DEF Curve, Point
<1> QED
  BY <1>6

\* The points of the curve are the bases that the code can have: zero for the
\* first retry, then initial_delay, and each Grown from the one before.
LEMMA CurveFacts ==
  /\ \A n \in Nat : Curve[n] \in {0} \cup initial_delay..max_delay
  /\ Curve[0] = 0 /\ Curve[1] = 0
  /\ \A n \in Nat : n >= 1 => Curve[n + 1] = Grown(Curve[n])
<1> DEFINE Bases == {0} \cup initial_delay..max_delay
           S == {n \in Nat : Curve[n] \notin Bases}
<1>1. initial_delay \in Nat /\ max_delay \in Nat /\ 0 < initial_delay
      /\ initial_delay =< max_delay
  BY DelaysAssumption
<1>2. ASSUME NEW n \in Nat, n >= 3, Curve[n - 1] \in initial_delay..max_delay
      PROVE  /\ Curve[n] \in initial_delay..max_delay
             /\ Curve[n] = Grown(Curve[n - 1])
  <2>1. PICK base \in initial_delay..max_delay : base = Curve[n - 1]
    BY <1>2
  <2>2. Curve[n] = IF (3 * base) \div 2 < max_delay THEN (3 * base) \div 2 ELSE max_delay
    BY <1>2, <2>1, CurveUnfolds DEF Point
  <2>3. (3 * base) \div 2 \in Nat /\ (3 * base) \div 2 >= base
    BY <1>1, <2>1
  <2> QED
    BY <1>1, <2>1, <2>2, <2>3 DEF Grown, ClampDelay
<1>3. /\ \A n \in Nat : n =< 1 => Curve[n] = 0
      /\ Curve[2] = initial_delay
  BY CurveUnfolds DEF Point
<1>4. \A n \in Nat : n >= 2 => Curve[n] \in initial_delay..max_delay
  <2> DEFINE T == {n \in Nat : n >= 2 /\ Curve[n] \notin initial_delay..max_delay}
  <2> SUFFICES ASSUME T # {} PROVE FALSE
    OBVIOUS
  <2>1. PICK n \in T : \A m \in T : n =< m
    BY LeastNatural
  <2>2. n \in Nat /\ n >= 3 /\ Curve[n] \notin initial_delay..max_delay
    BY <1>1, <1>3, <2>1
  <2>3. Curve[n - 1] \in initial_delay..max_delay
    BY <2>1, <2>2
  <2> QED
    BY <1>2, <2>2, <2>3
<1>5. \A n \in Nat : Curve[n] \in Bases
  BY <1>3, <1>4
<1>6. ASSUME NEW n \in Nat, n >= 1
      PROVE  Curve[n + 1] = Grown(Curve[n])
  <2>1. CASE n = 1
    BY <1>1, <1>3, <2>1 DEF Grown, ClampDelay
  <2>2. CASE n >= 2
    <3>1. n + 1 \in Nat /\ n + 1 >= 3 /\ (n + 1) - 1 = n
      BY <2>2
    <3> QED
      BY <1>2, <1>4, <2>2, <3>1
  <2> QED
    BY <1>6, <2>1, <2>2
<1> QED
  BY <1>3, <1>5, <1>6
-----------------------------------------------------------------------------
(***************************************************************************)
(* The delays keep to the curve.  current_base_ is one point ahead of the  *)
(* errors, but for a stream that rests after an error: its backoff is yet  *)
(* to come.                                                                *)
(***************************************************************************)

\* The errors in a row are all counted, and none has inhibited the curve.
OnCurve == errors < MaxErrors /\ ~exhausted

BaseInv ==
  OnCurve => current_base = IF state = "Error" THEN Curve[errors] ELSE Curve[errors + 1]

CurveInv == IInv /\ BaseInv /\ FollowsCurve

\* A point of the curve is a delay that LongestDelay outlasts.
LEMMA CurveBounds ==
  ASSUME NEW n \in Nat
  PROVE  /\ Curve[n] \in Nat /\ Half(Curve[n]) \in Nat
         /\ Half(Curve[n]) =< Curve[n] /\ Curve[n] =< LongestDelay
<1>1. Curve[n] \in {0} \cup initial_delay..max_delay
  BY CurveFacts
<1>2. Curve[n] \in Nat /\ Curve[n] =< LongestDelay
  BY <1>1, DelaysAssumption, LongestFacts
<1>3. \A m \in Nat : Half(m) \in Nat /\ Half(m) =< m
  BY DEF Half
<1> QED
  BY <1>2, <1>3

\* BackoffAndRun waits for at most one and a half times its base.
LEMMA BackoffIsBounded ==
  ASSUME TypeOK, NEW base \in Nat, BackoffAndRun(base)
  PROVE  remaining' =< base + Half(base)
<1>1. PICK jitter \in Jitter(base) :
        remaining' = AtLeastZero(base + jitter - sinceBackoff)
  BY DEF BackoffAndRun
<1>2. jitter \in Int /\ jitter =< Half(base)
  BY <1>1, JitterFacts
<1>3. sinceBackoff \in Nat /\ Half(base) \in Nat
  BY LongestFacts, HalfFacts DEF TypeOK, Delays
<1> QED
  BY <1>1, <1>2, <1>3 DEF AtLeastZero

\* A backoff from the point of the curve that belongs to the errors, however
\* it is started, waits as long as the curve says.
LEMMA BackoffFollows ==
  ASSUME TypeOK, TypeOK', BackoffAndRun(current_base), OnCurve',
         current_base = Curve[errors'], errors' >= 1,
         sinceAttempt' = sinceAttempt,
         errors' >= 2 => sinceAttempt = sinceBackoff
  PROVE  BaseInv' /\ FollowsCurve'
<1> DEFINE base == Curve[errors']
<1>1. errors' \in Nat
  BY DelaysAssumption DEF TypeOK
<1>2. base \in {0} \cup initial_delay..max_delay /\ base \in Nat /\ Half(base) \in Nat
  BY <1>1, CurveFacts, CurveBounds
<1>3. BackoffAndRun(base)
  OBVIOUS
<1> HIDE DEF base
<1>4. /\ state' = "Backoff" /\ current_base' = Grown(base)
      /\ remaining' =< base + Half(base)
      /\ sinceBackoff + remaining' + Half(base) >= base
  BY <1>2, <1>3, BackoffAndRunFacts, BackoffIsBounded DEF BackoffAndRun
<1>5. BaseInv'
  <2>1. Curve[errors' + 1] = Grown(base)
    BY <1>1, CurveFacts DEF base
  <2> QED
    BY <1>4, <2>1 DEF BaseInv
<1>6. remaining' + sinceAttempt' >= base - Half(base)
  <2>1. remaining' \in Nat /\ sinceAttempt \in Nat /\ sinceBackoff \in Nat
    BY LongestFacts DEF TypeOK, Delays
  <2>2. CASE errors' = 1
    BY <1>2, <2>1, <2>2, CurveFacts, HalfFacts DEF base
  <2>3. CASE errors' >= 2
    BY <1>2, <1>4, <2>1, <2>3
  <2> QED
    BY <1>1, <2>2, <2>3
<1>7. FollowsCurve'
  BY <1>4, <1>6 DEF FollowsCurve, base
<1> QED
  BY <1>5, <1>7

\* The curve begins with no delay.
LEMMA InitCurve == Init => CurveInv
<1> SUFFICES ASSUME Init PROVE CurveInv
  OBVIOUS
<1>1. state = "Initial" /\ current_base = 0 /\ remaining = 0 /\ errors = 0
  BY DEF Init
<1>2. BaseInv
  BY <1>1, CurveFacts DEF BaseInv
<1>3. FollowsCurve
  <2>1. remaining =< Curve[errors] + Half(Curve[errors])
    BY <1>1, CurveBounds
  <2> QED
    BY <1>1, <2>1 DEF FollowsCurve
<1> QED
  BY <1>2, <1>3, InitInv DEF CurveInv

\* A stream that starts, that is reset or that tries again waits no more.
LEMMA NoWaitCurve ==
  ASSUME CurveInv,
         Start \/ BackoffElapsed \/ Stop \/ CloseWithBadWrite \/ NotifyStreamResponse
  PROVE  BaseInv' /\ FollowsCurve'
<1>1. /\ state' \in {"Initial", "Started"} /\ remaining' = 0
      /\ \/ state # "Error" /\ UNCHANGED <<current_base, errors, exhausted>>
         \/ Reset
  BY DEF Start, BackoffElapsed, Stop, CloseWithBadWrite, NotifyStreamResponse,
         CurveInv, IInv, RestInv
<1>2. BaseInv'
  BY <1>1, CurveFacts DEF CurveInv, BaseInv, OnCurve, Reset
<1>3. FollowsCurve'
  <2>1. errors' \in Nat
    BY <1>1, DelaysAssumption DEF Reset, CurveInv, IInv, TypeOK
  <2>2. remaining' =< Curve[errors'] + Half(Curve[errors'])
    BY <1>1, <2>1, CurveBounds
  <2> QED
    BY <1>1, <2>2 DEF FollowsCurve
<1> QED
  BY <1>2, <1>3

\* A write after an error: the backoff that was yet to come.
LEMMA StartAfterErrorCurve ==
  ASSUME CurveInv, StartAfterError
  PROVE  BaseInv' /\ FollowsCurve'
<1>1. /\ state = "Error" /\ BackoffAndRun(current_base)
      /\ UNCHANGED <<sinceBackoff, sinceAttempt, errors, exhausted>>
  BY DEF StartAfterError, history
<1>2. TypeOK /\ TypeOK' /\ errors >= 1
  BY <1>1, StartAfterErrorInv DEF CurveInv, IInv, RestInv
<1>3. CASE OnCurve
  <2>1. current_base = Curve[errors]
    BY <1>1, <1>3 DEF CurveInv, BaseInv
  <2>2. errors >= 2 => sinceAttempt = sinceBackoff
    BY <1>1 DEF CurveInv, IInv, AttemptInv
  <2>3. OnCurve'
    BY <1>1, <1>3 DEF OnCurve
  <2> QED
    BY <1>1, <1>2, <2>1, <2>2, <2>3, BackoffFollows
<1>4. CASE ~OnCurve
  BY <1>1, <1>4 DEF BaseInv, FollowsCurve, OnCurve
<1> QED
  BY <1>3, <1>4

\* One more error: the point of the curve that the base was ahead by.
LEMMA CloseCurve ==
  ASSUME CurveInv, NEW status \in {"unavailable", "exhausted"}, CloseWithError(status)
  PROVE  BaseInv' /\ FollowsCurve'
<1>1. /\ errors' = Counted /\ exhausted' = (exhausted \/ status = "exhausted")
      /\ UNCHANGED <<sinceBackoff, sinceAttempt>> /\ state = "Started"
  BY DEF CloseWithError
<1>2. TypeOK /\ TypeOK' /\ RestInv'
  BY CloseInv DEF CurveInv, IInv
<1>3. CASE OnCurve'
  <2>1. /\ errors' = errors + 1 /\ status # "exhausted" /\ OnCurve /\ errors \in Nat
    <3>1. errors' < MaxErrors /\ status # "exhausted" /\ ~exhausted
      BY <1>1, <1>3 DEF OnCurve
    <3>2. errors' = errors + 1 /\ errors < MaxErrors /\ errors \in Nat
      BY <1>1, <1>2, <3>1, DelaysAssumption DEF Counted, TypeOK
    <3> QED
      BY <3>1, <3>2 DEF OnCurve
  <2>2. HandleErrorStatus(status) = current_base /\ current_base = Curve[errors']
    BY <1>1, <2>1 DEF HandleErrorStatus, CurveInv, BaseInv
  <2>3. errors' >= 1 /\ (errors' >= 2 => sinceAttempt = sinceBackoff)
    BY <1>1, <2>1 DEF CurveInv, IInv, AttemptInv
  <2>4. CASE BackoffAndRun(HandleErrorStatus(status))
    BY <1>1, <1>2, <1>3, <2>2, <2>3, <2>4, BackoffFollows
  <2>5. CASE state' = "Error" /\ current_base' = HandleErrorStatus(status)
    <3>1. BaseInv'
      BY <2>2, <2>5 DEF BaseInv
    <3>2. remaining' =< Curve[errors'] + Half(Curve[errors'])
      <4>1. remaining' = 0
        BY <1>2, <2>5 DEF RestInv
      <4> QED
        BY <2>1, <4>1, CurveBounds
    <3> QED
      BY <2>5, <3>1, <3>2 DEF FollowsCurve
  <2> QED
    BY <2>4, <2>5 DEF CloseWithError
<1>4. CASE ~OnCurve'
  BY <1>4 DEF BaseInv, FollowsCurve, OnCurve
<1> QED
  BY <1>3, <1>4

\* The time that passes is taken from what remains.
LEMMA TickCurve ==
  ASSUME CurveInv, Tick
  PROVE  BaseInv' /\ FollowsCurve'
<1> DEFINE base == Curve[errors]
<1>1. UNCHANGED <<state, current_base, errors, exhausted>>
  BY DEF Tick
<1>2. /\ sinceAttempt \in Nat /\ remaining \in Nat /\ errors \in Nat
      /\ sinceAttempt =< LongestDelay
  BY LongestFacts, DelaysAssumption DEF CurveInv, IInv, TypeOK, Delays
<1>3. /\ base \in Nat /\ Half(base) \in Nat /\ Half(base) =< base
      /\ base =< LongestDelay /\ LongestDelay \in Nat
  BY <1>2, CurveBounds, LongestFacts
<1> HIDE DEF base
<1>4. remaining' \in Nat /\ remaining' =< remaining
  BY <1>2 DEF Tick, AtLeastZero
<1>5. ASSUME remaining + sinceAttempt >= base - Half(base)
      PROVE  remaining' + sinceAttempt' >= base - Half(base)
  <2>1. CASE sinceAttempt < LongestDelay
    BY <1>2, <1>3, <1>5, <2>1 DEF Tick, Older, AtLeastZero
  <2>2. CASE ~(sinceAttempt < LongestDelay)
    BY <1>2, <1>3, <1>4, <2>2 DEF Tick, Older
  <2> QED
    BY <2>1, <2>2
<1>6. BaseInv'
  BY <1>1 DEF CurveInv, BaseInv, OnCurve
<1>7. FollowsCurve'
  <2>1. FollowsCurve
    BY DEF CurveInv
  <2>2. ASSUME remaining =< base + Half(base)
        PROVE  remaining' =< base + Half(base)
    BY <1>2, <1>3, <1>4, <2>2
  <2> QED
    BY <1>1, <1>5, <2>1, <2>2 DEF FollowsCurve, base
<1> QED
  BY <1>6, <1>7

\* Every step keeps the base on the curve, and the wait with it.
LEMMA StepCurve == CurveInv /\ [Next]_vars => CurveInv'
<1> SUFFICES ASSUME CurveInv, [Next]_vars PROVE CurveInv'
  OBVIOUS
<1>1. IInv'
  BY StepInv DEF CurveInv
<1>2. CASE UNCHANGED vars
  BY <1>1, <1>2 DEF vars, CurveInv, BaseInv, FollowsCurve, OnCurve
<1>3. ASSUME NEW status \in {"unavailable", "exhausted"}, CloseWithError(status)
      PROVE  BaseInv' /\ FollowsCurve'
  BY <1>3, CloseCurve
<1> QED
  BY <1>1, <1>2, <1>3, NoWaitCurve, StartAfterErrorCurve, TickCurve DEF Next, CurveInv

(***************************************************************************)
(* For all delays, and for any order of errors, answers, bad writes, stops *)
(* and restarts: the wait for the n-th retry in a row stays between half   *)
(* and one and a half times the n-th point of the exponential curve.       *)
(***************************************************************************)
THEOREM WaitsFollowTheCurve == Spec => []FollowsCurve
<1>1. CurveInv => FollowsCurve
  BY DEF CurveInv
<1> QED
  BY <1>1, InitCurve, StepCurve, PTL DEF Spec
=============================================================================
