----------------------- MODULE RetryCoordinatorProofs -----------------------
(***************************************************************************)
(* Theorems about RetryCoordinator, for any number of writers, any retry   *)
(* options, any width of the delays and any deadline: no writer sleeps up  *)
(* to the work deadline, none is given up that had time left, and the      *)
(* coordinator implements the ThrottleGate.                                *)
(***************************************************************************)
EXTENDS RetryCoordinator, TLAPS

USE RetryAssumption

\* A retry is only waited for when there is an attempt left to make.
RetryStage == {"Retry", "Recheck", "Recool", "Sleep"}
AttemptLeft == \A w \in Writer : pc[w] \in RetryStage => attempt[w] < MaxAttempts

IInv == TypeOK /\ AttemptLeft /\ WakesInTime

-----------------------------------------------------------------------------
(* Delays *)

\* Every cap is a natural number no larger than its configured maximum.
LEMMA CapBounded ==
  ASSUME NEW n \in 1 .. MaxAttempts, NEW slow \in BOOLEAN
  PROVE  RetryCap(n, slow) \in 0 .. MaxWait(slow)
  <1>1. MaxInt \in Nat
    <2>1. 2 ^ Width \in Nat \ {0}
      BY PowerAssumption
    <2> QED
      BY <2>1 DEF MaxInt
  <1>2. Multiplier(n) \in Nat
    <2>1. CASE n - 1 < Width
      <3>1. n - 1 \in 0 .. Width
        BY <2>1
      <3> QED
        BY <2>1, <3>1, PowerAssumption DEF Multiplier
    <2> QED
      BY <1>1, <2>1 DEF Multiplier
  <1>3. ASSUME NEW base \in Nat, NEW max \in Nat
        PROVE  Backoff(n, base, max) \in 0 .. max
    <2> DEFINE product == base * Multiplier(n)
    <2>1. product \in Nat
      BY <1>2
    <2> HIDE DEF product
    <2>2. Least(Least(product, MaxInt), max) \in 0 .. max
      BY <1>1, <2>1 DEF Least
    <2> QED
      BY <2>2 DEF Backoff, product
  <1> QED
    BY <1>3 DEF RetryCap, MaxWait

\* A retry draws a natural number no larger than the configured maximum.
LEMMA DelayBounded ==
  ASSUME NEW n \in 1 .. MaxAttempts, NEW slow \in BOOLEAN, NEW d \in Delays(n, slow)
  PROVE  d \in 0 .. MaxWait(slow)
  <1>1. RetryCap(n, slow) \in 0 .. MaxWait(slow)
    BY CapBounded
  <1>2. MaxWait(slow) \in Nat
    BY DEF MaxWait
  <1>3. 2 ^ Width \in Nat \ {0}
    BY PowerAssumption
  <1>4. Least(RetryCap(n, slow), MaxInt - 1) <= RetryCap(n, slow)
    BY <1>1, <1>2, <1>3 DEF Least, MaxInt
  <1>5. Least(RetryCap(n, slow), MaxInt - 1) \in Int
    BY <1>1, <1>2, <1>3 DEF Least, MaxInt
  <1> QED
    BY <1>1, <1>2, <1>4, <1>5 DEF Delays

-----------------------------------------------------------------------------
(* The invariant *)

\* Nobody has waited or been throttled yet.
LEMMA InitIInv == Init => IInv
  BY DEF Init, IInv, TypeOK, Stage, AttemptLeft, RetryStage, WakesInTime, Asleep

\* Sending a writer to a stage, asleep or not, keeps the shape of the state.
LEMMA Moves ==
  ASSUME IInv, NEW w \in Writer, NEW stage \in Stage, Goto(w, stage),
         UNCHANGED now, throttleUntil' \in Nat, throttled' \in [Writer -> BOOLEAN],
         \/ stage \notin RetryStage /\ attempt' \in [Writer -> 1 .. MaxAttempts]
                                    /\ \A v \in Writer \ {w} : attempt'[v] = attempt[v]
         \/ stage \in RetryStage /\ attempt[w] < MaxAttempts /\ UNCHANGED attempt,
         \/ stage \notin Asleep /\ wake' \in [Writer -> Nat]
                                /\ \A v \in Writer \ {w} : wake'[v] = wake[v]
         \/ \E until \in Nat : until < Deadline /\ wake' = [wake EXCEPT ![w] = until]
  PROVE  IInv'
  <1> USE DEF IInv, TypeOK
  <1>1. pc' \in [Writer -> Stage] /\ pc'[w] = stage
    BY DEF Goto
  <1>2. \A v \in Writer \ {w} : pc'[v] = pc[v]
    BY DEF Goto
  <1>3. attempt' \in [Writer -> 1 .. MaxAttempts] /\ wake' \in [Writer -> Nat]
    OBVIOUS
  <1>4. AttemptLeft'
    <2> SUFFICES ASSUME NEW v \in Writer, pc'[v] \in RetryStage PROVE attempt'[v] < MaxAttempts
      BY DEF AttemptLeft
    <2>1. CASE v = w
      BY <2>1, <1>1
    <2>2. CASE v # w
      BY <2>2, <1>2 DEF AttemptLeft
    <2> QED
      BY <2>1, <2>2
  <1>5. WakesInTime'
    <2> SUFFICES ASSUME NEW v \in Writer, pc'[v] \in Asleep PROVE wake'[v] < Deadline
      BY DEF WakesInTime
    <2>1. CASE v = w
      BY <2>1, <1>1
    <2>2. CASE v # w
      BY <2>2, <1>2 DEF WakesInTime
    <2> QED
      BY <2>1, <2>2
  <1> QED
    BY <1>1, <1>3, <1>4, <1>5

LEMMA CheckIInv == ASSUME IInv, NEW w \in Writer, Check(w) PROVE IInv'
  <1> USE DEF IInv, TypeOK, Check, Stage, RetryStage, Asleep
  <1>1. CASE CooledDown
    BY <1>1, Moves
  <1>2. CASE ~CooledDown /\ Fits(throttleUntil)
    BY <1>2, Moves DEF Slept, Fits
  <1>3. CASE ~CooledDown /\ ~Fits(throttleUntil)
    BY <1>3, Moves
  <1> QED
    BY <1>1, <1>2, <1>3

\* A retry starts an attempt that may still be made.
LEMMA NextAttemptIInv ==
  ASSUME IInv, NEW w \in Writer, pc[w] \in RetryStage, NextAttempt(w),
         UNCHANGED <<now, throttleUntil, throttled>>,
         wake' = wake \/ wake' = [wake EXCEPT ![w] = 0]
  PROVE  IInv'
  <1> USE DEF IInv, TypeOK
  <1>1. attempt[w] + 1 \in 1 .. MaxAttempts
    BY DEF AttemptLeft
  <1>2. /\ attempt' \in [Writer -> 1 .. MaxAttempts]
        /\ \A v \in Writer \ {w} : attempt'[v] = attempt[v]
    BY <1>1 DEF NextAttempt
  <1>3. /\ wake' \in [Writer -> Nat]
        /\ \A v \in Writer \ {w} : wake'[v] = wake[v]
    OBVIOUS
  <1>4. Goto(w, "Check")
    BY DEF NextAttempt
  <1>5. "Check" \in Stage /\ "Check" \notin RetryStage /\ "Check" \notin Asleep
    BY DEF Stage, RetryStage, Asleep
  <1> QED
    BY <1>2, <1>3, <1>4, <1>5, Moves

LEMMA RecheckIInv == ASSUME IInv, NEW w \in Writer, Recheck(w) PROVE IInv'
  <1> USE DEF Recheck
  <1>0. pc[w] \in RetryStage
    BY DEF RetryStage
  <1>1. CASE CooledDown
    BY <1>0, <1>1, NextAttemptIInv
  <1> USE DEF IInv, TypeOK, Stage, RetryStage, Asleep
  <1>2. CASE ~CooledDown /\ Fits(throttleUntil)
    <2>1. attempt[w] < MaxAttempts
      BY <1>0 DEF AttemptLeft
    <2> QED
      BY <1>2, <2>1, Moves DEF Slept, Fits
  <1>3. CASE ~CooledDown /\ ~Fits(throttleUntil)
    BY <1>3, Moves
  <1> QED
    BY <1>1, <1>2, <1>3

LEMMA WakeUpIInv == ASSUME IInv, NEW w \in Writer, WakeUp(w) PROVE IInv'
  <1> USE DEF WakeUp
  <1>1. CASE pc[w] = "Sleep"
    BY <1>1, NextAttemptIInv DEF RetryStage
  <1> USE DEF IInv, TypeOK, Stage, RetryStage, Asleep
  <1>2. CASE pc[w] = "Cool"
    BY <1>2, Moves DEF AfterCool
  <1>3. CASE pc[w] = "Recool"
    <2>1. attempt[w] < MaxAttempts
      BY <1>3 DEF AttemptLeft
    <2> QED
      BY <1>3, <2>1, Moves DEF AfterCool
  <1> QED
    BY <1>1, <1>2, <1>3

LEMMA AnswerIInv == ASSUME IInv, NEW w \in Writer, Answer(w) PROVE IInv'
  <1> USE DEF IInv, TypeOK, Answer, Stage, RetryStage, Asleep
  <1>1. CASE \E stage \in {"Done", "Failed"} : Goto(w, stage) /\ UNCHANGED throttled
    BY <1>1, Moves
  <1>2. ASSUME NEW slow \in BOOLEAN, throttled' = [throttled EXCEPT ![w] = slow],
               Goto(w, IF AttemptsLeft(w) THEN "Retry" ELSE "Failed")
        PROVE  IInv'
    <2>1. throttled' \in [Writer -> BOOLEAN]
      BY <1>2
    <2>2. CASE AttemptsLeft(w)
      BY <1>2, <2>1, <2>2, Moves DEF AttemptsLeft
    <2>3. CASE ~AttemptsLeft(w)
      BY <1>2, <2>1, <2>3, Moves
    <2> QED
      BY <2>2, <2>3
  <1> QED
    BY <1>1, <1>2

LEMMA RetryIInv == ASSUME IInv, NEW w \in Writer, Retry(w) PROVE IInv'
  <1> USE DEF IInv, TypeOK, Stage, RetryStage, Asleep
  <1>1. pc[w] = "Retry" /\ attempt[w] < MaxAttempts
    BY DEF Retry, AttemptLeft
  <1>2. PICK delay \in Delays(attempt[w], throttled[w]) :
          IF throttled[w]
          THEN throttleUntil' = Extended(delay) /\ Goto(w, "Recheck") /\ UNCHANGED wake
          ELSE /\ UNCHANGED throttleUntil
               /\ IF Fits(now + delay) THEN Slept(w, now + delay, "Sleep")
                  ELSE Goto(w, "Expired") /\ UNCHANGED wake
    BY DEF Retry
  <1>3. delay \in Nat
    BY <1>2, DelayBounded DEF MaxWait
  <1>4. UNCHANGED <<now, attempt, throttled>>
    BY DEF Retry
  <1>5. CASE throttled[w]
    BY <1>1, <1>2, <1>3, <1>4, <1>5, Moves DEF Extended
  <1>6. CASE ~throttled[w] /\ Fits(now + delay)
    BY <1>1, <1>2, <1>3, <1>4, <1>6, Moves DEF Slept, Fits
  <1>7. CASE ~throttled[w] /\ ~Fits(now + delay)
    BY <1>1, <1>2, <1>3, <1>4, <1>7, Moves
  <1> QED
    BY <1>5, <1>6, <1>7

LEMMA StepIInv == ASSUME IInv, [Next]_vars PROVE IInv'
  <1>1. CASE UNCHANGED vars
    BY <1>1 DEF vars, IInv, TypeOK, AttemptLeft, WakesInTime
  <1>2. CASE Tick
    BY <1>2 DEF Tick, IInv, TypeOK, AttemptLeft, WakesInTime
  <1>3. CASE Terminated
    BY <1>1, <1>3 DEF Terminated
  <1>4. ASSUME NEW w \in Writer, Abort(w) PROVE IInv'
    BY <1>4, Moves DEF Abort, IInv, TypeOK, Stage, RetryStage, Asleep
  <1> QED
    BY <1>1, <1>2, <1>3, <1>4, CheckIInv, RecheckIInv, WakeUpIInv, AnswerIInv, RetryIInv
    DEF Next, Step

\* The types, the attempts that are left and the ends of the sleeps hold together.
THEOREM Inductive == Spec => []IInv
  <1> QED
    BY InitIInv, StepIInv, PTL DEF Spec

\* No writer makes more than MaxAttempts attempts, and every instant it waits for
\* is one: the delays never go negative or overflow.
THEOREM TypeCorrect == Spec => []TypeOK
  <1>1. IInv => TypeOK
    BY DEF IInv
  <1> QED
    BY <1>1, Inductive, PTL

\* No writer ever sleeps up to the work deadline or past it.
THEOREM WakesInTimeHolds == Spec => []WakesInTime
  <1>1. IInv => WakesInTime
    BY DEF IInv
  <1> QED
    BY <1>1, Inductive, PTL

-----------------------------------------------------------------------------
(* The steps *)

\* A writer is given up only at the deadline, or because the shared cooldown or a
\* wait no longer than the configured maximum would reach it.
THEOREM ExpiresForCauseHolds == Spec => ExpiresForCause
  <1>1. ASSUME IInv, [Next]_vars, NEW w \in Writer, pc[w] # "Expired", pc'[w] = "Expired"
        PROVE  \/ now >= Deadline \/ throttleUntil >= Deadline
               \/ pc[w] = "Retry" /\ now + MaxWait(throttled[w]) >= Deadline
    <2> USE DEF IInv, TypeOK
    <2>1. PICK v \in Writer : Step(v)
      BY <1>1 DEF Next, Tick, Terminated, vars
    <2>2. v = w
      BY <1>1, <2>1 DEF Step, Check, Recheck, WakeUp, Answer, Retry, Abort, Goto, Slept, NextAttempt
    <2>3. CASE Check(w) \/ Recheck(w)
      BY <1>1, <2>3 DEF Check, Recheck, Goto, Slept, NextAttempt, Fits
    <2>4. CASE WakeUp(w) \/ Answer(w)
      BY <1>1, <2>4 DEF WakeUp, Answer, Goto, NextAttempt, AfterCool
    <2>5. CASE Retry(w)
      <3>1. PICK delay \in Delays(attempt[w], throttled[w]) :
              IF throttled[w] THEN Goto(w, "Recheck")
              ELSE IF Fits(now + delay) THEN Goto(w, "Sleep") ELSE Goto(w, "Expired")
        BY <2>5 DEF Retry, Slept
      <3>2. ~throttled[w] /\ ~Fits(now + delay)
        BY <1>1, <3>1 DEF Goto
      <3>3. delay \in 0 .. MaxWait(throttled[w])
        BY <1>1, DelayBounded
      <3>4. MaxWait(throttled[w]) \in Nat
        BY DEF MaxWait
      <3> QED
        BY <1>1, <2>5, <3>2, <3>3, <3>4 DEF Fits, Retry
    <2> QED
      BY <2>1, <2>2, <2>3, <2>4, <2>5 DEF Step, Abort
  <1> DEFINE Caused(w) ==
        pc[w] # "Expired" /\ pc'[w] = "Expired" =>
          \/ now >= Deadline \/ throttleUntil >= Deadline
          \/ pc[w] = "Retry" /\ now + MaxWait(throttled[w]) >= Deadline
  <1>2. IInv /\ [Next]_vars => [\A w \in Writer : Caused(w)]_vars
    BY <1>1
  <1> HIDE DEF Caused
  <1>3. Spec => [][\A w \in Writer : Caused(w)]_vars
    BY <1>2, Inductive, PTL DEF Spec
  <1> QED
    BY <1>3 DEF ExpiresForCause, Caused

-----------------------------------------------------------------------------
(* Refinement *)

\* A step that sends nobody past the gate, and moves one writer, is a return.
LEMMA Returns ==
  ASSUME IInv, NEW w \in Writer, NEW stage \in Stage \ {"Wire"}, Goto(w, stage),
         UNCHANGED <<now, throttleUntil>>
  PROVE  [Gate!Next]_Gate!vars
  <1>1. \A v \in Writer : pc'[v] = "Wire" <=> pc[v] = "Wire" /\ v # w
    BY DEF Goto, IInv, TypeOK
  <1>2. {v \in Writer : pc'[v] = "Wire"} = {v \in Writer : pc[v] = "Wire"} \ {w}
    BY <1>1
  <1>3. Gate!Return(w)
    BY <1>2 DEF Gate!Return
  <1> QED
    BY <1>3 DEF Gate!Next

\* The coordinator is a throttle gate, whatever its writers announce.
THEOREM ImplementsGate == Spec => GateKept
  <1>1. Init => Gate!Init
    BY DEF Init, Gate!Init
  <1>2. ASSUME IInv, [Next]_vars PROVE [Gate!Next]_Gate!vars
    <2> USE DEF IInv
    <2>1. CASE UNCHANGED vars \/ Terminated
      BY <2>1 DEF vars, Terminated, Gate!vars
    <2>2. CASE Tick
      BY <2>2 DEF Tick, Gate!Next, Gate!Tick
    <2>3. ASSUME NEW w \in Writer, Check(w) PROVE [Gate!Next]_Gate!vars
      <3>1. CASE CooledDown
        <4>1. {v \in Writer : pc'[v] = "Wire"} = {v \in Writer : pc[v] = "Wire"} \cup {w}
          BY <1>2, <2>3, <3>1 DEF Check, Goto, TypeOK
        <4>2. Gate!Pass(w)
          BY <1>2, <2>3, <3>1, <4>1 DEF Check, CooledDown, Gate!Pass
        <4> QED
          BY <4>2 DEF Gate!Next
      <3>2. CASE ~CooledDown
        BY <1>2, <2>3, <3>2, Returns DEF Check, Slept, Stage
      <3> QED
        BY <3>1, <3>2
    <2>4. ASSUME NEW w \in Writer, Recheck(w) \/ WakeUp(w) \/ Answer(w) \/ Abort(w)
          PROVE  [Gate!Next]_Gate!vars
      BY <1>2, <2>4, Returns
      DEF Recheck, WakeUp, Answer, Abort, NextAttempt, Slept, AfterCool, Stage
    <2>5. ASSUME NEW w \in Writer, Retry(w) PROVE [Gate!Next]_Gate!vars
      <3>1. CASE throttled[w]
        <4>1. PICK delay \in Delays(attempt[w], throttled[w]) :
                throttleUntil' = Extended(delay) /\ Goto(w, "Recheck")
          BY <2>5, <3>1 DEF Retry
        <4>2. throttleUntil' \in Nat /\ throttleUntil' >= throttleUntil
          BY <1>2, <4>1, DelayBounded DEF Extended, TypeOK, MaxWait
        <4>3. {v \in Writer : pc'[v] = "Wire"} = {v \in Writer : pc[v] = "Wire"}
          BY <1>2, <2>5, <4>1 DEF Retry, Goto, TypeOK
        <4>4. Gate!Announce
          BY <1>2, <2>5, <4>2, <4>3 DEF Retry, Gate!Announce
        <4> QED
          BY <4>4 DEF Gate!Next
      <3>2. CASE ~throttled[w]
        BY <1>2, <2>5, <3>2, Returns DEF Retry, Slept, Stage
      <3> QED
        BY <3>1, <3>2
    <2> QED
      BY <1>2, <2>1, <2>2, <2>3, <2>4, <2>5 DEF Next, Step
  <1> QED
    BY <1>1, <1>2, Inductive, PTL DEF Spec, GateKept, Gate!Spec

=============================================================================
