-------------------------- MODULE RetryCoordinator --------------------------
(***************************************************************************)
(* The retry waits of several writers that share one RetryCoordinator      *)
(* (s3/retry.rs): the attempt loop of upload_payload and its likes in      *)
(* s3/transfer/copy.rs and s3/destination.rs, reduced to what it does with *)
(* time.  Before every attempt a writer waits out the shared throttle      *)
(* cooldown; a throttled answer extends that cooldown for everybody,       *)
(* another retryable answer puts only this writer to sleep, and a wait     *)
(* that would end at or after the work deadline ends the write.            *)
(*                                                                         *)
(* Time is counted in milliseconds.  A sleeper may wake late.  Instants    *)
(* are natural numbers and 0 stands for an unset throttle_until: the clock *)
(* has reached either.                                                     *)
(*                                                                         *)
(* Operators named ...Slip are not part of the model: each is the          *)
(* definition that follows it with one plausible mistake.                  *)
(***************************************************************************)
EXTENDS Integers

CONSTANTS
  Writer,       \* the tasks that share the coordinator
  MaxAttempts,  \* max_attempts
  BaseDelay,    \* retry_base_delay_ms
  MaxDelay,     \* retry_max_delay_ms
  SlowBase,     \* slowdown_retry_base_delay_ms
  SlowMax,      \* slowdown_retry_max_delay_ms
  FullJitter,   \* whether the jitter is Full, and not None
  Width,        \* bits of the integers that hold delays (64 in the code)
  Deadline,     \* work_deadline
  Horizon       \* bound on the clock

ASSUME RetryAssumption ==
  /\ {MaxAttempts, Width} \subseteq Nat \ {0}
  /\ {BaseDelay, MaxDelay, SlowBase, SlowMax, Deadline, Horizon} \subseteq Nat
  /\ FullJitter \in BOOLEAN

\* Arithmetic that the provers have no rule for; TLC evaluates it.
ASSUME PowerAssumption == \A k \in 0 .. Width : 2 ^ k \in Nat \ {0}

VARIABLES
  now,           \* the monotonic clock
  throttleUntil, \* throttle_until, 0 for None
  pc,            \* where each writer is
  attempt,       \* its attempt
  throttled,     \* whether its last answer was a throttle
  wake           \* when its sleep ends

vars == <<now, throttleUntil, pc, attempt, throttled, wake>>

\* Check and Recheck look at the cooldown, before an attempt and after a
\* throttled one; Cool and Recool sleep until the end they saw.
Stage == {"Check", "Cool", "Wire", "Retry", "Recheck", "Recool", "Sleep",
          "Done", "Failed", "Expired"}
Over == {"Done", "Failed", "Expired"}
Asleep == {"Cool", "Recool", "Sleep"}

TypeOK ==
  /\ now \in 0 .. Horizon
  /\ throttleUntil \in Nat
  /\ pc \in [Writer -> Stage]
  /\ attempt \in [Writer -> 1 .. MaxAttempts]
  /\ throttled \in [Writer -> BOOLEAN]
  /\ wake \in [Writer -> Nat]

Init ==
  /\ now = 0 /\ throttleUntil = 0
  /\ pc = [w \in Writer |-> "Check"]
  /\ attempt = [w \in Writer |-> 1]
  /\ throttled = [w \in Writer |-> FALSE]
  /\ wake = [w \in Writer |-> 0]

-----------------------------------------------------------------------------
(* Delays *)

Least(a, b) == IF a <= b THEN a ELSE b

MaxInt == 2 ^ Width - 1

\* checked_shl fails when the shift reaches the width.
Multiplier(n) == IF n - 1 < Width THEN 2 ^ (n - 1) ELSE MaxInt

\* capped_exponential_backoff_millis, whose product saturates.
BackoffSlip(n, base, max) == Least(base * Multiplier(n), MaxInt)

Backoff(n, base, max) == Least(Least(base * Multiplier(n), MaxInt), max)

RetryCap(n, slow) ==
  IF slow THEN Backoff(n, SlowBase, SlowMax) ELSE Backoff(n, BaseDelay, MaxDelay)

\* retry_delay: any remainder of a sample modulo the cap and one, which
\* saturates, or the cap itself.
Delays(n, slow) ==
  LET cap == RetryCap(n, slow)
  IN IF FullJitter THEN 0 .. Least(cap, MaxInt - 1) ELSE {cap}

-----------------------------------------------------------------------------
Goto(w, stage) == pc' = [pc EXCEPT ![w] = stage]

Slept(w, until, stage) == Goto(w, stage) /\ wake' = [wake EXCEPT ![w] = until]

\* The slip does not count a throttled attempt.
NextAttemptSlip(w) ==
  /\ attempt' = [attempt EXCEPT ![w] = IF throttled[w] THEN @ ELSE @ + 1]
  /\ Goto(w, "Check")

NextAttempt(w) == attempt' = [attempt EXCEPT ![w] = @ + 1] /\ Goto(w, "Check")

\* The shared cooldown is over, or there is none.
CooledDown == throttleUntil <= now

\* A wait fits when it ends strictly before the work deadline.
FitsSlip(until) == until <= Deadline

Fits(until) == until < Deadline

\* wait_for_throttle_cooldown_before_deadline: one look at the cooldown.
Check(w) ==
  /\ pc[w] = "Check"
  /\ IF CooledDown THEN Goto(w, "Wire") /\ UNCHANGED wake
     ELSE IF Fits(throttleUntil) THEN Slept(w, throttleUntil, "Cool")
     ELSE Goto(w, "Expired") /\ UNCHANGED wake
  /\ UNCHANGED <<now, throttleUntil, attempt, throttled>>

\* The same look after a throttled answer; passing it starts the next attempt.
Recheck(w) ==
  /\ pc[w] = "Recheck"
  /\ IF CooledDown THEN NextAttempt(w) /\ UNCHANGED wake
     ELSE /\ UNCHANGED attempt
          /\ IF Fits(throttleUntil) THEN Slept(w, throttleUntil, "Recool")
             ELSE Goto(w, "Expired") /\ UNCHANGED wake
  /\ UNCHANGED <<now, throttleUntil, throttled>>

\* A writer that wakes looks again: the cooldown may have been extended.
AfterCoolSlip(stage) == "Wire"

AfterCool(stage) == IF stage = "Cool" THEN "Check" ELSE "Recheck"

WakeUp(w) ==
  /\ pc[w] \in Asleep /\ wake[w] <= now
  /\ IF pc[w] = "Sleep" THEN NextAttempt(w)
     ELSE Goto(w, AfterCool(pc[w])) /\ UNCHANGED attempt
  /\ wake' = [wake EXCEPT ![w] = 0]
  /\ UNCHANGED <<now, throttleUntil, throttled>>

AttemptsLeft(w) == attempt[w] < MaxAttempts

\* The destination's answer: success, a final failure, or a retryable one.
Answer(w) ==
  /\ pc[w] = "Wire"
  /\ \/ \E stage \in {"Done", "Failed"} : Goto(w, stage) /\ UNCHANGED throttled
     \/ \E slow \in BOOLEAN :
          /\ throttled' = [throttled EXCEPT ![w] = slow]
          /\ Goto(w, IF AttemptsLeft(w) THEN "Retry" ELSE "Failed")
  /\ UNCHANGED <<now, throttleUntil, attempt, wake>>

\* extend_throttle_cooldown.
Extended(delay) ==
  IF delay = 0 \/ now + delay <= throttleUntil THEN throttleUntil ELSE now + delay

\* wait_for_retry_before_deadline, up to its first sleep or look.
Retry(w) ==
  /\ pc[w] = "Retry"
  /\ \E delay \in Delays(attempt[w], throttled[w]) :
       IF throttled[w]
       THEN throttleUntil' = Extended(delay) /\ Goto(w, "Recheck") /\ UNCHANGED wake
       ELSE /\ UNCHANGED throttleUntil
            /\ IF Fits(now + delay) THEN Slept(w, now + delay, "Sleep")
               ELSE Goto(w, "Expired") /\ UNCHANGED wake
  /\ UNCHANGED <<now, attempt, throttled>>

\* The transfer loops abort what is left at the work deadline.
Abort(w) ==
  /\ now >= Deadline /\ pc[w] \notin Over
  /\ Goto(w, "Expired")
  /\ UNCHANGED <<now, throttleUntil, attempt, throttled, wake>>

Tick ==
  /\ now < Horizon
  /\ now' = now + 1
  /\ UNCHANGED <<throttleUntil, pc, attempt, throttled, wake>>

Step(w) == Check(w) \/ Recheck(w) \/ WakeUp(w) \/ Answer(w) \/ Retry(w) \/ Abort(w)

Terminated == (\A w \in Writer : pc[w] \in Over) /\ UNCHANGED vars

Next == Tick \/ Terminated \/ \E w \in Writer : Step(w)

Spec == Init /\ [][Next]_vars

\* Time passes and tasks that can run do.  Nothing is assumed of answers, nor of
\* the loops that may abort the writers.
FairSpec ==
  Spec /\ WF_vars(Tick)
       /\ \A w \in Writer : WF_vars(Check(w) \/ Recheck(w) \/ WakeUp(w) \/ Retry(w))

-----------------------------------------------------------------------------
(* Properties *)

\* Every sleep of a writer ends strictly before the work deadline, so that time
\* for a request is left when it wakes.
WakesInTime == \A w \in Writer : pc[w] \in Asleep => wake[w] < Deadline

MaxWait(slow) == IF slow THEN SlowMax ELSE MaxDelay

\* A writer expires only when the deadline has come, or when a wait within the
\* configured maximum, or the shared cooldown, would reach it: no write is given
\* up that had time left.
ExpiresForCause ==
  [][\A w \in Writer : pc[w] # "Expired" /\ pc'[w] = "Expired" =>
       \/ now >= Deadline \/ throttleUntil >= Deadline
       \/ pc[w] = "Retry" /\ now + MaxWait(throttled[w]) >= Deadline]_vars

\* The coordinator is a throttle gate: a cooldown announced by any writer holds
\* back every writer that looks before its end, sleepers included, and a shorter
\* one announced later does not cut it short.
Gate == INSTANCE ThrottleGate WITH
          closedUntil <- throttleUntil,
          through <- {w \in Writer : pc[w] = "Wire"}
GateKept == Gate!Spec

\* A writer whose requests are all answered ends, whether or not anything aborts
\* it and however often the others extend the cooldown: by an answer, by its
\* attempts, or because no wait fits any more.
WritersEnd == \A w \in Writer : ([]<>(pc[w] # "Wire")) => <>(pc[w] \in Over)

=============================================================================
