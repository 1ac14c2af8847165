------------------------- MODULE TransferScheduler -------------------------
(***************************************************************************)
(* The bounded task set of a transfer (s3/transfer/scheduler.rs): one      *)
(* control flow admits the planned objects one spawn() at a time, joins    *)
(* completed tasks as it goes and then waits for the rest in finish();     *)
(* the tasks run concurrently and publish a failure through an admission   *)
(* gate before their completion can be joined.  upload_zip_entries and     *)
(* execute_copy_plans (s3/transfer/upload.rs, copy.rs) are the callers.    *)
(*                                                                         *)
(* A task's future ends in two steps that other threads can run between:   *)
(* it closes the gate (only if it failed), then its completion becomes     *)
(* joinable.  spawn() admits under the gate's lock.  abort_all() ends a    *)
(* task at its next await; a task past its last await completes.           *)
(*                                                                         *)
(* The operators named ...Slip are not part of the model: each is the      *)
(* definition that follows it with one plausible mistake, kept to show     *)
(* which property notices it.                                              *)
(***************************************************************************)
EXTENDS Naturals, FiniteSets

CONSTANTS
  NumTasks,   \* planned objects, in the order the caller spawns them
  MaxInFlight \* transfer.maxConcurrency; new() raises it to 1

ASSUME TasksAssumption == NumTasks \in Nat /\ MaxInFlight \in Nat \ {0}

Task == 1 .. NumTasks

VARIABLES
  pc,       \* where the control flow is
  next,     \* the task the next spawn() call is for
  inFlight, \* TransferScheduler.in_flight
  gate,     \* TransferAdmissionGate.failed
  aborted,  \* abort_all() was called, or the JoinSet was dropped
  run,      \* [Task -> life of the task]
  result,   \* [Task -> outcome of the task's future]
  verdict,  \* what the transfer returned
  late      \* {"work", "drain"}: deadlines that have passed

vars == <<pc, next, inFlight, gate, aborted, run, result, verdict, late>>

\* "Call" is the caller between two spawn() calls, "Drain" and "Join" the loop
\* at the head of spawn(), "Surface" surface_recorded_failure, "Abort" the
\* draining loop of abort_and_drain.
Control == {"Call", "Drain", "Join", "Admit", "Surface", "Finish", "Abort",
            "Returned"}
Run     == {"New", "Running", "Ended", "Joinable", "Joined", "Detached"}
Result  == {"None", "Ok", "Err", "Cancelled"}
Verdict == {"None", "Ok", "Failed", "Undrained", "Lost", "Caller"}

TypeOK ==
  /\ pc \in Control
  /\ next \in 1 .. NumTasks + 1
  /\ inFlight \in Nat
  /\ gate \in BOOLEAN /\ aborted \in BOOLEAN
  /\ run \in [Task -> Run]
  /\ result \in [Task -> Result]
  /\ verdict \in Verdict
  /\ late \in SUBSET {"work", "drain"}

Init ==
  /\ pc = "Call" /\ next = 1 /\ inFlight = 0
  /\ gate = FALSE /\ aborted = FALSE
  /\ run = [t \in Task |-> "New"]
  /\ result = [t \in Task |-> "None"]
  /\ verdict = "None" /\ late = {}

-----------------------------------------------------------------------------
(* The tasks *)

\* The failure is published only when it is joined.
TaskEndsSlip(t) ==
  /\ run[t] = "Running"
  /\ run' = [run EXCEPT ![t] = "Ended"]
  /\ \E r \in {"Ok", "Err"} : result' = [result EXCEPT ![t] = r]
  /\ UNCHANGED <<pc, next, inFlight, gate, aborted, verdict, late>>

\* The task's future ends with Ok, or with an error or a panic that closes
\* the gate first.
TaskEnds(t) ==
  /\ run[t] = "Running"
  /\ run' = [run EXCEPT ![t] = "Ended"]
  /\ \/ /\ result' = [result EXCEPT ![t] = "Ok"]
        /\ UNCHANGED gate
     \/ /\ result' = [result EXCEPT ![t] = "Err"]
        /\ gate' = TRUE
  /\ UNCHANGED <<pc, next, inFlight, aborted, verdict, late>>

\* The completion reaches the JoinSet, or nobody if that has been dropped.
TaskCompletes(t) ==
  /\ run[t] = "Ended"
  /\ run' = [run EXCEPT ![t] = IF verdict = "None" THEN "Joinable" ELSE "Detached"]
  /\ UNCHANGED <<pc, next, inFlight, gate, aborted, result, verdict, late>>

\* An aborted task is dropped at an await.
TaskCancelled(t) ==
  /\ aborted /\ run[t] = "Running"
  /\ run' = [run EXCEPT ![t] = IF verdict = "None" THEN "Joinable" ELSE "Detached"]
  /\ result' = [result EXCEPT ![t] = "Cancelled"]
  /\ UNCHANGED <<pc, next, inFlight, gate, aborted, verdict, late>>

-----------------------------------------------------------------------------
(* The control flow *)

Joinable == {t \in Task : run[t] = "Joinable"}
Unjoined == {t \in Task : run[t] \in {"Running", "Ended", "Joinable"}}

\* The scheduler is dropped with the returned value; its JoinSet aborts what
\* is still in it and keeps no completion.
Return(v) ==
  /\ pc' = "Returned"
  /\ verdict' = v
  /\ aborted' = TRUE
  /\ run' = [t \in Task |-> IF run[t] = "Joinable" THEN "Detached" ELSE run[t]]
  /\ UNCHANGED <<next, inFlight, gate, result, late>>

\* The caller has another object, or none left; or it fails by itself between
\* two spawn() calls (marker compilation, block planning of a later archive).
CallSpawn ==
  /\ pc = "Call" /\ next <= NumTasks
  /\ pc' = "Drain"
  /\ UNCHANGED <<next, inFlight, gate, aborted, run, result, verdict, late>>

CallFinish ==
  /\ pc = "Call" /\ next > NumTasks
  /\ pc' = "Finish"
  /\ UNCHANGED <<next, inFlight, gate, aborted, run, result, verdict, late>>

CallerFails ==
  /\ pc = "Call" /\ next <= NumTasks
  /\ Return("Caller")

\* A joined failure closes the gate, and its error is dropped.
JoinThenSlip(t, to) ==
  /\ run[t] = "Joinable"
  /\ run' = [run EXCEPT ![t] = "Joined"]
  /\ inFlight' = inFlight - 1
  /\ pc' = to
  /\ gate' = (gate \/ result[t] # "Ok")
  /\ UNCHANGED <<next, aborted, result, verdict, late>>

\* handle_join_or_abort: a joined success goes on at `to`, a joined failure
\* closes the gate, aborts the others and drains them.
JoinThen(t, to) ==
  /\ run[t] = "Joinable"
  /\ run' = [run EXCEPT ![t] = "Joined"]
  /\ inFlight' = inFlight - 1
  /\ IF result[t] = "Ok"
     THEN pc' = to /\ UNCHANGED <<gate, aborted>>
     ELSE pc' = "Abort" /\ gate' = TRUE /\ aborted' = TRUE
  /\ UNCHANGED <<next, result, verdict, late>>

\* drain_ready: take every completion that is there, then look at the limit.
DrainReady(t) == pc = "Drain" /\ JoinThen(t, "Drain")

DrainOver ==
  /\ pc = "Drain" /\ Joinable = {}
  /\ pc' = IF inFlight >= MaxInFlight THEN "Join" ELSE "Admit"
  /\ UNCHANGED <<next, inFlight, gate, aborted, run, result, verdict, late>>

\* join_one in spawn(), in finish() and in surface_recorded_failure().
JoinOne(t) ==
  \/ pc = "Join" /\ JoinThen(t, "Drain")
  \/ pc = "Finish" /\ JoinThen(t, "Finish")
  \/ pc = "Surface" /\ JoinThen(t, "Surface")

\* spawn() waits for a free place without the deadline.
JoinDeadlineSlip ==
  /\ pc \in {"Finish", "Surface"} /\ inFlight > 0
  /\ "work" \in late /\ Joinable = {}
  /\ pc' = "Abort" /\ gate' = TRUE /\ aborted' = TRUE
  /\ UNCHANGED <<next, inFlight, run, result, verdict, late>>

\* join_one at the work deadline with nothing to join.
JoinDeadline ==
  /\ pc = "Join" \/ (pc \in {"Finish", "Surface"} /\ inFlight > 0)
  /\ "work" \in late /\ Joinable = {}
  /\ pc' = "Abort" /\ gate' = TRUE /\ aborted' = TRUE
  /\ UNCHANGED <<next, inFlight, run, result, verdict, late>>

\* try_admit: the gate's lock orders this with every mark_failed.
Admit ==
  /\ pc = "Admit" /\ ~gate
  /\ run' = [run EXCEPT ![next] = "Running"]
  /\ inFlight' = inFlight + 1
  /\ next' = next + 1
  /\ pc' = "Call"
  /\ UNCHANGED <<gate, aborted, result, verdict, late>>

AdmitRefused ==
  /\ pc = "Admit" /\ gate
  /\ pc' = "Surface"
  /\ UNCHANGED <<next, inFlight, gate, aborted, run, result, verdict, late>>

\* Everything is joined: finish() returns Ok; surface_recorded_failure() has
\* no error left to return but "transfer admission closed without a retained
\* failed task result".
AllJoined ==
  /\ pc \in {"Finish", "Surface"} /\ inFlight = 0
  /\ Return(IF pc = "Finish" THEN "Ok" ELSE "Lost")

\* abort_and_drain joins whatever is left, whatever its result...
AbortJoin(t) ==
  /\ pc = "Abort" /\ run[t] = "Joinable"
  /\ run' = [run EXCEPT ![t] = "Joined"]
  /\ inFlight' = inFlight - 1
  /\ UNCHANGED <<pc, next, gate, aborted, result, verdict, late>>

\* abort_all() without waiting for the tasks.
AbortDrainedSlip ==
  /\ pc = "Abort"
  /\ Return("Failed")

\* ...and returns the failure that started it, a task's or the deadline's,
AbortDrained ==
  /\ pc = "Abort" /\ Unjoined = {}
  /\ Return("Failed")

\* ...or gives up on tasks that do not end before the drain deadline.
AbortUndrained ==
  /\ pc = "Abort" /\ "drain" \in late /\ Joinable = {} /\ Unjoined # {}
  /\ Return("Undrained")

\* Work stops first, draining at least as late.
WorkDeadline ==
  /\ "work" \notin late /\ pc # "Returned"
  /\ late' = late \cup {"work"}
  /\ UNCHANGED <<pc, next, inFlight, gate, aborted, run, result, verdict>>

\* The drain budget starts with abort_and_drain: 5 s, and never later than
\* the invocation's task-drain deadline.
DrainDeadline ==
  /\ "drain" \notin late /\ pc = "Abort"
  /\ late' = late \cup {"drain"}
  /\ UNCHANGED <<pc, next, inFlight, gate, aborted, run, result, verdict>>

ControlStep ==
  \/ CallSpawn \/ CallFinish \/ DrainOver \/ JoinDeadline \/ Admit
  \/ AdmitRefused \/ AllJoined \/ AbortDrained \/ AbortUndrained
  \/ \E t \in Task : DrainReady(t) \/ JoinOne(t) \/ AbortJoin(t)

TaskStep(t) == TaskEnds(t) \/ TaskCompletes(t) \/ TaskCancelled(t)

Stopped == pc = "Returned" /\ \A t \in Task : run[t] \in {"New", "Joined", "Detached"}

Terminated == Stopped /\ UNCHANGED vars

Next ==
  \/ ControlStep
  \/ CallerFails
  \/ \E t \in Task : TaskStep(t)
  \/ WorkDeadline \/ DrainDeadline
  \/ Terminated

Spec == Init /\ [][Next]_vars

-----------------------------------------------------------------------------
(* Properties *)

\* finish() returns Ok only when every planned object was admitted, ended and
\* was joined with success: a failure cannot be masked by later successes, so
\* stale deletion and invalidation never follow a failed transfer.
OkMeansAllSucceeded ==
  verdict = "Ok" => \A t \in Task : run[t] = "Joined" /\ result[t] = "Ok"

\* Once a failed task's completion exists anywhere, nothing more is admitted:
\* the failing task closed the gate before its completion could be joined.
NoAdmissionAfterFailure ==
  [][(\E t \in Task : run[t] \in {"Joinable", "Joined"} /\ result[t] = "Err")
       => next' = next]_vars

\* A refused admission always has a failed task to report: the fallback error
\* of surface_recorded_failure is never the one returned.
FailureIsRetained ==
  /\ verdict # "Lost"
  /\ pc = "Surface" =>
       \E t \in Task : run[t] \in {"Ended", "Joinable"} /\ result[t] = "Err"

\* in_flight counts the admitted tasks that were not joined, whichever of the
\* five joining loops took the others, and never exceeds the limit.
InFlightExact ==
  pc # "Returned" => inFlight = Cardinality(Unjoined) /\ inFlight <= MaxInFlight

\* A transfer that succeeds, or fails by a task's error or at the work deadline,
\* leaves no task behind that could still write to the destination.
DrainedOnReturn == verdict \in {"Ok", "Failed"} => Unjoined = {}

\* The tasks need not end by themselves: the work deadline bounds them, and an
\* aborted task is dropped or completes.
Fairness ==
  /\ WF_vars(ControlStep)
  /\ WF_vars(WorkDeadline) /\ WF_vars(DrainDeadline)
  /\ \A t \in Task : WF_vars(TaskCompletes(t))

FairSpec == Spec /\ Fairness

\* Whatever the tasks do, the transfer returns.
TransferReturns == <>(pc = "Returned")

=============================================================================
