---------------------- MODULE TransferSchedulerProofs ----------------------
(***************************************************************************)
(* Theorems about TransferScheduler for every number of objects and every  *)
(* concurrency limit.                                                      *)
(***************************************************************************)
EXTENDS TransferScheduler, FiniteSetTheorems, TLAPS

\* Tasks are admitted in order, and a task's outcome is fixed when its future
\* ends.
TasksInOrder ==
  /\ \A t \in Task : run[t] = "New" <=> t >= next
  /\ \A t \in Task : result[t] = "None" <=> run[t] \in {"New", "Running"}

\* Before the first failure is handled every joined task has succeeded and no
\* task has been cancelled.
CleanBeforeAbort ==
  pc \notin {"Abort", "Returned"} =>
    /\ ~aborted
    /\ \A t \in Task : result[t] # "Cancelled"
    /\ \A t \in Task : run[t] = "Joined" => result[t] = "Ok"

\* A failure closes the gate, and a gate closed before any abort still has its
\* failed task among the unjoined ones.
GateTracksFailure ==
  /\ (\E t \in Task : result[t] = "Err") => gate
  /\ gate /\ pc \notin {"Abort", "Returned"} =>
       \E t \in Task : run[t] \in {"Ended", "Joinable"} /\ result[t] = "Err"

\* What each place of the control flow knows.
ControlKnows ==
  /\ verdict = "None" <=> pc # "Returned"
  /\ pc \in {"Drain", "Join", "Admit", "Surface"} => next <= NumTasks
  /\ pc = "Finish" => next = NumTasks + 1
  /\ pc = "Admit" => inFlight < MaxInFlight
  /\ pc = "Surface" => gate
  /\ pc # "Returned" => \A t \in Task : run[t] # "Detached"

IInv ==
  /\ TypeOK /\ TasksInOrder /\ CleanBeforeAbort /\ GateTracksFailure
  /\ ControlKnows /\ InFlightExact /\ DrainedOnReturn /\ OkMeansAllSucceeded
  /\ verdict # "Lost"

-----------------------------------------------------------------------------
\* There are finitely many tasks, so their sets can be counted.
LEMMA TaskFinite == IsFiniteSet(Task) /\ \A S \in SUBSET Task : IsFiniteSet(S)
  <1>1. IsFiniteSet(Task)
    BY FS_Interval, TasksAssumption DEF Task
  <1> QED
    BY <1>1, FS_Subset

\* Init establishes the invariant: nothing is admitted.
LEMMA InitIInv == Init => IInv
  <1> SUFFICES ASSUME Init PROVE IInv
    OBVIOUS
  <1>1. Unjoined = {}
    BY DEF Init, Unjoined
  <1>2. TypeOK
    <2>1. 1 \in 1 .. NumTasks + 1
      BY TasksAssumption
    <2> QED
      BY <2>1 DEF Init, TypeOK, Control, Run, Result, Verdict
  <1>3. InFlightExact
    BY <1>1, FS_EmptySet, TasksAssumption DEF Init, InFlightExact
  <1>4. TasksInOrder
    BY DEF Init, TasksInOrder, Task
  <1> QED
    BY <1>2, <1>3, <1>4 DEF Init, IInv, CleanBeforeAbort,
       GateTracksFailure, ControlKnows, DrainedOnReturn, OkMeansAllSucceeded

-----------------------------------------------------------------------------
\* Joining one task counts down the admitted tasks that are not joined.
LEMMA JoinCount ==
  ASSUME IInv, NEW t \in Task, run[t] = "Joinable", pc # "Returned",
         run' = [run EXCEPT ![t] = "Joined"], inFlight' = inFlight - 1
  PROVE  inFlight' \in Nat /\ inFlight' = Cardinality(Unjoined)' /\ inFlight' < MaxInFlight
  <1>1. Unjoined' = Unjoined \ {t} /\ t \in Unjoined
    BY DEF IInv, TypeOK, Unjoined
  <1>2. IsFiniteSet(Unjoined)
    BY TaskFinite DEF Unjoined
  <1>3. Cardinality(Unjoined') = Cardinality(Unjoined) - 1 /\ Cardinality(Unjoined) \in Nat
    BY <1>1, <1>2, FS_RemoveElement, FS_CardinalityType
  <1>4. Cardinality(Unjoined) # 0
    BY <1>1, <1>2, FS_EmptySet
  <1> QED
    BY <1>3, <1>4, TasksAssumption DEF IInv, InFlightExact

\* Steps that move no task between joined and unjoined leave the count alone.
LEMMA SameCount ==
  ASSUME IInv, Unjoined' = Unjoined, inFlight' = inFlight, pc # "Returned"
  PROVE  InFlightExact'
  BY DEF IInv, InFlightExact

\* A step that changes neither the tasks nor their count keeps the invariant
\* when the control flow's own facts still hold.
LEMMA QuietStep ==
  ASSUME IInv, pc # "Returned", pc' # "Returned",
         UNCHANGED <<next, inFlight, run, result, verdict>>,
         TypeOK', ControlKnows', CleanBeforeAbort', GateTracksFailure'
  PROVE  IInv'
  <1>1. Unjoined' = Unjoined
    BY DEF Unjoined
  <1>2. InFlightExact'
    BY <1>1, SameCount
  <1>3. TasksInOrder'
    BY DEF IInv, TasksInOrder
  <1>4. DrainedOnReturn' /\ OkMeansAllSucceeded' /\ verdict' # "Lost"
    BY DEF IInv, ControlKnows, DrainedOnReturn, OkMeansAllSucceeded
  <1> QED
    BY <1>2, <1>3, <1>4 DEF IInv

\* The steps of the control flow that join, admit and return nothing.
LEMMA QuietIInv ==
  ASSUME IInv,
         \/ CallSpawn \/ CallFinish \/ DrainOver \/ JoinDeadline
         \/ AdmitRefused \/ WorkDeadline \/ DrainDeadline
  PROVE  IInv'
  <1> USE DEF IInv, TypeOK, ControlKnows, CleanBeforeAbort, GateTracksFailure,
              Control, Verdict
  <1>1. CASE CallSpawn
    BY <1>1, QuietStep, TasksAssumption DEF CallSpawn
  <1>2. CASE CallFinish
    BY <1>2, QuietStep, TasksAssumption DEF CallFinish
  <1>3. CASE DrainOver
    BY <1>3, QuietStep, TasksAssumption DEF DrainOver
  <1>4. CASE JoinDeadline
    BY <1>4, QuietStep, TasksAssumption DEF JoinDeadline
  <1>5. CASE AdmitRefused
    BY <1>5, QuietStep, TasksAssumption DEF AdmitRefused
  <1>6. CASE WorkDeadline
    BY <1>6, QuietStep, TasksAssumption DEF WorkDeadline
  <1>7. CASE DrainDeadline
    BY <1>7, QuietStep, TasksAssumption DEF DrainDeadline
  <1> QED
    BY <1>1, <1>2, <1>3, <1>4, <1>5, <1>6, <1>7

-----------------------------------------------------------------------------
\* A task's future ending, completing or being dropped keeps the invariant.
LEMMA TaskStepIInv ==
  ASSUME IInv, NEW t \in Task, TaskStep(t)
  PROVE  IInv'
  <1> USE DEF IInv, TypeOK
  <1>1. CASE TaskEnds(t)
    <2>1. Unjoined' = Unjoined
      BY <1>1 DEF TaskEnds, Unjoined
    <2>2. TypeOK'
      BY <1>1 DEF TaskEnds, Run, Result
    <2>3. TasksInOrder'
      BY <1>1 DEF TaskEnds, TasksInOrder
    <2>4. CleanBeforeAbort' /\ ControlKnows'
      BY <1>1 DEF TaskEnds, CleanBeforeAbort, ControlKnows
    <2>5. GateTracksFailure'
      BY <1>1 DEF TaskEnds, GateTracksFailure
    <2>6. InFlightExact' /\ DrainedOnReturn'
      BY <1>1, <2>1 DEF TaskEnds, InFlightExact, DrainedOnReturn
    <2>7. OkMeansAllSucceeded' /\ verdict' # "Lost"
      BY <1>1 DEF TaskEnds, OkMeansAllSucceeded
    <2> QED
      BY <2>2, <2>3, <2>4, <2>5, <2>6, <2>7
  <1>2. CASE TaskCompletes(t) \/ TaskCancelled(t)
    <2>1. Unjoined' = IF verdict = "None" THEN Unjoined ELSE Unjoined \ {t}
      BY <1>2 DEF TaskCompletes, TaskCancelled, Unjoined
    <2>2. TypeOK'
      BY <1>2 DEF TaskCompletes, TaskCancelled, Run, Result
    <2>3. TasksInOrder'
      BY <1>2 DEF TaskCompletes, TaskCancelled, TasksInOrder
    <2>4. CleanBeforeAbort' /\ ControlKnows'
      BY <1>2 DEF TaskCompletes, TaskCancelled, CleanBeforeAbort, ControlKnows
    <2>5. GateTracksFailure'
      BY <1>2 DEF TaskCompletes, TaskCancelled, GateTracksFailure,
         CleanBeforeAbort, ControlKnows
    <2>6. InFlightExact' /\ DrainedOnReturn'
      BY <1>2, <2>1 DEF TaskCompletes, TaskCancelled, InFlightExact,
         DrainedOnReturn, ControlKnows
    <2>7. OkMeansAllSucceeded' /\ verdict' # "Lost"
      BY <1>2 DEF TaskCompletes, TaskCancelled, OkMeansAllSucceeded
    <2> QED
      BY <2>2, <2>3, <2>4, <2>5, <2>6, <2>7
  <1> QED
    BY <1>1, <1>2 DEF TaskStep

\* Joining a completion keeps the invariant, wherever the flow goes next.
LEMMA JoinIInv ==
  ASSUME IInv, NEW t \in Task, DrainReady(t) \/ JoinOne(t) \/ AbortJoin(t)
  PROVE  IInv'
  <1>1. /\ pc \in {"Drain", "Join", "Finish", "Surface", "Abort"}
        /\ run[t] = "Joinable" /\ run' = [run EXCEPT ![t] = "Joined"]
        /\ inFlight' = inFlight - 1
        /\ UNCHANGED <<next, result, verdict, late>>
        /\ \/ /\ result[t] = "Ok" \/ pc = "Abort"
              /\ pc' = IF pc = "Join" THEN "Drain" ELSE pc
              /\ UNCHANGED <<gate, aborted>>
           \/ pc' = "Abort" /\ gate' = TRUE /\ aborted' = TRUE
    BY DEF DrainReady, JoinOne, JoinThen, AbortJoin
  <1>2. inFlight' \in Nat /\ inFlight' = Cardinality(Unjoined)' /\ inFlight' < MaxInFlight
    BY <1>1, JoinCount
  <1> USE DEF IInv, TypeOK
  <1>3. TypeOK'
    BY <1>1, <1>2 DEF Control, Run
  <1>4. TasksInOrder'
    BY <1>1 DEF TasksInOrder
  <1>5. CleanBeforeAbort' /\ ControlKnows'
    BY <1>1, <1>2 DEF CleanBeforeAbort, ControlKnows
  <1>6. GateTracksFailure'
    BY <1>1 DEF GateTracksFailure
  <1>7. InFlightExact'
    BY <1>2, TasksAssumption DEF InFlightExact
  <1>8. DrainedOnReturn' /\ OkMeansAllSucceeded' /\ verdict' # "Lost"
    BY <1>1 DEF DrainedOnReturn, OkMeansAllSucceeded, ControlKnows
  <1> QED
    BY <1>3, <1>4, <1>5, <1>6, <1>7, <1>8

\* Admitting the next task keeps the invariant: the limit was checked, and the
\* gate is open.
LEMMA AdmitIInv ==
  ASSUME IInv, Admit
  PROVE  IInv'
  <1> USE DEF IInv, TypeOK
  <1>1. next \in Task /\ run[next] = "New" /\ result[next] = "None"
    BY DEF Admit, ControlKnows, TasksInOrder, Task
  <1>2. Unjoined' = Unjoined \cup {next} /\ next \notin Unjoined
    BY <1>1 DEF Admit, Unjoined
  <1>3. IsFiniteSet(Unjoined)
    BY TaskFinite DEF Unjoined
  <1>4. Cardinality(Unjoined') = Cardinality(Unjoined) + 1
    BY <1>2, <1>3, FS_AddElement
  <1>5. TypeOK'
    BY <1>1, TasksAssumption DEF Admit, Control, Run, Task
  <1>6. TasksInOrder'
    BY <1>1, TasksAssumption DEF Admit, TasksInOrder, Task
  <1>7. CleanBeforeAbort' /\ ControlKnows' /\ GateTracksFailure'
    BY <1>1 DEF Admit, CleanBeforeAbort, ControlKnows, GateTracksFailure
  <1>8. InFlightExact'
    BY <1>4, TasksAssumption DEF Admit, InFlightExact, ControlKnows
  <1>9. DrainedOnReturn' /\ OkMeansAllSucceeded' /\ verdict' # "Lost"
    BY DEF Admit, DrainedOnReturn, OkMeansAllSucceeded, ControlKnows
  <1> QED
    BY <1>5, <1>6, <1>7, <1>8, <1>9

\* Every way of returning keeps the invariant; the two conclusions that matter,
\* "Ok" and "Lost", are decided by what the gate and the counter imply.
LEMMA ReturnIInv ==
  ASSUME IInv, CallerFails \/ AllJoined \/ AbortDrained \/ AbortUndrained
  PROVE  IInv'
  <1> USE DEF IInv, TypeOK
  <1>1. /\ pc # "Returned" /\ pc' = "Returned" /\ verdict' # "None"
        /\ run' = [t \in Task |-> IF run[t] = "Joinable" THEN "Detached" ELSE run[t]]
        /\ aborted' = TRUE
        /\ UNCHANGED <<next, inFlight, gate, result, late>>
        /\ verdict' \in Verdict
    BY DEF CallerFails, AllJoined, AbortDrained, AbortUndrained, Return, Verdict
  <1>2. Unjoined' \subseteq Unjoined
    BY <1>1 DEF Unjoined
  <1>3. AllJoined => Unjoined = {}
    <2>1. IsFiniteSet(Unjoined)
      BY TaskFinite DEF Unjoined
    <2> QED
      BY <2>1, FS_EmptySet DEF AllJoined, InFlightExact
  <1>4. verdict' \in {"Ok", "Failed"} => Unjoined = {}
    BY <1>3 DEF CallerFails, AllJoined, AbortDrained, AbortUndrained, Return
  <1>5. verdict' # "Lost"
    <2>1. pc = "Surface" => Unjoined # {}
      BY DEF ControlKnows, GateTracksFailure, Unjoined
    <2> QED
      BY <1>3, <2>1 DEF CallerFails, AllJoined, AbortDrained, AbortUndrained, Return
  <1>6. OkMeansAllSucceeded'
    <2> SUFFICES ASSUME verdict' = "Ok", NEW t \in Task
                 PROVE  run'[t] = "Joined" /\ result'[t] = "Ok"
      BY <1>1 DEF OkMeansAllSucceeded
    <2>1. AllJoined /\ pc = "Finish"
      BY DEF CallerFails, AllJoined, AbortDrained, AbortUndrained, Return
    <2>2. run[t] # "New" /\ run[t] # "Detached" /\ run[t] \in Run
      <3>1. t < next
        BY <2>1, TasksAssumption DEF ControlKnows, Task
      <3>2. t \in Nat /\ next \in Nat
        BY TasksAssumption DEF Task
      <3> QED
        BY <1>1, <2>1, <3>1, <3>2 DEF ControlKnows, TasksInOrder
    <2>3. run[t] = "Joined"
      BY <1>3, <2>1, <2>2 DEF Unjoined, Run
    <2> QED
      BY <1>1, <2>1, <2>3 DEF CleanBeforeAbort
  <1>7. TypeOK' /\ TasksInOrder'
    BY <1>1 DEF Control, Run, TasksInOrder
  <1>8. CleanBeforeAbort' /\ GateTracksFailure' /\ ControlKnows' /\ InFlightExact'
    BY <1>1 DEF CleanBeforeAbort, GateTracksFailure, ControlKnows, InFlightExact
  <1>9. DrainedOnReturn'
    BY <1>2, <1>4 DEF DrainedOnReturn
  <1> QED
    BY <1>5, <1>6, <1>7, <1>8, <1>9

\* The invariant is inductive.
LEMMA NextIInv == IInv /\ [Next]_vars => IInv'
  <1> SUFFICES ASSUME IInv, [Next]_vars PROVE IInv'
    OBVIOUS
  <1>1. CASE UNCHANGED vars \/ Terminated
    <2>1. UNCHANGED vars /\ Unjoined' = Unjoined
      BY <1>1 DEF vars, Terminated, Unjoined
    <2>2. InFlightExact' /\ DrainedOnReturn'
      BY <2>1 DEF vars, IInv, InFlightExact, DrainedOnReturn
    <2> QED
      BY <2>1, <2>2 DEF vars, IInv, TypeOK, TasksInOrder, CleanBeforeAbort,
         GateTracksFailure, ControlKnows, OkMeansAllSucceeded
  <1>2. CASE CallSpawn \/ CallFinish \/ DrainOver \/ JoinDeadline \/ AdmitRefused
             \/ WorkDeadline \/ DrainDeadline
    BY <1>2, QuietIInv
  <1>3. ASSUME NEW t \in Task, TaskStep(t) PROVE IInv'
    BY <1>3, TaskStepIInv
  <1>4. ASSUME NEW t \in Task, DrainReady(t) \/ JoinOne(t) \/ AbortJoin(t)
        PROVE  IInv'
    BY <1>4, JoinIInv
  <1>5. CASE Admit
    BY <1>5, AdmitIInv
  <1>6. CASE CallerFails \/ AllJoined \/ AbortDrained \/ AbortUndrained
    BY <1>6, ReturnIInv
  <1> QED
    BY <1>1, <1>2, <1>3, <1>4, <1>5, <1>6 DEF Next, ControlStep

\* The inductive invariant holds in every reachable state.
THEOREM Inductive == Spec => []IInv
  BY InitIInv, NextIInv, PTL DEF Spec

\* Every variable keeps its type.
THEOREM TypeCorrect == Spec => []TypeOK
  <1>1. IInv => TypeOK
    BY DEF IInv
  <1> QED
    BY <1>1, Inductive, PTL

\* finish() returns Ok only if every planned object was transferred.
THEOREM OkIsComplete == Spec => []OkMeansAllSucceeded
  <1>1. IInv => OkMeansAllSucceeded
    BY DEF IInv
  <1> QED
    BY <1>1, Inductive, PTL

\* A refused admission always surfaces the failure that closed the gate.
THEOREM FailureSurfaces == Spec => []FailureIsRetained
  <1>1. IInv => FailureIsRetained
    BY DEF IInv, FailureIsRetained, ControlKnows, GateTracksFailure
  <1> QED
    BY <1>1, Inductive, PTL

\* in_flight is exact, and at most transfer.maxConcurrency tasks run.
THEOREM ConcurrencyBounded == Spec => []InFlightExact
  <1>1. IInv => InFlightExact
    BY DEF IInv
  <1> QED
    BY <1>1, Inductive, PTL

\* A transfer that returned Ok or a drained failure left no task behind.
THEOREM NothingLeftBehind == Spec => []DrainedOnReturn
  <1>1. IInv => DrainedOnReturn
    BY DEF IInv
  <1> QED
    BY <1>1, Inductive, PTL

\* No object is admitted once a failed completion exists.
THEOREM FailureStopsAdmission == Spec => NoAdmissionAfterFailure
  <1>1. IInv /\ [Next]_vars =>
          [(\E t \in Task : run[t] \in {"Joinable", "Joined"} /\ result[t] = "Err")
             => next' = next]_vars
    <2> SUFFICES ASSUME IInv, [Next]_vars,
                        NEW t \in Task, result[t] = "Err"
                 PROVE  next' = next
      OBVIOUS
    <2>1. gate
      BY DEF IInv, GateTracksFailure
    <2> QED
      BY <2>1 DEF Next, ControlStep, TaskStep, vars, Terminated, CallSpawn,
         CallFinish, DrainOver, JoinDeadline, Admit, AdmitRefused, AllJoined,
         AbortDrained, AbortUndrained, CallerFails, Return, DrainReady, JoinOne,
         JoinThen, AbortJoin, TaskEnds, TaskCompletes, TaskCancelled,
         WorkDeadline, DrainDeadline
  <1> QED
    BY <1>1, Inductive, PTL DEF Spec, NoAdmissionAfterFailure

=============================================================================
