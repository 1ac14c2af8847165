----------------------- MODULE DestinationWriteProofs -----------------------
(***************************************************************************)
(* Theorems about DestinationWrite: for any contents, any listing, any     *)
(* number of attempts and any writes of others, a task that reports        *)
(* success is right, and a guarded write takes effect once.                *)
(***************************************************************************)
EXTENDS DestinationWrite, TLAPS

USE ContentAssumption

\* What is known of the object: the intended content is never at the key
\* without having been noticed, and only this plan's content has its identity.
Noticed ==
  /\ object.tag = Intended => held
  /\ object.token => object.tag = Intended
  /\ listed = Intended => held

\* What the task believes is true.
Believed ==
  /\ reply = "Ok" => held
  /\ verdict \in {"Ok", "Skipped"} => held

\* Every guarded write has used up one appearance of the listed content.
Paid ==
  Guarded /\ listed # Intended =>
    writes + (IF object.tag = listed THEN 1 ELSE 0) <= 1 + restored

\* A backoff is followed by an attempt that may still be made.
RetryLeft == pc = "Backoff" => attempt < MaxAttempts

IInv ==
  /\ TypeOK /\ restored <= foreign
  /\ Noticed /\ Believed /\ Paid /\ RetryLeft

\* The listing has just seen the key, and nothing has happened since.
LEMMA InitIInv == Init => IInv
  <1> SUFFICES ASSUME Init PROVE IInv
    OBVIOUS
  <1>1. TypeOK /\ restored <= foreign
    <2>1. object \in Object /\ listed \in Content \cup {Absent}
      BY DEF Init, Object
    <2>2. hashed \in BOOLEAN
      BY DEF Init
    <2>3. /\ foreign \in 0 .. MaxForeign /\ restored \in 0 .. MaxForeign
          /\ attempt \in 0 .. MaxAttempts /\ restored <= foreign
      BY DEF Init
    <2>4. held \in BOOLEAN
      BY DEF Init
    <2> QED
      BY <2>1, <2>2, <2>3, <2>4 DEF Init, TypeOK, Control, Reply, Verdict
  <1>2. Noticed /\ Believed /\ RetryLeft
    BY DEF Init, Noticed, Believed, RetryLeft
  <1>3. Paid
    BY DEF Init, Paid
  <1> QED
    BY <1>1, <1>2, <1>3 DEF IInv

\* Applying a request, now or late.
LEMMA AppliedFacts ==
  ASSUME IInv, Applied, UNCHANGED <<planVars, foreign, restored>>
  PROVE  /\ object' \in Object /\ writes' \in Nat /\ held' = TRUE
         /\ Noticed' /\ Paid'
  <1> USE DEF IInv, TypeOK, Applied, Object, planVars
  <1>1. object'.tag = Intended /\ object' \in Object /\ writes' \in Nat /\ held' = TRUE
    OBVIOUS
  <1>2. Noticed'
    BY <1>1 DEF Noticed
  <1>3. Paid'
    BY <1>1 DEF Paid, Guarded, Precondition
  <1> QED
    BY <1>1, <1>2, <1>3

\* The steps of S3 that are about this task's requests.
LEMMA ServiceIInv ==
  ASSUME IInv, ServiceStep \/ LateApplied \/ LateDropped
  PROVE  IInv'
  <1> USE DEF IInv, planVars, storeVars
  <1>1. CASE RequestApplied
    <2>1. /\ Applied /\ UNCHANGED <<planVars, foreign, restored>>
          /\ flying' = FALSE /\ pc' = "Judge" /\ reply' \in {"Ok", "Retryable"}
          /\ UNCHANGED <<attempt, hashed, invalid, late, verdict>>
      BY <1>1 DEF RequestApplied, Served
    <2>2. /\ object' \in Object /\ writes' \in Nat /\ held' = TRUE
          /\ Noticed' /\ Paid'
      BY <2>1, AppliedFacts
    <2>3. TypeOK'
      BY <2>1, <2>2 DEF TypeOK, Control, Reply
    <2> QED
      BY <2>1, <2>2, <2>3 DEF Believed, RetryLeft
  <1>2. CASE RequestRefused \/ RequestFails
    <2>1. /\ UNCHANGED <<object, writes, held, planVars, foreign, restored>>
          /\ flying' = FALSE /\ pc' = "Judge"
          /\ reply' \in {"Precondition", "Conflict", "Retryable", "Permanent"}
          /\ UNCHANGED <<attempt, hashed, invalid, late, verdict>>
      BY <1>2 DEF RequestRefused, RequestFails, Served
    <2>2. TypeOK'
      BY <2>1 DEF TypeOK, Control, Reply
    <2> QED
      BY <2>1, <2>2 DEF Believed, Noticed, Paid, Guarded, RetryLeft
  <1>3. CASE RequestLost
    <2>1. /\ UNCHANGED <<storeVars, planVars, attempt, hashed, invalid, verdict>>
          /\ pc' = "Judge" /\ reply' = "Retryable" /\ flying' = FALSE
          /\ late' = late + 1
      BY <1>3 DEF RequestLost
    <2>2. late' \in Nat
      BY <2>1 DEF TypeOK
    <2>3. TypeOK'
      BY <2>1, <2>2 DEF TypeOK, Control, Reply
    <2> QED
      BY <2>1, <2>3 DEF Believed, Noticed, Paid, Guarded, RetryLeft
  <1>4. CASE LateApplied
    <2>1. /\ Applied /\ late' = late - 1 /\ late > 0
          /\ UNCHANGED <<planVars, foreign, restored, pc, attempt, hashed, invalid,
                         flying, reply, verdict>>
      BY <1>4 DEF LateApplied
    <2>2. /\ object' \in Object /\ writes' \in Nat /\ held' = TRUE
          /\ Noticed' /\ Paid'
      BY <2>1, AppliedFacts
    <2>3. TypeOK'
      BY <2>1, <2>2 DEF TypeOK
    <2> QED
      BY <2>1, <2>2, <2>3 DEF Believed, RetryLeft
  <1>5. CASE LateDropped
    <2>1. TypeOK'
      BY <1>5 DEF LateDropped, TypeOK
    <2> QED
      BY <1>5, <2>1 DEF LateDropped, Believed, Noticed, Paid, Guarded, RetryLeft
  <1> QED
    BY <1>1, <1>2, <1>3, <1>4, <1>5 DEF ServiceStep

\* Another writer pays for every appearance of the listed content it makes.
LEMMA ForeignIInv ==
  ASSUME IInv, ForeignWrite
  PROVE  IInv'
  <1> USE DEF IInv, planVars, taskVars
  <1>1. PICK t \in Content \cup {Absent} :
          /\ object' = [tag |-> t, token |-> FALSE]
          /\ restored' = restored + (IF t = listed /\ object.tag # listed THEN 1 ELSE 0)
          /\ held' = (held \/ t = Intended)
    BY DEF ForeignWrite
  <1>2. /\ foreign' = foreign + 1 /\ foreign < MaxForeign
        /\ UNCHANGED <<writes, planVars, taskVars>>
    BY DEF ForeignWrite
  <1>3. object'.tag = t /\ object'.token = FALSE /\ object' \in Object
    BY <1>1 DEF Object
  <1>4. /\ foreign' \in 0 .. MaxForeign /\ restored' \in 0 .. MaxForeign
        /\ restored' <= foreign'
    BY <1>1, <1>2 DEF TypeOK
  <1>5. held' \in BOOLEAN
    BY <1>1, Zenon DEF TypeOK
  <1>6. TypeOK'
    BY <1>2, <1>3, <1>4, <1>5 DEF TypeOK
  <1>7. Noticed'
    BY <1>1, <1>2, <1>3 DEF Noticed
  <1>8. Believed' /\ RetryLeft'
    BY <1>1, <1>2 DEF Believed, RetryLeft
  <1>9. Paid'
    BY <1>1, <1>2, <1>3 DEF Paid, Guarded, TypeOK
  <1> QED
    BY <1>4, <1>6, <1>7, <1>8, <1>9

\* A head that matches, and a listing that shows the object in place, are right.
LEMMA EvidenceHolds ==
  ASSUME IInv
  PROVE  /\ HeadMatches => held
         /\ InPlace => held
  BY DEF IInv, HeadMatches, InPlace, Noticed

\* The task's own steps touch no object.
LEMMA TaskIInv ==
  ASSUME IInv, TaskStep \/ CooldownDeadline \/ Abort
  PROVE  IInv'
  <1> USE DEF IInv, planVars, storeVars, Finish
  <1>1. UNCHANGED <<storeVars, planVars>>
    BY DEF TaskStep, CooldownDeadline, Abort, Start, Probe, SendRequest, NextAttempt,
           BodyEnds, Judge, Reconcile
  <1>2. Noticed' /\ Paid' /\ restored' <= foreign'
    BY <1>1 DEF Noticed, Paid, Guarded
  <1>3. CASE Start
    <2>1. attempt' = 1 /\ 1 \in 0 .. MaxAttempts
      BY <1>3 DEF Start
    <2> QED
      BY <1>1, <1>2, <1>3, <2>1, EvidenceHolds
         DEF Start, TypeOK, Control, Verdict, Believed, RetryLeft
  <1>4. CASE Probe
    BY <1>1, <1>2, <1>4, EvidenceHolds
       DEF Probe, TypeOK, Control, Verdict, Believed, RetryLeft
  <1>5. CASE SendRequest
    BY <1>1, <1>2, <1>5 DEF SendRequest, TypeOK, Control, Reply, Believed, RetryLeft
  <1>6. CASE NextAttempt
    <2>1. attempt' \in 0 .. MaxAttempts
      BY <1>6 DEF NextAttempt, TypeOK, RetryLeft
    <2> QED
      BY <1>1, <1>2, <1>6, <2>1 DEF NextAttempt, TypeOK, Control, Believed, RetryLeft
  <1>7. CASE BodyEnds
    <2>1. /\ \/ hashed' = TRUE /\ invalid' = invalid
             \/ hashed' = hashed /\ invalid' = TRUE
          /\ UNCHANGED <<pc, attempt, flying, late, reply, verdict>>
      BY <1>7 DEF BodyEnds
    <2>2. hashed' \in BOOLEAN /\ invalid' \in BOOLEAN
      BY <2>1, Zenon DEF TypeOK
    <2>3. TypeOK'
      BY <1>1, <2>1, <2>2 DEF TypeOK
    <2> QED
      BY <1>1, <1>2, <2>1, <2>3 DEF Believed, RetryLeft
  <1>8. CASE Judge
    BY <1>1, <1>2, <1>8
       DEF Judge, RetryOrFail, TypeOK, Control, Verdict, Believed, RetryLeft
  <1>9. CASE Reconcile
    BY <1>1, <1>2, <1>9, EvidenceHolds
       DEF Reconcile, RetryOrFail, TypeOK, Control, Verdict, Believed, RetryLeft
  <1>10. CASE CooldownDeadline
    BY <1>1, <1>2, <1>10
       DEF CooldownDeadline, TypeOK, Control, Verdict, Believed, RetryLeft
  <1>11. CASE Abort
    <2>1. /\ pc' = "Done" /\ verdict' = "Aborted" /\ flying' = FALSE
          /\ late' \in {late, late + 1}
          /\ UNCHANGED <<attempt, hashed, invalid, reply>>
      BY <1>11 DEF Abort, TypeOK
    <2>2. late' \in Nat
      BY <2>1 DEF TypeOK
    <2>3. TypeOK'
      BY <1>1, <2>1, <2>2 DEF TypeOK, Control, Verdict
    <2> QED
      BY <1>1, <1>2, <2>1, <2>3 DEF Believed, RetryLeft
  <1> QED
    BY <1>3, <1>4, <1>5, <1>6, <1>7, <1>8, <1>9, <1>10, <1>11 DEF TaskStep

\* No step leaves the inductive invariant.
LEMMA NextIInv == IInv /\ [Next]_vars => IInv'
  <1> SUFFICES ASSUME IInv, [Next]_vars PROVE IInv'
    OBVIOUS
  <1>1. CASE UNCHANGED vars \/ Terminated
    BY <1>1 DEF Terminated, vars, storeVars, planVars, taskVars, IInv, TypeOK,
                Noticed, Believed, Paid, Guarded, RetryLeft
  <1> QED
    BY <1>1, ServiceIInv, ForeignIInv, TaskIInv DEF Next

\* The inductive invariant.
THEOREM Inductive == Spec => []IInv
  BY InitIInv, NextIInv, PTL DEF Spec

\* Every variable keeps its type; no more than MaxAttempts requests are sent.
THEOREM TypeCorrect == Spec => []TypeOK
  <1>1. IInv => TypeOK
    BY DEF IInv
  <1> QED
    BY <1>1, Inductive, PTL

\* upload_payload and copy_source_object report success only for content that
\* the key has held since the listing.
THEOREM SuccessHolds == Spec => []SuccessIsTrue
  <1>1. IInv => SuccessIsTrue
    BY DEF IInv, Believed, SuccessIsTrue
  <1> QED
    BY <1>1, Inductive, PTL

\* Retries and late requests of a guarded write take effect once for every time
\* the listed content was at the key.
THEOREM GuardedOnce == Spec => []AppliedOnce
  <1>1. IInv => AppliedOnce
    <2> SUFFICES ASSUME IInv, Guarded, listed # Intended
                 PROVE  writes <= 1 + restored
      BY DEF AppliedOnce
    <2>1. /\ writes + (IF object.tag = listed THEN 1 ELSE 0) <= 1 + restored
          /\ writes \in Nat /\ restored \in Nat
      BY DEF IInv, TypeOK, Paid
    <2> QED
      BY <2>1
  <1> QED
    BY <1>1, Inductive, PTL

-----------------------------------------------------------------------------
(* Refinement *)

\* A task reports when it ends, and what it has not sent cannot arrive: neither
\* before its first request nor after it has skipped its object.
Untouched ==
  /\ pc # "Done" => verdict = "None"
  /\ pc \in {"Start", "Probe"} \/ verdict = "Skipped" => writes = 0 /\ late = 0

\* No step leaves it.
LEMMA UntouchedStep ==
  ASSUME IInv, Untouched, Next
  PROVE  Untouched'
  <1> USE DEF Untouched, storeVars, planVars, taskVars
  <1>1. CASE ServiceStep
    BY <1>1 DEF ServiceStep, RequestApplied, RequestRefused, RequestFails, RequestLost, Served
  <1>2. CASE LateApplied \/ LateDropped
    BY <1>2 DEF LateApplied, LateDropped
  <1>3. CASE ForeignWrite \/ Terminated
    BY <1>3 DEF ForeignWrite, Terminated, vars
  <1>4. CASE CooldownDeadline \/ Abort
    BY <1>4 DEF CooldownDeadline, Abort, Finish
  <1>5. CASE TaskStep
    BY <1>5 DEF TaskStep, Start, Probe, SendRequest, NextAttempt, BodyEnds, Judge, Reconcile,
                RetryOrFail, Finish
  <1> QED BY <1>1, <1>2, <1>3, <1>4, <1>5 DEF Next

\* A request that S3 applies, now or late, is the compare-and-swap.
LEMMA AppliedSwaps ==
  ASSUME IInv, Applied, verdict # "Skipped", UNCHANGED <<planVars, verdict>>
  PROVE  Write!Swap
  <1>1. object'.tag = Intended /\ held' = TRUE /\ writes' > 0
    BY DEF Applied, IInv, TypeOK
  <1>2. UNCHANGED <<listed, Guarded, verdict>>
    BY DEF planVars, Guarded
  <1>3. Guarded => object.tag = listed
    BY DEF Applied, Precondition
  <1> QED BY <1>1, <1>2, <1>3 DEF Write!Swap

\* A step of the task that ends it is its report; any other leaves all as it is.
LEMMA EndReports ==
  ASSUME IInv, Untouched, UNCHANGED <<storeVars, planVars>>,
         \/ UNCHANGED verdict
         \/ /\ pc # "Done"
            /\ verdict' \in {"Ok", "Skipped", "Err", "Aborted"}
            /\ verdict' \in {"Ok", "Skipped"} => held
            /\ verdict' = "Skipped" => writes = 0
  PROVE  [Write!Next]_Write!vars
  <1>1. UNCHANGED <<object.tag, listed, Guarded, held, writes > 0>>
    BY DEF storeVars, planVars, Guarded
  <1>2. CASE UNCHANGED verdict
    BY <1>1, <1>2 DEF Write!vars
  <1>3. CASE ~UNCHANGED verdict
    <2>1. Write!Report(verdict')
      BY <1>1, <1>3 DEF Write!Report, Write!Success, Untouched
    <2> QED BY <1>3, <2>1 DEF Write!Next
  <1> QED BY <1>2, <1>3

\* All attempts of a task, with what arrives late and what others write between
\* them, are one conditional write and one report.
THEOREM ImplementsConditionalWrite == Spec => WriteKept
  <1>1. Init => Write!Init /\ Untouched
    BY DEF Init, Write!Init, Object, Guarded, Untouched
  <1>2. ASSUME IInv, Untouched, [Next]_vars PROVE [Write!Next]_Write!vars
    <2> USE DEF planVars, storeVars, taskVars
    <2>1. CASE UNCHANGED vars \/ Terminated
      BY <2>1 DEF vars, Terminated, Write!vars, Guarded
    <2>2. CASE RequestApplied
      BY <1>2, <2>2, AppliedSwaps DEF RequestApplied, Served, Untouched, Write!Next
    <2>3. CASE LateApplied
      <3>1. verdict # "Skipped"
        BY <1>2, <2>3 DEF LateApplied, Untouched
      <3> QED BY <1>2, <2>3, <3>1, AppliedSwaps DEF LateApplied, Write!Next
    <2>4. CASE RequestRefused \/ RequestFails \/ RequestLost \/ LateDropped
      <3>1. UNCHANGED <<storeVars, planVars, verdict>>
        BY <2>4 DEF RequestRefused, RequestFails, RequestLost, LateDropped, Served
      <3> QED BY <1>2, <3>1, EndReports
    <2>5. CASE ForeignWrite
      <3>1. PICK t \in Content \cup {Absent} :
              object' = [tag |-> t, token |-> FALSE] /\ held' = (held \/ t = Intended)
        BY <2>5 DEF ForeignWrite
      <3>2. object'.tag \in Content \cup {Absent} /\ held' = (held \/ object'.tag = Intended)
        BY <3>1
      <3>3. Write!Others
        BY <2>5, <3>2 DEF ForeignWrite, Write!Others, Guarded
      <3> QED BY <3>3 DEF Write!Next
    <2>6. CASE CooldownDeadline \/ Abort
      BY <1>2, <2>6, EndReports DEF CooldownDeadline, Abort, Finish
    <2>7. CASE TaskStep
      <3>1. UNCHANGED <<storeVars, planVars>>
        BY <2>7 DEF TaskStep, Start, Probe, SendRequest, NextAttempt, BodyEnds, Judge, Reconcile
      <3>2. CASE Start \/ Probe
        BY <1>2, <3>1, <3>2, EvidenceHolds, EndReports DEF Start, Probe, Finish, Untouched
      <3>3. CASE SendRequest \/ NextAttempt \/ BodyEnds
        BY <1>2, <3>1, <3>3, EndReports DEF SendRequest, NextAttempt, BodyEnds
      <3>4. CASE Judge \/ Reconcile
        BY <1>2, <3>1, <3>4, EvidenceHolds, EndReports
           DEF Judge, Reconcile, RetryOrFail, Finish, IInv, Believed
      <3> QED BY <2>7, <3>2, <3>3, <3>4 DEF TaskStep
    <2> QED
      BY <1>2, <2>1, <2>2, <2>3, <2>4, <2>5, <2>6, <2>7 DEF Next, ServiceStep
  <1>3. ASSUME IInv, Untouched, [Next]_vars PROVE Untouched'
    BY <1>3, UntouchedStep DEF vars, storeVars, planVars, taskVars, Untouched
  <1> QED
    BY <1>1, <1>2, <1>3, Inductive, PTL DEF Spec, WriteKept, Write!Spec

=============================================================================
