------------------------ MODULE ProviderRequestProofs ------------------------
(***************************************************************************)
(* SuccessIsTrue and DeployedEdgeFresh for any distributions and any       *)
(* number of invocations and callbacks.                                    *)
(*                                                                         *)
(* Neither is inductive: an answer is as good as the work the invocation   *)
(* had done, and a fresh edge depends on what the invocations that died    *)
(* had written and invalidated.  WorkKnown carries the deployment from     *)
(* stage to stage, Covered says that a caller reference of this event      *)
(* stands for an invalidation after the last write, and the two Clean      *)
(* parts say what has been invalidated at each stage.  On top of these,    *)
(* SweptKnown and CreatedKnown carry the cleanups and the creation of the  *)
(* invalidations to the answer.                                            *)
(***************************************************************************)
EXTENDS ProviderRequest, TLAPS

Done == req.valid /\ (req.type # "Delete" => deployed = "Yes")

WorkKnown ==
  /\ run.stage = "Deploy" => req.valid /\ req.type # "Delete"
  /\ run.stage = "SweepCurrent" => req.valid /\ req.type = "Delete"
  /\ run.stage \in {"SweepPrevious", "InvalidatePrevious", "InvalidateCurrent", "Wait"} => Done
  /\ run.verdict = "SUCCESS" \/ answer = "SUCCESS" => Done
  /\ \A r \in created : r.request = "this" => Done

\* What a deployment can have changed.
DeployEdges ==
  \A c \in edge : c.cause = "deploy" =>
    /\ req.type # "Delete" /\ c.dist \notin Gone
    /\ \/ c.dist = req.dist /\ c.place = "cur"
       \/ c.dist = req.prevDist /\ c.place = "prev" /\ req.overlap

Covered ==
  \A r \in created, c \in edge :
    r.request = "this" /\ c.cause = "deploy" /\ c.dist = r.dist => c.place \notin r.paths

Succeeded == run.verdict = "SUCCESS" \/ answer = "SUCCESS"

PreviousClean ==
  run.stage \in {"InvalidateCurrent", "Wait"} \/ Succeeded =>
    \A c \in edge : c.cause = "deploy" /\ c.dist # req.dist => ~req.authorized

CurrentClean ==
  run.stage = "Wait" \/ Succeeded =>
    \A c \in edge : c.cause = "deploy" => c.dist # req.dist

\* An invocation under way has an attempt left for its callback.
AttemptsLeft == run.stage \notin {"None", "Returned", "Died"} => run.attempt < MaxCallbacks

IInv == /\ TypeOK /\ AttemptsLeft /\ WorkKnown
        /\ DeployEdges /\ Covered /\ PreviousClean /\ CurrentClean

LEMMA InitOK == Init => IInv
<1> SUFFICES ASSUME Init PROVE IInv
  OBVIOUS
<1>1. run \in Run /\ run.stage = "None" /\ run.verdict = "FAILED"
  <2>1. NewRun \in Run /\ NewRun.verdict = "FAILED"
    BY LimitsAssumption DEF NewRun, Run, Stage
  <2>2. run = [NewRun EXCEPT !.stage = "None"] /\ "None" \in Stage
    BY DEF Init, Stage
  <2> QED BY <2>1, <2>2 DEF Run
<1>2. created \subseteq Reference /\ \A r \in created : r.request # "this"
  BY DEF Init, Request, Reference, Place
<1>3. edge = {} /\ complete = {} /\ answer = "None"
  BY DEF Init
<1>4. TypeOK
  BY <1>1, <1>2, <1>3, LimitsAssumption DEF Init, TypeOK, Time
<1>5. WorkKnown /\ AttemptsLeft
  BY <1>1, <1>2, <1>3 DEF WorkKnown, AttemptsLeft
<1>6. DeployEdges /\ Covered /\ PreviousClean /\ CurrentClean
  BY <1>3 DEF DeployEdges, Covered, PreviousClean, CurrentClean
<1> QED BY <1>4, <1>5, <1>6 DEF IInv

\* The sets a step adds to edge.
LEMMA ChangedType ==
  ASSUME NEW dist \in Dist \cup {NoDist}, NEW place \in Place,
         NEW cause \in {"deploy", "sweep"}
  PROVE  /\ Changed(dist, place, cause) \subseteq Change
         /\ \A c \in Changed(dist, place, cause) :
              c.dist = dist /\ c.place = place /\ c.cause = cause /\ dist \notin Gone
BY DEF Changed, Change

LEMMA DeployChangesType ==
  ASSUME TypeOK, req.type # "Delete"
  PROVE  /\ DeployChanges \subseteq Change
         /\ \A c \in DeployChanges : c.dist \notin Gone /\
              \/ c.dist = req.dist /\ c.place = "cur"
              \/ c.dist = req.prevDist /\ c.place = "prev" /\ req.overlap
<1>1. req.dist \in Dist \cup {NoDist} /\ req.prevDist \in Dist \cup {NoDist}
  BY DEF TypeOK, Request
<1>2. "cur" \in Place /\ "prev" \in Place
  BY DEF Place
<1> QED BY <1>1, <1>2, ChangedType DEF DeployChanges

\* Steps that change nothing but the stage, to one that claims no more.
LEMMA QuietStep ==
  ASSUME IInv, UNCHANGED <<req, deployed, edge, created>>, complete' \subseteq created,
         run' \in Run, invocations' \in 0 .. MaxInvocations, time' \in Time, left' \subseteq Place,
         answer' \in {"None", "SUCCESS", "FAILED"},
         run.stage # run'.stage => run'.stage \in {"Decode", "Callback", "Returned", "Died"},
         Succeeded' => Succeeded, AttemptsLeft'
  PROVE  IInv'
<1>1. TypeOK'
  BY DEF IInv, TypeOK
<1>2. WorkKnown'
  BY DEF IInv, WorkKnown, Done, Succeeded
<1>3. DeployEdges' /\ Covered'
  BY DEF IInv, DeployEdges, Covered
<1>4. PreviousClean' /\ CurrentClean'
  BY DEF IInv, PreviousClean, CurrentClean
<1> QED BY <1>1, <1>2, <1>3, <1>4 DEF IInv

LEMMA LambdaStep ==
  ASSUME IInv, Invoke \/ Tick \/ Die \/ Completes
  PROVE  IInv'
<1> USE DEF IInv, TypeOK
<1>1. CASE Invoke
  <2>1. NewRun \in Run
    BY LimitsAssumption DEF NewRun, Run, Stage
  <2>2. /\ invocations' \in 0 .. MaxInvocations /\ time' \in Time
        /\ run'.stage = "Decode" /\ run'.verdict = "FAILED" /\ AttemptsLeft'
    BY <1>1, LimitsAssumption DEF Invoke, NewRun, Time, AttemptsLeft
  <2> QED BY <1>1, <2>1, <2>2, QuietStep DEF Invoke, Succeeded
<1>2. CASE Tick
  <2>1. time' \in Time
    BY <1>2 DEF Tick, Time
  <2> QED BY <1>2, <2>1, QuietStep DEF Tick, Succeeded, AttemptsLeft
<1>3. CASE Die
  <2>1. run' \in Run /\ run'.stage = "Died" /\ run'.verdict = run.verdict
    BY <1>3 DEF Die, Run, Stage
  <2> QED BY <1>3, <2>1, QuietStep DEF Die, Succeeded, AttemptsLeft
<1>4. CASE Completes
  <2>1. complete' \subseteq created
    BY <1>4 DEF Completes
  <2> QED BY <1>4, <2>1, QuietStep DEF Completes, Succeeded, AttemptsLeft
<1> QED BY <1>1, <1>2, <1>3, <1>4

\* What a stage or a success claims of the work and of the deployed edge.
LEMMA WorkStep ==
  ASSUME IInv, Working, UnchangedInput, UNCHANGED deployed,
         left' \subseteq Place, edge' \subseteq Change,
         created \subseteq created', created' \subseteq Reference,
         run' \in Run, run'.attempt = run.attempt,
         \A c \in edge' : c.cause = "deploy" => c \in edge,
         \A r \in created' : r \in created \/
            (Done /\ \A c \in edge' : c.cause = "deploy" /\ c.dist = r.dist => c.place \notin r.paths),
         run'.stage = "Deploy" => req.valid /\ req.type # "Delete",
         run'.stage = "SweepCurrent" => req.valid /\ req.type = "Delete",
         run'.stage \in {"SweepPrevious", "InvalidatePrevious", "InvalidateCurrent", "Wait"}
           \/ run'.verdict = "SUCCESS" => Done,
         run'.stage \in {"InvalidateCurrent", "Wait"} \/ run'.verdict = "SUCCESS" =>
           \A c \in edge' : c.cause = "deploy" /\ c.dist # req.dist => ~req.authorized,
         run'.stage = "Wait" \/ run'.verdict = "SUCCESS" =>
           \A c \in edge' : c.cause = "deploy" => c.dist # req.dist
  PROVE  IInv'
<1>1. TypeOK'
  BY DEF IInv, TypeOK, UnchangedInput
<1>2. AttemptsLeft'
  BY DEF IInv, AttemptsLeft, Working, Ended
<1>3. Done' = Done
  BY DEF Done, UnchangedInput
<1>4. WorkKnown'
  BY <1>3 DEF IInv, WorkKnown, UnchangedInput
<1>5. DeployEdges' /\ Covered'
  BY DEF IInv, DeployEdges, Covered, UnchangedInput
<1>6. PreviousClean' /\ CurrentClean'
  BY DEF IInv, PreviousClean, CurrentClean, Succeeded, UnchangedInput
<1> QED BY <1>1, <1>2, <1>4, <1>5, <1>6 DEF IInv

\* Reporting a failure, whatever a sweep or an invalidation has changed.
LEMMA FailsStep ==
  ASSUME IInv, Working, Fails, UnchangedInput, UNCHANGED deployed,
         left' \subseteq Place, edge' \subseteq Change,
         created \subseteq created', created' \subseteq Reference,
         \A c \in edge' : c.cause = "deploy" => c \in edge,
         \A r \in created' : r \in created \/
            (Done /\ \A c \in edge' : c.cause = "deploy" /\ c.dist = r.dist => c.place \notin r.paths)
  PROVE  IInv'
<1>1. /\ run' \in Run /\ run'.stage = "Callback" /\ run'.verdict = "FAILED"
      /\ run'.attempt = run.attempt
  BY DEF IInv, TypeOK, Fails, Run, Stage
<1> QED BY <1>1, WorkStep

LEMMA GoesStage ==
  ASSUME TypeOK, NEW stage \in Stage, Goes(stage)
  PROVE  /\ run' \in Run /\ run'.stage = stage
         /\ run'.verdict = run.verdict /\ run'.attempt = run.attempt
BY DEF TypeOK, Goes, Run

\* Going on to a stage needs only what that stage claims.
LEMMA NextStage ==
  ASSUME IInv, Working, UnchangedInput, UNCHANGED deployed,
         left' \subseteq Place, edge' \subseteq Change,
         created \subseteq created', created' \subseteq Reference,
         run' \in Run, run'.attempt = run.attempt, run'.verdict = run.verdict,
         \A c \in edge' : c.cause = "deploy" => c \in edge,
         \A r \in created' : r \in created \/
            (Done /\ \A c \in edge' : c.cause = "deploy" /\ c.dist = r.dist => c.place \notin r.paths),
         run'.stage = "Deploy" => req.valid /\ req.type # "Delete",
         run'.stage = "SweepCurrent" => req.valid /\ req.type = "Delete",
         run'.stage \in {"SweepPrevious", "InvalidatePrevious", "InvalidateCurrent", "Wait"} => Done,
         run'.stage \in {"InvalidateCurrent", "Wait"} =>
           \A c \in edge' : c.cause = "deploy" /\ c.dist # req.dist => ~req.authorized,
         run'.stage = "Wait" => \A c \in edge' : c.cause = "deploy" => c.dist # req.dist
  PROVE  IInv'
<1>1. run.verdict = "SUCCESS" =>
        /\ Done
        /\ \A c \in edge : c.cause = "deploy" /\ c.dist # req.dist => ~req.authorized
        /\ \A c \in edge : c.cause = "deploy" => c.dist # req.dist
  BY DEF IInv, WorkKnown, PreviousClean, CurrentClean, Succeeded
<1> QED BY <1>1, WorkStep

\* No deadline and no error of a phase succeeds.
LEMMA FailureStep ==
  ASSUME IInv, WorkFails \/ WorkDeadline \/ DrainDeadline
  PROVE  IInv'
<1>1. /\ Working /\ Fails /\ UnchangedInput /\ UNCHANGED <<deployed, left, edge, created>>
  BY DEF WorkFails, WorkDeadline, DrainDeadline, Awaits, Working, Ended
<1> QED BY <1>1, FailsStep DEF IInv, TypeOK

LEMMA CallbackStep ==
  ASSUME IInv, CallbackDeadline \/ CallbackSucceeds \/ CallbackFails
  PROVE  IInv'
<1> USE DEF IInv, TypeOK
<1>0. run.attempt \in 0 .. MaxCallbacks /\ run.verdict \in {"SUCCESS", "FAILED"}
  BY DEF Run
<1>1. CASE CallbackDeadline
  <2>1. run' \in Run /\ run'.stage = "Died" /\ run'.verdict = run.verdict
    BY <1>1 DEF CallbackDeadline, Goes, Run, Stage
  <2> QED BY <1>1, <2>1, QuietStep DEF CallbackDeadline, Succeeded, AttemptsLeft
<1>2. CASE CallbackSucceeds
  <2>1. run.attempt + 1 \in 0 .. MaxCallbacks
    BY <1>0, <1>2, LimitsAssumption DEF CallbackSucceeds
  <2>2. run' \in Run /\ run'.stage = "Returned" /\ run'.verdict = run.verdict
    BY <1>2, <2>1 DEF CallbackSucceeds, Run, Stage
  <2>3. answer' \in {"None", "SUCCESS", "FAILED"} /\ (Succeeded' => Succeeded)
    BY <1>0, <1>2, <2>2 DEF CallbackSucceeds, Received, Succeeded
  <2> QED BY <1>2, <2>2, <2>3, QuietStep DEF CallbackSucceeds, AttemptsLeft
<1>3. CASE CallbackFails
  <2>1. /\ run.attempt + 1 \in 0 .. MaxCallbacks
        /\ ~LastAttempt => run.attempt + 1 < MaxCallbacks
    BY <1>0, <1>3, LimitsAssumption DEF CallbackFails, LastAttempt, AttemptsLeft
  <2>2. /\ run' \in Run /\ run'.verdict = run.verdict /\ AttemptsLeft'
        /\ run'.stage # run.stage => run'.stage = "Died"
    <3>1. CASE ~LastAttempt /\ run' = [run EXCEPT !.attempt = @ + 1]
      BY <2>1, <3>1 DEF Run, AttemptsLeft
    <3>2. CASE run' = [run EXCEPT !.stage = "Died", !.attempt = @ + 1]
      BY <2>1, <3>2 DEF Run, Stage, AttemptsLeft
    <3> QED BY <1>3, <3>1, <3>2 DEF CallbackFails
  <2>3. answer' \in {"None", "SUCCESS", "FAILED"} /\ (Succeeded' => Succeeded)
    BY <1>0, <1>3, <2>2 DEF CallbackFails, Received, Succeeded
  <2> QED BY <1>3, <2>2, <2>3, QuietStep DEF CallbackFails
<1> QED BY <1>1, <1>2, <1>3

LEMMA DecodeStep == IInv /\ Decode => IInv'
<1> SUFFICES ASSUME IInv, Decode PROVE IInv'
  OBVIOUS
<1>1. /\ Working /\ UnchangedInput /\ UNCHANGED <<deployed, left, edge, created>>
      /\ TypeOK
  BY DEF Decode, At, Working, Ended, IInv
<1>2. CASE ~req.valid
  BY <1>1, <1>2, FailsStep DEF Decode, TypeOK
<1>3. CASE req.valid /\ req.type # "Delete"
  <2>1. Goes("Deploy") /\ "Deploy" \in Stage
    BY <1>3 DEF Decode, Stage
  <2> QED BY <1>1, <1>3, <2>1, GoesStage, NextStage DEF TypeOK
<1>4. CASE req.valid /\ req.type = "Delete" /\ req.deleteCurrent
  <2>1. Goes("SweepCurrent") /\ "SweepCurrent" \in Stage
    BY <1>4 DEF Decode, Stage
  <2> QED BY <1>1, <1>4, <2>1, GoesStage, NextStage DEF TypeOK
<1>5. CASE req.valid /\ req.type = "Delete" /\ ~req.deleteCurrent
  <2>1. Goes("InvalidatePrevious") /\ "InvalidatePrevious" \in Stage /\ Done
    BY <1>5 DEF Decode, Stage, Done
  <2> QED BY <1>1, <2>1, GoesStage, NextStage DEF TypeOK
<1> QED BY <1>2, <1>3, <1>4, <1>5

\* Until the content is in place nothing has been answered or invalidated.
LEMMA DeployStep == IInv /\ (DeployPart \/ DeployEnd) => IInv'
<1> SUFFICES ASSUME IInv, DeployPart \/ DeployEnd PROVE IInv'
  OBVIOUS
<1>1. /\ TypeOK /\ UnchangedInput /\ UNCHANGED <<left, created>> /\ Working
      /\ req.valid /\ req.type # "Delete" /\ run.stage = "Deploy"
  BY DEF DeployPart, DeployEnd, At, IInv, WorkKnown, Working, Ended
<1>2. /\ run' \in Run /\ run'.attempt = run.attempt /\ run'.verdict = run.verdict
      /\ \/ DeployPart /\ run' = run
         \/ DeployEnd /\ run'.stage \in {"SweepPrevious", "InvalidatePrevious"}
  <2>1. CASE DeployPart
    BY <1>1, <2>1 DEF DeployPart, TypeOK
  <2>2. CASE DeployEnd
    <3>1. PICK stage \in {"SweepPrevious", "InvalidatePrevious"} : Goes(stage)
      BY <2>2 DEF DeployEnd
    <3> QED BY <1>1, <2>2, <3>1, GoesStage DEF Stage
  <2> QED BY <2>1, <2>2
<1>3. CASE deployed = "Yes"
  <2>1. DeployEnd /\ edge' = edge /\ deployed' = deployed /\ Done
    BY <1>1, <1>3 DEF DeployPart, DeployEnd, Done
  <2>2. run'.stage \in {"SweepPrevious", "InvalidatePrevious"}
    BY <1>2, <1>3 DEF DeployPart
  <2> QED BY <1>1, <1>2, <2>1, <2>2, NextStage DEF TypeOK
<1>4. CASE deployed # "Yes"
  <2>1. ~Done
    BY <1>1, <1>4 DEF Done
  <2>2. /\ run.verdict # "SUCCESS" /\ answer # "SUCCESS"
        /\ \A r \in created : r.request # "this"
    BY <2>1 DEF IInv, WorkKnown
  <2>3. edge' = edge \cup DeployChanges /\ deployed' \in {"Part", "Yes"}
    BY <1>4 DEF DeployPart, DeployEnd
  <2>4. run'.stage # "Deploy" => deployed' = "Yes"
    BY <1>1, <1>2 DEF DeployEnd
  <2>5. run'.stage \in {"Deploy", "SweepPrevious", "InvalidatePrevious"}
    BY <1>1, <1>2
  <2>6. TypeOK' /\ AttemptsLeft'
    BY <1>1, <1>2, <2>3, <2>5, DeployChangesType
       DEF TypeOK, UnchangedInput, IInv, AttemptsLeft
  <2>7. WorkKnown'
    BY <1>1, <1>2, <2>2, <2>4, <2>5 DEF WorkKnown, Done, UnchangedInput
  <2>8. DeployEdges' /\ Covered'
    BY <1>1, <2>2, <2>3, DeployChangesType DEF IInv, DeployEdges, Covered, UnchangedInput
  <2>9. PreviousClean' /\ CurrentClean'
    BY <1>1, <1>2, <2>2, <2>5 DEF PreviousClean, CurrentClean, Succeeded, UnchangedInput
  <2> QED BY <2>6, <2>7, <2>8, <2>9 DEF IInv
<1> QED BY <1>3, <1>4

\* Cleanups change no deployed object.
LEMMA SweepStep ==
  ASSUME IInv, Working, UnchangedInput, UNCHANGED <<deployed, created>>, Done,
         NEW place \in Place, NEW dist \in Dist \cup {NoDist},
         Sweep(place, dist, "InvalidatePrevious")
  PROVE  IInv'
<1>1. /\ Changed(dist, place, "sweep") \subseteq Change
      /\ \A c \in Changed(dist, place, "sweep") : c.cause = "sweep"
  BY ChangedType
<1>2. /\ left' \subseteq Place /\ edge' \subseteq Change /\ created' \subseteq Reference
      /\ \A c \in edge' : c.cause = "deploy" => c \in edge
  BY <1>1 DEF Sweep, IInv, TypeOK
<1>3. CASE Fails
  BY <1>2, <1>3, FailsStep
<1>4. CASE ~Fails
  <2>1. run.deletedCurrent \in BOOLEAN /\ run.cleanedPrevious \in BOOLEAN
    BY DEF IInv, TypeOK, Run
  <2>2. PICK d \in BOOLEAN, p \in BOOLEAN :
          run' = [run EXCEPT !.stage = "InvalidatePrevious",
                             !.deletedCurrent = d, !.cleanedPrevious = p]
    BY <1>4, <2>1 DEF Sweep
  <2>3. /\ run' \in Run /\ run'.attempt = run.attempt /\ run'.verdict = run.verdict
        /\ run'.stage = "InvalidatePrevious"
    BY <2>2 DEF IInv, TypeOK, Run, Stage
  <2> QED BY <1>2, <2>3, NextStage
<1> QED BY <1>3, <1>4

LEMMA SweepsStep == IInv /\ (SweepCurrent \/ SweepPrevious) => IInv'
<1> SUFFICES ASSUME IInv, SweepCurrent \/ SweepPrevious PROVE IInv'
  OBVIOUS
<1>1. req.dist \in Dist \cup {NoDist} /\ req.prevDist \in Dist \cup {NoDist}
  BY DEF IInv, TypeOK, Request
<1>2. Working /\ UnchangedInput /\ UNCHANGED <<deployed, created>> /\ Done
  BY DEF SweepCurrent, SweepPrevious, At, Working, Ended, IInv, WorkKnown, Done
<1>3. "cur" \in Place /\ "prev" \in Place
  BY DEF Place
<1>4. CASE SweepCurrent
  BY <1>1, <1>2, <1>3, <1>4, SweepStep DEF SweepCurrent
<1>5. CASE SweepPrevious
  BY <1>1, <1>2, <1>3, <1>5, SweepStep DEF SweepPrevious
<1> QED BY <1>4, <1>5

\* A caller reference of this event, new or known, leaves nothing that was
\* deployed under its paths.
LEMMA CreateStep ==
  ASSUME IInv, Working, UnchangedInput, UNCHANGED <<deployed, left>>, Done,
         NEW dist \in Dist, NEW paths \in SUBSET Place, NEW missing \in BOOLEAN, NEW next,
         CreateInvalidation(dist, paths, missing, next)
  PROVE  \/ IInv'
         \/ /\ Goes(next) /\ edge' \subseteq edge
            /\ created \subseteq created' /\ created' \subseteq Reference
            /\ \A r \in created' : r \in created \/
                 \A c \in edge' : c.cause = "deploy" /\ c.dist = r.dist => c.place \notin r.paths
            /\ \A c \in edge' : c.cause = "deploy" /\ c.dist = dist => c.place \notin paths
<1> DEFINE reference == CallerReference(dist, paths)
<1>1. /\ reference \in Reference /\ reference.request = "this"
      /\ reference.dist = dist /\ reference.paths = paths
  BY DEF CallerReference, Reference
<1> HIDE DEF reference
<1>2. CASE /\ dist \notin Gone
           /\ created' = created \cup {reference}
           /\ edge' = IF reference \in created THEN edge
                      ELSE {c \in edge : ~(c.dist = dist /\ c.place \in paths)}
           /\ Goes(next) \/ Fails
  <2>1. edge' \subseteq edge /\ created \subseteq created' /\ created' \subseteq Reference
    BY <1>1, <1>2 DEF IInv, TypeOK
  <2>2. \A c \in edge' : c.cause = "deploy" /\ c.dist = dist => c.place \notin paths
    <3>1. CASE reference \in created
      BY <1>1, <1>2, <3>1 DEF IInv, Covered
    <3>2. CASE reference \notin created
      BY <1>2, <3>2
    <3> QED BY <3>1, <3>2
  <2>3. \A r \in created' : r \in created \/
          \A c \in edge' : c.cause = "deploy" /\ c.dist = r.dist => c.place \notin r.paths
    BY <1>1, <1>2, <2>2
  <2>4. CASE Fails
    BY <2>1, <2>3, <2>4, FailsStep DEF IInv, TypeOK
  <2> QED BY <1>2, <2>1, <2>2, <2>3, <2>4
<1>3. CASE Fails /\ UNCHANGED <<edge, created>>
  BY <1>3, FailsStep DEF IInv, TypeOK
<1>4. CASE dist \in Gone /\ Goes(next) /\ UNCHANGED <<edge, created>>
  BY <1>4 DEF IInv, TypeOK, DeployEdges
<1> QED BY <1>2, <1>3, <1>4 DEF CreateInvalidation, reference

LEMMA InvalidatePreviousStep == IInv /\ InvalidatePrevious => IInv'
<1> SUFFICES ASSUME IInv, InvalidatePrevious PROVE IInv'
  OBVIOUS
<1>1. /\ Working /\ UnchangedInput /\ UNCHANGED <<deployed, left>> /\ Done /\ TypeOK
  BY DEF InvalidatePrevious, At, Working, Ended, IInv, WorkKnown
<1>2. /\ req.prevDist \in Dist \cup {NoDist} /\ req.dist \in Dist \cup {NoDist}
      /\ "InvalidateCurrent" \in Stage
  BY <1>1 DEF TypeOK, Request, Stage
<1>3. \A c \in edge : c.dist \in Dist
  BY <1>1 DEF TypeOK, Change
<1>4. \A c \in edge : c.cause = "deploy" /\ c.dist # req.dist =>
        c.dist = req.prevDist /\ c.place = "prev" /\ req.overlap
  BY DEF IInv, DeployEdges
<1>5. CASE InvalidatesPrevious
  <2>1. req.prevDist \in Dist
    BY <1>2, <1>5 DEF InvalidatesPrevious
  <2>2. CreateInvalidation(req.prevDist, {"prev"}, TRUE, "InvalidateCurrent")
    BY <1>5 DEF InvalidatePrevious
  <2>3. CASE IInv'
    BY <2>3
  <2>4. CASE
      /\ Goes("InvalidateCurrent") /\ edge' \subseteq edge
      /\ created \subseteq created' /\ created' \subseteq Reference
      /\ \A r \in created' : r \in created \/
           \A c \in edge' : c.cause = "deploy" /\ c.dist = r.dist => c.place \notin r.paths
      /\ \A c \in edge' : c.cause = "deploy" /\ c.dist = req.prevDist => c.place \notin {"prev"}
    <3>1. \A c \in edge' : c.cause = "deploy" /\ c.dist # req.dist => ~req.authorized
      BY <1>4, <2>4
    <3> QED BY <1>1, <1>2, <2>4, <3>1, GoesStage, NextStage DEF TypeOK
  <2> QED BY <1>1, <2>1, <2>2, <2>3, <2>4, CreateStep DEF Place
<1>6. CASE ~InvalidatesPrevious
  <2>1. Goes("InvalidateCurrent") /\ UNCHANGED <<edge, created>>
    BY <1>6 DEF InvalidatePrevious
  <2>2. \A c \in edge' : c.cause = "deploy" /\ c.dist # req.dist => ~req.authorized
    <3> SUFFICES ASSUME NEW c \in edge, c.cause = "deploy", c.dist # req.dist
                 PROVE  ~req.authorized
      BY <2>1
    <3>1. c.dist = req.prevDist /\ req.overlap /\ c.dist \in Dist
      BY <1>3, <1>4
    <3>2. req.prevDist \notin {req.dist, NoDist}
      BY <3>1, LimitsAssumption
    <3> QED BY <1>6, <3>1, <3>2 DEF InvalidatesPrevious, PreviousChanged
  <2> QED BY <1>1, <1>2, <2>1, <2>2, GoesStage, NextStage DEF TypeOK
<1> QED BY <1>5, <1>6

LEMMA InvalidateCurrentStep == IInv /\ InvalidateCurrent => IInv'
<1> SUFFICES ASSUME IInv, InvalidateCurrent PROVE IInv'
  OBVIOUS
<1>1. /\ Working /\ UnchangedInput /\ UNCHANGED <<deployed, left>> /\ Done /\ TypeOK
  BY DEF InvalidateCurrent, At, Working, Ended, IInv, WorkKnown
<1>2. req.dist \in Dist \cup {NoDist} /\ "Wait" \in Stage
  BY <1>1 DEF TypeOK, Request, Stage
<1>3. \A c \in edge : c.cause = "deploy" /\ c.dist # req.dist => ~req.authorized
  BY DEF InvalidateCurrent, At, IInv, PreviousClean
<1>4. \A c \in edge : c.cause = "deploy" /\ c.dist = req.dist =>
        req.type # "Delete" /\ c.place \in CurrentPaths /\ req.dist # NoDist
  BY <1>1, LimitsAssumption
     DEF IInv, DeployEdges, CurrentPaths, PreviousChanged, TypeOK, Change
<1>5. CASE InvalidatesCurrent
  <2>1. req.dist \in Dist /\ CurrentPaths \subseteq Place
    BY <1>2, <1>5 DEF InvalidatesCurrent, CurrentPaths, Place
  <2>2. CreateInvalidation(req.dist, CurrentPaths, req.type = "Delete", "Wait")
    BY <1>5 DEF InvalidateCurrent
  <2>3. CASE IInv'
    BY <2>3
  <2>4. CASE
      /\ Goes("Wait") /\ edge' \subseteq edge
      /\ created \subseteq created' /\ created' \subseteq Reference
      /\ \A r \in created' : r \in created \/
           \A c \in edge' : c.cause = "deploy" /\ c.dist = r.dist => c.place \notin r.paths
      /\ \A c \in edge' : c.cause = "deploy" /\ c.dist = req.dist => c.place \notin CurrentPaths
    <3>1. \A c \in edge' : c.cause = "deploy" => c.dist # req.dist
      BY <1>4, <2>4
    <3> QED BY <1>1, <1>2, <1>3, <2>4, <3>1, GoesStage, NextStage DEF TypeOK
  <2>5. (req.type = "Delete") \in BOOLEAN
    OBVIOUS
  <2> QED BY <1>1, <2>1, <2>2, <2>3, <2>4, <2>5, CreateStep
<1>6. CASE ~InvalidatesCurrent
  <2>1. Goes("Wait") /\ UNCHANGED <<edge, created>>
    BY <1>6 DEF InvalidateCurrent
  <2>2. \A c \in edge' : c.cause = "deploy" => c.dist # req.dist
    BY <1>4, <1>6, <2>1 DEF InvalidatesCurrent
  <2> QED BY <1>1, <1>2, <1>3, <2>1, <2>2, GoesStage, NextStage DEF TypeOK
<1> QED BY <1>5, <1>6

LEMMA WorkEndsStep == IInv /\ WorkEnds => IInv'
<1> SUFFICES ASSUME IInv, WorkEnds PROVE IInv'
  OBVIOUS
<1>1. /\ Working /\ UnchangedInput /\ UNCHANGED <<deployed, left, edge, created>>
      /\ run' = [run EXCEPT !.stage = "Callback", !.verdict = "SUCCESS"]
      /\ run.stage = "Wait" /\ TypeOK
  BY DEF WorkEnds, At, Working, Ended, IInv
<1>2. /\ Done
      /\ \A c \in edge : c.cause = "deploy" /\ c.dist # req.dist => ~req.authorized
      /\ \A c \in edge : c.cause = "deploy" => c.dist # req.dist
  BY <1>1 DEF IInv, WorkKnown, PreviousClean, CurrentClean
<1>3. run' \in Run /\ run'.stage = "Callback" /\ run'.attempt = run.attempt
  BY <1>1 DEF TypeOK, Run, Stage
<1> QED BY <1>1, <1>2, <1>3, WorkStep DEF TypeOK

\* IInv holds initially and every step preserves it.
THEOREM Inductive == Spec => []IInv
<1>1. IInv /\ [Next]_vars => IInv'
  <2> SUFFICES ASSUME IInv, [Next]_vars PROVE IInv'
    OBVIOUS
  <2>1. CASE UNCHANGED vars
    BY <2>1, QuietStep DEF vars, IInv, TypeOK, Succeeded, AttemptsLeft
  <2>2. CASE Next
    BY <2>1, <2>2, LambdaStep, DecodeStep, DeployStep, SweepsStep, InvalidatePreviousStep,
       InvalidateCurrentStep, WorkEndsStep, FailureStep, CallbackStep
       DEF Next, ProviderStep, Terminated
  <2> QED BY <2>1, <2>2
<1> QED BY <1>1, InitOK, PTL DEF Spec

\* TypeOK holds for any sets of distributions and any limits.
THEOREM TypeCorrect == Spec => []TypeOK
<1>1. IInv => TypeOK
  BY DEF IInv
<1> QED BY <1>1, Inductive, PTL

-----------------------------------------------------------------------------
(* Cleanups and invalidations *)

RequestKnown ==
  /\ req.type # "Update" => ~req.cleanup /\ ~req.overlap
  /\ req.type # "Delete" => ~req.deleteCurrent

\* What is left when the invalidations begin is nobody's to delete.
SweptKnown ==
  /\ run.stage = "SweepPrevious" => req.type # "Delete"
  /\ run.stage \in {"InvalidatePrevious", "InvalidateCurrent", "Wait"} =>
       \A place \in left : ~ToSweep(place)

\* What has been created when the one of the previous distribution is behind, and
\* when both are.
CreatedKnown ==
  /\ run.stage = "InvalidateCurrent" /\ InvalidatesPrevious /\ req.prevDist \notin Gone =>
       CallerReference(req.prevDist, {"prev"}) \in created
  /\ run.stage = "Wait" => Invalidations \subseteq created

\* Success is a verdict of the end only.
VerdictKnown == run.verdict = "SUCCESS" => ~Working

SInv == RequestKnown /\ SweptKnown /\ CreatedKnown /\ VerdictKnown /\ SuccessIsTrue

\* The work of an event only grows.
Grown ==
  /\ req' = req /\ left' \subseteq left /\ created \subseteq created' /\ complete \subseteq complete'
  /\ deployed = "Yes" => deployed' = "Yes"

SameRun ==
  /\ run'.deletedCurrent = run.deletedCurrent
  /\ run'.cleanedPrevious = run.cleanedPrevious

LEMMA InitSuccess == Init => SInv
<1> SUFFICES ASSUME Init PROVE SInv
  OBVIOUS
<1>1. run.stage = "None" /\ run.verdict = "FAILED" /\ answer = "None"
  BY DEF Init, NewRun
<1>2. RequestKnown
  BY DEF Init, RequestKnown
<1> QED BY <1>1, <1>2 DEF SInv, SweptKnown, CreatedKnown, VerdictKnown, SuccessIsTrue

LEMMA SameInvalidations ==
  ASSUME req' = req, SameRun
  PROVE  /\ Invalidations' = Invalidations
         /\ InvalidatesPrevious' = InvalidatesPrevious
<1>1. /\ PreviousChanged' = PreviousChanged /\ CurrentPaths' = CurrentPaths
      /\ InvalidatesCurrent' = InvalidatesCurrent
  BY DEF SameRun, PreviousChanged, CurrentPaths, InvalidatesCurrent
<1>2. InvalidatesPrevious' = InvalidatesPrevious
  BY <1>1 DEF InvalidatesPrevious
<1> QED BY <1>1, <1>2 DEF Invalidations, CallerReference

\* Work that is done stays done.
LEMMA DoneStays ==
  ASSUME Grown
  PROVE  Invalidated \subseteq Invalidated' /\ (WorkIsDone => WorkIsDone')
<1>1. Invalidated \subseteq Invalidated'
  BY DEF Grown, Invalidated
<1>2. ASSUME NEW dist, NEW place, Covers(dist, place)
      PROVE  Covers(dist, place)'
  BY <1>1, <1>2 DEF Covers
<1>3. req' = req
  BY DEF Grown
<1>4. ASSUME WorkIsDone PROVE WorkIsDone'
  <2>1. \A place \in left' : ~ToSweep(place)'
    BY <1>3, <1>4 DEF Grown, WorkIsDone, ToSweep
  <2>2. ASSUME req.type # "Delete"
        PROVE  /\ deployed' = "Yes"
               /\ req.dist # NoDist => Covers(req.dist, "cur")'
               /\ req.overlap /\ req.prevDist # NoDist /\ Authorized(req.prevDist) =>
                    Covers(req.prevDist, "prev")'
    BY <1>2, <1>3, <1>4, <2>2 DEF Grown, WorkIsDone, Covers
  <2> QED BY <1>3, <1>4, <2>1, <2>2 DEF WorkIsDone, Covers, Authorized
<1> QED BY <1>1, <1>4

\* A step that ends no work: what it needs to show is what its stage knows.
LEMMA MovesOn ==
  ASSUME SInv, Grown, answer' = "SUCCESS" => Succeeded,
         run'.verdict = "SUCCESS" => run.verdict = "SUCCESS" /\ SameRun /\ ~Working',
         SweptKnown', CreatedKnown'
  PROVE  SInv'
<1>1. req' = req
  BY DEF Grown
<1>2. RequestKnown'
  BY <1>1 DEF SInv, RequestKnown
<1>3. VerdictKnown'
  BY DEF VerdictKnown
<1>4. answer' = "SUCCESS" \/ run'.verdict = "SUCCESS" => WorkIsDone'
  BY DoneStays DEF SInv, SuccessIsTrue, Succeeded
<1>5. run'.verdict = "SUCCESS" => Invalidations' \subseteq Invalidated'
  BY <1>1, DoneStays, SameInvalidations DEF SInv, SuccessIsTrue
<1> QED BY <1>2, <1>3, <1>4, <1>5 DEF SInv, SuccessIsTrue

\* A step that keeps to its stage, or leaves the work.
LEMMA StaysOrEnds ==
  ASSUME SInv, Grown, answer' = "SUCCESS" => Succeeded,
         run'.verdict = "SUCCESS" => run.verdict = "SUCCESS" /\ SameRun /\ ~Working',
         \/ SameRun /\ run'.stage = run.stage
         \/ run'.stage \in {"Decode", "Callback", "Returned", "Died"}
  PROVE  SInv'
<1>1. CASE SameRun /\ run'.stage = run.stage
  <2>1. SweptKnown'
    BY <1>1 DEF SInv, SweptKnown, Grown, ToSweep
  <2>2. CreatedKnown'
    BY <1>1, SameInvalidations DEF SInv, CreatedKnown, Grown, CallerReference
  <2> QED BY <2>1, <2>2, MovesOn
<1>2. CASE run'.stage \in {"Decode", "Callback", "Returned", "Died"}
  <2>1. SweptKnown' /\ CreatedKnown'
    BY <1>2 DEF SweptKnown, CreatedKnown
  <2> QED BY <2>1, MovesOn
<1> QED BY <1>1, <1>2

LEMMA FailsSuccess ==
  ASSUME TypeOK, SInv, Grown, Fails, UnchangedInput
  PROVE  SInv'
<1>1. run'.stage = "Callback" /\ run'.verdict = "FAILED"
  BY DEF Fails, TypeOK, Run
<1>2. answer' = "SUCCESS" => Succeeded
  BY DEF UnchangedInput, Succeeded
<1> QED BY <1>1, <1>2, StaysOrEnds

LEMMA OutsideSuccess ==
  ASSUME TypeOK, SInv,
         \/ Invoke \/ Tick \/ Die \/ Completes \/ DeployPart
         \/ CallbackDeadline \/ CallbackSucceeds \/ CallbackFails \/ UNCHANGED vars
  PROVE  SInv'
<1>1. Grown
  BY DEF Grown, Invoke, Tick, Die, Completes, DeployPart, CallbackDeadline, CallbackSucceeds,
         CallbackFails, UnchangedInput, vars
<1>2. answer' = "SUCCESS" => Succeeded
  BY DEF Invoke, Tick, Die, Completes, DeployPart, CallbackDeadline, CallbackSucceeds,
         CallbackFails, Received, UnchangedInput, vars, Succeeded
<1>3. CASE Invoke
  BY <1>1, <1>2, <1>3, StaysOrEnds DEF Invoke, NewRun
<1>4. CASE run' = run
  BY <1>1, <1>2, <1>4, StaysOrEnds DEF SameRun, SInv, VerdictKnown, Working, Ended
<1>5. ASSUME NEW stage \in {"Callback", "Returned", "Died"}, NEW attempt,
             run' = [run EXCEPT !.stage = stage, !.attempt = attempt]
      PROVE  SInv'
  <2>1. SameRun /\ run'.verdict = run.verdict /\ run'.stage = stage
    BY <1>5 DEF TypeOK, Run, SameRun
  <2>2. ~Working'
    BY <2>1 DEF Working, Ended
  <2> QED BY <1>1, <1>2, <2>1, <2>2, StaysOrEnds
<1>6. CASE Die \/ CallbackDeadline
  <2>1. SameRun /\ run'.verdict = run.verdict /\ run'.stage = "Died"
    BY <1>6 DEF Die, CallbackDeadline, Goes, TypeOK, Run, SameRun
  <2>2. ~Working'
    BY <2>1 DEF Working, Ended
  <2> QED BY <1>1, <1>2, <2>1, <2>2, StaysOrEnds
<1>7. CASE CallbackSucceeds
  <2>1. run' = [run EXCEPT !.stage = "Returned", !.attempt = run.attempt + 1]
    BY <1>7 DEF CallbackSucceeds
  <2> QED BY <1>5, <2>1
<1>8. CASE CallbackFails
  <2>1. CASE run' = [run EXCEPT !.attempt = @ + 1]
    <3>1. /\ SameRun /\ run'.verdict = run.verdict /\ run'.stage = run.stage
          /\ run.stage = "Callback"
      BY <1>8, <2>1 DEF CallbackFails, TypeOK, Run, SameRun
    <3>2. ~Working'
      BY <3>1 DEF Working
    <3> QED BY <1>1, <1>2, <3>1, <3>2, StaysOrEnds
  <2>2. CASE run' = [run EXCEPT !.stage = "Died", !.attempt = run.attempt + 1]
    BY <1>5, <2>2
  <2> QED BY <1>8, <2>1, <2>2 DEF CallbackFails
<1> QED BY <1>3, <1>4, <1>6, <1>7, <1>8 DEF Tick, Completes, DeployPart, vars

\* A stage that goes on to another keeps the verdict of the beginning.
LEMMA GoesOn ==
  ASSUME TypeOK, SInv, Working, Grown, UnchangedInput,
         run'.verdict = run.verdict, SweptKnown', CreatedKnown'
  PROVE  SInv'
<1>1. run'.verdict # "SUCCESS"
  BY DEF SInv, VerdictKnown
<1>2. answer' = "SUCCESS" => Succeeded
  BY DEF UnchangedInput, Succeeded
<1> QED BY <1>1, <1>2, MovesOn

LEMMA DecodeSuccess ==
  ASSUME IInv, SInv, Decode \/ DeployEnd
  PROVE  SInv'
<1>0. TypeOK /\ WorkKnown
  BY DEF IInv
<1>1. Working /\ UnchangedInput /\ Grown
  BY DEF Decode, DeployEnd, At, Working, Ended, Grown, UnchangedInput
<1>2. CASE Fails
  BY <1>0, <1>1, <1>2, FailsSuccess
<1>3. ASSUME NEW stage \in {"Deploy", "SweepCurrent", "SweepPrevious", "InvalidatePrevious"},
             Goes(stage),
             stage = "SweepPrevious" => req.type # "Delete",
             stage = "InvalidatePrevious" => ~req.deleteCurrent /\ ~req.cleanup
      PROVE  SInv'
  <2>1. run'.stage = stage /\ run'.verdict = run.verdict
    BY <1>0, <1>3, GoesStage DEF Stage
  <2>2. SweptKnown' /\ CreatedKnown'
    BY <1>1, <1>3, <2>1 DEF SweptKnown, CreatedKnown, ToSweep, Grown
  <2> QED BY <1>0, <1>1, <2>1, <2>2, GoesOn
<1>4. RequestKnown
  BY DEF SInv
<1>5. CASE Decode
  BY <1>2, <1>3, <1>4, <1>5 DEF Decode, RequestKnown
<1>6. CASE DeployEnd
  <2>1. req.type # "Delete"
    BY <1>0, <1>6 DEF DeployEnd, At, WorkKnown
  <2> QED BY <1>3, <1>4, <1>6, <2>1 DEF DeployEnd, RequestKnown
<1> QED BY <1>5, <1>6

\* A cleanup that is through has left nothing of its place, and the request has no
\* other place emptied.
LEMMA SweepThrough ==
  ASSUME TypeOK, SInv, Working, UnchangedInput, UNCHANGED <<deployed, created>>,
         NEW place \in Place, NEW dist, Sweep(place, dist, "InvalidatePrevious"),
         \A other \in Place : other # place => ~ToSweep(other)
  PROVE  SInv'
<1>1. Grown
  BY DEF Sweep, Grown, UnchangedInput
<1>2. CASE Fails
  BY <1>1, <1>2, FailsSuccess
<1>3. CASE ~Fails
  <2>1. left' = left \ {place}
    BY <1>3 DEF Sweep
  <2>2. PICK d, p :
          run' = [run EXCEPT !.stage = "InvalidatePrevious",
                             !.deletedCurrent = d, !.cleanedPrevious = p]
    BY <1>3 DEF Sweep
  <2>3. run'.stage = "InvalidatePrevious" /\ run'.verdict = run.verdict
    BY <2>2 DEF TypeOK, Run
  <2>4. \A other \in left' : ~ToSweep(other)
    BY <2>1 DEF TypeOK
  <2>5. SweptKnown' /\ CreatedKnown'
    BY <1>1, <2>3, <2>4 DEF SweptKnown, CreatedKnown, Grown, ToSweep
  <2> QED BY <1>1, <2>3, <2>5, GoesOn
<1> QED BY <1>2, <1>3

LEMMA SweepSuccess ==
  ASSUME IInv, SInv, SweepCurrent \/ SweepPrevious
  PROVE  SInv'
<1>1. TypeOK /\ WorkKnown /\ RequestKnown /\ SweptKnown
  BY DEF IInv, SInv
<1>2. Working /\ UnchangedInput /\ UNCHANGED <<deployed, created>>
  BY DEF SweepCurrent, SweepPrevious, At, Working, Ended
<1>3. CASE SweepCurrent
  <2>1. req.type = "Delete"
    BY <1>1, <1>3 DEF SweepCurrent, At, WorkKnown
  <2>2. \A other \in Place : other # "cur" => ~ToSweep(other)
    BY <1>1, <2>1 DEF RequestKnown, ToSweep
  <2> QED BY <1>1, <1>2, <1>3, <2>2, SweepThrough DEF SweepCurrent, Place
<1>4. CASE SweepPrevious
  <2>1. req.type # "Delete"
    BY <1>1, <1>4 DEF SweepPrevious, At, SweptKnown
  <2>2. \A other \in Place : other # "prev" => ~ToSweep(other)
    BY <1>1, <2>1 DEF RequestKnown, ToSweep, Place
  <2> QED BY <1>1, <1>2, <1>4, <2>2, SweepThrough DEF SweepPrevious, Place
<1> QED BY <1>3, <1>4

\* A creation fails, or its caller reference is known from then on unless there is
\* no distribution.
LEMMA CreationKnown ==
  ASSUME TypeOK, SInv, UnchangedInput, UNCHANGED <<deployed, left>>,
         NEW dist, NEW paths, NEW missing, NEW next \in Stage,
         CreateInvalidation(dist, paths, missing, next)
  PROVE  \/ SInv'
         \/ /\ Goes(next) /\ Grown
            /\ dist \notin Gone => CallerReference(dist, paths) \in created'
<1>1. Grown
  BY DEF CreateInvalidation, Grown, UnchangedInput
<1>2. CASE Fails
  BY <1>1, <1>2, FailsSuccess
<1>3. CASE ~Fails
  BY <1>1, <1>3 DEF CreateInvalidation
<1> QED BY <1>2, <1>3

LEMMA InvalidatePreviousSuccess ==
  ASSUME IInv, SInv, InvalidatePrevious
  PROVE  SInv'
<1>1. /\ TypeOK /\ SweptKnown /\ Working /\ UnchangedInput /\ UNCHANGED <<deployed, left>>
      /\ run.stage = "InvalidatePrevious" /\ "InvalidateCurrent" \in Stage
  BY DEF InvalidatePrevious, At, Working, Ended, IInv, SInv, Stage
<1>2. SUFFICES ASSUME ~SInv' PROVE FALSE
  OBVIOUS
<1>3. /\ Goes("InvalidateCurrent") /\ Grown
      /\ InvalidatesPrevious /\ req.prevDist \notin Gone =>
           CallerReference(req.prevDist, {"prev"}) \in created'
  <2>1. CASE InvalidatesPrevious
    <3>1. CreateInvalidation(req.prevDist, {"prev"}, TRUE, "InvalidateCurrent")
      BY <2>1 DEF InvalidatePrevious
    <3> QED BY <1>1, <1>2, <3>1, CreationKnown
  <2>2. CASE ~InvalidatesPrevious
    BY <1>1, <2>2 DEF InvalidatePrevious, Grown, UnchangedInput
  <2> QED BY <2>1, <2>2
<1>4. SameRun /\ run'.stage = "InvalidateCurrent" /\ run'.verdict = run.verdict
  BY <1>1, <1>3 DEF Goes, TypeOK, Run, SameRun
<1>5. req' = req
  BY <1>3 DEF Grown
<1>6. SweptKnown'
  BY <1>1, <1>4, <1>5 DEF SweptKnown, ToSweep
<1>7. CreatedKnown'
  BY <1>3, <1>4, <1>5, SameInvalidations DEF CreatedKnown, CallerReference
<1> QED BY <1>1, <1>2, <1>3, <1>4, <1>6, <1>7, GoesOn

LEMMA InvalidateCurrentSuccess ==
  ASSUME IInv, SInv, InvalidateCurrent
  PROVE  SInv'
<1>1. /\ TypeOK /\ SweptKnown /\ CreatedKnown
      /\ Working /\ UnchangedInput /\ UNCHANGED <<deployed, left>>
      /\ run.stage = "InvalidateCurrent" /\ "Wait" \in Stage
  BY DEF InvalidateCurrent, At, Working, Ended, IInv, SInv, Stage
<1>2. SUFFICES ASSUME ~SInv' PROVE FALSE
  OBVIOUS
<1>3. /\ Goes("Wait") /\ Grown
      /\ InvalidatesCurrent /\ req.dist \notin Gone =>
           CallerReference(req.dist, CurrentPaths) \in created'
  <2>1. CASE InvalidatesCurrent
    <3>1. CreateInvalidation(req.dist, CurrentPaths, req.type = "Delete", "Wait")
      BY <2>1 DEF InvalidateCurrent
    <3> QED BY <1>1, <1>2, <3>1, CreationKnown
  <2>2. CASE ~InvalidatesCurrent
    BY <1>1, <2>2 DEF InvalidateCurrent, Grown, UnchangedInput
  <2> QED BY <2>1, <2>2
<1>4. SameRun /\ run'.stage = "Wait" /\ run'.verdict = run.verdict
  BY <1>1, <1>3 DEF Goes, TypeOK, Run, SameRun
<1>5. req' = req /\ created \subseteq created'
  BY <1>3 DEF Grown
<1>6. SweptKnown'
  BY <1>1, <1>4, <1>5 DEF SweptKnown, ToSweep
<1>7. Invalidations \subseteq created'
  BY <1>1, <1>3, <1>5 DEF Invalidations, CreatedKnown, CallerReference
<1>8. CreatedKnown'
  BY <1>4, <1>5, <1>7, SameInvalidations DEF CreatedKnown
<1> QED BY <1>1, <1>2, <1>3, <1>4, <1>6, <1>8, GoesOn

\* The last stage knows of the content and the cleanups, and the invalidations of
\* this invocation cover what the content replaces.
LEMMA WorkEndsSuccess ==
  ASSUME IInv, SInv, WorkEnds
  PROVE  SInv'
<1>1. /\ TypeOK /\ WorkKnown /\ SweptKnown /\ CreatedKnown /\ RequestKnown
      /\ UnchangedInput /\ UNCHANGED <<deployed, left, edge, created>>
      /\ run.stage = "Wait"
      /\ run' = [run EXCEPT !.stage = "Callback", !.verdict = "SUCCESS"]
  BY DEF WorkEnds, At, IInv, SInv
<1>2. /\ SameRun /\ run'.stage = "Callback" /\ req' = req
      /\ UNCHANGED <<left, deployed, created, complete>>
  BY <1>1 DEF TypeOK, Run, SameRun, UnchangedInput
<1>3. Invalidations \subseteq Invalidated
  BY <1>1 DEF WorkEnds, Invalidated, CreatedKnown
<1>4. Done /\ \A place \in left : ~ToSweep(place)
  BY <1>1 DEF WorkKnown, SweptKnown
<1>5. /\ req.dist \in Dist \cup {NoDist} /\ req.prevDist \in Dist \cup {NoDist}
      /\ CurrentPaths \subseteq Place
  BY <1>1 DEF TypeOK, Request, CurrentPaths, Place
<1>6. ASSUME InvalidatesCurrent, req.dist \notin Gone
      PROVE  CallerReference(req.dist, CurrentPaths) \in Invalidated
  <2>1. CallerReference(req.dist, CurrentPaths) \in Reference /\ req.dist \in Dist
    BY <1>5, <1>6 DEF CallerReference, Reference, InvalidatesCurrent
  <2>2. CallerReference(req.dist, CurrentPaths).dist = req.dist
    BY DEF CallerReference
  <2> QED BY <1>3, <1>6, <2>1, <2>2 DEF Invalidations
<1>7. ASSUME InvalidatesPrevious, req.prevDist \notin Gone
      PROVE  CallerReference(req.prevDist, {"prev"}) \in Invalidated
  <2>1. CallerReference(req.prevDist, {"prev"}) \in Reference
    BY <1>5, <1>7 DEF CallerReference, Reference, InvalidatesPrevious, Place
  <2>2. CallerReference(req.prevDist, {"prev"}).dist = req.prevDist
    BY DEF CallerReference
  <2> QED BY <1>3, <1>7, <2>1, <2>2 DEF Invalidations
<1>8. ASSUME req.type # "Delete", req.dist # NoDist
      PROVE  Covers(req.dist, "cur")
  BY <1>6, <1>8 DEF Covers, CallerReference, CurrentPaths, InvalidatesCurrent
<1>9. ASSUME req.type # "Delete", req.overlap, req.prevDist # NoDist, Authorized(req.prevDist)
      PROVE  Covers(req.prevDist, "prev")
  <2>1. CASE req.prevDist = req.dist
    BY <1>6, <1>9, <2>1
       DEF Covers, CallerReference, CurrentPaths, InvalidatesCurrent, PreviousChanged
  <2>2. CASE req.prevDist # req.dist
    <3>1. InvalidatesPrevious
      BY <1>9, <2>2 DEF InvalidatesPrevious, PreviousChanged, Authorized
    <3> QED BY <1>7, <3>1 DEF Covers, CallerReference
  <2> QED BY <2>1, <2>2
<1>10. WorkIsDone
  BY <1>4, <1>8, <1>9 DEF WorkIsDone, Done
<1>11. Grown
  BY <1>2 DEF Grown
<1>12. SuccessIsTrue'
  BY <1>2, <1>3, <1>10, <1>11, DoneStays, SameInvalidations DEF SuccessIsTrue
<1>13. RequestKnown' /\ SweptKnown' /\ CreatedKnown' /\ VerdictKnown'
  BY <1>1, <1>2 DEF RequestKnown, SweptKnown, CreatedKnown, VerdictKnown, Working
<1> QED BY <1>12, <1>13 DEF SInv

\* CloudFormation is told of success only when the content is in place, the
\* cleanups are through and the invalidations are made, and Completed when the
\* request waits, however the invocations of the event have shared the work.
THEOREM SuccessHolds == Spec => []SuccessIsTrue
<1>1. IInv /\ SInv /\ [Next]_vars => SInv'
  <2> SUFFICES ASSUME IInv, SInv, [Next]_vars PROVE SInv'
    OBVIOUS
  <2>1. TypeOK
    BY DEF IInv
  <2>2. CASE WorkFails \/ WorkDeadline \/ DrainDeadline
    <3>1. Fails /\ UnchangedInput /\ UNCHANGED <<deployed, left, edge, created>>
      BY <2>2 DEF WorkFails, WorkDeadline, DrainDeadline
    <3>2. Grown
      BY <3>1 DEF Grown, UnchangedInput
    <3> QED BY <2>1, <3>1, <3>2, FailsSuccess
  <2> QED BY <2>1, <2>2, OutsideSuccess, DecodeSuccess, SweepSuccess, InvalidatePreviousSuccess,
             InvalidateCurrentSuccess, WorkEndsSuccess
             DEF Next, ProviderStep, Terminated
<1>2. SInv => SuccessIsTrue
  BY DEF SInv
<1> QED BY <1>1, <1>2, Inductive, InitSuccess, PTL DEF Spec

\* After success no distribution that the provider may invalidate serves what the
\* deployment replaced, however many invocations died after they wrote it.
THEOREM DeployedEdgeHolds == Spec => []DeployedEdgeFresh
<1>1. IInv => DeployedEdgeFresh
  BY DEF IInv, PreviousClean, CurrentClean, Succeeded, DeployedEdgeFresh, Authorized
<1> QED BY <1>1, Inductive, PTL

=============================================================================
