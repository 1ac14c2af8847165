--------------------------- MODULE ProviderRequest ---------------------------
(***************************************************************************)
(* One CloudFormation request from its event to its answer: handle_event,  *)
(* process_request and invalidate_distributions (cloudformation.rs), the   *)
(* callback (cloudformation/callback.rs), the calls of CloudFront          *)
(* (cloudfront.rs) and the deadlines (deadline.rs).                        *)
(*                                                                         *)
(* Lambda invokes the provider again for the same event when an invocation *)
(* dies or returns an error, and CloudFormation keeps the first answer it  *)
(* gets.  Both are external, as is CloudFront, which takes a second        *)
(* creation under the same caller reference for the first.                 *)
(*                                                                         *)
(* The deployment to S3 is one phase here (modules DestinationWrite,       *)
(* TransferScheduler, SourceBlockStore, DestinationLifecycle).             *)
(*                                                                         *)
(* Operators named ...Slip are not part of the model: each is the          *)
(* definition that follows it with one plausible mistake.                  *)
(***************************************************************************)
EXTENDS Integers, FiniteSets

CONSTANTS
  Dist,            \* CloudFront distributions
  Gone,            \* those of them that no longer exist
  NoDist,          \* no distribution in the properties
  MaxInvocations,  \* invocations of Lambda for one event
  MaxCallbacks     \* CALLBACK_MAX_ATTEMPTS

ASSUME LimitsAssumption ==
  /\ NoDist \notin Dist /\ Gone \subseteq Dist
  /\ MaxInvocations \in Nat \ {0} /\ MaxCallbacks \in Nat \ {0}

VARIABLES
  req,         \* the request
  invocations, \* invocations so far
  run,         \* the invocation under way
  time,        \* which of its deadlines have passed
  deployed,    \* how much of the new content is in place
  left,        \* the namespaces that hold objects a cleanup may delete
  edge,        \* what distributions may still serve although it has changed
  created,     \* caller references that CloudFront knows
  complete,    \* those whose invalidation is Completed
  answer       \* what CloudFormation has been told first

vars == <<req, invocations, run, time, deployed, left, edge, created, complete, answer>>

(***************************************************************************)
(* "overlap": the previous namespace meets the current one; "cleanup": the *)
(* plan is to delete what the previous namespace holds outside the         *)
(* current one (DeleteNamespace).                                          *)
(***************************************************************************)
Place == {"cur", "prev"}

Request ==
  [type : {"Create", "Update", "Delete"}, valid : BOOLEAN, deleteCurrent : BOOLEAN,
   overlap : BOOLEAN, cleanup : BOOLEAN, dist : Dist \cup {NoDist},
   prevDist : Dist \cup {NoDist}, authorized : BOOLEAN, wait : BOOLEAN]

Stage == {"None", "Decode", "SweepCurrent", "Deploy", "SweepPrevious", "InvalidatePrevious",
          "InvalidateCurrent", "Wait", "Callback", "Returned", "Died"}

\* deletedCurrent and cleanedPrevious as in process_request_inner.
Run ==
  [stage : Stage, deletedCurrent : BOOLEAN, cleanedPrevious : BOOLEAN,
   verdict : {"SUCCESS", "FAILED"}, attempt : 0 .. MaxCallbacks]

\* No deadline has passed, the work deadline, the drain deadline, the callback's.
Time == 0 .. 3

Change == [dist : Dist, place : Place, cause : {"deploy", "sweep"}]
Reference == [request : {"this", "earlier"}, dist : Dist, paths : SUBSET Place]

TypeOK ==
  /\ req \in Request /\ run \in Run
  /\ invocations \in 0 .. MaxInvocations /\ time \in Time
  /\ deployed \in {"No", "Part", "Yes"} /\ left \subseteq Place
  /\ edge \subseteq Change /\ created \subseteq Reference /\ complete \subseteq created
  /\ answer \in {"None", "SUCCESS", "FAILED"}

NewRun == [stage |-> "Decode", deletedCurrent |-> FALSE, cleanedPrevious |-> FALSE,
           verdict |-> "FAILED", attempt |-> 0]

\* What the request has the provider empty.
ToSweep(place) == IF place = "cur" THEN req.deleteCurrent ELSE req.cleanup

Init ==
  /\ req \in {r \in Request :
       /\ r.type # "Update" => ~r.overlap /\ ~r.cleanup /\ r.prevDist = NoDist /\ ~r.authorized
       /\ r.type # "Delete" => ~r.deleteCurrent}
  /\ invocations = 0 /\ run = [NewRun EXCEPT !.stage = "None"] /\ time = 0
  /\ deployed = "No" /\ edge = {} /\ complete = {} /\ answer = "None"
  /\ left \in SUBSET {place \in Place : ToSweep(place)}
  /\ created \in SUBSET {[request |-> "earlier", dist |-> d, paths |-> {"cur"}] : d \in {req.dist} \ {NoDist}}

-----------------------------------------------------------------------------
(* Lambda and time *)

\* An asynchronous event is tried again after an error.  A function with little
\* time left starts with deadlines that have passed.
Invoke ==
  /\ run.stage \in {"None", "Died"} /\ invocations < MaxInvocations
  /\ invocations' = invocations + 1 /\ run' = NewRun
  /\ time' \in Time
  /\ UNCHANGED <<req, deployed, left, edge, created, complete, answer>>

Ended == run.stage \in {"None", "Returned", "Died"}
Working == ~Ended /\ run.stage # "Callback"

\* A timer that is due fires before the next deadline, many seconds later.
Tick ==
  /\ ~Ended /\ time < 3
  /\ time = 2 => ~Working
  /\ time' = time + 1
  /\ UNCHANGED <<req, invocations, run, deployed, left, edge, created, complete, answer>>

\* The process is killed, by Lambda's timeout among others.
Die ==
  /\ ~Ended
  /\ run' = [run EXCEPT !.stage = "Died"]
  /\ UNCHANGED <<req, invocations, time, deployed, left, edge, created, complete, answer>>

\* CloudFront has carried out an invalidation everywhere.
Completes ==
  /\ \E r \in created : r.request = "this" /\ r \notin complete /\ complete' = complete \cup {r}
  /\ UNCHANGED <<req, invocations, run, time, deployed, left, edge, created, answer>>

-----------------------------------------------------------------------------
(* process_request *)

Goes(stage) == run' = [run EXCEPT !.stage = stage]

\* `?` or a deadline that ends the work: the failure is reported.
Fails == run' = [run EXCEPT !.stage = "Callback", !.verdict = "FAILED"]

PreviousChanged == run.cleanedPrevious \/ req.overlap

InvalidatesPreviousSlip ==
  /\ run.cleanedPrevious /\ req.prevDist \notin {req.dist, NoDist}
  /\ req.authorized

InvalidatesPrevious ==
  /\ PreviousChanged /\ req.prevDist \notin {req.dist, NoDist}
  /\ req.authorized

InvalidatesCurrent ==
  /\ req.type = "Delete" => run.deletedCurrent
  /\ req.dist # NoDist

CurrentPaths ==
  IF PreviousChanged /\ req.prevDist = req.dist THEN {"cur", "prev"} ELSE {"cur"}

CallerReferenceSlip(dist, paths) == [request |-> "earlier", dist |-> dist, paths |-> paths]
CallerReference(dist, paths) == [request |-> "this", dist |-> dist, paths |-> paths]

\* The invalidations this invocation creates; there is none of a distribution
\* that no longer exists.
Invalidations ==
  {r \in Reference :
     /\ r.dist \notin Gone
     /\ \/ InvalidatesPrevious /\ r = CallerReference(req.prevDist, {"prev"})
        \/ InvalidatesCurrent /\ r = CallerReference(req.dist, CurrentPaths)}

\* What makes no call is over before a deadline can end it.
Awaits ==
  \/ run.stage \in {"SweepCurrent", "Deploy", "SweepPrevious"}
  \/ run.stage = "InvalidatePrevious" /\ InvalidatesPrevious
  \/ run.stage = "InvalidateCurrent" /\ InvalidatesCurrent
  \/ run.stage = "Wait" /\ req.wait /\ Invalidations # {}

At(stage) == run.stage = stage /\ (Awaits => time = 0)
UnchangedInput == UNCHANGED <<req, invocations, time, complete, answer>>

\* Decoding, the response that success would need, and the checks of the
\* invalidations to come: all before the first change to S3.
Decode ==
  /\ At("Decode")
  /\ IF ~req.valid THEN Fails
     ELSE IF req.type # "Delete" THEN Goes("Deploy")
     ELSE IF req.deleteCurrent THEN Goes("SweepCurrent")
     ELSE Goes("InvalidatePrevious")
  /\ UnchangedInput /\ UNCHANGED <<deployed, left, edge, created>>

\* The changes that a distribution may not know of yet.
Changed(dist, place, cause) ==
  IF dist \in Gone \cup {NoDist} THEN {} ELSE {[dist |-> dist, place |-> place, cause |-> cause]}

DeployChanges ==
  Changed(req.dist, "cur", "deploy")
    \cup (IF req.overlap THEN Changed(req.prevDist, "prev", "deploy") ELSE {})

\* Some objects are written.
DeployPart ==
  /\ At("Deploy") /\ deployed = "No"
  /\ deployed' = "Part" /\ edge' = edge \cup DeployChanges
  /\ UnchangedInput /\ UNCHANGED <<run, left, created>>

\* deploy; a second run finds the content of the first in place.
DeployEnd ==
  /\ At("Deploy")
  /\ deployed' = "Yes"
  /\ edge' = IF deployed = "Yes" THEN edge ELSE edge \cup DeployChanges
  /\ Goes(IF req.type = "Update" /\ req.cleanup THEN "SweepPrevious" ELSE "InvalidatePrevious")
  /\ UnchangedInput /\ UNCHANGED <<left, created>>

SweepSlip(place, dist, next) ==
  /\ left' \in {left, left \ {place}}
  /\ edge' = IF place \in left THEN edge \cup Changed(dist, place, "sweep") ELSE edge
  /\ run' = [run EXCEPT !.stage = next,
                        !.deletedCurrent = @ \/ (place = "cur" /\ place \in left),
                        !.cleanedPrevious = @ \/ (place = "prev" /\ place \in left)]

\* guarded_delete_namespace: everything is deleted, or it fails after some or all
\* of it.  Tags do not change during an event: a namespace that another owner
\* overlaps is one with nothing left to delete.
Sweep(place, dist, next) ==
  \/ /\ left' = left \ {place}
     /\ edge' = IF place \in left THEN edge \cup Changed(dist, place, "sweep") ELSE edge
     /\ run' = [run EXCEPT !.stage = next,
                           !.deletedCurrent = @ \/ (place = "cur" /\ place \in left),
                           !.cleanedPrevious = @ \/ (place = "prev" /\ place \in left)]
  \/ /\ place \in left
     /\ left' \in {left, left \ {place}}
     /\ edge' = edge \cup Changed(dist, place, "sweep")
     /\ Fails

SweepCurrent ==
  /\ At("SweepCurrent")
  /\ Sweep("cur", req.dist, "InvalidatePrevious")
  /\ UnchangedInput /\ UNCHANGED <<deployed, created>>

SweepPrevious ==
  /\ At("SweepPrevious")
  /\ Sweep("prev", req.prevDist, "InvalidatePrevious")
  /\ UnchangedInput /\ UNCHANGED <<deployed, created>>

-----------------------------------------------------------------------------
(* invalidate_distributions *)

\* create_invalidation: whatever changed before the first creation under a
\* reference is no longer served.  The answer may be lost.  A distribution that
\* does not exist is none to fail for where "missing" says so.
CreateInvalidation(dist, paths, missing, next) ==
  LET reference == CallerReference(dist, paths) IN
  \/ dist \in Gone /\ missing /\ Goes(next) /\ UNCHANGED <<edge, created>>
  \/ /\ dist \notin Gone
     /\ created' = created \cup {reference}
     /\ edge' = IF reference \in created THEN edge
                ELSE {c \in edge : ~(c.dist = dist /\ c.place \in paths)}
     /\ Goes(next) \/ Fails
  \/ Fails /\ UNCHANGED <<edge, created>>

InvalidatePrevious ==
  /\ At("InvalidatePrevious")
  /\ IF InvalidatesPrevious
     THEN CreateInvalidation(req.prevDist, {"prev"}, TRUE, "InvalidateCurrent")
     ELSE Goes("InvalidateCurrent") /\ UNCHANGED <<edge, created>>
  /\ UnchangedInput /\ UNCHANGED <<deployed, left>>

InvalidateCurrent ==
  /\ At("InvalidateCurrent")
  /\ IF InvalidatesCurrent
     THEN CreateInvalidation(req.dist, CurrentPaths, req.type = "Delete", "Wait")
     ELSE Goes("Wait") /\ UNCHANGED <<edge, created>>
  /\ UnchangedInput /\ UNCHANGED <<deployed, left>>

WorkEndsSlip ==
  /\ At("Wait")
  /\ run' = [run EXCEPT !.stage = "Callback", !.verdict = "SUCCESS"]
  /\ UnchangedInput /\ UNCHANGED <<deployed, left, edge, created>>

\* wait_for_invalidation, at the same time, of all that was created, whichever
\* invocation was first to; the work is done.
WorkEnds ==
  /\ At("Wait")
  /\ req.wait => Invalidations \subseteq complete
  /\ run' = [run EXCEPT !.stage = "Callback", !.verdict = "SUCCESS"]
  /\ UnchangedInput /\ UNCHANGED <<deployed, left, edge, created>>

WorkFailsSlip ==
  /\ run.stage \in {"Deploy", "SweepCurrent", "SweepPrevious", "Wait"}
  /\ Awaits /\ time < 2
  /\ Goes("InvalidatePrevious")
  /\ UnchangedInput /\ UNCHANGED <<deployed, left, edge, created>>

\* An error of any phase, a poll that would pass the work deadline among them.
WorkFails ==
  /\ run.stage \in {"Deploy", "SweepCurrent", "SweepPrevious", "Wait"}
  /\ Awaits /\ time < 2
  /\ Fails
  /\ UnchangedInput /\ UNCHANGED <<deployed, left, edge, created>>

\* timeout_at of the work deadline, around every phase.
WorkDeadline ==
  /\ Awaits /\ time = 1
  /\ Fails
  /\ UnchangedInput /\ UNCHANGED <<deployed, left, edge, created>>

\* timeout_at(deadlines.drain()) in handle_event.
DrainDeadlineSlip ==
  /\ run.stage = "Deploy" /\ time >= 2
  /\ Fails
  /\ UnchangedInput /\ UNCHANGED <<deployed, left, edge, created>>

DrainDeadline ==
  /\ Awaits /\ time >= 2
  /\ Fails
  /\ UnchangedInput /\ UNCHANGED <<deployed, left, edge, created>>

-----------------------------------------------------------------------------
(* send_response_with_policy *)

Received == answer' = IF answer = "None" THEN run.verdict ELSE answer

\* The callback's deadline, before an attempt, in it, or in the wait after it.
CallbackDeadline ==
  /\ run.stage = "Callback" /\ time = 3
  /\ Goes("Died")
  /\ UNCHANGED <<req, invocations, time, deployed, left, edge, created, complete, answer>>

CallbackSucceeds ==
  /\ run.stage = "Callback" /\ time < 3 /\ run.attempt < MaxCallbacks
  /\ Received
  /\ run' = [run EXCEPT !.stage = "Returned", !.attempt = @ + 1]
  /\ UNCHANGED <<req, invocations, time, deployed, left, edge, created, complete>>

LastAttempt == run.attempt + 1 = MaxCallbacks

\* A refused, lost or unanswered PUT: another attempt when the error is
\* retryable, or else handle_event returns the error to Lambda.
CallbackFails ==
  /\ run.stage = "Callback" /\ time < 3
  /\ Received \/ UNCHANGED answer
  /\ \/ ~LastAttempt /\ run' = [run EXCEPT !.attempt = @ + 1]
     \/ run' = [run EXCEPT !.stage = "Died", !.attempt = @ + 1]
  /\ UNCHANGED <<req, invocations, time, deployed, left, edge, created, complete>>

-----------------------------------------------------------------------------
ProviderStep ==
  \/ Decode \/ DeployEnd \/ SweepCurrent \/ SweepPrevious
  \/ InvalidatePrevious \/ InvalidateCurrent \/ WorkEnds
  \/ WorkDeadline \/ DrainDeadline
  \/ CallbackDeadline \/ CallbackSucceeds \/ CallbackFails

Over == run.stage = "Returned" \/ (run.stage = "Died" /\ invocations = MaxInvocations)

Terminated == Over /\ UNCHANGED vars

Next == \/ Invoke \/ Tick \/ Die \/ Completes
        \/ ProviderStep \/ DeployPart \/ WorkFails
        \/ Terminated

Spec == Init /\ [][Next]_vars

FairSpec == Spec /\ WF_vars(Invoke) /\ WF_vars(Tick) /\ WF_vars(ProviderStep)

-----------------------------------------------------------------------------
(* Properties *)

Authorized(dist) == dist = req.dist \/ req.authorized

\* The invalidations that count: those that exist, or those that are Completed
\* when the request asks for the wait.
Invalidated == IF req.wait THEN complete ELSE created

\* An invalidation of this event covers a place of a distribution that exists.
Covers(dist, place) ==
  dist \notin Gone =>
    \E r \in Invalidated : r.request = "this" /\ r.dist = dist /\ place \in r.paths

\* All that the request asks for: the content, the cleanups, and the invalidations
\* of what the content replaces.
WorkIsDone ==
  /\ req.valid
  /\ \A place \in left : ~ToSweep(place)
  /\ req.type # "Delete" =>
       /\ deployed = "Yes"
       /\ req.dist # NoDist => Covers(req.dist, "cur")
       /\ req.overlap /\ req.prevDist # NoDist /\ Authorized(req.prevDist) => Covers(req.prevDist, "prev")

\* CloudFormation is told of success only when all of the work is done, by this
\* invocation or an earlier one of the same event: nothing is left that a cleanup
\* was to delete, the content is in place, and what it replaces is invalidated, to
\* the end when the request waits.  An invocation that reports success has also
\* invalidated what its own cleanups deleted.
SuccessIsTrue ==
  /\ answer = "SUCCESS" \/ run.verdict = "SUCCESS" => WorkIsDone
  /\ run.verdict = "SUCCESS" => Invalidations \subseteq Invalidated

\* After success no distribution serves what the deployment has replaced, in the
\* current namespace or in the part of the previous one that it overlaps, even
\* when the invocation that wrote it died and another took its place.
DeployedEdgeFresh ==
  answer = "SUCCESS" =>
    \A c \in edge : Authorized(c.dist) => c.cause # "deploy"

\* The same for the objects that the cleanups have deleted, when the event is
\* over: docs/architecture.md, "Invalidate after S3 mutation".
EdgeFresh ==
  answer = "SUCCESS" /\ run.stage = "Returned" /\ run.verdict = "SUCCESS" =>
    \A c \in edge : ~Authorized(c.dist)

\* An invocation comes to its end, and the event to its last invocation.
EventEnds == <>[]Over

=============================================================================
