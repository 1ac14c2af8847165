-------------------------- MODULE DestinationWrite --------------------------
(***************************************************************************)
(* One destination object written by one transfer task: upload_payload     *)
(* (s3/transfer/upload.rs) for an extracted entry, copy_source_object      *)
(* (s3/transfer/copy.rs) for a copied one.  The task skips an object the   *)
(* listing already shows in place, and otherwise sends a request guarded   *)
(* by what the listing saw, again after a retryable failure, with every    *)
(* ambiguous answer settled by a HeadObject of the destination.            *)
(*                                                                         *)
(* S3 and the network are external: a request may be applied and its       *)
(* answer lost, or be given up by the client and applied later, after the  *)
(* task is over.  Other writers of the bucket act at any time.             *)
(*                                                                         *)
(* An object is its ETag, standing for its bytes, and whether it carries   *)
(* this plan's copy identity in its metadata.  Waiting for the cooldown or *)
(* a backoff either goes on or meets the work deadline.                    *)
(*                                                                         *)
(* The operators named ...Slip are not part of the model: each is the      *)
(* definition that follows it with one plausible mistake, kept to show     *)
(* which property notices it.                                              *)
(***************************************************************************)
EXTENDS Naturals

CONSTANTS
  Content,     \* ETags an object may have
  Intended,    \* the one this task is to write
  Absent,      \* the ETag of no object
  SameSize,    \* the contents that are as long as the intended one
  MaxAttempts, \* destinationWriteRetry.maxAttempts; the code raises it to 1
  MaxForeign   \* bound on the writes of others

ASSUME ContentAssumption ==
  /\ Intended \in Content /\ Absent \notin Content
  /\ SameSize \subseteq Content /\ Intended \in SameSize
  /\ MaxAttempts \in Nat \ {0} /\ MaxForeign \in Nat

\* What a key holds; token: the object's shin-copy-identity is this plan's.
Object == [tag : Content \cup {Absent}, token : BOOLEAN]

VARIABLES
  object,    \* what the destination key holds
  foreign,   \* writes of others so far
  restored,  \* those that brought the listed ETag back
  listed,    \* the ETag the destination listing saw, or Absent
  usable,    \* the listing carried an ETag that normalize_etag accepts
  op,        \* "Put" or "Copy"
  multipart, \* the copied source has a multipart ETag
  pc,        \* where the task is
  attempt,   \* number of the current attempt
  hashed,    \* the body's MD5 is known (ZipBodyState.etag_md5)
  invalid,   \* the body failed its validation (validation_error)
  flying,    \* the current request has not been answered by S3
  late,      \* requests given up by the client that S3 may still apply
  reply,     \* the answer the client got
  verdict,   \* how the task ended
  writes,    \* requests of this task that S3 has applied
  held       \* the key has held the intended content since the listing

storeVars == <<object, foreign, restored, held, writes>>
planVars  == <<listed, usable, op, multipart>>
taskVars  == <<pc, attempt, hashed, invalid, flying, late, reply, verdict>>
vars == <<storeVars, planVars, taskVars>>

Control == {"Start", "Probe", "Cooldown", "Sent", "Judge", "Head", "Backoff",
            "Done"}
Reply   == {"None", "Ok", "Precondition", "Conflict", "Retryable", "Permanent"}
Verdict == {"None", "Skipped", "Ok", "Err", "Aborted"}

TypeOK ==
  /\ object \in Object
  /\ foreign \in 0 .. MaxForeign /\ restored \in 0 .. MaxForeign
  /\ listed \in Content \cup {Absent} /\ usable \in BOOLEAN
  /\ op \in {"Put", "Copy"} /\ multipart \in BOOLEAN
  /\ pc \in Control /\ attempt \in 0 .. MaxAttempts
  /\ hashed \in BOOLEAN /\ invalid \in BOOLEAN /\ flying \in BOOLEAN
  /\ late \in Nat /\ reply \in Reply /\ verdict \in Verdict
  /\ writes \in Nat /\ held \in BOOLEAN

\* The listing has just seen the key.  An entry compared before its upload has
\* a known MD5.
Init ==
  /\ object \in Object /\ (object.tag = Absent => ~object.token)
  /\ (object.token => object.tag = Intended)
  /\ foreign = 0 /\ restored = 0
  /\ listed = object.tag /\ usable \in BOOLEAN
  /\ op \in {"Put", "Copy"} /\ multipart \in BOOLEAN
  /\ (op = "Put" => ~multipart /\ ~object.token)
  /\ pc = "Start" /\ attempt = 0
  /\ hashed \in (IF op = "Put" THEN BOOLEAN ELSE {FALSE})
  /\ invalid = FALSE /\ flying = FALSE /\ late = 0
  /\ reply = "None" /\ verdict = "None"
  /\ writes = 0 /\ held = (object.tag = Intended)

-----------------------------------------------------------------------------
(* S3 and the other writers *)

\* If-None-Match: * for a key the listing did not see, If-Match for a usable
\* ETag, nothing otherwise (destination_write_precondition).
Guarded == listed = Absent \/ usable

\* A retry is sent without its precondition.
PreconditionSlip == Guarded /\ attempt < 2 => object.tag = listed

Precondition == Guarded => object.tag = listed

\* The request replaces the object.
Applied ==
  /\ Precondition
  /\ object' = [tag |-> Intended, token |-> op = "Copy"]
  /\ writes' = writes + 1 /\ held' = TRUE

\* S3 needs the whole validated body of a PutObject before it can apply it.
Complete == op = "Put" => hashed

Served(r) ==
  /\ pc = "Sent" /\ flying
  /\ flying' = FALSE /\ reply' = r /\ pc' = "Judge"
  /\ UNCHANGED <<planVars, attempt, hashed, invalid, late, verdict, foreign,
                 restored>>

\* The request is applied; its answer reaches the client or is lost.
RequestApplied ==
  /\ Complete /\ ~invalid /\ Applied
  /\ \E r \in {"Ok", "Retryable"} : Served(r)

\* 412: the destination precondition does not hold, or the copied source is no
\* longer the one planned (copy_source_if_match).
RequestRefused ==
  /\ ~Precondition \/ op = "Copy"
  /\ Served("Precondition")
  /\ UNCHANGED <<object, writes, held>>

\* 409, a throttle, a 5xx, a timeout of the connection, or a permanent error.
RequestFails ==
  /\ \E r \in {"Conflict", "Retryable", "Permanent"} : Served(r)
  /\ UNCHANGED <<object, writes, held>>

\* The client gives up on an answer, and the request is still on its way.
RequestLost ==
  /\ Complete /\ ~invalid
  /\ pc = "Sent" /\ flying
  /\ flying' = FALSE /\ late' = late + 1
  /\ reply' = "Retryable" /\ pc' = "Judge"
  /\ UNCHANGED <<storeVars, planVars, attempt, hashed, invalid, verdict>>

\* A request the client has given up arrives, or never does.
LateApplied ==
  /\ late > 0 /\ Applied
  /\ late' = late - 1
  /\ UNCHANGED <<planVars, foreign, restored, pc, attempt, hashed, invalid,
                 flying, reply, verdict>>

LateDropped ==
  /\ late > 0
  /\ late' = late - 1
  /\ UNCHANGED <<storeVars, planVars, pc, attempt, hashed, invalid, flying,
                 reply, verdict>>

\* Somebody else writes or deletes the key; nobody else writes this plan's
\* copy identity.
ForeignWrite ==
  /\ foreign < MaxForeign
  /\ \E t \in Content \cup {Absent} :
       /\ object' = [tag |-> t, token |-> FALSE]
       /\ restored' = restored + (IF t = listed /\ object.tag # listed THEN 1 ELSE 0)
       /\ held' = (held \/ t = Intended)
  /\ foreign' = foreign + 1
  /\ UNCHANGED <<writes, planVars, taskVars>>

-----------------------------------------------------------------------------
(* The task *)

Finish(v) == pc' = "Done" /\ verdict' = v

\* The listing shows the intended content: prepare_zip_entry_upload, the
\* catalog check and collect_copy_plans leave the object alone.  A multipart
\* ETag can never match.
InPlace == usable /\ listed = Intended /\ ~multipart

Start ==
  /\ pc = "Start"
  /\ IF InPlace
     THEN Finish("Skipped")
     ELSE /\ pc' = IF multipart /\ listed \in SameSize THEN "Probe" ELSE "Cooldown"
          /\ UNCHANGED verdict
  /\ attempt' = 1
  /\ UNCHANGED <<storeVars, planVars, hashed, invalid, flying, late, reply>>

\* destination_matches_copy_identity, reconcile_conditional_put: the object is
\* what this task writes.  The copy compares its identity, the upload the MD5.
HeadMatchesSlip == object.tag \in SameSize

HeadMatches ==
  IF op = "Copy" THEN object.token /\ object.tag \in SameSize
  ELSE hashed /\ object.tag = Intended

\* The identity probe of a multipart copy; a failed HEAD proves nothing.
Probe ==
  /\ pc = "Probe"
  /\ \/ HeadMatches /\ Finish("Skipped")
     \/ pc' = "Cooldown" /\ UNCHANGED verdict
  /\ UNCHANGED <<storeVars, planVars, attempt, hashed, invalid, flying, late, reply>>

\* The cooldown and the backoff end before the work deadline, or the task does.
SendRequest ==
  /\ pc = "Cooldown"
  /\ pc' = "Sent" /\ flying' = TRUE /\ reply' = "None"
  /\ UNCHANGED <<storeVars, planVars, attempt, hashed, invalid, late, verdict>>

CooldownDeadline ==
  /\ pc \in {"Cooldown", "Backoff"}
  /\ Finish("Err")
  /\ UNCHANGED <<storeVars, planVars, attempt, hashed, invalid, flying, late, reply>>

\* The backoff forgets the attempt it follows.
NextAttemptSlip ==
  /\ pc = "Backoff"
  /\ pc' = "Cooldown"
  /\ UNCHANGED <<storeVars, planVars, attempt, hashed, invalid, flying, late,
                 reply, verdict>>

NextAttempt ==
  /\ pc = "Backoff"
  /\ pc' = "Cooldown" /\ attempt' = attempt + 1
  /\ UNCHANGED <<storeVars, planVars, hashed, invalid, flying, late, reply, verdict>>

\* The body producer has read the whole entry: its hash is known and it is
\* valid, or it ends the body with an InvalidData error.
BodyEnds ==
  /\ pc = "Sent" /\ op = "Put" /\ flying /\ ~invalid
  /\ \/ hashed' = TRUE /\ UNCHANGED invalid
     \/ invalid' = TRUE /\ UNCHANGED hashed
  /\ UNCHANGED <<storeVars, planVars, pc, attempt, flying, late, reply, verdict>>

Ambiguous == reply \in {"Precondition", "Conflict"}

RetryableReply == reply \in {"Conflict", "Retryable"}

\* A copy settles its last retryable failure by HEAD as well.
NeedsHead ==
  Ambiguous \/ (op = "Copy" /\ RetryableReply /\ attempt = MaxAttempts)

\* A body that failed validation is not sent again.
RetryOrFail ==
  IF RetryableReply /\ ~invalid /\ attempt < MaxAttempts
  THEN pc' = "Backoff" /\ UNCHANGED verdict
  ELSE Finish("Err")

Judge ==
  /\ pc = "Judge"
  /\ IF reply = "Ok" THEN Finish("Ok")
     ELSE IF NeedsHead THEN pc' = "Head" /\ UNCHANGED verdict
     ELSE RetryOrFail
  /\ UNCHANGED <<storeVars, planVars, attempt, hashed, invalid, flying, late, reply>>

\* One HEAD without retries; one that fails or differs leaves the failure.
Reconcile ==
  /\ pc = "Head"
  /\ \/ HeadMatches /\ Finish("Ok")
     \/ RetryOrFail
  /\ UNCHANGED <<storeVars, planVars, attempt, hashed, invalid, flying, late, reply>>

\* The transfer aborts the task at one of its awaits.
Abort ==
  /\ pc \in {"Probe", "Cooldown", "Sent", "Head", "Backoff"}
  /\ Finish("Aborted")
  /\ flying' = FALSE
  /\ late' = late + (IF flying /\ Complete /\ ~invalid THEN 1 ELSE 0)
  /\ UNCHANGED <<storeVars, planVars, attempt, hashed, invalid, reply>>

-----------------------------------------------------------------------------
TaskStep ==
  \/ Start \/ Probe \/ SendRequest \/ NextAttempt \/ BodyEnds \/ Judge
  \/ Reconcile

ServiceStep == RequestApplied \/ RequestRefused \/ RequestFails \/ RequestLost

Terminated == pc = "Done" /\ late = 0 /\ UNCHANGED vars

Next ==
  \/ TaskStep \/ CooldownDeadline \/ Abort
  \/ ServiceStep \/ LateApplied \/ LateDropped \/ ForeignWrite
  \/ Terminated

Spec == Init /\ [][Next]_vars

\* The task runs.  S3 answers a request, or the connection fails, or the transfer
\* is aborted at the work deadline.
Fairness == WF_vars(TaskStep) /\ WF_vars(ServiceStep \/ Abort)

FairSpec == Spec /\ Fairness

-----------------------------------------------------------------------------
(* Properties *)

\* A task that reports success, by an answer or by reconciliation, or skips
\* its object, is right: the key has held the intended content since the
\* listing, whatever was lost, delayed or written by others.
SuccessIsTrue == verdict \in {"Ok", "Skipped"} => held

\* All requests of a task together are one conditional write: whatever is lost,
\* delayed or written by others, the object changes by a compare-and-swap on what
\* the listing saw, there is one report, a success is reported only when the key
\* has held the intended content since the listing, and a task that says it has
\* skipped the object has not written it and never will.
Write == INSTANCE ConditionalWrite WITH
           tag <- object.tag, guarded <- Guarded, shown <- held,
           written <- writes > 0, told <- verdict
WriteKept == Write!Spec

\* A guarded write takes effect once: a retry, or a request that arrives late or
\* after the task has ended, replaces neither what the task has written nor what
\* others wrote since the listing; it is applied again only after somebody else
\* brought the listed content back.
AppliedOnce ==
  Guarded /\ listed # Intended => writes <= 1 + restored

\* The task ends after at most MaxAttempts requests.
TaskEnds == <>(pc = "Done")

=============================================================================
