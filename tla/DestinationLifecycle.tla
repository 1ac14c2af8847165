------------------------ MODULE DestinationLifecycle ------------------------
(***************************************************************************)
(* Several custom resources that deploy to namespaces of the same buckets: *)
(* the S3 part of process_request_inner (cloudformation.rs), deploy        *)
(* (s3.rs) and the listing and deletion of s3/destination.rs.              *)
(*                                                                         *)
(* A create or update lists its namespace, remembers the stale keys it may *)
(* retain, transfers its objects, reads the ownership tags of the bucket   *)
(* and deletes what is stale, from the remembered keys or, when they were  *)
(* too many, from a second listing; an update that left a namespace and a  *)
(* delete then sweep a whole namespace under the same guard.               *)
(*                                                                         *)
(* CloudFormation is external: it tags a bucket for a resource before it   *)
(* sends the resource's request, sends one request of a resource at a      *)
(* time, and does not change tags while a cleanup they guard is running    *)
(* (docs/architecture.md, Shared-role threat model, states that as a       *)
(* condition of use).  The bucket exists while a request runs.             *)
(*                                                                         *)
(* Operators named ...Slip are not part of the model: each is the          *)
(* definition that follows it with one plausible mistake.                  *)
(***************************************************************************)
EXTENDS Namespace

CONSTANTS
  Owner,       \* the custom resources (DestinationOwnerId)
  KeyOrder,    \* the keys of all buckets, in listing order
  Places,      \* the namespaces a resource may be given
  Plans,       \* Plans[ns]: the manifests that may be deployed to ns
  Filtered,    \* keys the deployment filters leave alone
  MaxRetained, \* stale keys a listing remembers (4 MiB of keys in the code)
  PageSize,    \* keys of a listing page
  ChunkSize,   \* keys of a DeleteObjects request (1000 in the code)
  MaxAttempts, \* attempts of one such request
  MaxRequests  \* bound on the requests sent

Keys == {KeyOrder[i] : i \in DOMAIN KeyOrder}

ASSUME PlacesAssumption ==
  /\ Places # {}
  /\ Keys \cup Places \subseteq Seq(UNION {Range(s) : s \in Keys \cup Places})
  /\ KeyOrder \in Seq(Keys)
  /\ \A k, l \in DOMAIN KeyOrder : KeyOrder[k] = KeyOrder[l] => k = l
  /\ \A ns \in Places : /\ ns # NoNs
                        /\ Plans[ns] \subseteq SUBSET {k \in Keys \ Filtered :
                                           InNamespace(k, ns) /\ ~AtRoot(k, ns)}
  /\ {PageSize, ChunkSize, MaxAttempts} \subseteq Nat \ {0}
  /\ {MaxRetained, MaxRequests} \subseteq Nat

VARIABLES
  present,  \* keys that hold an object
  tag,      \* tag[o]: the namespace tagged for o, or NoNs
  known,    \* known[o]: where CloudFormation believes o's objects are, or NoNs
  job,      \* job[o]: the request of o the provider is working on
  kept,     \* kept[o]: keys that o deployed and that nobody may remove
  requests  \* requests sent

vars == <<present, tag, known, job, kept, requests>>

\* DeletionCandidates.  A full list is dropped in the code; here its keys stay for
\* CleanupComplete, and no action reads them.
Retain(S) == [keys |-> S, full |-> Cardinality(S) > MaxRetained]
HasCandidates(c) == c.keys # {}

NoCandidates == [keys |-> {}, full |-> FALSE]

\* A job: its stage; the request; the manifest keys not transferred yet; the
\* retained candidates of the destination and of the previous child (current_stale,
\* previous_stale); the legs of retained keys still to delete; the namespace that
\* is listed for deletion and the keys should_delete selects there; the listing's
\* position, whether another page follows, whether it has been fetched and its
\* keys to delete; the keys of this page not yet requested, those of the request
\* under way, and its attempt.
Begin(r, stage) ==
  [pc |-> stage, req |-> r, unsent |-> {}, current |-> NoCandidates,
   child |-> NoCandidates, legs |-> <<>>, sweep |-> NoNs, target |-> {},
   cursor |-> 0, more |-> FALSE, fetched |-> FALSE, ahead |-> {}, rest |-> {},
   pending |-> {}, attempt |-> 0]

AnyPlace == CHOOSE ns \in Places : TRUE

NoJob == Begin([type |-> "Create", ns |-> AnyPlace, prev |-> NoNs, manifest |-> {},
                stale |-> FALSE, authorized |-> FALSE, all |-> FALSE], "Idle")

\* Objects that nobody here deployed may be there already.
Init ==
  /\ present \in SUBSET Keys
  /\ tag = [o \in Owner |-> NoNs] /\ known = [o \in Owner |-> NoNs]
  /\ job = [o \in Owner |-> NoJob]
  /\ kept = [o \in Owner |-> {}]
  /\ requests = 0

-----------------------------------------------------------------------------
(* CloudFormation *)

Idle(o) == job[o].pc = "Idle"
Cleaning(o) == job[o].pc \in {"Legs", "Scan"}

\* The namespaces w may be entitled to clean up.
Reach(w, places) == {places[w], known[w], job[w].req.prev} \ {NoNs}

\* o's content stays protected where it is tagged, and elsewhere as long as
\* nobody else has been given its place.
StillKept(o, keys, tags) ==
  {k \in keys : \/ InNamespace(k, tags[o])
                \/ \A w \in Owner \ {o} : \A ns \in Reach(w, tags) : ~InNamespace(k, ns)}

\* Tags change while no other cleanup runs.
Retag(o, ns, keys) ==
  LET tags == [tag EXCEPT ![o] = ns] IN
  /\ \A w \in Owner \ {o} : ~Cleaning(w)
  /\ tag' = tags
  /\ kept' = [w \in Owner |-> StillKept(w, IF w = o THEN keys ELSE kept[w], tags)]

Send(o, r, stage) ==
  /\ Idle(o) /\ requests < MaxRequests
  /\ requests' = requests + 1
  /\ job' = [job EXCEPT ![o] = Begin(r, stage)]
  /\ UNCHANGED present

\* A create or an update; the update that undoes a failed one is among them.
SendDeploy(o) ==
  \E ns \in Places, stale, authorized \in BOOLEAN :
    \E manifest \in Plans[ns] :
      /\ Send(o, [type |-> IF known[o] = NoNs THEN "Create" ELSE "Update", ns |-> ns,
                  prev |-> known[o], manifest |-> manifest, stale |-> stale,
                  authorized |-> authorized, all |-> FALSE], "List")
      /\ known' = [known EXCEPT ![o] = ns]
      /\ Retag(o, ns, kept[o])

\* A delete; the tag may have gone before.
SendDelete(o) ==
  /\ known[o] # NoNs
  /\ \E all \in BOOLEAN, ns \in {NoNs, tag[o]} :
       /\ Send(o, [type |-> "Delete", ns |-> known[o], prev |-> NoNs, manifest |-> {},
                   stale |-> FALSE, authorized |-> FALSE, all |-> all],
               IF all THEN "Guard" ELSE "Done")
       /\ Retag(o, ns, {})
  /\ UNCHANGED known

\* A construct that replaces o takes o's tag away before o is deleted; the tag of a
\* deleted resource goes when its bucket is updated.
Untag(o) ==
  /\ Idle(o) /\ tag[o] # NoNs
  /\ Retag(o, NoNs, kept[o])
  /\ UNCHANGED <<present, known, job, requests>>

\* CloudFormation hears the end of the request.  The tag of a deleted resource is
\* taken away on its own, or stays with a bucket that is kept.
Respond(o) ==
  /\ job[o].pc \in {"Done", "Failed"}
  /\ known' = IF job[o].req.type = "Delete" /\ job[o].pc = "Done"
              THEN [known EXCEPT ![o] = NoNs] ELSE known
  /\ job' = [job EXCEPT ![o] = NoJob]
  /\ UNCHANGED <<present, tag, kept, requests>>

-----------------------------------------------------------------------------
(* What a request may delete *)

Protected(r) == ProtectedChild(r.prev, r.ns)
Change(r) == CleanupOfPrevious(r.prev, r.ns, r.authorized)

\* The previous child whose stale objects the update may delete.
CleanedChild(r) == IF Change(r) = "DeleteStaleWithinCurrent" THEN r.prev ELSE NoNs

\* Not in the manifest; the key of the namespace itself is never stale.
Unplanned(k, r) == InNamespace(k, r.ns) /\ ~AtRoot(k, r.ns) /\ k \notin r.manifest

\* record_destination_object, unplanned_destination_key
StaleKeys(r) ==
  {k \in Keys \ Filtered : Unplanned(k, r) /\ ~InNamespace(k, Protected(r))}

ChildStaleKeys(r) == {k \in Keys : Unplanned(k, r) /\ InNamespace(k, CleanedChild(r))}

\* has_competing_owner
Competing(o, ns, excluded) ==
  \E w \in Owner \ {o} : Competes(tag[w], ns, excluded)

-----------------------------------------------------------------------------
(* The provider *)

Step(o, stage) == job[o].pc = stage

\* plan_destination.  Objects already in place need no transfer.
ListDestination(o) ==
  LET r == job[o].req IN
  /\ Step(o, "List")
  /\ \E skipped \in {{}, r.manifest \cap present} :
       job' = [job EXCEPT ![o] =
         [@ EXCEPT !.pc = "Transfer", !.unsent = r.manifest \ skipped,
                   !.current = Retain(IF r.stale THEN present \cap StaleKeys(r) ELSE {}),
                   !.child = Retain(present \cap ChildStaleKeys(r))]]
  /\ UNCHANGED <<present, tag, known, kept, requests>>

Transfer(o) ==
  /\ Step(o, "Transfer")
  /\ \E k \in job[o].unsent :
       /\ present' = present \cup {k}
       /\ job' = [job EXCEPT ![o].unsent = @ \ {k}]
  /\ UNCHANGED <<tag, known, kept, requests>>

\* From here on the new content replaces the old.
TransfersEnd(o) ==
  /\ Step(o, "Transfer") /\ job[o].unsent = {}
  /\ job' = [job EXCEPT ![o].pc = "Tags"]
  /\ kept' = [kept EXCEPT ![o] = job[o].req.manifest]
  /\ UNCHANGED <<present, tag, known, requests>>

AfterDeploy(r) == IF Change(r) = "DeleteNamespace" THEN "Guard" ELSE "Done"

\* A job that starts to list ns for deletion.
Sweep(j, ns, target) ==
  [j EXCEPT !.pc = "Scan", !.sweep = ns, !.target = target, !.cursor = 0, !.more = TRUE]

\* delete_stale_objects: one reading of the tags for both legs.  Keys that were
\* all remembered are deleted leg by leg; otherwise one listing serves both.
ReadTags(o) ==
  LET r     == job[o].req
      cur   == job[o].current
      child == job[o].child
      doCurrent == /\ r.stale /\ HasCandidates(cur)
                   /\ ~Competing(o, r.ns, Protected(r))
      doChild   == /\ CleanedChild(r) # NoNs /\ HasCandidates(child)
                   /\ ~Competing(o, r.prev, NoNs)
  IN /\ Step(o, "Tags")
     /\ job' = [job EXCEPT ![o] =
          IF ~doCurrent /\ ~doChild THEN [@ EXCEPT !.pc = AfterDeploy(r)]
          ELSE IF (doCurrent => ~cur.full) /\ (doChild => ~child.full)
          THEN [@ EXCEPT !.pc = "Legs",
                         !.legs = (IF doCurrent THEN <<cur.keys>> ELSE <<>>)
                               \o (IF doChild THEN <<child.keys>> ELSE <<>>)]
          ELSE Sweep(@, r.ns, (IF doCurrent THEN StaleKeys(r) ELSE {})
                              \cup (IF doChild THEN ChildStaleKeys(r) ELSE {}))]
     /\ UNCHANGED <<present, tag, known, kept, requests>>

\* guarded_delete_namespace: of the namespace an update has left, or of the
\* namespace of a delete.
Swept(r)  == IF r.type = "Delete" THEN r.ns ELSE r.prev
Spared(r) == IF r.type = "Delete" THEN NoNs ELSE SparedChild(r.prev, r.ns)

GuardDelete(o) ==
  LET r == job[o].req IN
  /\ Step(o, "Guard")
  /\ job' = [job EXCEPT ![o] =
       IF Competing(o, Swept(r), Spared(r)) THEN [@ EXCEPT !.pc = "Done"]
       ELSE Sweep(@, Swept(r), {k \in Keys : /\ InNamespace(k, Swept(r))
                                             /\ ~InNamespace(k, Spared(r))})]
  /\ UNCHANGED <<present, tag, known, kept, requests>>

\* The first n of a set of positions in the listing order.
First(n, S) == {i \in S : Cardinality({j \in S : j < i}) < n}
Position(k) == CHOOSE i \in DOMAIN KeyOrder : KeyOrder[i] = k
At(S) == {KeyOrder[i] : i \in S}

\* DestinationListPager::next_page, which also runs while the keys of the page
\* before it are being deleted.
Listing(j) == {i \in DOMAIN KeyOrder : /\ i > j.cursor /\ KeyOrder[i] \in present
                                       /\ InNamespace(KeyOrder[i], j.sweep)}

\* The cursor is the last key of the page, kept or deleted.
CursorSlip(j, page) == j.cursor
Cursor(j, page) == IF page = {} THEN j.cursor ELSE Max(page)

TruncatedSlip(j, page) == page # Listing(j) /\ At(page) \cap j.target # {}
Truncated(j, page) == page # Listing(j)

FetchPage(o) ==
  LET j == job[o]
      page == First(PageSize, Listing(j))
  IN /\ Step(o, "Scan") /\ j.more /\ ~j.fetched
     /\ job' = [job EXCEPT ![o] =
          [@ EXCEPT !.cursor = Cursor(j, page), !.more = Truncated(j, page),
                    !.fetched = TRUE, !.ahead = At(page) \cap j.target]]
     /\ UNCHANGED <<present, tag, known, kept, requests>>

NothingToDelete(o) == job[o].rest = {} /\ job[o].pending = {}

TurnPage(o) ==
  /\ Step(o, "Scan") /\ job[o].fetched /\ NothingToDelete(o)
  /\ job' = [job EXCEPT ![o] =
       [@ EXCEPT !.rest = job[o].ahead, !.ahead = {}, !.fetched = FALSE]]
  /\ UNCHANGED <<present, tag, known, kept, requests>>

\* The last page is done: the request goes on, or ends.
ScanEnds(o) ==
  LET r == job[o].req IN
  /\ Step(o, "Scan") /\ ~job[o].more /\ ~job[o].fetched /\ NothingToDelete(o)
  /\ job' = [job EXCEPT ![o].pc =
       IF r.type # "Delete" /\ job[o].sweep = r.ns THEN AfterDeploy(r) ELSE "Done"]
  /\ UNCHANGED <<present, tag, known, kept, requests>>

NextLeg(o) ==
  LET legs == job[o].legs IN
  /\ Step(o, "Legs") /\ NothingToDelete(o)
  /\ job' = [job EXCEPT ![o] =
       IF legs = <<>> THEN [@ EXCEPT !.pc = AfterDeploy(job[o].req)]
       ELSE [@ EXCEPT !.rest = Head(legs), !.legs = Tail(legs)]]
  /\ UNCHANGED <<present, tag, known, kept, requests>>

\* delete_keys_optional_stats
TakeChunk(o) ==
  LET chunk == At(First(ChunkSize, {Position(k) : k \in job[o].rest})) IN
  /\ Cleaning(o) /\ job[o].rest # {} /\ job[o].pending = {}
  /\ job' = [job EXCEPT ![o] =
       [@ EXCEPT !.pending = chunk, !.rest = job[o].rest \ chunk, !.attempt = 1]]
  /\ UNCHANGED <<present, tag, known, kept, requests>>

\* Attempts are numbered from 1 to MaxAttempts.
MayRetry(attempt) == attempt < MaxAttempts

\* delete_key_chunk: S3 deletes some of the keys.  The answer names those that
\* failed, which are asked for again, or is lost with the whole request asked
\* for again; a permanent error or the last attempt ends the request.
DeleteObjects(o) ==
  /\ Cleaning(o) /\ job[o].pending # {}
  /\ \E deleted \in SUBSET job[o].pending :
       /\ present' = present \ deleted
       /\ \/ /\ deleted = job[o].pending
             /\ job' = [job EXCEPT ![o] = [@ EXCEPT !.pending = {}, !.attempt = 0]]
          \/ /\ MayRetry(job[o].attempt)
             /\ \E again \in {job[o].pending \ deleted, job[o].pending} \ {{}} :
                  job' = [job EXCEPT ![o] =
                    [@ EXCEPT !.pending = again, !.attempt = job[o].attempt + 1]]
          \/ job' = [job EXCEPT ![o].pc = "Failed"]
  /\ UNCHANGED <<tag, known, kept, requests>>

\* Any other error, and the work deadline.
Fail(o) ==
  /\ job[o].pc \notin {"Idle", "Done", "Failed"}
  /\ job' = [job EXCEPT ![o].pc = "Failed"]
  /\ UNCHANGED <<present, tag, known, kept, requests>>

-----------------------------------------------------------------------------
ProviderStep(o) ==
  \/ ListDestination(o) \/ Transfer(o) \/ TransfersEnd(o) \/ ReadTags(o)
  \/ GuardDelete(o) \/ FetchPage(o) \/ TurnPage(o) \/ ScanEnds(o) \/ NextLeg(o)
  \/ TakeChunk(o) \/ DeleteObjects(o)

Terminated ==
  /\ requests = MaxRequests /\ \A o \in Owner : Idle(o)
  /\ UNCHANGED vars

Next ==
  \/ \E o \in Owner : \/ SendDeploy(o) \/ SendDelete(o) \/ Untag(o) \/ Respond(o)
                      \/ ProviderStep(o) \/ Fail(o)
  \/ Terminated

Spec == Init /\ [][Next]_vars

-----------------------------------------------------------------------------
(* Properties *)

\* No cleanup of any resource removes an object that a deployment has put in
\* place: not what an update has just written when its namespace moves into or
\* out of its previous one, not the old content before the new one is complete,
\* and not the content of another tagged resource, whose tag may have come
\* after the cleanup listed its candidates.
KeptContent == \A o \in Owner : kept[o] \subseteq present

\* The stages in which a request deletes stale keys, and then those in which it
\* sweeps a whole namespace.
StaleStage(o) ==
  \/ job[o].pc \in {"Tags", "Legs"}
  \/ job[o].pc = "Scan" /\ job[o].req.type # "Delete" /\ job[o].sweep = job[o].req.ns
SweepStage(o) == job[o].pc \in {"Guard", "Scan"} /\ ~StaleStage(o)

StaleGone(o) ==
  LET r == job[o].req IN
  /\ r.stale /\ ~Competing(o, r.ns, Protected(r)) => present \cap job[o].current.keys = {}
  /\ CleanedChild(r) # NoNs /\ ~Competing(o, r.prev, NoNs) =>
       present \cap job[o].child.keys = {}

NamespaceGone(o) ==
  LET r == job[o].req IN
  \/ Competing(o, Swept(r), Spared(r))
  \/ \A k \in present : InNamespace(k, Swept(r)) => InNamespace(k, Spared(r))

\* A request that gets past its cleanup without failing has deleted all that it
\* was to delete, unless another resource has been tagged for it: after partial
\* failures, retries, pages that are listed while the keys before them are being
\* deleted, and candidates that were too many to remember.
CleanupComplete ==
  [][\A o \in Owner : job'[o].pc # "Failed" =>
       /\ StaleStage(o) /\ ~StaleStage(o)' => StaleGone(o)'
       /\ SweepStage(o) /\ ~SweepStage(o)' => NamespaceGone(o)']_vars

\* Objects of a previous namespace whose deletion the template does not authorize
\* are not removed by the update that leaves it, neither when it moves up and
\* lists them as its own, nor from a second listing.
PreviousRetained ==
  [][\A o \in Owner, k \in present \ present' :
       LET r == job[o].req IN
       job'[o] # job[o] /\ r.prev \notin {NoNs, r.ns} /\ ~r.authorized =>
         /\ InNamespace(k, r.ns)
         /\ Covers(r.ns, r.prev) => ~InNamespace(k, r.prev)]_vars

\* How far the request of o is from its end: the stages to come; the objects to
\* transfer; the legs; the pages, the page fetched ahead and the keys of the page
\* to delete; the attempts left for the keys asked for.
StagesLeft(o) ==
  CASE Step(o, "List") -> 6 [] Step(o, "Transfer") -> 5 [] Step(o, "Tags") -> 4
    [] Cleaning(o) /\ StaleStage(o) -> 3 [] Step(o, "Guard") -> 2
    [] Cleaning(o) /\ ~StaleStage(o) -> 1 [] OTHER -> 0

Distance(o) ==
  LET j == job[o] IN
  <<StagesLeft(o), Cardinality(j.unsent), Len(j.legs),
    Len(KeyOrder) - j.cursor + (IF j.more THEN 1 ELSE 0), IF j.fetched THEN 1 ELSE 0,
    Cardinality(j.rest), IF j.pending = {} THEN 0 ELSE 1 + MaxAttempts - j.attempt>>

Nearer(d, e) == \E i \in 1 .. 7 : d[i] < e[i] /\ \A n \in 1 .. i - 1 : d[n] = e[n]

\* Whatever is put into the bucket while pages are listed and deleted, and however
\* often keys fail, each step of a request brings it nearer to its end: none of
\* its loops can go on for ever.
RequestAdvances ==
  [][\A o \in Owner : ~Idle(o) /\ job'[o] # job[o] =>
       Idle(o)' \/ Nearer(Distance(o)', Distance(o))]_vars

=============================================================================
