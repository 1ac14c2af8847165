--------------------- MODULE DestinationLifecycleProofs ---------------------
(***************************************************************************)
(* Theorems about DestinationLifecycle, for any resources, namespaces and  *)
(* manifests, any limits of listings and deletions, and any number of      *)
(* requests: no cleanup removes what a deployment has put in place, nor    *)
(* what an update may not touch of the namespace it leaves; a cleanup that *)
(* succeeds has left nothing behind; and every step of a request brings it *)
(* nearer to its end.                                                      *)
(***************************************************************************)
EXTENDS DestinationLifecycle, FiniteSetTheorems, WellFoundedInduction, TLAPS

-----------------------------------------------------------------------------
(* Namespaces: what the ownership test protects, for every two namespaces   *)
(* and every key, and how the relation of two namespaces decides a cleanup  *)

\* A prefix, element by element.
LEMMA PrefixElements ==
  ASSUME NEW S, NEW s \in Seq(S), NEW t \in Seq(S)
  PROVE  IsPrefix(s, t) <=> /\ Len(s) <= Len(t)
                            /\ \A i \in 1 .. Len(s) : s[i] = t[i]
<1>1. ASSUME IsPrefix(s, t), NEW i \in 1 .. Len(s)
      PROVE  s[i] = t[i]
  <2>1. SubSeq(s, 1, Len(s))[i] = s[i] /\ SubSeq(t, 1, Len(s))[i] = t[i]
    BY <1>1 DEF IsPrefix
  <2> QED BY <1>1, <2>1 DEF IsPrefix
<1>2. ASSUME Len(s) <= Len(t), \A i \in 1 .. Len(s) : s[i] = t[i]
      PROVE  IsPrefix(s, t)
  BY <1>2 DEF IsPrefix
<1> QED BY <1>1, <1>2 DEF IsPrefix

\* Two namespaces that a key lies under overlap.
LEMMA CommonKeyOverlaps ==
  ASSUME NEW S, NEW a \in Seq(S), NEW b \in Seq(S), NEW k \in Seq(S),
         IsPrefix(a, k), IsPrefix(b, k)
  PROVE  Overlap(a, b)
<1>1. \A i \in 1 .. Len(a) : a[i] = k[i]
  BY PrefixElements
<1>2. \A i \in 1 .. Len(b) : b[i] = k[i]
  BY PrefixElements
<1>3. CASE Len(a) <= Len(b)
  <2>1. \A i \in 1 .. Len(a) : a[i] = b[i]
    BY <1>1, <1>2, <1>3
  <2> QED BY <1>3, <2>1, PrefixElements DEF Overlap, Covers
<1>4. CASE Len(b) <= Len(a)
  <2>1. \A i \in 1 .. Len(b) : b[i] = a[i]
    BY <1>1, <1>2, <1>4
  <2> QED BY <1>4, <2>1, PrefixElements DEF Overlap, Covers
<1> QED BY <1>3, <1>4

\* A key of a namespace is a key of every namespace around it.
LEMMA InnerKey ==
  ASSUME NEW S, NEW a \in Seq(S), NEW b \in Seq(S), NEW k \in Seq(S),
         a # NoNs, Covers(a, b), InNamespace(k, b)
  PROVE  InNamespace(k, a)
<1>1. /\ IsPrefix(a, b) /\ IsPrefix(b, k) /\ b # k
  BY DEF Covers, InNamespace, IsStrictPrefix
<1>2. Len(a) <= Len(b) /\ \A i \in 1 .. Len(a) : a[i] = b[i]
  BY <1>1, PrefixElements
<1>3. Len(b) <= Len(k) /\ \A i \in 1 .. Len(b) : b[i] = k[i]
  BY <1>1, PrefixElements
<1>4. Len(a) <= Len(k) /\ \A i \in 1 .. Len(a) : a[i] = k[i]
  BY <1>2, <1>3
<1>5. IsPrefix(a, k)
  BY <1>4, PrefixElements
<1>6. a # k
  <2>1. SUFFICES ASSUME a = k PROVE FALSE
    OBVIOUS
  <2>2. Len(b) = Len(k) /\ \A i \in 1 .. Len(b) : b[i] = k[i]
    BY <2>1, <1>2, <1>3
  <2> QED BY <1>1, <2>2
<1> QED BY <1>5, <1>6 DEF InNamespace, IsStrictPrefix

\* The guard of every cleanup: when the tag of another resource does not compete,
\* each of its keys that the cleanup could reach lies in the namespace the cleanup
\* spares (owner_tag_overlaps_cleanup).
THEOREM NoCompetitorNoLoss ==
  ASSUME NEW S, NEW owner \in Seq(S), NEW cleanup \in Seq(S), NEW excluded \in Seq(S),
         NEW k \in Seq(S), owner # NoNs,
         ~Competes(owner, cleanup, excluded),
         InNamespace(k, owner), InNamespace(k, cleanup)
  PROVE  InNamespace(k, excluded)
<1>1. Overlap(owner, cleanup)
  BY CommonKeyOverlaps DEF InNamespace, IsStrictPrefix
<1>2. excluded # NoNs /\ Covers(excluded, owner)
  BY <1>1 DEF Competes
<1> QED BY <1>2, InnerKey

\* Two different places are related in exactly the way the cleanup of an update
\* reads it: a protected child lies inside the current namespace, a spared child
\* inside the previous one, and there is never both (plan_destination_change_cleanup).
THEOREM OneChildOnly ==
  ASSUME NEW S, NEW previous \in Seq(S), NEW current \in Seq(S), current # NoNs
  PROVE  /\ ProtectedChild(previous, current) # NoNs =>
              /\ ProtectedChild(previous, current) = previous
              /\ Covers(current, previous)
         /\ SparedChild(previous, current) # NoNs =>
              /\ SparedChild(previous, current) = current
              /\ Covers(previous, current)
         /\ \/ ProtectedChild(previous, current) = NoNs
            \/ SparedChild(previous, current) = NoNs
BY DEF ProtectedChild, SparedChild, Relation, Covers, NoNs

-----------------------------------------------------------------------------
(* Types *)

Stage == {"Idle", "List", "Transfer", "Tags", "Legs", "Scan", "Guard", "Done", "Failed"}

Request ==
  [type : {"Create", "Update", "Delete"}, ns : Places, prev : Places \cup {NoNs},
   manifest : SUBSET Keys, stale : BOOLEAN, authorized : BOOLEAN, all : BOOLEAN]

Candidates == [keys : SUBSET Keys, full : BOOLEAN]

\* Where a listing can stand: before the first key, or at a key.
Positions == 0 .. Len(KeyOrder)

Job ==
  [pc : Stage, req : Request, unsent : SUBSET Keys, current : Candidates,
   child : Candidates, legs : Seq(SUBSET Keys), sweep : Places \cup {NoNs},
   target : SUBSET Keys, cursor : Positions, more : BOOLEAN, fetched : BOOLEAN,
   ahead : SUBSET Keys, rest : SUBSET Keys, pending : SUBSET Keys, attempt : Nat]

TypeOK ==
  /\ present \subseteq Keys
  /\ tag \in [Owner -> Places \cup {NoNs}]
  /\ known \in [Owner -> Places \cup {NoNs}]
  /\ job \in [Owner -> Job]
  /\ kept \in [Owner -> SUBSET Keys]

-----------------------------------------------------------------------------
(* The inductive invariant *)

\* A request is made for the place CloudFormation knows and, unless it is a delete,
\* has tagged; a delete protects nothing.
RequestKnown(o) ==
  LET r == job[o].req IN
  ~Idle(o) => /\ known[o] = r.ns
              /\ r.type # "Delete" => tag[o] = r.ns
              /\ r.type = "Delete" => kept[o] = {} /\ r.manifest = {}
              /\ \A k \in r.manifest : InNamespace(k, r.ns)

\* Only a deployment goes through the stages of a deployment.
DeployStages(o) ==
  job[o].pc \in {"List", "Transfer", "Tags", "Legs"} => job[o].req.type # "Delete"

\* A stage that is not deleting has nothing left over from one that was.
NothingLeft(o) ==
  LET j == job[o] IN
  /\ j.pc \in {"List", "Transfer", "Tags", "Guard"} =>
       j.pending = {} /\ j.rest = {} /\ j.ahead = {} /\ j.legs = <<>>
  /\ j.pc = "Legs" => j.ahead = {}
  /\ j.pc = "Scan" => j.legs = <<>> /\ (j.fetched \/ j.ahead = {})

\* The remembered candidates are stale keys of the request.
CandidatesStale(o) ==
  job[o].pc \in {"Transfer", "Tags"} =>
    /\ job[o].current.keys \subseteq StaleKeys(job[o].req)
    /\ job[o].child.keys \subseteq ChildStaleKeys(job[o].req)

\* Once the transfers have ended, the manifest is all that is protected for o.
NewKept(o) ==
  job[o].pc \in {"Tags", "Legs", "Guard", "Scan"} => kept[o] \subseteq job[o].req.manifest

\* An update sweeps only a namespace it has left.
GuardHasCause(o) ==
  job[o].pc = "Guard" /\ job[o].req.type # "Delete" => Change(job[o].req) = "DeleteNamespace"

Local(o) ==
  /\ RequestKnown(o) /\ DeployStages(o) /\ NothingLeft(o)
  /\ CandidatesStale(o) /\ NewKept(o) /\ GuardHasCause(o)

\* Keys the cleanup of w may still delete.
LegKeys(legs) == UNION {legs[i] : i \in 1 .. Len(legs)}

Doomed(w) ==
  LET j == job[w] IN
  j.pending \cup j.rest \cup j.ahead \cup LegKeys(j.legs)
    \cup (IF j.pc = "Scan" THEN j.target ELSE {})

\* A key that the cleanup of w may delete: not one it has just written, one of a
\* namespace of its own, and none of another tagged resource.
Deletable(w, k) ==
  /\ k \notin job[w].req.manifest
  /\ InNamespace(k, job[w].req.ns) \/ InNamespace(k, job[w].req.prev)
  /\ \A o \in Owner \ {w} : ~InNamespace(k, tag[o])

DoomedDeletable(w) == Cleaning(w) => \A k \in Doomed(w) : Deletable(w, k)

\* What is protected for o is where o is tagged, or out of everybody else's reach.
KeptPlaced(o) ==
  \A k \in kept[o] :
    \/ InNamespace(k, tag[o])
    \/ \A w \in Owner \ {o} : \A ns \in Reach(w, tag) : ~InNamespace(k, ns)

\* What is protected for o and what it has transferred so far.
Held(o) ==
  kept[o] \cup (IF Step(o, "Transfer") THEN job[o].req.manifest \ job[o].unsent ELSE {})

HeldPresent(o) == Held(o) \subseteq present

IInv ==
  /\ TypeOK
  /\ \A o \in Owner : Local(o) /\ DoomedDeletable(o) /\ KeptPlaced(o) /\ HeldPresent(o)

-----------------------------------------------------------------------------
(* Keys in listing order *)

\* The order of the numbers, as the relation that well-founded induction takes.
LEMMA NatOrder ==
  \E R : IsWellFoundedOn(R, Nat) /\ \A m, n \in Nat : m < n => <<m, n>> \in R
  <1>1. IsWellFoundedOn(OpToRel(<, Nat), Nat)
    BY NatLessThanWellFounded
  <1>2. \A m, n \in Nat : m < n => <<m, n>> \in OpToRel(<, Nat)
    BY DEF OpToRel
  <1> QED BY <1>1, <1>2

\* Every nonempty set of numbers has a least element.
LEMMA LeastNumber ==
  ASSUME NEW S \in SUBSET Nat, S # {}
  PROVE  \E m \in S : \A n \in S : m <= n
  <1>1. PICK R : IsWellFoundedOn(R, Nat) /\ \A m, n \in Nat : m < n => <<m, n>> \in R
    BY NatOrder
  <1>2. S \subseteq Nat /\ IsWellFoundedOn(R, Nat)
    BY <1>1
  <1>3. PICK m \in S : \A n \in S : ~(<<n, m>> \in R)
    BY <1>2, WFMin, Zenon
  <1>4. ASSUME NEW n \in S PROVE m <= n
    <2>1. m \in Nat /\ n \in Nat /\ ~(<<n, m>> \in R)
      BY <1>3
    <2>2. ~(n < m)
      BY <1>1, <2>1, Zenon
    <2> QED BY <2>1, <2>2
  <1> QED BY <1>4

\* The greatest element of a set with a bound.
LEMMA GreatestNumber ==
  ASSUME NEW S \in SUBSET Nat, S # {}, NEW b \in Nat, \A n \in S : n <= b
  PROVE  \E m \in S : \A n \in S : n <= m
  <1> DEFINE U == {u \in Nat : \A n \in S : n <= u}
  <1>1. PICK m \in U : \A u \in U : m <= u
    <2>1. b \in U
      OBVIOUS
    <2> HIDE DEF U
    <2>2. U \subseteq Nat
      BY DEF U
    <2> QED BY <2>1, <2>2, LeastNumber
  <1>2. m \in Nat /\ \A n \in S : n <= m
    BY <1>1
  <1>3. m \in S
    <2> SUFFICES ASSUME m \notin S PROVE FALSE
      OBVIOUS
    <2>1. PICK n \in S : TRUE
      OBVIOUS
    <2>2. m - 1 \in Nat /\ \A k \in S : k <= m - 1
      BY <1>2, <2>1
    <2>3. m - 1 \in U
      BY <2>2
    <2> HIDE DEF U
    <2> QED BY <1>1, <1>2, <2>3
  <1> QED BY <1>2, <1>3

LEMMA KeysInOrder ==
  /\ Len(KeyOrder) \in Nat /\ DOMAIN KeyOrder = 1 .. Len(KeyOrder)
  /\ \A i \in DOMAIN KeyOrder : KeyOrder[i] \in Keys
BY PlacesAssumption DEF Keys

\* The last key of a page.
LEMMA LastOfPage ==
  ASSUME NEW page \in SUBSET (DOMAIN KeyOrder), page # {}
  PROVE  Max(page) \in page /\ \A i \in page : i <= Max(page)
<1>1. page \subseteq Nat /\ \A i \in page : i <= Len(KeyOrder)
  BY KeysInOrder
<1>2. \E m \in page : \A i \in page : i <= m
  BY <1>1, KeysInOrder, GreatestNumber
<1>3. \E m \in page : \A i \in page : m >= i
  BY <1>1, <1>2
<1>4. Max(page) \in page /\ \A i \in page : Max(page) >= i
  BY <1>3, Zenon DEF Max
<1> QED BY <1>1, <1>4

-----------------------------------------------------------------------------
(* Keys and namespaces are sequences of segments *)

Segment == UNION {Range(s) : s \in Keys \cup Places}

LEMMA Segments ==
  /\ Keys \subseteq Seq(Segment)
  /\ Places \subseteq Seq(Segment) \ {NoNs}
  /\ NoNs \in Seq(Segment)
BY PlacesAssumption DEF Segment, NoNs

\* The ownership test on the keys of a bucket: a key under a tag that does not
\* compete, and under the cleanup, is under what the cleanup spares.
LEMMA TagProtects ==
  ASSUME NEW owner \in Places \cup {NoNs}, NEW cleanup \in Places \cup {NoNs},
         NEW excluded \in Places \cup {NoNs}, NEW k \in Keys,
         ~Competes(owner, cleanup, excluded),
         InNamespace(k, owner), InNamespace(k, cleanup)
  PROVE  InNamespace(k, excluded)
<1>1. /\ owner \in Seq(Segment) /\ cleanup \in Seq(Segment)
      /\ excluded \in Seq(Segment) /\ k \in Seq(Segment)
  BY Segments
<1>2. owner # NoNs
  BY DEF InNamespace
<1> HIDE DEF Segment
<1> QED BY <1>1, <1>2, NoCompetitorNoLoss

\* The keys that are still to be deleted leg by leg.
LEMMA LegFacts ==
  ASSUME NEW legs \in Seq(SUBSET Keys)
  PROVE  /\ LegKeys(legs) \subseteq Keys
         /\ legs # <<>> => /\ Head(legs) \subseteq LegKeys(legs)
                           /\ Head(legs) \subseteq Keys
                           /\ Tail(legs) \in Seq(SUBSET Keys)
                           /\ LegKeys(Tail(legs)) \subseteq LegKeys(legs)
<1>1. LegKeys(legs) \subseteq Keys
  BY DEF LegKeys
<1>2. ASSUME legs # <<>>
      PROVE  /\ Head(legs) = legs[1] /\ 1 \in 1 .. Len(legs)
             /\ Tail(legs) \in Seq(SUBSET Keys) /\ Len(Tail(legs)) = Len(legs) - 1
             /\ \A i \in 1 .. Len(Tail(legs)) :
                  Tail(legs)[i] = legs[i + 1] /\ i + 1 \in 1 .. Len(legs)
  BY <1>2
<1> QED BY <1>1, <1>2 DEF LegKeys

LEMMA NoLegs == LegKeys(<<>>) = {}
BY DEF LegKeys

LEMMA OneLeg ==
  ASSUME NEW S \in SUBSET Keys
  PROVE  <<S>> \in Seq(SUBSET Keys) /\ LegKeys(<<S>>) = S
<1>1. Len(<<S>>) = 1 /\ <<S>>[1] = S
  OBVIOUS
<1> QED BY <1>1 DEF LegKeys

LEMMA BothLegs ==
  ASSUME NEW a \in Seq(SUBSET Keys), NEW b \in Seq(SUBSET Keys)
  PROVE  a \o b \in Seq(SUBSET Keys) /\ LegKeys(a \o b) \subseteq LegKeys(a) \cup LegKeys(b)
<1>1. \A i \in 1 .. Len(a \o b) :
        \/ i \in 1 .. Len(a) /\ (a \o b)[i] = a[i]
        \/ i - Len(a) \in 1 .. Len(b) /\ (a \o b)[i] = b[i - Len(a)]
  OBVIOUS
<1> QED BY <1>1 DEF LegKeys

\* A set of positions taken in the listing order holds only keys it was made of.
LEMMA ChunkOfRest ==
  ASSUME NEW S \in SUBSET Keys, NEW n
  PROVE  At(First(n, {Position(k) : k \in S})) \subseteq S
<1>1. \A k \in S : KeyOrder[Position(k)] = k
  BY DEF Position, Keys
<1> QED BY <1>1 DEF At, First

\* What a stage of a request selects are keys.
LEMMA SelectedKeys ==
  ASSUME NEW r \in Request
  PROVE  /\ StaleKeys(r) \subseteq Keys /\ ChildStaleKeys(r) \subseteq Keys
         /\ Protected(r) \in Places \cup {NoNs} /\ CleanedChild(r) \in Places \cup {NoNs}
         /\ Swept(r) \in Places \cup {NoNs} /\ Spared(r) \in Places \cup {NoNs}
         /\ AfterDeploy(r) \in {"Guard", "Done"}
BY DEF Request, StaleKeys, ChildStaleKeys, Protected, ProtectedChild, CleanedChild, Swept,
       Spared, SparedChild, AfterDeploy

-----------------------------------------------------------------------------
(* Types are kept *)

LEMMA BeginIsJob ==
  ASSUME NEW r \in Request, NEW stage \in Stage
  PROVE  /\ Begin(r, stage) \in Job
         /\ Begin(r, stage).pc = stage /\ Begin(r, stage).req = r
         /\ Begin(r, stage).pending = {} /\ Begin(r, stage).rest = {}
         /\ Begin(r, stage).ahead = {} /\ Begin(r, stage).legs = <<>>
<1>1. /\ NoCandidates \in Candidates /\ 0 \in Positions /\ NoNs \in Places \cup {NoNs}
      /\ <<>> \in Seq(SUBSET Keys) /\ {} \in SUBSET Keys
  BY KeysInOrder DEF NoCandidates, Candidates, Positions
<1> HIDE DEF Candidates, Positions
<1> QED BY <1>1 DEF Begin, Job

LEMMA NoJobIsJob == NoJob \in Job /\ NoJob.pc = "Idle" /\ NoJob.req.prev = NoNs
<1>1. AnyPlace \in Places
  BY PlacesAssumption DEF AnyPlace
<1> DEFINE r == [type |-> "Create", ns |-> AnyPlace, prev |-> NoNs, manifest |-> {},
                 stale |-> FALSE, authorized |-> FALSE, all |-> FALSE]
<1>2. r \in Request /\ r.prev = NoNs
  BY <1>1 DEF Request
<1>3. "Idle" \in Stage
  BY DEF Stage
<1> HIDE DEF r
<1>4. Begin(r, "Idle") \in Job /\ Begin(r, "Idle").pc = "Idle" /\ Begin(r, "Idle").req = r
  BY <1>2, <1>3, BeginIsJob
<1> QED BY <1>2, <1>4 DEF NoJob, r

LEMMA RetainIsCandidates ==
  ASSUME NEW S \in SUBSET Keys
  PROVE  Retain(S) \in Candidates /\ Retain(S).keys = S
BY DEF Retain, Candidates

\* The sweep of a job, and what it may delete from there on.
LEMMA SweepIsJob ==
  ASSUME NEW j \in Job, NEW ns \in Places \cup {NoNs}, NEW S \in SUBSET Keys
  PROVE  /\ Sweep(j, ns, S) \in Job
         /\ Sweep(j, ns, S).pc = "Scan" /\ Sweep(j, ns, S).target = S
         /\ Sweep(j, ns, S).req = j.req /\ Sweep(j, ns, S).pending = j.pending
         /\ Sweep(j, ns, S).rest = j.rest /\ Sweep(j, ns, S).ahead = j.ahead
         /\ Sweep(j, ns, S).legs = j.legs
<1>1. 0 \in Positions /\ "Scan" \in Stage
  BY KeysInOrder DEF Positions, Stage
<1> HIDE DEF Positions, Stage
<1> QED BY <1>1 DEF Sweep, Job

\* The jobs of others, and what CloudFormation knows, where only the provider moves.
Others(o) == \A w \in Owner \ {o} : job'[w] = job[w]
Outside == UNCHANGED <<tag, known>>

LEMMA JobReplaced ==
  ASSUME TypeOK, NEW o \in Owner, NEW j \in Job, job' = [job EXCEPT ![o] = j]
  PROVE  job' \in [Owner -> Job] /\ job'[o] = j /\ Others(o)
BY DEF TypeOK, Others

LEMMA CursorIsPosition ==
  ASSUME NEW j \in Job, NEW page \in SUBSET (DOMAIN KeyOrder)
  PROVE  Cursor(j, page) \in Positions
<1>1. page = {} \/ Max(page) \in page
  BY LastOfPage
<1> QED BY <1>1, KeysInOrder DEF Cursor, Job, Positions

LEMMA PageOfKeys ==
  ASSUME NEW j, NEW n
  PROVE  First(n, Listing(j)) \in SUBSET (DOMAIN KeyOrder)
BY DEF First, Listing

-----------------------------------------------------------------------------
(* The steps of the provider that leave the bucket alone *)

Facts(o) == Local(o) /\ DoomedDeletable(o) /\ KeptPlaced(o) /\ HeldPresent(o)

\* Whatever o does within its request, the facts about other resources stay, as
\* long as what is held for them does.
LEMMA OthersUndisturbed ==
  ASSUME IInv, NEW o \in Owner, Outside, Others(o), job'[o].req = job[o].req,
         NEW w \in Owner \ {o}, kept'[w] = kept[w], Held(w) \subseteq present'
  PROVE  Facts(w)'
<1>1. job'[w] = job[w] /\ \A v \in Owner : job'[v].req = job[v].req
  BY DEF Others
<1>2. Local(w)'
  BY <1>1 DEF IInv, Outside, Local, RequestKnown, DeployStages, NothingLeft, CandidatesStale,
     NewKept, GuardHasCause, Idle
<1>3. DoomedDeletable(w)'
  BY <1>1 DEF IInv, Outside, DoomedDeletable, Doomed, Deletable, Cleaning
<1>4. KeptPlaced(w)'
  BY <1>1 DEF IInv, Outside, KeptPlaced, Reach
<1>5. HeldPresent(w)'
  BY <1>1 DEF HeldPresent, Held, Step
<1> QED BY <1>2, <1>3, <1>4, <1>5 DEF Facts

\* What is left to prove of a step of o that may change the bucket.
LEMMA BucketStep ==
  ASSUME IInv, NEW o \in Owner, Outside, UNCHANGED kept, present' \subseteq Keys,
         \A w \in Owner \ {o} : Held(w) \subseteq present',
         job' \in [Owner -> Job], Others(o), job'[o].req = job[o].req,
         Local(o)', DoomedDeletable(o)', HeldPresent(o)'
  PROVE  IInv'
<1>1. \A w \in Owner \ {o} : Facts(w)'
  BY OthersUndisturbed
<1>2. KeptPlaced(o)'
  <2>1. \A w \in Owner : job'[w].req = job[w].req
    BY DEF Others
  <2> QED BY <2>1 DEF IInv, Outside, KeptPlaced, Reach
<1>3. TypeOK'
  BY DEF IInv, TypeOK, Outside
<1> QED BY <1>1, <1>2, <1>3 DEF IInv, Facts

\* And of one that does not.
LEMMA JobStep ==
  ASSUME IInv, NEW o \in Owner, Outside, UNCHANGED <<present, kept>>,
         job' \in [Owner -> Job], Others(o), job'[o].req = job[o].req,
         Local(o)', DoomedDeletable(o)', HeldPresent(o)'
  PROVE  IInv'
<1>1. present' \subseteq Keys /\ \A w \in Owner \ {o} : Held(w) \subseteq present'
  BY DEF IInv, TypeOK, HeldPresent
<1> QED BY <1>1, BucketStep

\* A cleanup that goes on with less to delete.
LEMMA CleanupGoesOn ==
  ASSUME IInv, NEW o \in Owner, Outside, job'[o].req = job[o].req,
         Cleaning(o), Doomed(o)' \subseteq Doomed(o)
  PROVE  DoomedDeletable(o)'
BY DEF IInv, Outside, DoomedDeletable, Deletable

LEMMA ListDestinationKeeps ==
  ASSUME IInv, NEW o \in Owner, ListDestination(o)
  PROVE  IInv'
<1> DEFINE r == job[o].req
<1>1. job[o] \in Job /\ r \in Request /\ job[o].pc = "List" /\ present \subseteq Keys
  BY DEF IInv, TypeOK, Job, ListDestination, Step
<1>2. PICK skipped \in {{}, r.manifest \cap present} :
        job' = [job EXCEPT ![o] =
          [@ EXCEPT !.pc = "Transfer", !.unsent = r.manifest \ skipped,
                    !.current = Retain(IF r.stale THEN present \cap StaleKeys(r) ELSE {}),
                    !.child = Retain(present \cap ChildStaleKeys(r))]]
  BY DEF ListDestination
<1> DEFINE cur == IF r.stale THEN present \cap StaleKeys(r) ELSE {}
           child == present \cap ChildStaleKeys(r)
           j == [job[o] EXCEPT !.pc = "Transfer", !.unsent = r.manifest \ skipped,
                               !.current = Retain(cur), !.child = Retain(child)]
<1>3. /\ Retain(cur) \in Candidates /\ Retain(cur).keys \subseteq StaleKeys(r)
      /\ Retain(child) \in Candidates /\ Retain(child).keys \subseteq ChildStaleKeys(r)
  BY <1>1, RetainIsCandidates
<1>4. /\ j \in Job /\ j.pc = "Transfer" /\ j.req = r
      /\ j.current = Retain(cur) /\ j.child = Retain(child)
      /\ r.manifest \ j.unsent \subseteq present
      /\ j.pending = job[o].pending /\ j.rest = job[o].rest
      /\ j.ahead = job[o].ahead /\ j.legs = job[o].legs
  <2>1. "Transfer" \in Stage /\ r.manifest \ skipped \in SUBSET Keys
    BY <1>1 DEF Stage, Request
  <2>2. r.manifest \ (r.manifest \ skipped) \subseteq present
    OBVIOUS
  <2> HIDE DEF cur, child
  <2> QED BY <1>1, <1>3, <2>1, <2>2 DEF Job
<1>5. job' = [job EXCEPT ![o] = j]
  BY <1>2
<1> HIDE DEF cur, child
<1> HIDE DEF j
<1>6. job' \in [Owner -> Job] /\ job'[o] = j /\ Others(o)
  BY <1>4, <1>5, JobReplaced DEF IInv
<1>7. Outside /\ UNCHANGED <<present, kept>>
  BY DEF ListDestination, Outside
<1>8. Local(o)'
  BY <1>1, <1>3, <1>4, <1>6, <1>7 DEF IInv, Outside, Local, RequestKnown, DeployStages,
     NothingLeft, CandidatesStale, NewKept, GuardHasCause, Idle
<1>9. DoomedDeletable(o)' /\ HeldPresent(o)'
  BY <1>4, <1>6, <1>7 DEF IInv, DoomedDeletable, Cleaning, HeldPresent, Held, Step
<1> QED BY <1>4, <1>6, <1>7, <1>8, <1>9, JobStep

\* Nobody else's tagged key is among the stale keys of a request that read no
\* competing tag, nor among those of a child, nor in the namespace of a sweep.
LEMMA StaleDeletable ==
  ASSUME TypeOK, NEW o \in Owner, NEW r \in Request, r = job[o].req,
         ~Competing(o, r.ns, Protected(r)), NEW k \in StaleKeys(r)
  PROVE  Deletable(o, k)
<1>1. /\ k \in Keys /\ InNamespace(k, r.ns) /\ k \notin r.manifest
      /\ ~InNamespace(k, Protected(r))
  BY DEF StaleKeys, Unplanned
<1>2. Protected(r) \in Places \cup {NoNs} /\ r.ns \in Places
  BY SelectedKeys DEF Request
<1>3. ASSUME NEW w \in Owner \ {o}, InNamespace(k, tag[w])
      PROVE  FALSE
  <2>1. ~Competes(tag[w], r.ns, Protected(r)) /\ tag[w] \in Places \cup {NoNs}
    BY DEF Competing, TypeOK
  <2> QED BY <1>1, <1>2, <1>3, <2>1, TagProtects
<1> QED BY <1>1, <1>3 DEF Deletable

LEMMA ChildDeletable ==
  ASSUME TypeOK, NEW o \in Owner, NEW r \in Request, r = job[o].req,
         ~Competing(o, r.prev, NoNs), CleanedChild(r) # NoNs, NEW k \in ChildStaleKeys(r)
  PROVE  Deletable(o, k)
<1>1. CleanedChild(r) = r.prev
  BY DEF CleanedChild
<1>2. k \in Keys /\ InNamespace(k, r.ns) /\ k \notin r.manifest /\ InNamespace(k, r.prev)
  BY <1>1 DEF ChildStaleKeys, Unplanned
<1>3. ASSUME NEW w \in Owner \ {o}, InNamespace(k, tag[w])
      PROVE  FALSE
  <2>1. /\ ~Competes(tag[w], r.prev, NoNs) /\ tag[w] \in Places \cup {NoNs}
        /\ r.prev \in Places \cup {NoNs}
    BY DEF Competing, TypeOK, Request
  <2>2. InNamespace(k, NoNs)
    BY <1>2, <1>3, <2>1, TagProtects
  <2> QED BY <2>2 DEF InNamespace
<1> QED BY <1>2, <1>3 DEF Deletable

LEMMA SweptDeletable ==
  ASSUME TypeOK, NEW o \in Owner, NEW r \in Request, r = job[o].req,
         RequestKnown(o), GuardHasCause(o), job[o].pc = "Guard",
         ~Competing(o, Swept(r), Spared(r)), NEW k \in Keys,
         InNamespace(k, Swept(r)), ~InNamespace(k, Spared(r))
  PROVE  Deletable(o, k)
<1>1. Swept(r) \in Places \cup {NoNs} /\ Spared(r) \in Places \cup {NoNs}
  BY SelectedKeys
<1>2. ASSUME NEW w \in Owner \ {o}, InNamespace(k, tag[w])
      PROVE  FALSE
  <2>1. ~Competes(tag[w], Swept(r), Spared(r)) /\ tag[w] \in Places \cup {NoNs}
    BY DEF Competing, TypeOK
  <2> QED BY <1>1, <1>2, <2>1, TagProtects
<1>3. InNamespace(k, r.ns) \/ InNamespace(k, r.prev)
  BY DEF Swept
<1>4. k \notin r.manifest
  <2>1. CASE r.type = "Delete"
    BY <2>1 DEF RequestKnown, Idle
  <2>2. CASE r.type # "Delete"
    <3>1. SUFFICES ASSUME k \in r.manifest PROVE FALSE
      OBVIOUS
    <3>2. InNamespace(k, r.ns)
      BY <3>1 DEF RequestKnown, Idle
    <3>3. InNamespace(k, r.prev) /\ Spared(r) = SparedChild(r.prev, r.ns)
      BY <2>2 DEF Swept, Spared
    <3>4. Change(r) = "DeleteNamespace"
      BY <2>2 DEF GuardHasCause
    <3>5. Relation(r.prev, r.ns) \in {"PreviousContainsCurrent", "Disjoint"}
      BY <3>4 DEF Change, CleanupOfPrevious, Relation
    <3>6. Relation(r.prev, r.ns) # "PreviousContainsCurrent"
      BY <3>2, <3>3 DEF SparedChild
    <3>7. ~Overlap(r.prev, r.ns)
      BY <3>5, <3>6 DEF Relation, Overlap
    <3>8. /\ k \in Seq(Segment) /\ r.ns \in Seq(Segment) /\ r.prev \in Seq(Segment)
          /\ IsPrefix(r.prev, k) /\ IsPrefix(r.ns, k)
      BY <3>2, <3>3, Segments DEF Request, InNamespace, IsStrictPrefix
    <3> HIDE DEF Segment
    <3> QED BY <3>7, <3>8, CommonKeyOverlaps
  <2> QED BY <2>1, <2>2
<1> QED BY <1>2, <1>3, <1>4 DEF Deletable

LEMMA ReadTagsKeeps ==
  ASSUME IInv, NEW o \in Owner, ReadTags(o)
  PROVE  IInv'
<1> DEFINE r     == job[o].req
           cur   == job[o].current
           child == job[o].child
           doCurrent == r.stale /\ HasCandidates(cur) /\ ~Competing(o, r.ns, Protected(r))
           doChild == CleanedChild(r) # NoNs /\ HasCandidates(child) /\ ~Competing(o, r.prev, NoNs)
           legs == (IF doCurrent THEN <<cur.keys>> ELSE <<>>)
                     \o (IF doChild THEN <<child.keys>> ELSE <<>>)
           target == (IF doCurrent THEN StaleKeys(r) ELSE {})
                       \cup (IF doChild THEN ChildStaleKeys(r) ELSE {})
           over == [job[o] EXCEPT !.pc = AfterDeploy(r)]
           inLegs == [job[o] EXCEPT !.pc = "Legs", !.legs = legs]
<1>1. /\ job[o] \in Job /\ r \in Request /\ job[o].pc = "Tags" /\ TypeOK
      /\ cur.keys \subseteq StaleKeys(r) /\ child.keys \subseteq ChildStaleKeys(r)
      /\ cur.keys \in SUBSET Keys /\ child.keys \in SUBSET Keys /\ r.type # "Delete"
  BY DEF IInv, Local, CandidatesStale, DeployStages, TypeOK, Job, Candidates, ReadTags, Step
<1>2. Outside /\ UNCHANGED <<present, kept>>
  BY DEF ReadTags, Outside
<1>3. /\ doCurrent => \A k \in StaleKeys(r) : Deletable(o, k)
      /\ doChild => \A k \in ChildStaleKeys(r) : Deletable(o, k)
  BY <1>1, StaleDeletable, ChildDeletable
<1>4. \/ ~doCurrent /\ ~doChild /\ job' = [job EXCEPT ![o] = over]
      \/ job' = [job EXCEPT ![o] = inLegs]
      \/ job' = [job EXCEPT ![o] = Sweep(job[o], r.ns, target)]
  BY DEF ReadTags
<1>5. legs \in Seq(SUBSET Keys) /\ LegKeys(legs) \subseteq target /\ target \subseteq Keys
  <2>1. /\ target \subseteq Keys
        /\ doCurrent => cur.keys \subseteq target
        /\ doChild => child.keys \subseteq target
    BY <1>1, SelectedKeys
  <2> DEFINE a == IF doCurrent THEN <<cur.keys>> ELSE <<>>
             b == IF doChild THEN <<child.keys>> ELSE <<>>
  <2>2. /\ a \in Seq(SUBSET Keys) /\ LegKeys(a) \subseteq target
        /\ b \in Seq(SUBSET Keys) /\ LegKeys(b) \subseteq target
    <3> HIDE DEF target, doCurrent, doChild
    <3>1. <<>> \in Seq(SUBSET Keys) /\ LegKeys(<<>>) \subseteq target
      BY NoLegs
    <3>2. /\ <<cur.keys>> \in Seq(SUBSET Keys) /\ LegKeys(<<cur.keys>>) = cur.keys
          /\ <<child.keys>> \in Seq(SUBSET Keys) /\ LegKeys(<<child.keys>>) = child.keys
      BY <1>1, OneLeg
    <3>3. a \in Seq(SUBSET Keys) /\ LegKeys(a) \subseteq target
      <4>1. (doCurrent /\ a = <<cur.keys>>) \/ a = <<>>
        OBVIOUS
      <4> HIDE DEF a
      <4> QED BY <2>1, <3>1, <3>2, <4>1
    <3>4. b \in Seq(SUBSET Keys) /\ LegKeys(b) \subseteq target
      <4>1. (doChild /\ b = <<child.keys>>) \/ b = <<>>
        OBVIOUS
      <4> HIDE DEF b
      <4> QED BY <2>1, <3>1, <3>2, <4>1
    <3> QED BY <3>3, <3>4
  <2> HIDE DEF target, a, b
  <2>3. a \o b \in Seq(SUBSET Keys) /\ LegKeys(a \o b) \subseteq target
    BY <2>2, BothLegs
  <2>4. legs = a \o b
    BY DEF a, b
  <2> HIDE DEF legs
  <2> QED BY <2>1, <2>3, <2>4
<1>6. \A k \in target : Deletable(o, k)
  BY <1>3
<1> HIDE DEF doCurrent, doChild, legs, target
<1>7. AfterDeploy(r) \in {"Guard", "Done"}
      /\ (AfterDeploy(r) = "Guard" => Change(r) = "DeleteNamespace")
  BY DEF AfterDeploy
<1>8. /\ r.ns \in Places \cup {NoNs}
      /\ job[o].pending = {} /\ job[o].rest = {} /\ job[o].ahead = {} /\ job[o].legs = <<>>
      /\ kept[o] \subseteq r.manifest
  BY <1>1 DEF IInv, Local, NothingLeft, NewKept, Request
<1>9. ASSUME NEW j \in Job, job' = [job EXCEPT ![o] = j], j.req = r,
             j.pc \in {"Guard", "Done", "Legs", "Scan"},
             j.pc = "Guard" => Change(r) = "DeleteNamespace",
             j.pending = {}, j.rest = {}, j.ahead = {},
             j.pc # "Legs" => j.legs = <<>>,
             j.pc \in {"Legs", "Scan"} =>
               LegKeys(j.legs) \cup (IF j.pc = "Scan" THEN j.target ELSE {}) \subseteq target
      PROVE  IInv'
  <2>1. job' \in [Owner -> Job] /\ job'[o] = j /\ Others(o)
    BY <1>9, JobReplaced DEF IInv
  <2>2. Local(o)'
    BY <1>1, <1>2, <1>8, <1>9, <2>1 DEF IInv, Outside, Local, RequestKnown, DeployStages,
       NothingLeft, CandidatesStale, NewKept, GuardHasCause, Idle
  <2>3. DoomedDeletable(o)'
    BY <1>2, <1>6, <1>9, <2>1 DEF Outside, DoomedDeletable, Doomed, Deletable, Cleaning
  <2>4. HeldPresent(o)'
    BY <1>1, <1>2, <1>9, <2>1 DEF IInv, HeldPresent, Held, Step
  <2> QED BY <1>2, <1>9, <2>1, <2>2, <2>3, <2>4, JobStep
<1>10. CASE job' = [job EXCEPT ![o] = over]
  <2>1. /\ over \in Job /\ over.req = r /\ over.pc = AfterDeploy(r)
        /\ over.pending = {} /\ over.rest = {} /\ over.ahead = {} /\ over.legs = <<>>
    BY <1>1, <1>7, <1>8 DEF Job, Stage
  <2> HIDE DEF over
  <2> QED BY <1>7, <1>9, <1>10, <2>1
<1>11. CASE job' = [job EXCEPT ![o] = inLegs]
  <2>1. /\ inLegs \in Job /\ inLegs.req = r /\ inLegs.pc = "Legs" /\ inLegs.legs = legs
        /\ inLegs.pending = {} /\ inLegs.rest = {} /\ inLegs.ahead = {}
    BY <1>1, <1>5, <1>8 DEF Job, Stage
  <2> HIDE DEF inLegs
  <2> QED BY <1>5, <1>9, <1>11, <2>1
<1>12. CASE job' = [job EXCEPT ![o] = Sweep(job[o], r.ns, target)]
  <2> DEFINE j == Sweep(job[o], r.ns, target)
  <2>1. /\ j \in Job /\ j.req = r /\ j.pc = "Scan" /\ j.target = target
        /\ j.pending = {} /\ j.rest = {} /\ j.ahead = {} /\ j.legs = <<>>
    <3>1. target \in SUBSET Keys /\ r.ns \in Places \cup {NoNs} /\ job[o] \in Job
      BY <1>1, <1>5, <1>8
    <3> QED BY <1>8, <3>1, SweepIsJob
  <2>2. job' = [job EXCEPT ![o] = j]
    BY <1>12
  <2> HIDE DEF j
  <2> QED BY <1>9, <2>1, <2>2, NoLegs
<1> QED BY <1>4, <1>10, <1>11, <1>12

\* A step within a cleanup.
LEMMA CleanupStep ==
  ASSUME IInv, NEW o \in Owner, Cleaning(o), NEW j \in Job, job' = [job EXCEPT ![o] = j],
         j.req = job[o].req, j.pc = job[o].pc, Doomed(o)' \subseteq Doomed(o),
         j.pc = "Legs" => j.ahead = {},
         j.pc = "Scan" => j.legs = <<>> /\ (j.fetched \/ j.ahead = {}),
         Outside, UNCHANGED kept, present' \subseteq Keys,
         \A w \in Owner : Held(w) \subseteq present'
  PROVE  IInv'
<1>1. job' \in [Owner -> Job] /\ job'[o] = j /\ Others(o)
  BY JobReplaced DEF IInv
<1>2. Local(o)'
  BY <1>1 DEF IInv, Outside, Local, RequestKnown, DeployStages, NothingLeft, CandidatesStale,
     NewKept, GuardHasCause, Idle, Cleaning
<1>3. DoomedDeletable(o)'
  BY <1>1, CleanupGoesOn
<1>4. HeldPresent(o)'
  BY <1>1 DEF HeldPresent, Held, Step, Cleaning
<1> QED BY <1>1, <1>2, <1>3, <1>4, BucketStep

\* A step with which a request goes on to its sweep, ends or fails.
LEMMA StageOver ==
  ASSUME IInv, NEW o \in Owner, ~Idle(o), NEW stage \in {"Guard", "Done", "Failed"},
         job' = [job EXCEPT ![o] = [job[o] EXCEPT !.pc = stage]],
         stage = "Guard" => /\ Change(job[o].req) = "DeleteNamespace"
                            /\ kept[o] \subseteq job[o].req.manifest
                            /\ job[o].pending = {} /\ job[o].rest = {}
                            /\ job[o].ahead = {} /\ job[o].legs = <<>>,
         Outside, UNCHANGED kept, present' \subseteq Keys,
         \A w \in Owner : Held(w) \subseteq present'
  PROVE  IInv'
<1> DEFINE j == [job[o] EXCEPT !.pc = stage]
<1>0. job[o] \in Job
  BY DEF IInv, TypeOK
<1>1. /\ j \in Job /\ j.pc = stage /\ j.req = job[o].req /\ j.pending = job[o].pending
      /\ j.rest = job[o].rest /\ j.ahead = job[o].ahead /\ j.legs = job[o].legs
  BY <1>0 DEF Job, Stage
<1>2. job' = [job EXCEPT ![o] = j]
  OBVIOUS
<1> HIDE DEF j
<1>3. job' \in [Owner -> Job] /\ job'[o] = j /\ Others(o)
  BY <1>1, <1>2, JobReplaced DEF IInv
<1>4. Local(o)'
  BY <1>1, <1>3 DEF IInv, Outside, Local, RequestKnown, DeployStages, NothingLeft,
     CandidatesStale, NewKept, GuardHasCause, Idle
<1>5. DoomedDeletable(o)'
  BY <1>1, <1>3 DEF DoomedDeletable, Cleaning
<1>6. HeldPresent(o)'
  BY <1>1, <1>3 DEF HeldPresent, Held, Step
<1> QED BY <1>1, <1>3, <1>4, <1>5, <1>6, BucketStep

\* What a step that leaves the bucket alone gives of it.
LEMMA BucketAlone ==
  ASSUME IInv, UNCHANGED <<present, tag, known, kept>>
  PROVE  /\ Outside /\ present' \subseteq Keys
         /\ \A w \in Owner : Held(w) \subseteq present'
BY DEF IInv, TypeOK, HeldPresent, Outside

LEMMA GuardDeleteKeeps ==
  ASSUME IInv, NEW o \in Owner, GuardDelete(o)
  PROVE  IInv'
<1> DEFINE r == job[o].req
           target == {k \in Keys : InNamespace(k, Swept(r)) /\ ~InNamespace(k, Spared(r))}
           j == Sweep(job[o], Swept(r), target)
<1>1. /\ job[o] \in Job /\ r \in Request /\ job[o].pc = "Guard" /\ TypeOK
      /\ Local(o) /\ UNCHANGED <<present, tag, known, kept>>
  BY DEF IInv, TypeOK, Job, GuardDelete, Step
<1>2. CASE Competing(o, Swept(r), Spared(r))
  <2>1. job' = [job EXCEPT ![o] = [job[o] EXCEPT !.pc = "Done"]]
    BY <1>2 DEF GuardDelete
  <2> QED BY <1>1, <2>1, BucketAlone, StageOver DEF Idle
<1>3. CASE ~Competing(o, Swept(r), Spared(r))
  <2>1. job' = [job EXCEPT ![o] = j]
    BY <1>3 DEF GuardDelete
  <2>2. \A k \in target : Deletable(o, k)
    BY <1>1, <1>3, SweptDeletable DEF Local
  <2>3. target \in SUBSET Keys /\ Swept(r) \in Places \cup {NoNs}
    BY <1>1, SelectedKeys
  <2> HIDE DEF target
  <2>4. /\ j \in Job /\ j.pc = "Scan" /\ j.target = target /\ j.req = r
        /\ j.pending = {} /\ j.rest = {} /\ j.ahead = {} /\ j.legs = <<>>
    BY <1>1, <2>3, SweepIsJob DEF Local, NothingLeft
  <2> HIDE DEF j
  <2>5. job' \in [Owner -> Job] /\ job'[o] = j /\ Others(o)
    BY <1>1, <2>1, <2>4, JobReplaced
  <2>6. Local(o)'
    BY <1>1, <2>4, <2>5 DEF Local, RequestKnown, DeployStages, NothingLeft, CandidatesStale,
       NewKept, GuardHasCause, Idle
  <2>7. DoomedDeletable(o)'
    BY <1>1, <2>2, <2>4, <2>5, NoLegs DEF DoomedDeletable, Doomed, Deletable
  <2>8. HeldPresent(o)'
    BY <1>1, <2>4, <2>5 DEF IInv, HeldPresent, Held, Step
  <2> QED BY <1>1, <2>4, <2>5, <2>6, <2>7, <2>8, JobStep DEF Outside
<1> QED BY <1>2, <1>3

LEMMA FetchPageKeeps ==
  ASSUME IInv, NEW o \in Owner, FetchPage(o)
  PROVE  IInv'
<1> DEFINE page == First(PageSize, Listing(job[o]))
           j == [job[o] EXCEPT !.cursor = Cursor(job[o], page),
                               !.more = Truncated(job[o], page),
                               !.fetched = TRUE, !.ahead = At(page) \cap job[o].target]
<1>1. /\ job[o] \in Job /\ job[o].pc = "Scan" /\ NothingLeft(o)
      /\ UNCHANGED <<present, tag, known, kept>> /\ job' = [job EXCEPT ![o] = j]
  BY DEF IInv, Local, TypeOK, FetchPage, Step
<1>2. /\ Cursor(job[o], page) \in Positions /\ Truncated(job[o], page) \in BOOLEAN
      /\ At(page) \cap job[o].target \in SUBSET Keys
  BY <1>1, PageOfKeys, CursorIsPosition DEF Truncated, Job
<1> HIDE DEF page
<1>3. /\ j \in Job /\ j.pc = "Scan" /\ j.req = job[o].req /\ j.legs = job[o].legs
      /\ j.fetched /\ j.ahead \subseteq job[o].target /\ j.pending = job[o].pending
      /\ j.rest = job[o].rest /\ j.target = job[o].target
  BY <1>1, <1>2 DEF Job
<1> HIDE DEF j
<1>4. job'[o] = j
  BY <1>1, <1>3, JobReplaced DEF IInv
<1>5. Doomed(o)' \subseteq Doomed(o)
  BY <1>1, <1>3, <1>4 DEF Doomed
<1> QED BY <1>1, <1>3, <1>5, BucketAlone, CleanupStep DEF Cleaning, NothingLeft

LEMMA TurnPageKeeps ==
  ASSUME IInv, NEW o \in Owner, TurnPage(o)
  PROVE  IInv'
<1> DEFINE j == [job[o] EXCEPT !.rest = job[o].ahead, !.ahead = {}, !.fetched = FALSE]
<1>1. /\ job[o] \in Job /\ job[o].pc = "Scan" /\ NothingLeft(o)
      /\ UNCHANGED <<present, tag, known, kept>> /\ job' = [job EXCEPT ![o] = j]
  BY DEF IInv, Local, TypeOK, TurnPage, Step
<1>2. /\ j \in Job /\ j.pc = "Scan" /\ j.req = job[o].req /\ j.legs = job[o].legs
      /\ j.ahead = {} /\ j.pending = job[o].pending
      /\ j.rest = job[o].ahead /\ j.target = job[o].target
  BY <1>1 DEF Job
<1> HIDE DEF j
<1>3. job'[o] = j
  BY <1>1, <1>2, JobReplaced DEF IInv
<1>4. Doomed(o)' \subseteq Doomed(o)
  BY <1>1, <1>2, <1>3 DEF Doomed
<1> QED BY <1>1, <1>2, <1>4, BucketAlone, CleanupStep DEF Cleaning, NothingLeft

LEMMA TakeChunkKeeps ==
  ASSUME IInv, NEW o \in Owner, TakeChunk(o)
  PROVE  IInv'
<1> DEFINE chunk == At(First(ChunkSize, {Position(k) : k \in job[o].rest}))
           j == [job[o] EXCEPT !.pending = chunk, !.rest = job[o].rest \ chunk, !.attempt = 1]
<1>1. job[o] \in Job /\ Cleaning(o) /\ NothingLeft(o) /\ UNCHANGED <<present, tag, known, kept>>
  BY DEF IInv, Local, TypeOK, TakeChunk
<1>2. job' = [job EXCEPT ![o] = j]
  BY DEF TakeChunk
<1>3. chunk \subseteq job[o].rest
  BY <1>1, ChunkOfRest DEF Job
<1> HIDE DEF chunk
<1>4. /\ j \in Job /\ j.pc = job[o].pc /\ j.req = job[o].req /\ j.legs = job[o].legs
      /\ j.ahead = job[o].ahead /\ j.pending = chunk /\ j.rest \subseteq job[o].rest
      /\ j.target = job[o].target /\ j.fetched = job[o].fetched
  BY <1>1, <1>3 DEF Job
<1> HIDE DEF j
<1>5. job'[o] = j
  BY <1>2, <1>4, JobReplaced DEF IInv
<1>6. Doomed(o)' \subseteq Doomed(o)
  BY <1>3, <1>4, <1>5 DEF Doomed
<1> QED BY <1>1, <1>2, <1>4, <1>6, BucketAlone, CleanupStep DEF NothingLeft

\* A deployment that is through with its stale keys goes on to its sweep only if the
\* update has left a namespace.
LEMMA AfterDeployHasCause ==
  ASSUME NEW r
  PROVE  /\ AfterDeploy(r) \in {"Guard", "Done"}
         /\ AfterDeploy(r) = "Guard" => Change(r) = "DeleteNamespace"
BY DEF AfterDeploy

LEMMA ScanEndsKeeps ==
  ASSUME IInv, NEW o \in Owner, ScanEnds(o)
  PROVE  IInv'
<1> DEFINE stage == IF job[o].req.type # "Delete" /\ job[o].sweep = job[o].req.ns
                    THEN AfterDeploy(job[o].req) ELSE "Done"
<1>1. /\ job[o].pc = "Scan" /\ Local(o) /\ ~job[o].fetched
      /\ job[o].rest = {} /\ job[o].pending = {}
      /\ UNCHANGED <<present, tag, known, kept>>
      /\ job' = [job EXCEPT ![o] = [job[o] EXCEPT !.pc = stage]]
  BY DEF IInv, TypeOK, ScanEnds, Step, NothingToDelete
<1>2. /\ stage \in {"Guard", "Done", "Failed"}
      /\ stage = "Guard" => Change(job[o].req) = "DeleteNamespace"
  BY AfterDeployHasCause
<1> HIDE DEF stage
<1>3. /\ kept[o] \subseteq job[o].req.manifest /\ job[o].ahead = {} /\ job[o].legs = <<>>
      /\ ~Idle(o)
  BY <1>1 DEF Local, NewKept, NothingLeft, Idle
<1> QED BY <1>1, <1>2, <1>3, BucketAlone, StageOver

LEMMA NextLegKeeps ==
  ASSUME IInv, NEW o \in Owner, NextLeg(o)
  PROVE  IInv'
<1>1. /\ job[o] \in Job /\ job[o].pc = "Legs" /\ Local(o)
      /\ job[o].rest = {} /\ job[o].pending = {}
      /\ UNCHANGED <<present, tag, known, kept>>
  BY DEF IInv, TypeOK, NextLeg, Step, NothingToDelete
<1>2. job[o].legs \in Seq(SUBSET Keys) /\ job[o].ahead = {} /\ kept[o] \subseteq job[o].req.manifest
  BY <1>1 DEF Job, Local, NothingLeft, NewKept
<1>3. CASE job[o].legs = <<>>
  <2>1. job' = [job EXCEPT ![o] = [job[o] EXCEPT !.pc = AfterDeploy(job[o].req)]]
    BY <1>3 DEF NextLeg
  <2>2. ~Idle(o)
    BY <1>1 DEF Idle
  <2> QED BY <1>1, <1>2, <1>3, <2>1, <2>2, AfterDeployHasCause, BucketAlone, StageOver
<1>4. CASE job[o].legs # <<>>
  <2> DEFINE j == [job[o] EXCEPT !.rest = Head(job[o].legs), !.legs = Tail(job[o].legs)]
  <2>1. job' = [job EXCEPT ![o] = j]
    BY <1>4 DEF NextLeg
  <2>2. /\ Head(job[o].legs) \in SUBSET Keys /\ Tail(job[o].legs) \in Seq(SUBSET Keys)
        /\ Head(job[o].legs) \subseteq LegKeys(job[o].legs)
        /\ LegKeys(Tail(job[o].legs)) \subseteq LegKeys(job[o].legs)
    BY <1>2, <1>4, LegFacts
  <2>3. /\ j \in Job /\ j.pc = "Legs" /\ j.req = job[o].req /\ j.ahead = {}
        /\ j.pending = job[o].pending /\ j.rest = Head(job[o].legs)
        /\ j.legs = Tail(job[o].legs)
    BY <1>1, <1>2, <2>2 DEF Job
  <2> HIDE DEF j
  <2>4. job'[o] = j
    BY <2>1, <2>3, JobReplaced DEF IInv
  <2>5. Doomed(o)' \subseteq Doomed(o)
    BY <1>1, <1>2, <2>2, <2>3, <2>4 DEF Doomed
  <2> QED BY <1>1, <2>1, <2>3, <2>5, BucketAlone, CleanupStep DEF Cleaning
<1> QED BY <1>3, <1>4

LEMMA FailKeeps ==
  ASSUME IInv, NEW o \in Owner, Fail(o)
  PROVE  IInv'
<1>1. /\ ~Idle(o) /\ UNCHANGED <<present, tag, known, kept>>
      /\ job' = [job EXCEPT ![o] = [job[o] EXCEPT !.pc = "Failed"]]
  BY DEF IInv, TypeOK, Fail, Idle
<1> QED BY <1>1, BucketAlone, StageOver

-----------------------------------------------------------------------------
(* The steps that change the bucket, or what is protected *)

\* What a cleanup may still delete is not held for anybody.
LEMMA DoomedNotHeld ==
  ASSUME IInv, NEW w \in Owner, Cleaning(w), NEW k \in Doomed(w), NEW o \in Owner
  PROVE  k \notin Held(o)
<1>1. Deletable(w, k)
  BY DEF IInv, DoomedDeletable
<1>2. CASE o = w
  <2>1. Held(w) \subseteq job[w].req.manifest
    BY DEF IInv, Local, NewKept, Held, Step, Cleaning
  <2> QED BY <1>1, <1>2, <2>1 DEF Deletable
<1>3. CASE o # w
  <2>1. ~InNamespace(k, tag[o])
    BY <1>1, <1>3 DEF Deletable
  <2>2. k \notin kept[o]
    <3>1. /\ known[w] = job[w].req.ns
          /\ InNamespace(k, job[w].req.ns) \/ InNamespace(k, job[w].req.prev)
      BY <1>1 DEF IInv, Local, RequestKnown, Deletable, Idle, Cleaning
    <3>2. \E ns \in Reach(w, tag) : InNamespace(k, ns)
      BY <3>1 DEF Reach, InNamespace
    <3> QED BY <1>3, <2>1, <3>2 DEF IInv, KeptPlaced
  <2>3. Step(o, "Transfer") => k \notin job[o].req.manifest
    BY <2>1 DEF IInv, Local, RequestKnown, DeployStages, Step, Idle
  <2> QED BY <2>2, <2>3 DEF Held
<1> QED BY <1>2, <1>3

LEMMA DeleteObjectsKeeps ==
  ASSUME IInv, NEW o \in Owner, DeleteObjects(o)
  PROVE  IInv'
<1>1. /\ job[o] \in Job /\ Cleaning(o) /\ NothingLeft(o) /\ present \subseteq Keys
      /\ Outside /\ UNCHANGED kept
  BY DEF IInv, Local, TypeOK, DeleteObjects, Outside
<1>2. PICK deleted \in SUBSET job[o].pending :
        /\ present' = present \ deleted
        /\ \/ job' = [job EXCEPT ![o] = [job[o] EXCEPT !.pending = {}, !.attempt = 0]]
           \/ \E again \in {job[o].pending \ deleted, job[o].pending} :
                job' = [job EXCEPT ![o] =
                          [job[o] EXCEPT !.pending = again, !.attempt = job[o].attempt + 1]]
           \/ job' = [job EXCEPT ![o] = [job[o] EXCEPT !.pc = "Failed"]]
  BY <1>1 DEF DeleteObjects
<1>3. present' \subseteq Keys /\ \A w \in Owner : Held(w) \subseteq present'
  <2>1. \A k \in deleted : k \in Doomed(o)
    BY DEF Doomed
  <2>2. \A w \in Owner : Held(w) \subseteq present
    BY DEF IInv, HeldPresent
  <2> QED BY <1>1, <1>2, <2>1, <2>2, DoomedNotHeld
<1>4. ASSUME NEW again \in SUBSET job[o].pending, NEW n \in Nat,
             job' = [job EXCEPT ![o] = [job[o] EXCEPT !.pending = again, !.attempt = n]]
      PROVE  IInv'
  <2> DEFINE j == [job[o] EXCEPT !.pending = again, !.attempt = n]
  <2>1. /\ j \in Job /\ j.pc = job[o].pc /\ j.req = job[o].req /\ j.legs = job[o].legs
        /\ j.ahead = job[o].ahead /\ j.pending = again /\ j.rest = job[o].rest
        /\ j.target = job[o].target /\ j.fetched = job[o].fetched
    BY <1>1 DEF Job
  <2>2. job' = [job EXCEPT ![o] = j]
    BY <1>4
  <2> HIDE DEF j
  <2>3. job'[o] = j
    BY <2>1, <2>2, JobReplaced DEF IInv
  <2>4. Doomed(o)' \subseteq Doomed(o)
    BY <2>1, <2>3 DEF Doomed
  <2> QED BY <1>1, <1>3, <2>1, <2>2, <2>4, CleanupStep DEF NothingLeft
<1>5. job[o].attempt + 1 \in Nat /\ ~Idle(o)
  BY <1>1 DEF Job, Cleaning, Idle
<1>6. CASE job' = [job EXCEPT ![o] = [job[o] EXCEPT !.pc = "Failed"]]
  BY <1>1, <1>3, <1>5, <1>6, StageOver
<1> QED BY <1>2, <1>4, <1>5, <1>6

LEMMA TransferKeeps ==
  ASSUME IInv, NEW o \in Owner, Transfer(o)
  PROVE  IInv'
<1>1. /\ job[o] \in Job /\ Local(o) /\ job[o].pc = "Transfer" /\ present \subseteq Keys
      /\ Outside /\ UNCHANGED kept /\ \A w \in Owner : Held(w) \subseteq present
  BY DEF IInv, TypeOK, HeldPresent, Transfer, Step, Outside
<1>2. PICK k \in job[o].unsent :
        /\ present' = present \cup {k}
        /\ job' = [job EXCEPT ![o].unsent = @ \ {k}]
  BY DEF Transfer
<1> DEFINE j == [job[o] EXCEPT !.unsent = job[o].unsent \ {k}]
<1>3. /\ j \in Job /\ j.pc = "Transfer" /\ j.req = job[o].req /\ j.legs = job[o].legs
      /\ j.ahead = job[o].ahead /\ j.pending = job[o].pending /\ j.rest = job[o].rest
      /\ j.current = job[o].current /\ j.child = job[o].child
      /\ j.unsent = job[o].unsent \ {k} /\ k \in Keys
  BY <1>1 DEF Job
<1>4. job' = [job EXCEPT ![o] = j]
  BY <1>2
<1> HIDE DEF j
<1>5. job' \in [Owner -> Job] /\ job'[o] = j /\ Others(o)
  BY <1>3, <1>4, JobReplaced DEF IInv
<1>6. Local(o)'
  BY <1>1, <1>3, <1>5 DEF Outside, Local, RequestKnown, DeployStages, NothingLeft,
     CandidatesStale, NewKept, GuardHasCause, Idle
<1>7. HeldPresent(o)'
  BY <1>1, <1>2, <1>3, <1>5 DEF HeldPresent, Held, Step
<1>8. DoomedDeletable(o)'
  BY <1>3, <1>5 DEF DoomedDeletable, Cleaning
<1>9. present' \subseteq Keys /\ \A w \in Owner : Held(w) \subseteq present'
  BY <1>1, <1>2, <1>3
<1> QED BY <1>1, <1>3, <1>5, <1>6, <1>7, <1>8, <1>9, BucketStep

LEMMA TransfersEndKeeps ==
  ASSUME IInv, NEW o \in Owner, TransfersEnd(o)
  PROVE  IInv'
<1> DEFINE j == [job[o] EXCEPT !.pc = "Tags"]
           manifest == job[o].req.manifest
<1>1. /\ job[o] \in Job /\ Local(o) /\ job[o].pc = "Transfer" /\ job[o].unsent = {}
      /\ Outside /\ UNCHANGED present /\ \A w \in Owner : Held(w) \subseteq present
      /\ kept' = [kept EXCEPT ![o] = manifest]
  BY DEF IInv, TypeOK, HeldPresent, TransfersEnd, Step, Outside
<1>2. /\ j \in Job /\ j.pc = "Tags" /\ j.req = job[o].req /\ j.legs = job[o].legs
      /\ j.ahead = job[o].ahead /\ j.pending = job[o].pending /\ j.rest = job[o].rest
      /\ j.current = job[o].current /\ j.child = job[o].child
      /\ manifest \subseteq Keys
  BY <1>1 DEF Job, Request, Stage
<1>3. job' = [job EXCEPT ![o] = j]
  BY DEF TransfersEnd
<1> HIDE DEF j
<1>4. job' \in [Owner -> Job] /\ job'[o] = j /\ Others(o)
  BY <1>2, <1>3, JobReplaced DEF IInv
<1>5. /\ kept' \in [Owner -> SUBSET Keys] /\ kept'[o] = manifest
      /\ \A w \in Owner \ {o} : kept'[w] = kept[w]
  BY <1>1, <1>2 DEF IInv, TypeOK
<1>6. \A w \in Owner \ {o} : Facts(w)'
  BY <1>1, <1>2, <1>4, <1>5, OthersUndisturbed
<1>7. Local(o)'
  BY <1>1, <1>2, <1>4, <1>5 DEF Outside, Local, RequestKnown, DeployStages, NothingLeft,
     CandidatesStale, NewKept, GuardHasCause, Idle
<1>8. KeptPlaced(o)'
  BY <1>1, <1>2, <1>4, <1>5 DEF Outside, Local, RequestKnown, DeployStages, Idle, KeptPlaced
<1>9. HeldPresent(o)' /\ DoomedDeletable(o)'
  BY <1>1, <1>2, <1>4, <1>5 DEF HeldPresent, Held, Step, DoomedDeletable, Cleaning
<1>10. TypeOK'
  BY <1>1, <1>4, <1>5 DEF IInv, TypeOK, Outside
<1> QED BY <1>6, <1>7, <1>8, <1>9, <1>10 DEF IInv, Facts

-----------------------------------------------------------------------------
(* CloudFormation's steps *)

\* What a change of the tags leaves to prove: nobody is given a place to reach that
\* was not looked at, and what is protected for others stays where it is.
LEMMA RetagKeeps ==
  ASSUME IInv, NEW o \in Owner, NEW t \in Places \cup {NoNs}, NEW keys \in SUBSET kept[o],
         Retag(o, t, keys), Others(o), UNCHANGED present, job' \in [Owner -> Job],
         known' \in [Owner -> Places \cup {NoNs}],
         \A w \in Owner \ {o} : known'[w] = known[w],
         {known'[o], job'[o].req.prev} \subseteq {t, known[o], job[o].req.prev, NoNs}
  PROVE  /\ TypeOK' /\ tag'[o] = t /\ kept'[o] \subseteq keys
         /\ KeptPlaced(o)' /\ \A w \in Owner \ {o} : Facts(w)'
<1> DEFINE K(w) == IF w = o THEN keys ELSE kept[w]
<1>1. /\ tag' = [tag EXCEPT ![o] = t] /\ \A w \in Owner \ {o} : ~Cleaning(w)
      /\ kept' = [w \in Owner |-> StillKept(w, K(w), tag')]
  BY DEF Retag
<1>2. /\ tag' \in [Owner -> Places \cup {NoNs}] /\ tag'[o] = t
      /\ \A w \in Owner \ {o} : tag'[w] = tag[w]
  BY <1>1 DEF IInv, TypeOK
<1>3. \A w \in Owner : K(w) \subseteq kept[w]
  OBVIOUS
<1>4. \A w \in Owner : kept'[w] = StillKept(w, K(w), tag')
  BY <1>1
<1> HIDE DEF K
<1>5. \A w \in Owner : kept'[w] \subseteq K(w)
  BY <1>4 DEF StillKept
<1>6. TypeOK'
  <2>1. kept' \in [Owner -> SUBSET Keys]
    BY <1>1, <1>3, <1>5 DEF IInv, TypeOK
  <2> QED BY <1>2, <2>1 DEF IInv, TypeOK
<1>7. \A w \in Owner : Reach(w, tag)' \subseteq Reach(w, tag')
  <2>1. \A w \in Owner \ {o} : job'[w] = job[w]
    BY DEF Others
  <2> QED BY <1>2, <2>1 DEF Reach
<1>8. \A w \in Owner : KeptPlaced(w)'
  BY <1>4, <1>7 DEF StillKept, KeptPlaced
<1>9. ASSUME NEW w \in Owner \ {o}
      PROVE  Facts(w)'
  <2>1. /\ job'[w] = job[w] /\ tag'[w] = tag[w] /\ known'[w] = known[w]
        /\ kept'[w] \subseteq kept[w] /\ ~Cleaning(w)
    BY <1>1, <1>2, <1>3, <1>5 DEF Others
  <2>2. Local(w)'
    BY <2>1 DEF IInv, Local, RequestKnown, DeployStages, NothingLeft, CandidatesStale,
       NewKept, GuardHasCause, Idle
  <2>3. DoomedDeletable(w)' /\ HeldPresent(w)'
    BY <2>1 DEF IInv, DoomedDeletable, Cleaning, HeldPresent, Held, Step
  <2> QED BY <1>8, <2>2, <2>3 DEF Facts
<1>10. kept'[o] \subseteq keys
  BY <1>5 DEF K
<1> QED BY <1>2, <1>6, <1>8, <1>9, <1>10

LEMMA SendDeployKeeps ==
  ASSUME IInv, NEW o \in Owner, SendDeploy(o)
  PROVE  IInv'
<1>0. PICK ns \in Places, stale \in BOOLEAN, authorized \in BOOLEAN :
        \E manifest \in Plans[ns] :
          /\ Send(o, [type |-> IF known[o] = NoNs THEN "Create" ELSE "Update", ns |-> ns,
                      prev |-> known[o], manifest |-> manifest, stale |-> stale,
                      authorized |-> authorized, all |-> FALSE], "List")
          /\ known' = [known EXCEPT ![o] = ns]
          /\ Retag(o, ns, kept[o])
  BY DEF SendDeploy
<1>1. PICK manifest \in Plans[ns] :
        /\ Send(o, [type |-> IF known[o] = NoNs THEN "Create" ELSE "Update", ns |-> ns,
                    prev |-> known[o], manifest |-> manifest, stale |-> stale,
                    authorized |-> authorized, all |-> FALSE], "List")
        /\ known' = [known EXCEPT ![o] = ns]
        /\ Retag(o, ns, kept[o])
  BY <1>0
<1> DEFINE r == [type |-> IF known[o] = NoNs THEN "Create" ELSE "Update", ns |-> ns,
                 prev |-> known[o], manifest |-> manifest, stale |-> stale,
                 authorized |-> authorized, all |-> FALSE]
           j == Begin(r, "List")
<1>2. manifest \subseteq Keys /\ \A k \in manifest : InNamespace(k, ns)
  BY PlacesAssumption
<1>3. known[o] \in Places \cup {NoNs} /\ kept[o] \in SUBSET kept[o]
  BY DEF IInv, TypeOK
<1>4. /\ r \in Request /\ r.ns = ns /\ r.prev = known[o] /\ r.manifest = manifest
      /\ r.type # "Delete"
  BY <1>2, <1>3 DEF Request
<1>5. job' = [job EXCEPT ![o] = j] /\ UNCHANGED present
  BY <1>1 DEF Send
<1> HIDE DEF r
<1>6. /\ j \in Job /\ j.pc = "List" /\ j.req = r /\ j.pending = {} /\ j.rest = {}
      /\ j.ahead = {} /\ j.legs = <<>>
  BY <1>4, BeginIsJob DEF Stage
<1> HIDE DEF j
<1>7. job' \in [Owner -> Job] /\ job'[o] = j /\ Others(o)
  BY <1>5, <1>6, JobReplaced DEF IInv
<1>8. /\ known' \in [Owner -> Places \cup {NoNs}] /\ known'[o] = ns
      /\ \A w \in Owner \ {o} : known'[w] = known[w]
  BY <1>1 DEF IInv, TypeOK
<1>9. /\ TypeOK' /\ tag'[o] = ns /\ kept'[o] \subseteq kept[o]
      /\ KeptPlaced(o)' /\ \A w \in Owner \ {o} : Facts(w)'
  <2>1. {known'[o], job'[o].req.prev} \subseteq {ns, known[o], job[o].req.prev, NoNs}
    BY <1>4, <1>6, <1>7, <1>8
  <2> QED BY <1>1, <1>3, <1>5, <1>7, <1>8, <2>1, RetagKeeps
<1>10. Local(o)'
  BY <1>2, <1>4, <1>6, <1>7, <1>8, <1>9 DEF Local, RequestKnown, DeployStages, NothingLeft,
     CandidatesStale, NewKept, GuardHasCause, Idle
<1>11. DoomedDeletable(o)' /\ HeldPresent(o)'
  BY <1>5, <1>6, <1>7, <1>9 DEF IInv, DoomedDeletable, Cleaning, HeldPresent, Held, Step
<1> QED BY <1>9, <1>10, <1>11 DEF IInv, Facts

LEMMA SendDeleteKeeps ==
  ASSUME IInv, NEW o \in Owner, SendDelete(o)
  PROVE  IInv'
<1>1. known[o] \in Places
  BY DEF IInv, TypeOK, SendDelete
<1>2. PICK all \in BOOLEAN, ns \in {NoNs, tag[o]} :
        /\ Send(o, [type |-> "Delete", ns |-> known[o], prev |-> NoNs, manifest |-> {},
                    stale |-> FALSE, authorized |-> FALSE, all |-> all],
                IF all THEN "Guard" ELSE "Done")
        /\ Retag(o, ns, {})
  BY DEF SendDelete
<1> DEFINE r == [type |-> "Delete", ns |-> known[o], prev |-> NoNs, manifest |-> {},
                 stale |-> FALSE, authorized |-> FALSE, all |-> all]
           stage == IF all THEN "Guard" ELSE "Done"
           j == Begin(r, stage)
<1>3. /\ r \in Request /\ r.ns = known[o] /\ r.prev = NoNs /\ r.manifest = {}
      /\ r.type = "Delete" /\ stage \in {"Guard", "Done"} /\ stage \in Stage
  BY <1>1 DEF Request, Stage
<1>4. job' = [job EXCEPT ![o] = j] /\ UNCHANGED present /\ UNCHANGED known
  BY <1>2 DEF Send, SendDelete
<1> HIDE DEF r, stage
<1>5. /\ j \in Job /\ j.pc = stage /\ j.req = r /\ j.pending = {} /\ j.rest = {}
      /\ j.ahead = {} /\ j.legs = <<>>
  BY <1>3, BeginIsJob
<1> HIDE DEF j
<1>6. job' \in [Owner -> Job] /\ job'[o] = j /\ Others(o)
  BY <1>4, <1>5, JobReplaced DEF IInv
<1>7. /\ known' \in [Owner -> Places \cup {NoNs}] /\ known'[o] = known[o]
      /\ \A w \in Owner \ {o} : known'[w] = known[w]
      /\ ns \in Places \cup {NoNs} /\ {} \in SUBSET kept[o]
  BY <1>4 DEF IInv, TypeOK
<1>8. /\ TypeOK' /\ tag'[o] = ns /\ kept'[o] \subseteq {}
      /\ KeptPlaced(o)' /\ \A w \in Owner \ {o} : Facts(w)'
  <2>1. {known'[o], job'[o].req.prev} \subseteq {ns, known[o], job[o].req.prev, NoNs}
    BY <1>3, <1>5, <1>6, <1>7
  <2> QED BY <1>2, <1>4, <1>6, <1>7, <2>1, RetagKeeps
<1>9. Local(o)'
  BY <1>3, <1>5, <1>6, <1>7, <1>8 DEF Local, RequestKnown, DeployStages, NothingLeft,
     CandidatesStale, NewKept, GuardHasCause, Idle
<1>10. DoomedDeletable(o)' /\ HeldPresent(o)'
  BY <1>3, <1>5, <1>6, <1>8 DEF DoomedDeletable, Cleaning, HeldPresent, Held, Step
<1> QED BY <1>8, <1>9, <1>10 DEF IInv, Facts

LEMMA UntagKeeps ==
  ASSUME IInv, NEW o \in Owner, Untag(o)
  PROVE  IInv'
<1>1. /\ Idle(o) /\ Retag(o, NoNs, kept[o]) /\ UNCHANGED <<present, known, job>>
      /\ NoNs \in Places \cup {NoNs} /\ kept[o] \in SUBSET kept[o]
  BY DEF Untag
<1>2. /\ job' \in [Owner -> Job] /\ known' \in [Owner -> Places \cup {NoNs}]
      /\ Others(o) /\ \A w \in Owner \ {o} : known'[w] = known[w]
      /\ {known'[o], job'[o].req.prev} \subseteq {NoNs, known[o], job[o].req.prev, NoNs}
  BY <1>1 DEF IInv, TypeOK, Others
<1>3. /\ TypeOK' /\ kept'[o] \subseteq kept[o]
      /\ KeptPlaced(o)' /\ \A w \in Owner \ {o} : Facts(w)'
  BY <1>1, <1>2, RetagKeeps
<1>4. Local(o)'
  BY <1>1 DEF Local, RequestKnown, DeployStages, NothingLeft, CandidatesStale, NewKept,
     GuardHasCause, Idle
<1>5. DoomedDeletable(o)' /\ HeldPresent(o)'
  BY <1>1, <1>3 DEF IInv, Idle, DoomedDeletable, Cleaning, HeldPresent, Held, Step
<1> QED BY <1>3, <1>4, <1>5 DEF IInv, Facts

LEMMA RespondKeeps ==
  ASSUME IInv, NEW o \in Owner, Respond(o)
  PROVE  IInv'
<1>1. /\ job[o].pc \in {"Done", "Failed"} /\ job' = [job EXCEPT ![o] = NoJob]
      /\ UNCHANGED <<present, kept>>
  BY DEF Respond
<1>2. /\ job' \in [Owner -> Job] /\ job'[o].pc = "Idle" /\ job'[o].req.prev = NoNs /\ Others(o)
  BY <1>1, NoJobIsJob, JobReplaced DEF IInv
<1>3. /\ tag' = tag /\ known' \in [Owner -> Places \cup {NoNs}]
      /\ \A w \in Owner \ {o} : known'[w] = known[w]
      /\ known'[o] \in {NoNs, known[o]}
  BY DEF IInv, TypeOK, Respond
<1>4. TypeOK'
  BY <1>1, <1>2, <1>3 DEF IInv, TypeOK
<1>5. \A w \in Owner \ {o} : job'[w] = job[w]
  BY <1>2 DEF Others
<1>6. \A w \in Owner : Reach(w, tag)' \subseteq Reach(w, tag)
  BY <1>2, <1>3, <1>5 DEF Reach
<1>7. ASSUME NEW w \in Owner \ {o}
      PROVE  Facts(w)'
  <2>1. job'[w] = job[w] /\ known'[w] = known[w]
    BY <1>3, <1>5
  <2>2. Local(w)'
    BY <1>1, <1>3, <2>1 DEF IInv, Local, RequestKnown, DeployStages, NothingLeft,
       CandidatesStale, NewKept, GuardHasCause, Idle
  <2>3. DoomedDeletable(w)'
    BY <1>3, <2>1 DEF IInv, DoomedDeletable, Cleaning, Doomed, Deletable
  <2>4. KeptPlaced(w)'
    BY <1>1, <1>3, <1>6, <2>1 DEF IInv, KeptPlaced
  <2>5. HeldPresent(w)'
    BY <1>1, <2>1 DEF IInv, HeldPresent, Held, Step
  <2> QED BY <2>2, <2>3, <2>4, <2>5 DEF Facts
<1>8. Local(o)' /\ DoomedDeletable(o)' /\ HeldPresent(o)'
  BY <1>1, <1>2 DEF IInv, Local, RequestKnown, DeployStages, NothingLeft, CandidatesStale,
     NewKept, GuardHasCause, Idle, DoomedDeletable, Cleaning, HeldPresent, Held, Step
<1>9. KeptPlaced(o)'
  BY <1>1, <1>3, <1>6 DEF IInv, KeptPlaced
<1> QED BY <1>4, <1>7, <1>8, <1>9 DEF IInv, Facts

-----------------------------------------------------------------------------
(* Theorems *)

LEMMA InitHolds == Init => IInv
<1> SUFFICES ASSUME Init PROVE IInv
  OBVIOUS
<1>1. TypeOK
  BY NoJobIsJob DEF Init, TypeOK
<1>2. \A o \in Owner : job[o].pc = "Idle" /\ kept[o] = {}
  BY NoJobIsJob DEF Init
<1>3. \A o \in Owner : Local(o) /\ DoomedDeletable(o) /\ KeptPlaced(o) /\ HeldPresent(o)
  BY <1>2 DEF Local, RequestKnown, DeployStages, NothingLeft, CandidatesStale, NewKept,
     GuardHasCause, Idle, DoomedDeletable, Cleaning, KeptPlaced, HeldPresent, Held, Step
<1> QED BY <1>1, <1>3 DEF IInv

LEMMA StepHolds == IInv /\ [Next]_vars => IInv'
<1> SUFFICES ASSUME IInv, [Next]_vars PROVE IInv'
  OBVIOUS
<1>1. ASSUME NEW o \in Owner, ProviderStep(o)
      PROVE  IInv'
  BY <1>1, ListDestinationKeeps, TransferKeeps, TransfersEndKeeps, ReadTagsKeeps,
     GuardDeleteKeeps, FetchPageKeeps, TurnPageKeeps, ScanEndsKeeps, NextLegKeeps,
     TakeChunkKeeps, DeleteObjectsKeeps DEF ProviderStep
<1>2. ASSUME NEW o \in Owner,
             SendDeploy(o) \/ SendDelete(o) \/ Untag(o) \/ Respond(o) \/ Fail(o)
      PROVE  IInv'
  BY <1>2, SendDeployKeeps, SendDeleteKeeps, UntagKeeps, RespondKeeps, FailKeeps
<1>3. CASE UNCHANGED vars
  BY <1>3 DEF vars, IInv, TypeOK, Local, RequestKnown, DeployStages, NothingLeft,
     CandidatesStale, NewKept, GuardHasCause, Idle, DoomedDeletable, Cleaning, Doomed,
     Deletable, KeptPlaced, Reach, HeldPresent, Held, Step
<1> QED BY <1>1, <1>2, <1>3 DEF Next, Terminated

\* The invariant holds of every behaviour.
THEOREM Invariant == Spec => []IInv
BY InitHolds, StepHolds, PTL DEF Spec

\* Jobs, tags and keys keep their types (DeletionCandidates, DestinationListPager).
THEOREM LifecycleTypes == Spec => []TypeOK
<1>1. IInv => TypeOK
  BY DEF IInv
<1> QED BY <1>1, Invariant, PTL

\* No cleanup of any resource removes what a deployment has put in place, whatever
\* places the resources are given one after the other and however requests of
\* different resources interleave (guarded_delete_namespace, delete_stale_objects).
THEOREM KeptContentHolds == Spec => []KeptContent
<1>1. IInv => KeptContent
  BY DEF IInv, HeldPresent, Held, KeptContent
<1> QED BY <1>1, Invariant, PTL

-----------------------------------------------------------------------------
(* What an update retains *)

\* A request that leaves a namespace without leave to delete there, and what its
\* cleanup may then still delete: only stale keys of the new namespace.  A delete
\* leaves nothing.
Unauthorized(r) == r.prev \notin {NoNs, r.ns} /\ ~r.authorized
DoomedStale(w) ==
  Cleaning(w) /\ Unauthorized(job[w].req) => Doomed(w) \subseteq StaleKeys(job[w].req)
DeleteIsAll(w) == job[w].req.type = "Delete" => job[w].req.prev = NoNs

OnlyStale == \A w \in Owner : DoomedStale(w) /\ DeleteIsAll(w)

\* What a step of the provider leaves to prove.
LEMMA OnlyStaleStep ==
  ASSUME TypeOK, OnlyStale, NEW o \in Owner, NEW j \in Job, job' = [job EXCEPT ![o] = j],
         j.req = job[o].req,
         j.pc \in {"Legs", "Scan"} /\ Unauthorized(j.req) =>
           j.pending \cup j.rest \cup j.ahead \cup LegKeys(j.legs)
             \cup (IF j.pc = "Scan" THEN j.target ELSE {}) \subseteq StaleKeys(j.req)
  PROVE  OnlyStale'
<1>1. job'[o] = j /\ \A w \in Owner \ {o} : job'[w] = job[w]
  BY JobReplaced DEF Others
<1>2. DeleteIsAll(o)'
  BY <1>1 DEF OnlyStale, DeleteIsAll
<1>3. DoomedStale(o)'
  BY <1>1 DEF DoomedStale, Doomed, Cleaning
<1>4. \A w \in Owner \ {o} : DoomedStale(w)' /\ DeleteIsAll(w)'
  BY <1>1 DEF OnlyStale, DoomedStale, DeleteIsAll, Doomed, Cleaning
<1> QED BY <1>2, <1>3, <1>4 DEF OnlyStale

\* Within a cleanup less and less is to be deleted.
LEMMA OnlyStaleCleanup ==
  ASSUME TypeOK, OnlyStale, NEW o \in Owner, NEW j \in Job, job' = [job EXCEPT ![o] = j],
         Cleaning(o), j.req = job[o].req, j.pc = job[o].pc, j.target = job[o].target,
         j.pending \cup j.rest \cup j.ahead \cup LegKeys(j.legs) \subseteq Doomed(o)
  PROVE  OnlyStale'
<1>1. Unauthorized(job[o].req) => Doomed(o) \subseteq StaleKeys(job[o].req)
  BY DEF OnlyStale, DoomedStale
<1>2. job[o].pc = "Scan" => job[o].target \subseteq Doomed(o)
  BY DEF Doomed
<1> QED BY <1>1, <1>2, OnlyStaleStep

LEMMA OnlyStaleOver ==
  ASSUME TypeOK, OnlyStale, NEW o \in Owner,
         NEW stage \in Stage \ {"Legs", "Scan"},
         job' = [job EXCEPT ![o] = [job[o] EXCEPT !.pc = stage]]
  PROVE  OnlyStale'
<1> DEFINE j == [job[o] EXCEPT !.pc = stage]
<1>1. job[o] \in Job
  BY DEF TypeOK
<1>2. j \in Job /\ j.pc = stage /\ j.req = job[o].req
  BY <1>1 DEF Job
<1>3. job' = [job EXCEPT ![o] = j]
  OBVIOUS
<1> HIDE DEF j
<1> QED BY <1>2, <1>3, OnlyStaleStep

LEMMA OnlyStaleReadTags ==
  ASSUME IInv, OnlyStale, NEW o \in Owner, ReadTags(o)
  PROVE  OnlyStale'
<1> DEFINE r     == job[o].req
           cur   == job[o].current
           child == job[o].child
           doCurrent == r.stale /\ HasCandidates(cur) /\ ~Competing(o, r.ns, Protected(r))
           doChild == CleanedChild(r) # NoNs /\ HasCandidates(child) /\ ~Competing(o, r.prev, NoNs)
           legs == (IF doCurrent THEN <<cur.keys>> ELSE <<>>)
                     \o (IF doChild THEN <<child.keys>> ELSE <<>>)
           target == (IF doCurrent THEN StaleKeys(r) ELSE {})
                       \cup (IF doChild THEN ChildStaleKeys(r) ELSE {})
           over == [job[o] EXCEPT !.pc = AfterDeploy(r)]
           inLegs == [job[o] EXCEPT !.pc = "Legs", !.legs = legs]
<1>1. /\ job[o] \in Job /\ r \in Request /\ job[o].pc = "Tags" /\ TypeOK
      /\ cur.keys \subseteq StaleKeys(r) /\ child.keys \subseteq ChildStaleKeys(r)
      /\ cur.keys \in SUBSET Keys /\ child.keys \in SUBSET Keys
      /\ job[o].pending = {} /\ job[o].rest = {} /\ job[o].ahead = {} /\ job[o].legs = <<>>
  BY DEF IInv, Local, CandidatesStale, NothingLeft, TypeOK, Job, Candidates, ReadTags, Step
<1>2. Unauthorized(r) => ~doChild
  BY DEF Unauthorized, CleanedChild, Change, CleanupOfPrevious
<1>3. \/ job' = [job EXCEPT ![o] = over]
      \/ job' = [job EXCEPT ![o] = inLegs]
      \/ job' = [job EXCEPT ![o] = Sweep(job[o], r.ns, target)]
  BY DEF ReadTags
<1>4. CASE job' = [job EXCEPT ![o] = over]
  <2>1. AfterDeploy(r) \in Stage \ {"Legs", "Scan"}
    BY AfterDeployHasCause DEF Stage
  <2> QED BY <1>1, <1>4, <2>1, OnlyStaleOver
<1>5. CASE job' = [job EXCEPT ![o] = inLegs]
  <2> HIDE DEF doCurrent, doChild
  <2>1. /\ legs \in Seq(SUBSET Keys)
        /\ ~doChild => LegKeys(legs) \subseteq StaleKeys(r)
    <3> DEFINE a == IF doCurrent THEN <<cur.keys>> ELSE <<>>
               b == IF doChild THEN <<child.keys>> ELSE <<>>
    <3>1. <<>> \in Seq(SUBSET Keys) /\ LegKeys(<<>>) = {}
      BY NoLegs
    <3>2. /\ <<cur.keys>> \in Seq(SUBSET Keys) /\ LegKeys(<<cur.keys>>) = cur.keys
          /\ <<child.keys>> \in Seq(SUBSET Keys)
      BY <1>1, OneLeg
    <3>3. a \in Seq(SUBSET Keys) /\ LegKeys(a) \subseteq StaleKeys(r)
      <4>1. a = <<cur.keys>> \/ a = <<>>
        OBVIOUS
      <4> HIDE DEF a
      <4> QED BY <1>1, <3>1, <3>2, <4>1
    <3>4. b \in Seq(SUBSET Keys) /\ (~doChild => LegKeys(b) = {})
      <4>1. (b = <<child.keys>> /\ doChild) \/ b = <<>>
        OBVIOUS
      <4> HIDE DEF b
      <4> QED BY <3>1, <3>2, <4>1
    <3>5. legs = a \o b
      OBVIOUS
    <3> HIDE DEF a, b, legs
    <3>6. a \o b \in Seq(SUBSET Keys) /\ LegKeys(a \o b) \subseteq LegKeys(a) \cup LegKeys(b)
      BY <3>3, <3>4, BothLegs
    <3> QED BY <3>3, <3>4, <3>5, <3>6
  <2> HIDE DEF legs
  <2>2. /\ inLegs \in Job /\ inLegs.req = r /\ inLegs.pc = "Legs" /\ inLegs.legs = legs
        /\ inLegs.pending = {} /\ inLegs.rest = {} /\ inLegs.ahead = {}
    BY <1>1, <2>1 DEF Job, Stage
  <2> HIDE DEF inLegs
  <2> QED BY <1>1, <1>2, <1>5, <2>1, <2>2, OnlyStaleStep
<1>6. CASE job' = [job EXCEPT ![o] = Sweep(job[o], r.ns, target)]
  <2> DEFINE j == Sweep(job[o], r.ns, target)
  <2>1. target \in SUBSET Keys /\ (~doChild => target \subseteq StaleKeys(r))
    BY <1>1, SelectedKeys
  <2> HIDE DEF doCurrent, doChild
  <2> HIDE DEF target
  <2>2. /\ j \in Job /\ j.req = r /\ j.pc = "Scan" /\ j.target = target
        /\ j.pending = {} /\ j.rest = {} /\ j.ahead = {} /\ j.legs = <<>>
    <3>1. job[o] \in Job /\ r.ns \in Places \cup {NoNs} /\ target \in SUBSET Keys
      BY <1>1, <2>1 DEF Request
    <3>2. /\ j \in Job /\ j.pc = "Scan" /\ j.target = target /\ j.req = job[o].req
          /\ j.pending = job[o].pending /\ j.rest = job[o].rest
          /\ j.ahead = job[o].ahead /\ j.legs = job[o].legs
      BY <3>1, SweepIsJob
    <3> QED BY <1>1, <3>2
  <2>3. job' = [job EXCEPT ![o] = j]
    BY <1>6
  <2> HIDE DEF j
  <2> QED BY <1>1, <1>2, <2>1, <2>2, <2>3, NoLegs, OnlyStaleStep
<1> QED BY <1>3, <1>4, <1>5, <1>6

LEMMA OnlyStaleGuard ==
  ASSUME IInv, OnlyStale, NEW o \in Owner, GuardDelete(o)
  PROVE  OnlyStale'
<1> DEFINE r == job[o].req
           target == {k \in Keys : InNamespace(k, Swept(r)) /\ ~InNamespace(k, Spared(r))}
           j == Sweep(job[o], Swept(r), target)
<1>1. job[o] \in Job /\ r \in Request /\ job[o].pc = "Guard" /\ TypeOK
  BY DEF IInv, TypeOK, Job, GuardDelete, Step
<1>2. ~Unauthorized(r)
  <2>1. CASE r.type = "Delete"
    BY <2>1 DEF OnlyStale, DeleteIsAll, Unauthorized
  <2>2. CASE r.type # "Delete"
    BY <1>1, <2>2 DEF IInv, Local, GuardHasCause, Change, CleanupOfPrevious, Unauthorized
  <2> QED BY <2>1, <2>2
<1>3. CASE job' = [job EXCEPT ![o] = [job[o] EXCEPT !.pc = "Done"]]
  <2>1. "Done" \in Stage \ {"Legs", "Scan"}
    BY DEF Stage
  <2> QED BY <1>1, <1>3, <2>1, OnlyStaleOver
<1>4. CASE job' = [job EXCEPT ![o] = j]
  <2>1. target \in SUBSET Keys /\ Swept(r) \in Places \cup {NoNs}
    BY <1>1, SelectedKeys
  <2> HIDE DEF target
  <2>2. j \in Job /\ j.req = r
    BY <1>1, <2>1, SweepIsJob
  <2> HIDE DEF j
  <2> QED BY <1>1, <1>2, <1>4, <2>2, OnlyStaleStep
<1> QED BY <1>3, <1>4 DEF GuardDelete

LEMMA OnlyStaleDeploys ==
  ASSUME IInv, OnlyStale, NEW o \in Owner,
         ListDestination(o) \/ Transfer(o) \/ TransfersEnd(o)
  PROVE  OnlyStale'
<1>1. /\ job[o] \in Job /\ TypeOK /\ job' \in [Owner -> Job]
      /\ job'[o].req = job[o].req /\ job'[o].pc \in {"Transfer", "Tags"}
      /\ \A w \in Owner \ {o} : job'[w] = job[w]
  <2>1. job \in [Owner -> Job] /\ job[o] \in Job
    BY DEF IInv, TypeOK
  <2>2. IInv'
    BY ListDestinationKeeps, TransferKeeps, TransfersEndKeeps
  <2>3. /\ job'[o].req = job[o].req /\ job'[o].pc \in {"Transfer", "Tags"}
        /\ \A w \in Owner \ {o} : job'[w] = job[w]
    <3>1. CASE ListDestination(o)
      BY <2>1, <3>1 DEF ListDestination, Job
    <3>2. CASE Transfer(o)
      BY <2>1, <3>2 DEF Transfer, Step, Job
    <3>3. CASE TransfersEnd(o)
      BY <2>1, <3>3 DEF TransfersEnd, Job
    <3> QED BY <3>1, <3>2, <3>3
  <2> QED BY <2>1, <2>2, <2>3 DEF IInv, TypeOK
<1>2. DoomedStale(o)' /\ DeleteIsAll(o)'
  BY <1>1 DEF OnlyStale, DoomedStale, DeleteIsAll, Cleaning
<1>3. \A w \in Owner \ {o} : DoomedStale(w)' /\ DeleteIsAll(w)'
  BY <1>1 DEF OnlyStale, DoomedStale, DeleteIsAll, Doomed, Cleaning
<1> QED BY <1>2, <1>3 DEF OnlyStale

LEMMA OnlyStaleCleans ==
  ASSUME IInv, OnlyStale, NEW o \in Owner,
         FetchPage(o) \/ TurnPage(o) \/ ScanEnds(o) \/ NextLeg(o) \/ TakeChunk(o)
  PROVE  OnlyStale'
<1>1. job[o] \in Job /\ TypeOK /\ NothingLeft(o)
  BY DEF IInv, Local, TypeOK
<1>2. CASE FetchPage(o)
  <2> DEFINE page == First(PageSize, Listing(job[o]))
             j == [job[o] EXCEPT !.cursor = Cursor(job[o], page),
                                 !.more = Truncated(job[o], page),
                                 !.fetched = TRUE, !.ahead = At(page) \cap job[o].target]
  <2>1. job[o].pc = "Scan" /\ job' = [job EXCEPT ![o] = j]
    BY <1>2 DEF FetchPage, Step
  <2>2. /\ Cursor(job[o], page) \in Positions /\ Truncated(job[o], page) \in BOOLEAN
        /\ At(page) \cap job[o].target \in SUBSET Keys
    BY <1>1, PageOfKeys, CursorIsPosition DEF Truncated, Job
  <2> HIDE DEF page
  <2>3. /\ j \in Job /\ j.pc = "Scan" /\ j.req = job[o].req /\ j.legs = job[o].legs
        /\ j.ahead \subseteq job[o].target /\ j.pending = job[o].pending
        /\ j.rest = job[o].rest /\ j.target = job[o].target
    BY <1>1, <2>1, <2>2 DEF Job
  <2> HIDE DEF j
  <2>4. j.pending \cup j.rest \cup j.ahead \cup LegKeys(j.legs) \subseteq Doomed(o)
    BY <2>1, <2>3 DEF Doomed
  <2> QED BY <1>1, <2>1, <2>3, <2>4, OnlyStaleCleanup DEF Cleaning
<1>3. CASE TurnPage(o)
  <2> DEFINE j == [job[o] EXCEPT !.rest = job[o].ahead, !.ahead = {}, !.fetched = FALSE]
  <2>1. job[o].pc = "Scan" /\ job' = [job EXCEPT ![o] = j]
    BY <1>3 DEF TurnPage, Step
  <2>2. /\ j \in Job /\ j.pc = "Scan" /\ j.req = job[o].req /\ j.legs = job[o].legs
        /\ j.ahead = {} /\ j.pending = job[o].pending
        /\ j.rest = job[o].ahead /\ j.target = job[o].target
    BY <1>1, <2>1 DEF Job
  <2> HIDE DEF j
  <2>3. j.pending \cup j.rest \cup j.ahead \cup LegKeys(j.legs) \subseteq Doomed(o)
    BY <2>2 DEF Doomed
  <2> QED BY <1>1, <2>1, <2>2, <2>3, OnlyStaleCleanup DEF Cleaning
<1>4. CASE ScanEnds(o)
  <2> DEFINE stage == IF job[o].req.type # "Delete" /\ job[o].sweep = job[o].req.ns
                      THEN AfterDeploy(job[o].req) ELSE "Done"
  <2>1. job' = [job EXCEPT ![o] = [job[o] EXCEPT !.pc = stage]]
    BY <1>1, <1>4 DEF TypeOK, ScanEnds
  <2>2. stage \in Stage \ {"Legs", "Scan"}
    BY AfterDeployHasCause DEF Stage
  <2> HIDE DEF stage
  <2> QED BY <1>1, <2>1, <2>2, OnlyStaleOver
<1>5. CASE NextLeg(o)
  <2>1. CASE job[o].legs = <<>>
    <3>1. job' = [job EXCEPT ![o] = [job[o] EXCEPT !.pc = AfterDeploy(job[o].req)]]
      BY <1>5, <2>1 DEF NextLeg
    <3>2. AfterDeploy(job[o].req) \in Stage \ {"Legs", "Scan"}
      BY AfterDeployHasCause DEF Stage
    <3> QED BY <1>1, <3>1, <3>2, OnlyStaleOver
  <2>2. CASE job[o].legs # <<>>
    <3> DEFINE j == [job[o] EXCEPT !.rest = Head(job[o].legs), !.legs = Tail(job[o].legs)]
    <3>1. job[o].pc = "Legs" /\ job' = [job EXCEPT ![o] = j]
      BY <1>5, <2>2 DEF NextLeg, Step
    <3>2. /\ Head(job[o].legs) \in SUBSET Keys /\ Tail(job[o].legs) \in Seq(SUBSET Keys)
          /\ Head(job[o].legs) \subseteq LegKeys(job[o].legs)
          /\ LegKeys(Tail(job[o].legs)) \subseteq LegKeys(job[o].legs)
      <4>1. job[o].legs \in Seq(SUBSET Keys)
        BY <1>1 DEF Job
      <4> QED BY <2>2, <4>1, LegFacts
    <3>3. /\ j \in Job /\ j.pc = "Legs" /\ j.req = job[o].req /\ j.ahead = job[o].ahead
          /\ j.pending = job[o].pending /\ j.rest = Head(job[o].legs)
          /\ j.legs = Tail(job[o].legs) /\ j.target = job[o].target
      BY <1>1, <3>1, <3>2 DEF Job
    <3> HIDE DEF j
    <3>4. j.pending \cup j.rest \cup j.ahead \cup LegKeys(j.legs) \subseteq Doomed(o)
      BY <3>2, <3>3 DEF Doomed
    <3> QED BY <1>1, <3>1, <3>3, <3>4, OnlyStaleCleanup DEF Cleaning
  <2> QED BY <2>1, <2>2
<1>6. CASE TakeChunk(o)
  <2> DEFINE chunk == At(First(ChunkSize, {Position(k) : k \in job[o].rest}))
             j == [job[o] EXCEPT !.pending = chunk, !.rest = job[o].rest \ chunk, !.attempt = 1]
  <2>1. Cleaning(o) /\ job' = [job EXCEPT ![o] = j]
    BY <1>6 DEF TakeChunk
  <2>2. chunk \subseteq job[o].rest
    BY <1>1, ChunkOfRest DEF Job
  <2> HIDE DEF chunk
  <2>3. /\ j \in Job /\ j.pc = job[o].pc /\ j.req = job[o].req /\ j.legs = job[o].legs
        /\ j.ahead = job[o].ahead /\ j.pending = chunk /\ j.rest \subseteq job[o].rest
        /\ j.target = job[o].target
    BY <1>1, <2>2 DEF Job
  <2> HIDE DEF j
  <2>4. j.pending \cup j.rest \cup j.ahead \cup LegKeys(j.legs) \subseteq Doomed(o)
    BY <2>2, <2>3 DEF Doomed
  <2> QED BY <1>1, <2>1, <2>3, <2>4, OnlyStaleCleanup
<1> QED BY <1>2, <1>3, <1>4, <1>5, <1>6

LEMMA OnlyStaleDeletes ==
  ASSUME IInv, OnlyStale, NEW o \in Owner, DeleteObjects(o)
  PROVE  OnlyStale'
<1>1. job[o] \in Job /\ TypeOK /\ Cleaning(o)
  BY DEF IInv, TypeOK, DeleteObjects
<1>2. PICK deleted \in SUBSET job[o].pending :
        \/ job' = [job EXCEPT ![o] = [job[o] EXCEPT !.pending = {}, !.attempt = 0]]
        \/ \E again \in {job[o].pending \ deleted, job[o].pending} :
             job' = [job EXCEPT ![o] =
                       [job[o] EXCEPT !.pending = again, !.attempt = job[o].attempt + 1]]
        \/ job' = [job EXCEPT ![o] = [job[o] EXCEPT !.pc = "Failed"]]
  BY <1>1 DEF DeleteObjects, TypeOK
<1>3. ASSUME NEW again \in SUBSET job[o].pending, NEW n \in Nat,
             job' = [job EXCEPT ![o] = [job[o] EXCEPT !.pending = again, !.attempt = n]]
      PROVE  OnlyStale'
  <2> DEFINE j == [job[o] EXCEPT !.pending = again, !.attempt = n]
  <2>1. /\ j \in Job /\ j.pc = job[o].pc /\ j.req = job[o].req /\ j.legs = job[o].legs
        /\ j.ahead = job[o].ahead /\ j.pending = again /\ j.rest = job[o].rest
        /\ j.target = job[o].target
    BY <1>1 DEF Job
  <2>2. job' = [job EXCEPT ![o] = j]
    BY <1>3
  <2> HIDE DEF j
  <2>3. j.pending \cup j.rest \cup j.ahead \cup LegKeys(j.legs) \subseteq Doomed(o)
    BY <2>1 DEF Doomed
  <2> QED BY <1>1, <2>1, <2>2, <2>3, OnlyStaleCleanup
<1>4. job[o].attempt + 1 \in Nat /\ "Failed" \in Stage \ {"Legs", "Scan"}
  BY <1>1 DEF Job, Stage
<1>5. CASE job' = [job EXCEPT ![o] = [job[o] EXCEPT !.pc = "Failed"]]
  BY <1>1, <1>4, <1>5, OnlyStaleOver
<1> QED BY <1>2, <1>3, <1>4, <1>5

LEMMA OnlyStaleOutside ==
  ASSUME IInv, OnlyStale, NEW o \in Owner,
         SendDeploy(o) \/ SendDelete(o) \/ Untag(o) \/ Respond(o) \/ Fail(o)
  PROVE  OnlyStale'
<1>1. \A w \in Owner \ {o} : job'[w] = job[w]
  BY DEF IInv, TypeOK, SendDeploy, SendDelete, Untag, Respond, Fail, Send
<1>2. ~Cleaning(o)' /\ DeleteIsAll(o)'
  <2>1. job \in [Owner -> Job]
    BY DEF IInv, TypeOK
  <2>2. CASE SendDeploy(o)
    BY <2>1, <2>2 DEF SendDeploy, Send, Begin, Cleaning, DeleteIsAll
  <2>3. CASE SendDelete(o)
    BY <2>1, <2>3 DEF SendDelete, Send, Begin, Cleaning, DeleteIsAll
  <2>4. CASE Untag(o)
    BY <2>4 DEF OnlyStale, Untag, Idle, Cleaning, DeleteIsAll
  <2>5. CASE Respond(o)
    BY <2>1, <2>5, NoJobIsJob DEF Respond, Cleaning, DeleteIsAll
  <2>6. CASE Fail(o)
    BY <2>1, <2>6 DEF OnlyStale, Fail, Job, Cleaning, DeleteIsAll
  <2> QED BY <2>2, <2>3, <2>4, <2>5, <2>6
<1>3. DoomedStale(o)'
  BY <1>2 DEF DoomedStale
<1>4. \A w \in Owner \ {o} : DoomedStale(w)' /\ DeleteIsAll(w)'
  BY <1>1 DEF OnlyStale, DoomedStale, DeleteIsAll, Doomed, Cleaning
<1> QED BY <1>2, <1>3, <1>4 DEF OnlyStale

LEMMA OnlyStaleKept == IInv /\ OnlyStale /\ [Next]_vars => OnlyStale'
<1> SUFFICES ASSUME IInv, OnlyStale, [Next]_vars PROVE OnlyStale'
  OBVIOUS
<1>1. ASSUME NEW o \in Owner, ProviderStep(o)
      PROVE  OnlyStale'
  BY <1>1, OnlyStaleDeploys, OnlyStaleReadTags, OnlyStaleGuard, OnlyStaleCleans,
     OnlyStaleDeletes DEF ProviderStep
<1>2. CASE UNCHANGED vars
  BY <1>2 DEF vars, OnlyStale, DoomedStale, DeleteIsAll, Doomed, Cleaning
<1> QED BY <1>1, <1>2, OnlyStaleOutside DEF Next, Terminated

\* Two places inside each other are the same.
LEMMA SamePlace ==
  ASSUME NEW S, NEW a \in Seq(S), NEW b \in Seq(S), Covers(a, b), Covers(b, a)
  PROVE  a = b
<1>1. /\ Len(a) <= Len(b) /\ \A i \in 1 .. Len(a) : a[i] = b[i]
      /\ Len(b) <= Len(a)
  BY PrefixElements DEF Covers
<1> QED BY <1>1

\* A stale key of an update is a key of its own namespace, and none of the previous
\* namespace where that lies inside.
LEMMA StaleSpares ==
  ASSUME NEW r \in Request, Unauthorized(r), NEW k \in StaleKeys(r)
  PROVE  /\ InNamespace(k, r.ns)
         /\ Covers(r.ns, r.prev) => ~InNamespace(k, r.prev)
<1>1. InNamespace(k, r.ns) /\ ~InNamespace(k, Protected(r))
  BY DEF StaleKeys, Unplanned
<1>2. ASSUME Covers(r.ns, r.prev)
      PROVE  Protected(r) = r.prev
  <2>1. r.prev # NoNs /\ r.prev # r.ns /\ r.prev \in Seq(Segment) /\ r.ns \in Seq(Segment)
    BY Segments DEF Request, Unauthorized
  <2>2. ~Covers(r.prev, r.ns)
    <3> HIDE DEF Segment
    <3> QED BY <1>2, <2>1, SamePlace
  <2> QED BY <1>2, <2>1, <2>2 DEF Protected, ProtectedChild, Relation
<1> QED BY <1>1, <1>2

\* Only a DeleteObjects request removes keys, and only keys of its own job.
LEMMA WhoRemoves ==
  ASSUME TypeOK, [Next]_vars, NEW k \in present \ present'
  PROVE  \E o \in Owner : /\ Cleaning(o) /\ k \in job[o].pending
                          /\ \A w \in Owner \ {o} : job'[w] = job[w]
<1>1. ASSUME NEW o \in Owner,
             \/ SendDeploy(o) \/ SendDelete(o) \/ Untag(o) \/ Respond(o) \/ Fail(o)
             \/ ListDestination(o) \/ TransfersEnd(o) \/ ReadTags(o)
             \/ GuardDelete(o) \/ FetchPage(o) \/ TurnPage(o) \/ ScanEnds(o) \/ NextLeg(o)
             \/ TakeChunk(o)
      PROVE  FALSE
  <2>1. UNCHANGED present
    BY <1>1 DEF SendDeploy, SendDelete, Send, Untag, Respond, Fail, ListDestination,
       TransfersEnd, ReadTags, GuardDelete, FetchPage, TurnPage, ScanEnds, NextLeg, TakeChunk
  <2> QED BY <2>1
<1>2. ASSUME NEW o \in Owner, Transfer(o)
      PROVE  FALSE
  BY <1>2 DEF Transfer
<1>3. PICK o \in Owner : DeleteObjects(o)
  BY <1>1, <1>2 DEF Next, ProviderStep, Terminated, vars
<1>4. Cleaning(o) /\ k \in job[o].pending
  BY <1>3 DEF DeleteObjects
<1>5. \A w \in Owner \ {o} : job'[w] = job[w]
  BY <1>3 DEF TypeOK, DeleteObjects
<1> QED BY <1>4, <1>5

\* An update that leaves a namespace without leave to delete there removes only
\* keys of the namespace it moves to, and of them none of the namespace it has left
\* when that lies inside (plan_destination_change_cleanup, record_destination_object).
THEOREM PreviousIsRetained == Spec => PreviousRetained
<1>1. Init => OnlyStale
  BY NoJobIsJob DEF Init, OnlyStale, DoomedStale, DeleteIsAll, Cleaning
<1>2. ASSUME IInv, OnlyStale, [Next]_vars, NEW o \in Owner, NEW k \in present \ present',
             job'[o] # job[o], Unauthorized(job[o].req)
      PROVE  /\ InNamespace(k, job[o].req.ns)
             /\ Covers(job[o].req.ns, job[o].req.prev) => ~InNamespace(k, job[o].req.prev)
  <2>1. TypeOK /\ job[o].req \in Request
    BY <1>2 DEF IInv, TypeOK, Job
  <2>2. Cleaning(o) /\ k \in job[o].pending
    BY <1>2, <2>1, WhoRemoves
  <2>3. k \in StaleKeys(job[o].req)
    BY <1>2, <2>2 DEF OnlyStale, DoomedStale, Doomed
  <2> QED BY <1>2, <2>1, <2>3, StaleSpares
<1>3. IInv /\ OnlyStale /\ [Next]_vars =>
        [\A o \in Owner, k \in present \ present' :
           LET r == job[o].req IN
           job'[o] # job[o] /\ r.prev \notin {NoNs, r.ns} /\ ~r.authorized =>
             /\ InNamespace(k, r.ns)
             /\ Covers(r.ns, r.prev) => ~InNamespace(k, r.prev)]_vars
  BY <1>2 DEF Unauthorized
<1>4. Spec => [](IInv /\ OnlyStale)
  BY <1>1, Invariant, OnlyStaleKept, PTL DEF Spec
<1> QED BY <1>3, <1>4, PTL DEF Spec, PreviousRetained

-----------------------------------------------------------------------------
(* What a cleanup does not miss *)

\* The candidates that a request remembers are stale keys, and it transfers only what
\* is planned.
CandidatesKnown(o) ==
  /\ job[o].current.keys \subseteq StaleKeys(job[o].req)
  /\ job[o].child.keys \subseteq ChildStaleKeys(job[o].req)
  /\ Step(o, "Transfer") => job[o].unsent \subseteq job[o].req.manifest

\* The remembered keys that the stale pass is to delete.
Wanted(o) ==
  LET r == job[o].req IN
  (IF r.stale /\ ~Competing(o, r.ns, Protected(r)) THEN job[o].current.keys ELSE {})
    \cup (IF CleanedChild(r) # NoNs /\ ~Competing(o, r.prev, NoNs)
          THEN job[o].child.keys ELSE {})

\* The keys of a namespace that is swept.
SweptKeys(r) == {k \in Keys : InNamespace(k, Swept(r)) /\ ~InNamespace(k, Spared(r))}

\* Keys that a listing has not come to yet.
Unlisted(j) ==
  IF j.pc = "Scan" /\ j.more
  THEN {KeyOrder[i] : i \in {x \in DOMAIN KeyOrder : x > j.cursor}} ELSE {}

\* Keys that a cleanup has still before it.
InHand(j) == j.pending \cup j.rest \cup j.ahead \cup LegKeys(j.legs) \cup Unlisted(j)

\* The keys that are not to be there when the cleanup is over.
ToClean(o) == IF job[o].pc = "Legs" THEN Wanted(o) ELSE job[o].target

NothingMissed(o) == Cleaning(o) => present \cap ToClean(o) \subseteq InHand(job[o])

\* What is listed for deletion, and for whom.
ScanCovers(o) ==
  job[o].pc = "Scan" =>
    /\ \A k \in job[o].target : InNamespace(k, job[o].sweep)
    /\ StaleStage(o) => Wanted(o) \subseteq job[o].target
    /\ ~StaleStage(o) => job[o].target = SweptKeys(job[o].req)

CleanFacts(o) == CandidatesKnown(o) /\ NothingMissed(o) /\ ScanCovers(o)
CleanInv == \A o \in Owner : CleanFacts(o)

-----------------------------------------------------------------------------
(* Pages and legs *)

\* A page is the beginning of what is listed, and is not empty without need.
LEMMA PageIsFirst ==
  ASSUME NEW S \in SUBSET (DOMAIN KeyOrder), NEW n \in Nat,
         NEW i \in S \ First(n, S), NEW m \in First(n, S)
  PROVE  m < i
<1> DEFINE Below(x) == {y \in S : y < x}
<1>1. S \subseteq 1 .. Len(KeyOrder) /\ IsFiniteSet(1 .. Len(KeyOrder))
  BY KeysInOrder, FS_Interval
<1>2. IsFiniteSet(Below(i)) /\ IsFiniteSet(Below(m))
  <2>1. Below(i) \in SUBSET (1 .. Len(KeyOrder)) /\ Below(m) \in SUBSET (1 .. Len(KeyOrder))
    BY <1>1
  <2> HIDE DEF Below
  <2> QED BY <1>1, <2>1, FS_Subset
<1>3. i \in Nat /\ m \in Nat /\ S \subseteq Nat /\ m \in S
  BY <1>1, KeysInOrder DEF First
<1>4. Cardinality(Below(m)) < n /\ ~(Cardinality(Below(i)) < n)
  BY DEF First
<1>5. CASE i < m
  <2>1. Below(i) \in SUBSET Below(m)
    BY <1>3, <1>5
  <2> HIDE DEF Below
  <2>2. Cardinality(Below(i)) <= Cardinality(Below(m))
    BY <1>2, <2>1, FS_Subset
  <2>3. Cardinality(Below(i)) \in Nat /\ Cardinality(Below(m)) \in Nat
    BY <1>2, FS_CardinalityType
  <2> QED BY <1>4, <2>2, <2>3
<1>6. i # m
  OBVIOUS
<1> QED BY <1>3, <1>5, <1>6

LEMMA PageTakesOne ==
  ASSUME NEW S \in SUBSET (DOMAIN KeyOrder), S # {}, NEW n \in Nat \ {0}
  PROVE  First(n, S) # {}
<1>1. S \subseteq Nat
  BY KeysInOrder
<1>2. PICK m \in S : \A i \in S : m <= i
  BY <1>1, LeastNumber
<1>3. {j \in S : j < m} = {}
  BY <1>1, <1>2
<1>4. Cardinality({j \in S : j < m}) = 0
  BY <1>3, FS_EmptySet
<1>5. m \in First(n, S)
  BY <1>4 DEF First
<1> QED BY <1>5

LEMMA BothLegsAll ==
  ASSUME NEW a \in Seq(SUBSET Keys), NEW b \in Seq(SUBSET Keys)
  PROVE  LegKeys(a) \cup LegKeys(b) \subseteq LegKeys(a \o b)
<1>1. \A i \in 1 .. Len(a) : i \in 1 .. Len(a \o b) /\ (a \o b)[i] = a[i]
  OBVIOUS
<1>2. \A i \in 1 .. Len(b) : i + Len(a) \in 1 .. Len(a \o b) /\ (a \o b)[i + Len(a)] = b[i]
  OBVIOUS
<1>3. LegKeys(a) \subseteq LegKeys(a \o b)
  BY <1>1 DEF LegKeys
<1>4. LegKeys(b) \subseteq LegKeys(a \o b)
  BY <1>2 DEF LegKeys
<1> QED BY <1>3, <1>4

LEMMA LegsSplit ==
  ASSUME NEW legs \in Seq(SUBSET Keys), legs # <<>>
  PROVE  LegKeys(legs) \subseteq Head(legs) \cup LegKeys(Tail(legs))
<1>1. Head(legs) = legs[1] /\ Len(Tail(legs)) = Len(legs) - 1 /\ Len(legs) \in Nat
  OBVIOUS
<1>2. \A i \in 1 .. Len(legs) :
        i = 1 \/ (i - 1 \in 1 .. Len(Tail(legs)) /\ Tail(legs)[i - 1] = legs[i])
  BY <1>1
<1> QED BY <1>1, <1>2 DEF LegKeys

-----------------------------------------------------------------------------
(* Steps of others *)

\* While o cleans up, nobody changes a tag; and nobody puts back a key that o has to
\* delete.
LEMMA CleanupUndisturbed ==
  ASSUME IInv, CleanInv, [Next]_vars, NEW o \in Owner, job'[o] = job[o], Cleaning(o)
  PROVE  tag' = tag /\ present' \cap ToClean(o) \subseteq present
<1>1. tag' = tag
  <2>1. ASSUME NEW w \in Owner, SendDeploy(w) \/ SendDelete(w) \/ Untag(w)
        PROVE  FALSE
    <3>1. Idle(w) /\ \E t, keys : Retag(w, t, keys)
      BY <2>1 DEF SendDeploy, SendDelete, Untag, Send
    <3>2. w # o
      BY <3>1 DEF Idle, Cleaning
    <3> QED BY <3>1, <3>2 DEF Retag
  <2>2. ASSUME NEW w \in Owner, Respond(w) \/ Fail(w) \/ ProviderStep(w)
        PROVE  tag' = tag
    BY <2>2 DEF Respond, Fail, ProviderStep, ListDestination, Transfer, TransfersEnd, ReadTags,
       GuardDelete, FetchPage, TurnPage, ScanEnds, NextLeg, TakeChunk, DeleteObjects
  <2> QED BY <2>1, <2>2 DEF Next, Terminated, vars
<1>2. ASSUME NEW w \in Owner, Transfer(w)
      PROVE  present' \cap ToClean(o) \subseteq present
  <2>1. PICK k \in job[w].unsent : present' = present \cup {k}
    BY <1>2 DEF Transfer
  <2>2. w # o /\ job[w].pc = "Transfer"
    BY <1>2 DEF Transfer, Step, Cleaning
  <2>3. InNamespace(k, tag[w])
    <3>1. k \in job[w].req.manifest
      BY <2>2 DEF CleanInv, CleanFacts, CandidatesKnown, Step
    <3>2. RequestKnown(w) /\ DeployStages(w)
      BY DEF IInv, Local
    <3>3. job[w].req.type # "Delete" /\ ~Idle(w)
      BY <2>2, <3>2 DEF DeployStages, Idle
    <3> QED BY <3>1, <3>2, <3>3 DEF RequestKnown
  <2>4. ASSUME k \in ToClean(o)
        PROVE  Deletable(o, k)
    <3>1. CASE job[o].pc = "Legs"
      <4> DEFINE r == job[o].req
      <4>1. TypeOK /\ r \in Request /\ k \in Wanted(o) /\ CandidatesKnown(o)
        BY <2>4, <3>1 DEF IInv, TypeOK, Job, ToClean, CleanInv, CleanFacts
      <4>2. \/ ~Competing(o, r.ns, Protected(r)) /\ k \in StaleKeys(r)
            \/ /\ ~Competing(o, r.prev, NoNs) /\ CleanedChild(r) # NoNs
               /\ k \in ChildStaleKeys(r)
        BY <4>1 DEF Wanted, CandidatesKnown
      <4> QED BY <4>1, <4>2, StaleDeletable, ChildDeletable
    <3>2. CASE job[o].pc # "Legs"
      <4>1. k \in Doomed(o)
        BY <2>4, <3>2 DEF ToClean, Doomed, Cleaning
      <4> QED BY <4>1 DEF IInv, DoomedDeletable
    <3> QED BY <3>1, <3>2
  <2>5. k \notin ToClean(o)
    BY <2>2, <2>3, <2>4 DEF Deletable
  <2> QED BY <2>1, <2>5
<1>3. ASSUME ~(\E w \in Owner : Transfer(w))
      PROVE  present' \subseteq present
  <2>1. ASSUME NEW w \in Owner, SendDeploy(w) \/ SendDelete(w) \/ Untag(w)
        PROVE  present' = present
    BY <2>1 DEF SendDeploy, SendDelete, Send, Untag
  <2>2. ASSUME NEW w \in Owner, Respond(w) \/ Fail(w)
        PROVE  present' = present
    BY <2>2 DEF Respond, Fail
  <2>3. ASSUME NEW w \in Owner, ProviderStep(w)
        PROVE  present' \subseteq present
    <3>1. CASE ListDestination(w) \/ TransfersEnd(w) \/ ReadTags(w) \/ GuardDelete(w) \/ FetchPage(w)
      BY <3>1 DEF ListDestination, TransfersEnd, ReadTags, GuardDelete, FetchPage
    <3>2. CASE TurnPage(w) \/ ScanEnds(w) \/ NextLeg(w) \/ TakeChunk(w)
      BY <3>2 DEF TurnPage, ScanEnds, NextLeg, TakeChunk
    <3>3. CASE DeleteObjects(w)
      BY <3>3 DEF DeleteObjects
    <3> QED BY <1>3, <2>3, <3>1, <3>2, <3>3 DEF ProviderStep
  <2> QED BY <2>1, <2>2, <2>3 DEF Next, Terminated, vars
<1> QED BY <1>1, <1>2, <1>3

LEMMA CleanWhileOthersStep ==
  ASSUME IInv, CleanInv, [Next]_vars, NEW o \in Owner, job'[o] = job[o]
  PROVE  CleanFacts(o)'
<1>1. CandidatesKnown(o)'
  BY DEF CleanInv, CleanFacts, CandidatesKnown, Step
<1>2. CASE ~Cleaning(o)
  BY <1>1, <1>2 DEF CleanFacts, NothingMissed, ScanCovers, Cleaning
<1>3. CASE Cleaning(o)
  <2>1. tag' = tag /\ present' \cap ToClean(o) \subseteq present
    BY <1>3, CleanupUndisturbed
  <2>2. Wanted(o)' = Wanted(o)
    BY <2>1 DEF Wanted, Competing
  <2>3. ToClean(o)' = ToClean(o)
    BY <2>2 DEF ToClean
  <2>4. NothingMissed(o)'
    <3>1. present \cap ToClean(o) \subseteq InHand(job[o])
      BY <1>3 DEF CleanInv, CleanFacts, NothingMissed
    <3>2. present' \cap ToClean(o)' \subseteq InHand(job[o])
      BY <2>1, <2>3, <3>1
    <3> QED BY <3>2 DEF NothingMissed
  <2>5. ScanCovers(o)'
    BY <2>2 DEF CleanInv, CleanFacts, ScanCovers, StaleStage
  <2> QED BY <1>1, <2>4, <2>5 DEF CleanFacts
<1> QED BY <1>2, <1>3

\* A job changes by a step of its own request.
LEMMA OwnStep ==
  ASSUME TypeOK, [Next]_vars, NEW o \in Owner, job'[o] # job[o]
  PROVE  SendDeploy(o) \/ SendDelete(o) \/ Respond(o) \/ Fail(o) \/ ProviderStep(o)
<1>1. PICK w \in Owner : \/ SendDeploy(w) \/ SendDelete(w) \/ Untag(w) \/ Respond(w)
                         \/ ProviderStep(w) \/ Fail(w)
  BY DEF Next, Terminated, vars
<1>2. ~Untag(w)
  BY DEF Untag
<1>3. \A v \in Owner \ {w} : job'[v] = job[v]
  <2>1. \E j : job' = [job EXCEPT ![w] = j]
    BY <1>1, <1>2 DEF SendDeploy, SendDelete, Send, Respond, Fail, ProviderStep,
       ListDestination, Transfer, TransfersEnd, ReadTags, GuardDelete, FetchPage, TurnPage,
       ScanEnds, NextLeg, TakeChunk, DeleteObjects
  <2> QED BY <2>1 DEF TypeOK
<1>4. w = o
  BY <1>3
<1> QED BY <1>1, <1>2, <1>4

-----------------------------------------------------------------------------
(* Steps of a cleanup *)

\* A request that is not cleaning up.
LEMMA NotCleaning ==
  ASSUME NEW o \in Owner, CandidatesKnown(o)', ~Cleaning(o)'
  PROVE  CleanFacts(o)'
BY DEF CleanFacts, NothingMissed, ScanCovers, Cleaning

\* A cleanup that goes on with the same job.
LEMMA GoesOn ==
  ASSUME TypeOK, NEW o \in Owner, CleanFacts(o), Cleaning(o), tag' = tag, NEW j \in Job,
         job' = [job EXCEPT ![o] = j], j.pc = job[o].pc, j.req = job[o].req,
         j.current = job[o].current, j.child = job[o].child, j.sweep = job[o].sweep,
         j.target = job[o].target,
         present' \cap ToClean(o) \subseteq InHand(j)
  PROVE  CleanFacts(o)' /\ StaleStage(o)' = StaleStage(o)
<1>1. job'[o] = j
  BY JobReplaced
<1>2. CandidatesKnown(o)'
  BY <1>1 DEF CleanFacts, CandidatesKnown, Step, Cleaning
<1>3. Wanted(o)' = Wanted(o) /\ StaleStage(o)' = StaleStage(o)
  <2>1. Wanted(o)' = Wanted(o)
    BY <1>1 DEF Wanted, Competing
  <2>2. StaleStage(o)' = StaleStage(o)
    BY <1>1 DEF StaleStage
  <2> QED BY <2>1, <2>2
<1>4. ToClean(o)' = ToClean(o)
  BY <1>1, <1>3 DEF ToClean
<1>5. NothingMissed(o)'
  <2>1. present' \cap ToClean(o)' \subseteq InHand(job[o])'
    <3>1. InHand(job[o])' = InHand(j)
      BY <1>1 DEF InHand, Unlisted
    <3> QED BY <1>4, <3>1
  <2> QED BY <2>1 DEF NothingMissed
<1>6. ScanCovers(o)'
  BY <1>1, <1>3 DEF CleanFacts, ScanCovers
<1> QED BY <1>2, <1>3, <1>5, <1>6 DEF CleanFacts

\* What a step of a cleanup starts from.
LEMMA CleanupStarts ==
  ASSUME IInv, CleanInv, NEW o \in Owner
  PROVE  /\ TypeOK /\ job[o] \in Job /\ CleanFacts(o) /\ NothingLeft(o) /\ Local(o)
         /\ Cleaning(o) => present \cap ToClean(o) \subseteq InHand(job[o])
BY DEF IInv, Local, TypeOK, CleanInv, CleanFacts, NothingMissed

LEMMA FetchPageCleans ==
  ASSUME IInv, CleanInv, NEW o \in Owner, FetchPage(o)
  PROVE  CleanFacts(o)' /\ StaleStage(o)' = StaleStage(o) /\ job'[o].pc = "Scan"
<1> DEFINE page == First(PageSize, Listing(job[o]))
           j == [job[o] EXCEPT !.cursor = Cursor(job[o], page),
                               !.more = Truncated(job[o], page),
                               !.fetched = TRUE, !.ahead = At(page) \cap job[o].target]
<1>1. /\ job[o] \in Job /\ job[o].pc = "Scan" /\ NothingLeft(o) /\ TypeOK /\ CleanFacts(o)
      /\ job[o].more /\ ~job[o].fetched
      /\ UNCHANGED <<present, tag>> /\ job' = [job EXCEPT ![o] = j]
      /\ present \cap ToClean(o) \subseteq InHand(job[o])
  BY CleanupStarts DEF FetchPage, Step, Cleaning
<1>2. /\ Cursor(job[o], page) \in Positions /\ Truncated(job[o], page) \in BOOLEAN
      /\ At(page) \cap job[o].target \in SUBSET Keys
  BY <1>1, PageOfKeys, CursorIsPosition DEF Truncated, Job
<1>3. page \in SUBSET (DOMAIN KeyOrder) /\ Listing(job[o]) \in SUBSET (DOMAIN KeyOrder)
      /\ page \subseteq Listing(job[o])
  BY DEF First, Listing
<1>4. ASSUME NEW i \in Listing(job[o]) \ page
      PROVE  Truncated(job[o], page) /\ i > Cursor(job[o], page)
  <2>1. Truncated(job[o], page)
    BY <1>3 DEF Truncated
  <2>2. CASE page = {}
    <3>1. i > job[o].cursor
      BY DEF Listing
    <3> HIDE DEF page
    <3> QED BY <2>1, <2>2, <3>1 DEF Cursor
  <2>3. CASE page # {}
    <3>1. Max(page) \in page
      BY <1>3, <2>3, LastOfPage
    <3>2. PageSize \in Nat
      BY PlacesAssumption
    <3>3. Max(page) < i
      BY <1>3, <3>1, <3>2, PageIsFirst
    <3>4. i \in Nat /\ Max(page) \in Nat
      BY <1>3, <3>1, KeysInOrder
    <3> QED BY <2>1, <2>3, <3>3, <3>4 DEF Cursor
  <2> QED BY <2>1, <2>2, <2>3
<1>5. ASSUME NEW k \in present \cap job[o].target
      PROVE  \/ k \in job[o].pending \/ k \in job[o].rest \/ k \in LegKeys(job[o].legs)
             \/ k \in At(page) \cap job[o].target
             \/ /\ Truncated(job[o], page)
                /\ \E i \in DOMAIN KeyOrder : i > Cursor(job[o], page) /\ KeyOrder[i] = k
  <2>1. InNamespace(k, job[o].sweep) /\ job[o].ahead = {}
    BY <1>1 DEF CleanFacts, ScanCovers, NothingLeft
  <2>2. k \in InHand(job[o])
    BY <1>1 DEF ToClean
  <2>3. SUFFICES ASSUME k \in Unlisted(job[o])
                 PROVE  \/ k \in At(page) \cap job[o].target
                        \/ /\ Truncated(job[o], page)
                           /\ \E i \in DOMAIN KeyOrder :
                                i > Cursor(job[o], page) /\ KeyOrder[i] = k
    BY <2>1, <2>2 DEF InHand
  <2>4. PICK i \in DOMAIN KeyOrder : i > job[o].cursor /\ KeyOrder[i] = k
    BY <1>1, <2>3 DEF Unlisted
  <2>5. i \in Listing(job[o])
    BY <2>1, <2>4 DEF Listing
  <2>6. CASE i \in page
    BY <2>4, <2>6 DEF At
  <2>7. CASE i \notin page
    BY <1>4, <2>4, <2>5, <2>7
  <2> QED BY <2>6, <2>7
<1> HIDE DEF page
<1>6. /\ j \in Job /\ j.pc = "Scan" /\ j.req = job[o].req /\ j.legs = job[o].legs
      /\ j.current = job[o].current /\ j.child = job[o].child /\ j.sweep = job[o].sweep
      /\ j.ahead = At(page) \cap job[o].target /\ j.pending = job[o].pending
      /\ j.rest = job[o].rest /\ j.target = job[o].target
      /\ j.cursor = Cursor(job[o], page) /\ j.more = Truncated(job[o], page)
  BY <1>1, <1>2 DEF Job
<1> HIDE DEF j
<1>7. present' \cap ToClean(o) \subseteq InHand(j)
  <2>1. ToClean(o) = job[o].target
    BY <1>1 DEF ToClean
  <2> QED BY <1>1, <1>5, <1>6, <2>1 DEF InHand, Unlisted
<1>8. job'[o].pc = "Scan"
  BY <1>1, <1>6, JobReplaced
<1> QED BY <1>1, <1>6, <1>7, <1>8, GoesOn DEF Cleaning

LEMMA TurnPageCleans ==
  ASSUME IInv, CleanInv, NEW o \in Owner, TurnPage(o)
  PROVE  CleanFacts(o)' /\ StaleStage(o)' = StaleStage(o) /\ job'[o].pc = "Scan"
<1> DEFINE j == [job[o] EXCEPT !.rest = job[o].ahead, !.ahead = {}, !.fetched = FALSE]
<1>1. /\ job[o] \in Job /\ job[o].pc = "Scan" /\ NothingLeft(o) /\ TypeOK /\ CleanFacts(o)
      /\ job[o].rest = {} /\ job[o].pending = {}
      /\ UNCHANGED <<present, tag>> /\ job' = [job EXCEPT ![o] = j]
      /\ present \cap ToClean(o) \subseteq InHand(job[o])
  BY CleanupStarts DEF TurnPage, Step, Cleaning, NothingToDelete
<1>2. /\ j \in Job /\ j.pc = "Scan" /\ j.req = job[o].req /\ j.legs = job[o].legs
      /\ j.current = job[o].current /\ j.child = job[o].child /\ j.sweep = job[o].sweep
      /\ j.ahead = {} /\ j.pending = {} /\ j.rest = job[o].ahead
      /\ j.target = job[o].target /\ j.cursor = job[o].cursor /\ j.more = job[o].more
  BY <1>1 DEF Job
<1> HIDE DEF j
<1>3. InHand(job[o]) \subseteq InHand(j)
  BY <1>1, <1>2 DEF InHand, Unlisted
<1>4. present' \cap ToClean(o) \subseteq InHand(j)
  BY <1>1, <1>3
<1>5. job'[o].pc = "Scan"
  BY <1>1, <1>2, JobReplaced
<1> QED BY <1>1, <1>2, <1>4, <1>5, GoesOn DEF Cleaning

LEMMA TakeChunkCleans ==
  ASSUME IInv, CleanInv, NEW o \in Owner, TakeChunk(o)
  PROVE  CleanFacts(o)' /\ StaleStage(o)' = StaleStage(o) /\ job'[o].pc = job[o].pc
<1> DEFINE chunk == At(First(ChunkSize, {Position(k) : k \in job[o].rest}))
           j == [job[o] EXCEPT !.pending = chunk, !.rest = job[o].rest \ chunk, !.attempt = 1]
<1>1. /\ job[o] \in Job /\ Cleaning(o) /\ TypeOK /\ CleanFacts(o) /\ job[o].pending = {}
      /\ UNCHANGED <<present, tag>> /\ job' = [job EXCEPT ![o] = j]
      /\ present \cap ToClean(o) \subseteq InHand(job[o])
  BY CleanupStarts DEF TakeChunk
<1>2. chunk \subseteq job[o].rest
  BY <1>1, ChunkOfRest DEF Job
<1> HIDE DEF chunk
<1>3. /\ j \in Job /\ j.pc = job[o].pc /\ j.req = job[o].req /\ j.legs = job[o].legs
      /\ j.current = job[o].current /\ j.child = job[o].child /\ j.sweep = job[o].sweep
      /\ j.ahead = job[o].ahead /\ j.pending = chunk /\ j.rest = job[o].rest \ chunk
      /\ j.target = job[o].target /\ j.cursor = job[o].cursor /\ j.more = job[o].more
  BY <1>1, <1>2 DEF Job
<1> HIDE DEF j
<1>4. InHand(job[o]) \subseteq InHand(j)
  BY <1>1, <1>3 DEF InHand, Unlisted
<1>5. present' \cap ToClean(o) \subseteq InHand(j)
  BY <1>1, <1>4
<1>6. job'[o].pc = job[o].pc
  BY <1>1, <1>3, JobReplaced
<1> QED BY <1>1, <1>3, <1>5, <1>6, GoesOn

LEMMA NextLegCleans ==
  ASSUME IInv, CleanInv, NEW o \in Owner, NextLeg(o), job[o].legs # <<>>
  PROVE  CleanFacts(o)' /\ StaleStage(o)' = StaleStage(o) /\ job'[o].pc = "Legs"
<1> DEFINE j == [job[o] EXCEPT !.rest = Head(job[o].legs), !.legs = Tail(job[o].legs)]
<1>1. /\ job[o] \in Job /\ job[o].pc = "Legs" /\ TypeOK /\ CleanFacts(o)
      /\ job[o].rest = {} /\ job[o].pending = {}
      /\ UNCHANGED <<present, tag>> /\ job' = [job EXCEPT ![o] = j]
      /\ present \cap ToClean(o) \subseteq InHand(job[o])
  BY CleanupStarts DEF NextLeg, Step, Cleaning, NothingToDelete
<1>2. /\ Head(job[o].legs) \in SUBSET Keys /\ Tail(job[o].legs) \in Seq(SUBSET Keys)
      /\ LegKeys(job[o].legs) \subseteq Head(job[o].legs) \cup LegKeys(Tail(job[o].legs))
  <2>1. job[o].legs \in Seq(SUBSET Keys)
    BY <1>1 DEF Job
  <2> QED BY <2>1, LegFacts, LegsSplit
<1>3. /\ j \in Job /\ j.pc = "Legs" /\ j.req = job[o].req
      /\ j.current = job[o].current /\ j.child = job[o].child /\ j.sweep = job[o].sweep
      /\ j.ahead = job[o].ahead /\ j.pending = {} /\ j.rest = Head(job[o].legs)
      /\ j.legs = Tail(job[o].legs) /\ j.target = job[o].target
  BY <1>1, <1>2 DEF Job
<1> HIDE DEF j
<1>4. InHand(job[o]) \subseteq InHand(j)
  BY <1>1, <1>2, <1>3 DEF InHand, Unlisted
<1>5. present' \cap ToClean(o) \subseteq InHand(j)
  BY <1>1, <1>4
<1>6. job'[o].pc = "Legs"
  BY <1>1, <1>3, JobReplaced
<1> QED BY <1>1, <1>3, <1>5, <1>6, GoesOn DEF Cleaning

LEMMA DeleteObjectsCleans ==
  ASSUME IInv, CleanInv, NEW o \in Owner, DeleteObjects(o)
  PROVE  CleanFacts(o)' /\ (\/ StaleStage(o)' = StaleStage(o) /\ job'[o].pc = job[o].pc
                            \/ job'[o].pc = "Failed")
<1>1. /\ job[o] \in Job /\ TypeOK /\ Cleaning(o) /\ CleanFacts(o) /\ tag' = tag
      /\ present \cap ToClean(o) \subseteq InHand(job[o])
  BY CleanupStarts DEF DeleteObjects
<1>2. PICK deleted \in SUBSET job[o].pending :
        /\ present' = present \ deleted
        /\ \/ /\ deleted = job[o].pending
              /\ job' = [job EXCEPT ![o] = [job[o] EXCEPT !.pending = {}, !.attempt = 0]]
           \/ \E again \in {job[o].pending \ deleted, job[o].pending} :
                job' = [job EXCEPT ![o] =
                          [job[o] EXCEPT !.pending = again, !.attempt = job[o].attempt + 1]]
           \/ job' = [job EXCEPT ![o] = [job[o] EXCEPT !.pc = "Failed"]]
  BY <1>1 DEF DeleteObjects, TypeOK
<1>3. ASSUME NEW again \in SUBSET job[o].pending, NEW n \in Nat,
             job[o].pending \ deleted \subseteq again,
             job' = [job EXCEPT ![o] = [job[o] EXCEPT !.pending = again, !.attempt = n]]
      PROVE  CleanFacts(o)' /\ StaleStage(o)' = StaleStage(o) /\ job'[o].pc = job[o].pc
  <2> DEFINE j == [job[o] EXCEPT !.pending = again, !.attempt = n]
  <2>1. /\ j \in Job /\ j.pc = job[o].pc /\ j.req = job[o].req /\ j.legs = job[o].legs
        /\ j.current = job[o].current /\ j.child = job[o].child /\ j.sweep = job[o].sweep
        /\ j.ahead = job[o].ahead /\ j.pending = again /\ j.rest = job[o].rest
        /\ j.target = job[o].target /\ j.cursor = job[o].cursor /\ j.more = job[o].more
    BY <1>1 DEF Job
  <2>2. job' = [job EXCEPT ![o] = j]
    BY <1>3
  <2> HIDE DEF j
  <2>3. InHand(job[o]) \ deleted \subseteq InHand(j)
    BY <1>3, <2>1 DEF InHand, Unlisted
  <2>4. present' \cap ToClean(o) \subseteq InHand(j)
    BY <1>1, <1>2, <2>3
  <2>5. job'[o].pc = job[o].pc
    BY <1>1, <2>1, <2>2, JobReplaced
  <2> QED BY <1>1, <2>1, <2>2, <2>4, <2>5, GoesOn
<1>4. job[o].attempt + 1 \in Nat
  BY <1>1 DEF Job
<1>5. CASE job' = [job EXCEPT ![o] = [job[o] EXCEPT !.pc = "Failed"]]
  <2>1. job'[o] = [job[o] EXCEPT !.pc = "Failed"]
    BY <1>1, <1>5 DEF TypeOK
  <2>2. job'[o].pc = "Failed" /\ CandidatesKnown(o)'
    BY <1>1, <2>1 DEF Job, CleanFacts, CandidatesKnown, Step
  <2>3. ~Cleaning(o)'
    BY <2>2 DEF Cleaning
  <2> QED BY <2>2, <2>3, NotCleaning
<1> QED BY <1>2, <1>3, <1>4, <1>5

-----------------------------------------------------------------------------
(* Steps into and out of a cleanup *)

\* A request that goes on to another stage without deleting.
LEMMA StageCleans ==
  ASSUME TypeOK, NEW o \in Owner, CandidatesKnown(o), job[o].pc # "Transfer",
         NEW stage \in {"Guard", "Done", "Failed"},
         job' = [job EXCEPT ![o] = [job[o] EXCEPT !.pc = stage]]
  PROVE  /\ CleanFacts(o)' /\ job'[o].pc = stage /\ job'[o].req = job[o].req
         /\ job'[o].current = job[o].current /\ job'[o].child = job[o].child
<1>1. job[o] \in Job /\ job'[o] = [job[o] EXCEPT !.pc = stage]
  BY DEF TypeOK
<1>2. /\ job'[o].pc = stage /\ job'[o].req = job[o].req
      /\ job'[o].current = job[o].current /\ job'[o].child = job[o].child
  BY <1>1 DEF Job
<1>3. CandidatesKnown(o)'
  BY <1>2 DEF CandidatesKnown, Step
<1>4. ~Cleaning(o)'
  BY <1>2 DEF Cleaning
<1> QED BY <1>2, <1>3, <1>4, NotCleaning

LEMMA ReadTagsCleans ==
  ASSUME IInv, CleanInv, NEW o \in Owner, ReadTags(o)
  PROVE  CleanFacts(o)' /\ (StaleStage(o)' \/ StaleGone(o)')
<1> DEFINE r     == job[o].req
           cur   == job[o].current
           child == job[o].child
           doCurrent == r.stale /\ HasCandidates(cur) /\ ~Competing(o, r.ns, Protected(r))
           doChild == CleanedChild(r) # NoNs /\ HasCandidates(child) /\ ~Competing(o, r.prev, NoNs)
           legs == (IF doCurrent THEN <<cur.keys>> ELSE <<>>)
                     \o (IF doChild THEN <<child.keys>> ELSE <<>>)
           target == (IF doCurrent THEN StaleKeys(r) ELSE {})
                       \cup (IF doChild THEN ChildStaleKeys(r) ELSE {})
           over == [job[o] EXCEPT !.pc = AfterDeploy(r)]
           inLegs == [job[o] EXCEPT !.pc = "Legs", !.legs = legs]
<1>1. /\ job[o] \in Job /\ r \in Request /\ job[o].pc = "Tags" /\ TypeOK
      /\ cur.keys \subseteq StaleKeys(r) /\ child.keys \subseteq ChildStaleKeys(r)
      /\ cur.keys \in SUBSET Keys /\ child.keys \in SUBSET Keys
      /\ CandidatesKnown(o) /\ r.type # "Delete" /\ UNCHANGED <<present, tag>>
  BY DEF IInv, Local, DeployStages, TypeOK, Job, Candidates, ReadTags, Step, CleanInv,
     CleanFacts, CandidatesKnown
<1>2. /\ ~doCurrent => (r.stale /\ ~Competing(o, r.ns, Protected(r)) => cur.keys = {})
      /\ ~doChild => (CleanedChild(r) # NoNs /\ ~Competing(o, r.prev, NoNs) => child.keys = {})
  BY DEF HasCandidates
<1>3. \/ ~doCurrent /\ ~doChild /\ job' = [job EXCEPT ![o] = over]
      \/ job' = [job EXCEPT ![o] = inLegs]
      \/ job' = [job EXCEPT ![o] = Sweep(job[o], r.ns, target)]
  BY DEF ReadTags
<1>4. /\ Wanted(o) \subseteq (IF doCurrent THEN cur.keys ELSE {})
                              \cup (IF doChild THEN child.keys ELSE {})
      /\ Wanted(o) \subseteq target
  BY <1>1, <1>2 DEF Wanted
<1>5. CASE ~doCurrent /\ ~doChild /\ job' = [job EXCEPT ![o] = over]
  <2>1. AfterDeploy(r) \in {"Guard", "Done", "Failed"}
    BY AfterDeployHasCause
  <2>2. /\ CleanFacts(o)' /\ job'[o].req = r /\ job'[o].current = cur /\ job'[o].child = child
    <3>1. job[o].pc # "Transfer"
      BY <1>1
    <3> QED BY <1>1, <1>5, <2>1, <3>1, StageCleans
  <2>3. StaleGone(o)'
    BY <1>1, <1>2, <1>5, <2>2 DEF StaleGone, Competing
  <2> QED BY <2>2, <2>3
<1>6. CASE job' = [job EXCEPT ![o] = inLegs]
  <2> HIDE DEF doCurrent, doChild, target
  <2>1. legs \in Seq(SUBSET Keys) /\ Wanted(o) \subseteq LegKeys(legs)
    <3> DEFINE a == IF doCurrent THEN <<cur.keys>> ELSE <<>>
               b == IF doChild THEN <<child.keys>> ELSE <<>>
    <3>1. <<>> \in Seq(SUBSET Keys) /\ LegKeys(<<>>) = {}
      BY NoLegs
    <3>2. /\ <<cur.keys>> \in Seq(SUBSET Keys) /\ LegKeys(<<cur.keys>>) = cur.keys
          /\ <<child.keys>> \in Seq(SUBSET Keys) /\ LegKeys(<<child.keys>>) = child.keys
      BY <1>1, OneLeg
    <3>3. a \in Seq(SUBSET Keys) /\ LegKeys(a) = IF doCurrent THEN cur.keys ELSE {}
      BY <3>1, <3>2
    <3>4. b \in Seq(SUBSET Keys) /\ LegKeys(b) = IF doChild THEN child.keys ELSE {}
      BY <3>1, <3>2
    <3>5. legs = a \o b
      OBVIOUS
    <3> HIDE DEF a, b, legs
    <3>6. a \o b \in Seq(SUBSET Keys) /\ LegKeys(a) \cup LegKeys(b) \subseteq LegKeys(a \o b)
      BY <3>3, <3>4, BothLegs, BothLegsAll
    <3> QED BY <1>4, <3>3, <3>4, <3>5, <3>6
  <2> HIDE DEF legs
  <2>2. /\ inLegs \in Job /\ inLegs.req = r /\ inLegs.pc = "Legs" /\ inLegs.legs = legs
        /\ inLegs.current = cur /\ inLegs.child = child
    BY <1>1, <2>1 DEF Job, Stage
  <2> HIDE DEF inLegs
  <2>3. job'[o] = inLegs
    BY <1>1, <1>6, <2>2, JobReplaced
  <2>4. CandidatesKnown(o)'
    BY <1>1, <2>2, <2>3 DEF CandidatesKnown, Step
  <2>5. Wanted(o)' = Wanted(o)
    BY <1>1, <2>2, <2>3 DEF Wanted, Competing
  <2>6. NothingMissed(o)'
    <3>1. ToClean(o)' = Wanted(o)
      BY <2>2, <2>3, <2>5 DEF ToClean
    <3>2. LegKeys(legs) \subseteq InHand(job[o])'
      BY <2>2, <2>3 DEF InHand
    <3> QED BY <2>1, <3>1, <3>2 DEF NothingMissed
  <2>7. ScanCovers(o)' /\ StaleStage(o)'
    BY <2>2, <2>3 DEF ScanCovers, StaleStage
  <2> QED BY <2>4, <2>6, <2>7 DEF CleanFacts
<1>7. CASE job' = [job EXCEPT ![o] = Sweep(job[o], r.ns, target)]
  <2> DEFINE j == Sweep(job[o], r.ns, target)
  <2>1. /\ target \in SUBSET Keys /\ r.ns \in Places \cup {NoNs}
        /\ \A k \in target : InNamespace(k, r.ns)
    BY <1>1, SelectedKeys DEF Request, StaleKeys, ChildStaleKeys, Unplanned
  <2> HIDE DEF doCurrent, doChild
  <2> HIDE DEF target
  <2>2. /\ j \in Job /\ j.req = r /\ j.pc = "Scan" /\ j.target = target
    BY <1>1, <2>1, SweepIsJob
  <2>3. /\ j.sweep = r.ns /\ j.cursor = 0 /\ j.more
        /\ j.current = cur /\ j.child = child
    BY <1>1 DEF Sweep, Job
  <2>4. job'[o] = j
    <3> HIDE DEF j
    <3>1. job' = [job EXCEPT ![o] = j]
      BY <1>7 DEF j
    <3> QED BY <1>1, <2>2, <3>1, JobReplaced
  <2> HIDE DEF j
  <2>5. CandidatesKnown(o)'
    BY <1>1, <2>2, <2>3, <2>4 DEF CandidatesKnown, Step
  <2>6. Wanted(o)' = Wanted(o)
    BY <1>1, <2>2, <2>3, <2>4 DEF Wanted, Competing
  <2>7. NothingMissed(o)'
    <3>1. ToClean(o)' = target
      BY <2>2, <2>4 DEF ToClean
    <3>2. Keys \subseteq Unlisted(j)
      BY <2>2, <2>3, KeysInOrder DEF Unlisted, Keys
    <3>3. Keys \subseteq InHand(job[o])'
      BY <2>4, <3>2 DEF InHand, Unlisted
    <3> QED BY <2>1, <3>1, <3>3 DEF NothingMissed
  <2>8. StaleStage(o)'
    BY <1>1, <2>2, <2>3, <2>4 DEF StaleStage
  <2>9. ScanCovers(o)'
    BY <1>4, <2>1, <2>2, <2>3, <2>4, <2>6, <2>8 DEF ScanCovers
  <2> QED BY <2>5, <2>7, <2>8, <2>9 DEF CleanFacts
<1> QED BY <1>3, <1>5, <1>6, <1>7

LEMMA GuardDeleteCleans ==
  ASSUME IInv, CleanInv, NEW o \in Owner, GuardDelete(o)
  PROVE  CleanFacts(o)' /\ (SweepStage(o)' \/ NamespaceGone(o)')
<1> DEFINE r == job[o].req
           target == SweptKeys(r)
           j == Sweep(job[o], Swept(r), target)
<1>1. /\ job[o] \in Job /\ r \in Request /\ job[o].pc = "Guard" /\ TypeOK
      /\ CandidatesKnown(o) /\ GuardHasCause(o) /\ UNCHANGED <<present, tag>>
  BY DEF IInv, Local, TypeOK, Job, GuardDelete, Step, CleanInv, CleanFacts
<1>2. \/ /\ Competing(o, Swept(r), Spared(r))
         /\ job' = [job EXCEPT ![o] = [job[o] EXCEPT !.pc = "Done"]]
      \/ job' = [job EXCEPT ![o] = j]
  BY DEF GuardDelete, SweptKeys
<1>3. CASE /\ Competing(o, Swept(r), Spared(r))
           /\ job' = [job EXCEPT ![o] = [job[o] EXCEPT !.pc = "Done"]]
  <2>1. CleanFacts(o)' /\ job'[o].req = r
    <3>1. job[o].pc # "Transfer" /\ "Done" \in {"Guard", "Done", "Failed"}
      BY <1>1
    <3> QED BY <1>1, <1>3, <3>1, StageCleans
  <2>2. NamespaceGone(o)'
    BY <1>1, <1>3, <2>1 DEF NamespaceGone, Competing
  <2> QED BY <2>1, <2>2
<1>4. CASE job' = [job EXCEPT ![o] = j]
  <2>1. /\ target \in SUBSET Keys /\ Swept(r) \in Places \cup {NoNs}
        /\ \A k \in target : InNamespace(k, Swept(r))
    BY <1>1, SelectedKeys DEF SweptKeys
  <2> HIDE DEF target
  <2>2. j \in Job /\ j.req = r /\ j.pc = "Scan" /\ j.target = target
    BY <1>1, <2>1, SweepIsJob
  <2>3. /\ j.sweep = Swept(r) /\ j.cursor = 0 /\ j.more
        /\ j.current = job[o].current /\ j.child = job[o].child
    BY <1>1 DEF Sweep, Job
  <2> HIDE DEF j
  <2>4. job'[o] = j
    BY <1>1, <1>4, <2>2, JobReplaced
  <2>5. CandidatesKnown(o)'
    BY <1>1, <2>2, <2>3, <2>4 DEF CandidatesKnown, Step
  <2>6. NothingMissed(o)'
    <3>1. ToClean(o)' = target
      BY <2>2, <2>4 DEF ToClean
    <3>2. Keys \subseteq Unlisted(j)
      BY <2>2, <2>3, KeysInOrder DEF Unlisted, Keys
    <3>3. Keys \subseteq InHand(job[o])'
      BY <2>4, <3>2 DEF InHand, Unlisted
    <3> QED BY <2>1, <3>1, <3>3 DEF NothingMissed
  <2>7. ~StaleStage(o)' /\ SweepStage(o)'
    <3>1. r.type # "Delete" => Swept(r) # r.ns
      BY <1>1 DEF Swept, GuardHasCause, Change, CleanupOfPrevious, Relation
    <3> QED BY <2>2, <2>3, <2>4, <3>1 DEF StaleStage, SweepStage
  <2>8. ScanCovers(o)'
    <3>1. target = SweptKeys(r)
      BY DEF target
    <3> QED BY <2>1, <2>2, <2>3, <2>4, <2>7, <3>1 DEF ScanCovers, SweptKeys
  <2> QED BY <2>5, <2>6, <2>7, <2>8 DEF CleanFacts
<1> QED BY <1>2, <1>3, <1>4

LEMMA ScanEndsCleans ==
  ASSUME IInv, CleanInv, NEW o \in Owner, ScanEnds(o)
  PROVE  /\ CleanFacts(o)'
         /\ StaleStage(o) => StaleGone(o)'
         /\ SweepStage(o) => NamespaceGone(o)'
<1> DEFINE r == job[o].req
           stage == IF r.type # "Delete" /\ job[o].sweep = r.ns
                    THEN AfterDeploy(r) ELSE "Done"
<1>1. /\ job[o] \in Job /\ job[o].pc = "Scan" /\ TypeOK /\ CleanFacts(o) /\ NothingLeft(o)
      /\ ~job[o].more /\ ~job[o].fetched /\ job[o].rest = {} /\ job[o].pending = {}
      /\ UNCHANGED <<present, tag>> /\ present \subseteq Keys
      /\ present \cap ToClean(o) \subseteq InHand(job[o])
  BY CleanupStarts DEF TypeOK, ScanEnds, Step, Cleaning, NothingToDelete
<1>2. job' = [job EXCEPT ![o] = [job[o] EXCEPT !.pc = stage]]
  BY <1>1 DEF TypeOK, ScanEnds
<1>3. stage \in {"Guard", "Done", "Failed"}
  BY AfterDeployHasCause
<1> HIDE DEF stage
<1>4. CleanFacts(o)' /\ job'[o].req = r /\ job'[o].current = job[o].current
      /\ job'[o].child = job[o].child
  <2>1. CandidatesKnown(o) /\ job[o].pc # "Transfer"
    BY <1>1 DEF CleanFacts
  <2> QED BY <1>1, <1>2, <1>3, <2>1, StageCleans
<1>5. present \cap job[o].target = {}
  <2>1. InHand(job[o]) = {}
    BY <1>1, NoLegs DEF InHand, Unlisted, NothingLeft
  <2> QED BY <1>1, <2>1 DEF ToClean
<1>6. ASSUME StaleStage(o)
      PROVE  StaleGone(o)'
  <2>1. present \cap Wanted(o) = {}
    BY <1>1, <1>5, <1>6 DEF CleanFacts, ScanCovers
  <2> QED BY <1>1, <1>4, <2>1 DEF StaleGone, Wanted, Competing
<1>7. ASSUME SweepStage(o)
      PROVE  NamespaceGone(o)'
  <2>1. present \cap SweptKeys(r) = {}
    BY <1>1, <1>5, <1>7 DEF CleanFacts, ScanCovers, SweepStage
  <2> QED BY <1>1, <1>4, <2>1 DEF NamespaceGone, SweptKeys
<1> QED BY <1>4, <1>6, <1>7

LEMMA LegsEnd ==
  ASSUME IInv, CleanInv, NEW o \in Owner, NextLeg(o), job[o].legs = <<>>
  PROVE  CleanFacts(o)' /\ StaleGone(o)'
<1> DEFINE r == job[o].req
<1>1. /\ job[o] \in Job /\ job[o].pc = "Legs" /\ TypeOK /\ CleanFacts(o) /\ NothingLeft(o)
      /\ job[o].rest = {} /\ job[o].pending = {} /\ UNCHANGED <<present, tag>>
      /\ present \cap ToClean(o) \subseteq InHand(job[o])
  BY CleanupStarts DEF NextLeg, Step, Cleaning, NothingToDelete
<1>2. job' = [job EXCEPT ![o] = [job[o] EXCEPT !.pc = AfterDeploy(r)]]
  BY <1>1 DEF NextLeg
<1>3. AfterDeploy(r) \in {"Guard", "Done", "Failed"}
  BY AfterDeployHasCause
<1>4. CleanFacts(o)' /\ job'[o].req = r /\ job'[o].current = job[o].current
      /\ job'[o].child = job[o].child
  <2>1. CandidatesKnown(o) /\ job[o].pc # "Transfer"
    BY <1>1 DEF CleanFacts
  <2> QED BY <1>1, <1>2, <1>3, <2>1, StageCleans
<1>5. present \cap Wanted(o) = {}
  <2>1. InHand(job[o]) = {}
    BY <1>1, NoLegs DEF InHand, Unlisted, NothingLeft
  <2> QED BY <1>1, <2>1 DEF ToClean
<1>6. StaleGone(o)'
  BY <1>1, <1>4, <1>5 DEF StaleGone, Wanted, Competing
<1> QED BY <1>4, <1>6

LEMMA DeploysClean ==
  ASSUME IInv, CleanInv, NEW o \in Owner,
         ListDestination(o) \/ Transfer(o) \/ TransfersEnd(o)
  PROVE  CleanFacts(o)' /\ ~SweepStage(o) /\ (StaleStage(o) => StaleStage(o)')
<1> DEFINE r == job[o].req
<1>1. /\ job \in [Owner -> Job] /\ job[o] \in Job /\ r \in Request /\ present \subseteq Keys
      /\ CandidatesKnown(o)
  BY DEF IInv, TypeOK, Job, CleanInv, CleanFacts
<1>2. CASE ListDestination(o)
  <2>1. PICK skipped \in {{}, r.manifest \cap present} :
          job' = [job EXCEPT ![o] =
            [job[o] EXCEPT !.pc = "Transfer", !.unsent = r.manifest \ skipped,
               !.current = Retain(IF r.stale THEN present \cap StaleKeys(r) ELSE {}),
               !.child = Retain(present \cap ChildStaleKeys(r))]]
    BY <1>1, <1>2 DEF ListDestination
  <2>2. /\ job'[o].pc = "Transfer" /\ job'[o].req = r /\ job'[o].unsent = r.manifest \ skipped
        /\ job'[o].current = Retain(IF r.stale THEN present \cap StaleKeys(r) ELSE {})
        /\ job'[o].child = Retain(present \cap ChildStaleKeys(r))
    BY <1>1, <2>1 DEF Job
  <2>3. /\ job'[o].current.keys \subseteq StaleKeys(r)
        /\ job'[o].child.keys \subseteq ChildStaleKeys(r)
    BY <2>2 DEF Retain
  <2>4. CandidatesKnown(o)'
    BY <2>2, <2>3 DEF CandidatesKnown
  <2>5. ~Cleaning(o)' /\ ~SweepStage(o) /\ ~StaleStage(o)
    BY <1>2, <2>2 DEF ListDestination, Step, Cleaning, SweepStage, StaleStage
  <2> QED BY <2>4, <2>5, NotCleaning
<1>3. CASE Transfer(o)
  <2>1. PICK k \in job[o].unsent :
          job' = [job EXCEPT ![o] = [job[o] EXCEPT !.unsent = job[o].unsent \ {k}]]
    BY <1>1, <1>3 DEF Transfer
  <2>2. /\ job'[o].pc = job[o].pc /\ job'[o].req = r /\ job'[o].unsent \subseteq job[o].unsent
        /\ job'[o].current = job[o].current /\ job'[o].child = job[o].child
        /\ job[o].pc = "Transfer"
    BY <1>1, <1>3, <2>1 DEF Job, Transfer, Step
  <2>3. CandidatesKnown(o)'
    BY <1>1, <2>2 DEF CandidatesKnown, Step
  <2>4. ~Cleaning(o)' /\ ~SweepStage(o) /\ ~StaleStage(o)
    BY <2>2 DEF Cleaning, SweepStage, StaleStage
  <2> QED BY <2>3, <2>4, NotCleaning
<1>4. CASE TransfersEnd(o)
  <2>1. /\ job'[o] = [job[o] EXCEPT !.pc = "Tags"] /\ job[o].pc = "Transfer"
    BY <1>1, <1>4 DEF TransfersEnd, Step
  <2>2. /\ job'[o].pc = "Tags" /\ job'[o].req = r
        /\ job'[o].current = job[o].current /\ job'[o].child = job[o].child
    BY <1>1, <2>1 DEF Job
  <2>3. CandidatesKnown(o)'
    BY <1>1, <2>2 DEF CandidatesKnown, Step
  <2>4. ~Cleaning(o)' /\ ~SweepStage(o) /\ ~StaleStage(o)
    BY <2>1, <2>2 DEF Cleaning, SweepStage, StaleStage
  <2> QED BY <2>3, <2>4, NotCleaning
<1> QED BY <1>2, <1>3, <1>4

LEMMA OutsideCleans ==
  ASSUME IInv, CleanInv, NEW o \in Owner,
         SendDeploy(o) \/ SendDelete(o) \/ Respond(o) \/ Fail(o)
  PROVE  /\ CleanFacts(o)'
         /\ \/ ~SweepStage(o) /\ ~StaleStage(o)
            \/ job'[o].pc = "Failed"
<1>1. /\ job \in [Owner -> Job] /\ job[o] \in Job /\ CandidatesKnown(o)
  BY DEF IInv, TypeOK, CleanInv, CleanFacts
<1>2. ASSUME NEW r, NEW stage, job' = [job EXCEPT ![o] = Begin(r, stage)],
             stage \notin {"Legs", "Scan", "Transfer"}
      PROVE  CleanFacts(o)'
  <2>1. /\ job'[o].current.keys = {} /\ job'[o].child.keys = {}
        /\ job'[o].pc = stage /\ job'[o].req = r
    BY <1>1, <1>2 DEF Begin, NoCandidates
  <2>2. CandidatesKnown(o)' /\ ~Cleaning(o)'
    BY <1>2, <2>1 DEF CandidatesKnown, Step, Cleaning
  <2> QED BY <2>2, NotCleaning
<1>3. CASE SendDeploy(o)
  <2>1. Idle(o) /\ \E r : job' = [job EXCEPT ![o] = Begin(r, "List")]
    BY <1>3 DEF SendDeploy, Send
  <2>2. PICK r, stage : job' = [job EXCEPT ![o] = Begin(r, stage)] /\ stage \in {"List"}
    BY <2>1
  <2>3. CleanFacts(o)'
    BY <1>2, <2>2
  <2> QED BY <2>1, <2>3 DEF Idle, SweepStage, StaleStage
<1>4. CASE SendDelete(o)
  <2>1. /\ Idle(o)
        /\ \E r, stage : /\ job' = [job EXCEPT ![o] = Begin(r, stage)]
                         /\ stage \in {"Guard", "Done"}
    BY <1>4 DEF SendDelete, Send
  <2>2. PICK r, stage : /\ job' = [job EXCEPT ![o] = Begin(r, stage)]
                        /\ stage \in {"Guard", "Done"}
    BY <2>1
  <2>3. CleanFacts(o)'
    BY <1>2, <2>2
  <2> QED BY <2>1, <2>3 DEF Idle, SweepStage, StaleStage
<1>5. CASE Respond(o)
  <2>1. \E r : job' = [job EXCEPT ![o] = Begin(r, "Idle")]
    BY <1>5 DEF Respond, NoJob
  <2>2. PICK r, stage : job' = [job EXCEPT ![o] = Begin(r, stage)] /\ stage \in {"Idle"}
    BY <2>1
  <2>3. CleanFacts(o)'
    BY <1>2, <2>2
  <2>4. job[o].pc \in {"Done", "Failed"}
    BY <1>5 DEF Respond
  <2> QED BY <2>3, <2>4 DEF SweepStage, StaleStage
<1>6. CASE Fail(o)
  <2>1. job'[o] = [job[o] EXCEPT !.pc = "Failed"]
    BY <1>1, <1>6 DEF Fail
  <2>2. job'[o].pc = "Failed" /\ CandidatesKnown(o)'
    BY <1>1, <2>1 DEF Job, CandidatesKnown, Step
  <2>3. ~Cleaning(o)'
    BY <2>2 DEF Cleaning
  <2> QED BY <2>2, <2>3, NotCleaning
<1> QED BY <1>3, <1>4, <1>5, <1>6

\* A step of the request keeps what is known of its cleanup; and a stage that is over
\* without failing has left nothing.
LEMMA OwnStepCleans ==
  ASSUME IInv, CleanInv, NEW o \in Owner,
         SendDeploy(o) \/ SendDelete(o) \/ Respond(o) \/ Fail(o) \/ ProviderStep(o)
  PROVE  /\ CleanFacts(o)'
         /\ job'[o].pc # "Failed" =>
              /\ StaleStage(o) /\ ~StaleStage(o)' => StaleGone(o)'
              /\ SweepStage(o) /\ ~SweepStage(o)' => NamespaceGone(o)'
<1>1. CASE SendDeploy(o) \/ SendDelete(o) \/ Respond(o) \/ Fail(o)
  BY <1>1, OutsideCleans
<1>2. CASE ListDestination(o) \/ Transfer(o) \/ TransfersEnd(o)
  BY <1>2, DeploysClean
<1>3. CASE ReadTags(o)
  <2>1. ~SweepStage(o)
    BY <1>3 DEF ReadTags, Step, SweepStage
  <2> QED BY <1>3, <2>1, ReadTagsCleans
<1>4. CASE GuardDelete(o)
  <2>1. ~StaleStage(o)
    BY <1>4 DEF GuardDelete, Step, StaleStage
  <2> QED BY <1>4, <2>1, GuardDeleteCleans
<1>5. ASSUME CleanFacts(o)', StaleStage(o)' = StaleStage(o), job'[o].pc = job[o].pc
      PROVE  /\ CleanFacts(o)'
             /\ ~(StaleStage(o) /\ ~StaleStage(o)')
             /\ ~(SweepStage(o) /\ ~SweepStage(o)')
  BY <1>5 DEF SweepStage
<1>6. CASE FetchPage(o)
  <2>1. job[o].pc = "Scan"
    BY <1>6 DEF FetchPage, Step
  <2> QED BY <1>5, <1>6, <2>1, FetchPageCleans
<1>7. CASE TurnPage(o)
  <2>1. job[o].pc = "Scan"
    BY <1>7 DEF TurnPage, Step
  <2> QED BY <1>5, <1>7, <2>1, TurnPageCleans
<1>8. CASE ScanEnds(o)
  BY <1>8, ScanEndsCleans
<1>9. CASE NextLeg(o)
  <2>1. job[o].pc = "Legs" /\ ~SweepStage(o)
    BY <1>9 DEF NextLeg, Step, SweepStage
  <2>2. CASE job[o].legs = <<>>
    BY <1>9, <2>1, <2>2, LegsEnd
  <2>3. CASE job[o].legs # <<>>
    BY <1>5, <1>9, <2>1, <2>3, NextLegCleans
  <2> QED BY <2>2, <2>3
<1>10. CASE TakeChunk(o)
  BY <1>5, <1>10, TakeChunkCleans
<1>11. CASE DeleteObjects(o)
  BY <1>5, <1>11, DeleteObjectsCleans
<1> QED BY <1>1, <1>2, <1>3, <1>4, <1>6, <1>7, <1>8, <1>9, <1>10, <1>11 DEF ProviderStep

LEMMA CleanInvKept == IInv /\ CleanInv /\ [Next]_vars => CleanInv'
<1> SUFFICES ASSUME IInv, CleanInv, [Next]_vars, NEW o \in Owner PROVE CleanFacts(o)'
  BY DEF CleanInv
<1>1. CASE job'[o] = job[o]
  BY <1>1, CleanWhileOthersStep
<1>2. CASE job'[o] # job[o]
  BY <1>2, OwnStep, OwnStepCleans DEF IInv
<1> QED BY <1>1, <1>2

LEMMA CleanAtFirst == Init => CleanInv
<1> SUFFICES ASSUME Init, NEW o \in Owner PROVE CleanFacts(o)
  BY DEF CleanInv
<1>1. job[o].pc = "Idle" /\ job[o].current.keys = {} /\ job[o].child.keys = {}
  BY NoJobIsJob DEF Init, NoJob, Begin, NoCandidates
<1> QED BY <1>1 DEF CleanFacts, CandidatesKnown, NothingMissed, ScanCovers, Cleaning, Step

\* A request that gets past its cleanup without failing has deleted all that was to be
\* deleted there: whatever others put into the bucket meanwhile, however pages, legs
\* and batches are cut and in whatever part requests fail and are repeated
\* (delete_stale_objects, guarded_delete_namespace, DestinationListPager).
THEOREM CleanupIsComplete == Spec => CleanupComplete
<1>1. IInv /\ CleanInv /\ [Next]_vars =>
        [\A o \in Owner : job'[o].pc # "Failed" =>
           /\ StaleStage(o) /\ ~StaleStage(o)' => StaleGone(o)'
           /\ SweepStage(o) /\ ~SweepStage(o)' => NamespaceGone(o)']_vars
  <2> SUFFICES ASSUME IInv, CleanInv, [Next]_vars, NEW o \in Owner, job'[o].pc # "Failed"
               PROVE  /\ StaleStage(o) /\ ~StaleStage(o)' => StaleGone(o)'
                      /\ SweepStage(o) /\ ~SweepStage(o)' => NamespaceGone(o)'
    OBVIOUS
  <2>1. CASE job'[o] = job[o]
    BY <2>1 DEF StaleStage, SweepStage
  <2>2. CASE job'[o] # job[o]
    BY <2>2, OwnStep, OwnStepCleans DEF IInv
  <2> QED BY <2>1, <2>2
<1>2. Spec => [](IInv /\ CleanInv)
  BY CleanAtFirst, Invariant, CleanInvKept, PTL DEF Spec
<1> QED BY <1>1, <1>2, PTL DEF Spec, CleanupComplete

-----------------------------------------------------------------------------
(* Every step of a request brings it nearer to its end *)

\* Attempts are counted within their bound as long as there is something to delete.
AttemptsBounded(o) == job[o].pending # {} => job[o].attempt \in 1 .. MaxAttempts
AllAttemptsBounded == \A o \in Owner : AttemptsBounded(o)

\* StagesLeft, of a job.
Stages(j) ==
  CASE j.pc = "List" -> 6 [] j.pc = "Transfer" -> 5 [] j.pc = "Tags" -> 4
    [] \/ j.pc = "Legs"
       \/ j.pc = "Scan" /\ j.req.type # "Delete" /\ j.sweep = j.req.ns -> 3
    [] j.pc = "Guard" -> 2
    [] j.pc = "Scan" /\ ~(j.req.type # "Delete" /\ j.sweep = j.req.ns) -> 1
    [] OTHER -> 0

LEMMA StageValues ==
  ASSUME NEW j
  PROVE  /\ j.pc = "List" => Stages(j) = 6
         /\ j.pc = "Transfer" => Stages(j) = 5
         /\ j.pc = "Tags" => Stages(j) = 4
         /\ j.pc = "Legs" => Stages(j) = 3
         /\ j.pc = "Guard" => Stages(j) = 2
         /\ j.pc = "Scan" => Stages(j) = IF j.req.type # "Delete" /\ j.sweep = j.req.ns
                                         THEN 3 ELSE 1
         /\ j.pc \in {"Done", "Failed"} => Stages(j) = 0
<1>1. j.pc = "List" => Stages(j) = 6
  BY DEF Stages
<1>2. j.pc = "Transfer" => Stages(j) = 5
  BY DEF Stages
<1>3. j.pc = "Tags" => Stages(j) = 4
  BY DEF Stages
<1>4. j.pc = "Legs" => Stages(j) = 3
  BY DEF Stages
<1>5. j.pc = "Guard" => Stages(j) = 2
  BY DEF Stages
<1>6. j.pc = "Scan" => Stages(j) = IF j.req.type # "Delete" /\ j.sweep = j.req.ns
                                   THEN 3 ELSE 1
  BY DEF Stages
<1>7. j.pc \in {"Done", "Failed"} => Stages(j) = 0
  BY DEF Stages
<1> QED BY <1>1, <1>2, <1>3, <1>4, <1>5, <1>6, <1>7

LEMMA StagesOfJob ==
  ASSUME NEW o \in Owner, NEW j, job[o] = j
  PROVE  StagesLeft(o) = Stages(j)
BY DEF StagesLeft, Stages, Step, Cleaning, StaleStage

LEMMA StagesOfNextJob ==
  ASSUME NEW o \in Owner, NEW j, job'[o] = j
  PROVE  StagesLeft(o)' = Stages(j)
BY DEF StagesLeft, Stages, Step, Cleaning, StaleStage

\* Pages, and attempts, of a job.
Pages(j) == Len(KeyOrder) - j.cursor + (IF j.more THEN 1 ELSE 0)
Tries(j) == IF j.pending = {} THEN 0 ELSE 1 + MaxAttempts - j.attempt

\* The lexicographic order, spelled out.
LEMMA NearerByParts ==
  ASSUME NEW d, NEW e,
         \/ d[1] < e[1]
         \/ d[1] = e[1] /\ d[2] < e[2]
         \/ d[1] = e[1] /\ d[2] = e[2] /\ d[3] < e[3]
         \/ d[1] = e[1] /\ d[2] = e[2] /\ d[3] = e[3] /\ d[4] < e[4]
         \/ d[1] = e[1] /\ d[2] = e[2] /\ d[3] = e[3] /\ d[4] = e[4] /\ d[5] < e[5]
         \/ /\ d[1] = e[1] /\ d[2] = e[2] /\ d[3] = e[3] /\ d[4] = e[4] /\ d[5] = e[5]
            /\ d[6] < e[6]
         \/ /\ d[1] = e[1] /\ d[2] = e[2] /\ d[3] = e[3] /\ d[4] = e[4] /\ d[5] = e[5]
            /\ d[6] = e[6] /\ d[7] < e[7]
  PROVE  Nearer(d, e)
<1>1. ASSUME NEW i \in 1 .. 7, d[i] < e[i], \A n \in 1 .. i - 1 : d[n] = e[n]
      PROVE  Nearer(d, e)
  BY <1>1 DEF Nearer
<1>2. CASE d[1] < e[1]
  BY <1>1, <1>2
<1>3. CASE d[1] = e[1] /\ d[2] < e[2]
  BY <1>1, <1>3
<1>4. CASE d[1] = e[1] /\ d[2] = e[2] /\ d[3] < e[3]
  BY <1>1, <1>4
<1>5. CASE d[1] = e[1] /\ d[2] = e[2] /\ d[3] = e[3] /\ d[4] < e[4]
  BY <1>1, <1>5
<1>6. CASE d[1] = e[1] /\ d[2] = e[2] /\ d[3] = e[3] /\ d[4] = e[4] /\ d[5] < e[5]
  BY <1>1, <1>6
<1>7. CASE /\ d[1] = e[1] /\ d[2] = e[2] /\ d[3] = e[3] /\ d[4] = e[4] /\ d[5] = e[5]
           /\ d[6] < e[6]
  BY <1>1, <1>7
<1>8. CASE /\ d[1] = e[1] /\ d[2] = e[2] /\ d[3] = e[3] /\ d[4] = e[4] /\ d[5] = e[5]
           /\ d[6] = e[6] /\ d[7] < e[7]
  BY <1>1, <1>8
<1> QED BY <1>2, <1>3, <1>4, <1>5, <1>6, <1>7, <1>8

\* What a step of o has to show, on its jobs before and after.
LEMMA Advances ==
  ASSUME NEW o \in Owner, NEW i, NEW j, job[o] = i, job'[o] = j,
         \/ Stages(j) < Stages(i)
         \/ /\ Stages(j) = Stages(i)
            /\ \/ Cardinality(j.unsent) < Cardinality(i.unsent)
               \/ /\ j.unsent = i.unsent
                  /\ \/ Len(j.legs) < Len(i.legs)
                     \/ /\ j.legs = i.legs
                        /\ \/ Pages(j) < Pages(i)
                           \/ /\ Pages(j) = Pages(i)
                              /\ \/ ~j.fetched /\ i.fetched
                                 \/ /\ j.fetched = i.fetched
                                    /\ \/ Cardinality(j.rest) < Cardinality(i.rest)
                                       \/ j.rest = i.rest /\ Tries(j) < Tries(i)
  PROVE  Nearer(Distance(o)', Distance(o))
<1> DEFINE d == Distance(o)'
           e == Distance(o)
<1>1. e = <<Stages(i), Cardinality(i.unsent), Len(i.legs), Pages(i),
            IF i.fetched THEN 1 ELSE 0, Cardinality(i.rest), Tries(i)>>
  BY StagesOfJob DEF Distance, Pages, Tries
<1>2. d = <<Stages(j), Cardinality(j.unsent), Len(j.legs), Pages(j),
            IF j.fetched THEN 1 ELSE 0, Cardinality(j.rest), Tries(j)>>
  BY StagesOfNextJob DEF Distance, Pages, Tries
<1> HIDE DEF d, e
<1>3. /\ e[1] = Stages(i) /\ e[2] = Cardinality(i.unsent) /\ e[3] = Len(i.legs)
      /\ e[4] = Pages(i) /\ e[5] = (IF i.fetched THEN 1 ELSE 0)
      /\ e[6] = Cardinality(i.rest) /\ e[7] = Tries(i)
  BY <1>1
<1>4. /\ d[1] = Stages(j) /\ d[2] = Cardinality(j.unsent) /\ d[3] = Len(j.legs)
      /\ d[4] = Pages(j) /\ d[5] = (IF j.fetched THEN 1 ELSE 0)
      /\ d[6] = Cardinality(j.rest) /\ d[7] = Tries(j)
  BY <1>2
<1>5. ~j.fetched /\ i.fetched => d[5] < e[5]
  BY <1>3, <1>4
<1>6. j.fetched = i.fetched => d[5] = e[5]
  BY <1>3, <1>4
<1>7. Nearer(d, e)
  BY <1>3, <1>4, <1>5, <1>6, NearerByParts
<1> QED BY <1>7 DEF d, e

\* Keys can be counted.
LEMMA KeysFinite ==
  ASSUME NEW S \in SUBSET Keys
  PROVE  IsFiniteSet(S) /\ Cardinality(S) \in Nat
<1>1. KeyOrder \in Surjection(1 .. Len(KeyOrder), Keys)
  <2>1. KeyOrder \in [1 .. Len(KeyOrder) -> Keys]
    BY PlacesAssumption
  <2> QED BY <2>1, KeysInOrder DEF Surjection, Keys
<1>2. IsFiniteSet(1 .. Len(KeyOrder))
  BY KeysInOrder, FS_Interval
<1>3. IsFiniteSet(Keys)
  BY <1>1, <1>2, FS_Surjection
<1> QED BY <1>3, FS_Subset, FS_CardinalityType

\* Fewer keys count less.
LEMMA FewerKeys ==
  ASSUME NEW S \in SUBSET Keys, NEW T \in SUBSET S, T # S
  PROVE  Cardinality(T) < Cardinality(S)
<1>1. IsFiniteSet(S) /\ Cardinality(S) \in Nat /\ Cardinality(T) \in Nat
  BY KeysFinite
<1>2. Cardinality(T) <= Cardinality(S) /\ Cardinality(T) # Cardinality(S)
  BY <1>1, FS_Subset
<1> QED BY <1>1, <1>2

\* A stage that ends.
LEMMA StageAdvances ==
  ASSUME TypeOK, NEW o \in Owner, NEW stage \in {"Guard", "Done", "Failed"},
         job' = [job EXCEPT ![o] = [job[o] EXCEPT !.pc = stage]],
         Stages(job[o]) > IF stage = "Guard" THEN 2 ELSE 0
  PROVE  Nearer(Distance(o)', Distance(o))
<1> DEFINE j == [job[o] EXCEPT !.pc = stage]
<1>1. job[o] \in Job /\ job'[o] = j /\ j.pc = stage
  BY DEF TypeOK, Job
<1> HIDE DEF j
<1>2. Stages(j) = IF stage = "Guard" THEN 2 ELSE 0
  BY <1>1, StageValues
<1>3. Stages(j) < Stages(job[o])
  <2>1. Stages(job[o]) \in 0 .. 6
    BY DEF Stages
  <2> QED BY <1>2, <2>1
<1> QED BY <1>1, <1>3, Advances

LEMMA TransfersAdvance ==
  ASSUME IInv, NEW o \in Owner, ListDestination(o) \/ Transfer(o) \/ TransfersEnd(o)
  PROVE  Nearer(Distance(o)', Distance(o))
<1>1. /\ job \in [Owner -> Job] /\ job[o] \in Job
  BY DEF IInv, TypeOK
<1>2. CASE ListDestination(o)
  <2>1. job[o].pc = "List" /\ job'[o].pc = "Transfer"
    BY <1>1, <1>2 DEF ListDestination, Step, Job
  <2>2. Stages(job[o]) = 6 /\ Stages(job'[o]) = 5
    BY <2>1, StageValues
  <2> QED BY <2>2, Advances
<1>3. CASE Transfer(o)
  <2>1. PICK k \in job[o].unsent :
          job' = [job EXCEPT ![o] = [job[o] EXCEPT !.unsent = job[o].unsent \ {k}]]
    BY <1>1, <1>3 DEF Transfer
  <2>2. job'[o].pc = job[o].pc /\ job'[o].unsent = job[o].unsent \ {k} /\ job[o].pc = "Transfer"
    BY <1>1, <1>3, <2>1 DEF Job, Transfer, Step
  <2>3. Stages(job[o]) = 5 /\ Stages(job'[o]) = 5
    BY <2>2, StageValues
  <2>4. Cardinality(job'[o].unsent) < Cardinality(job[o].unsent)
    <3>1. job[o].unsent \in SUBSET Keys /\ job'[o].unsent \in SUBSET job[o].unsent
          /\ job'[o].unsent # job[o].unsent
      BY <1>1, <2>2 DEF Job
    <3> QED BY <3>1, FewerKeys
  <2> QED BY <2>3, <2>4, Advances
<1>4. CASE TransfersEnd(o)
  <2>1. job[o].pc = "Transfer" /\ job'[o].pc = "Tags"
    BY <1>1, <1>4 DEF TransfersEnd, Step, Job
  <2>2. Stages(job[o]) = 5 /\ Stages(job'[o]) = 4
    BY <2>1, StageValues
  <2> QED BY <2>2, Advances
<1> QED BY <1>2, <1>3, <1>4

LEMMA GuardsAdvance ==
  ASSUME IInv, NEW o \in Owner, ReadTags(o) \/ GuardDelete(o)
  PROVE  Nearer(Distance(o)', Distance(o))
<1> DEFINE r == job[o].req
<1>1. /\ TypeOK /\ job[o] \in Job /\ Local(o)
  BY DEF IInv, TypeOK
<1>2. ASSUME NEW ns, NEW target, job' = [job EXCEPT ![o] = Sweep(job[o], ns, target)]
      PROVE  job'[o].pc = "Scan" /\ job'[o].sweep = ns /\ job'[o].req = r
  BY <1>1, <1>2 DEF TypeOK, Sweep, Job
<1>3. CASE ReadTags(o)
  <2>1. Stages(job[o]) = 4 /\ r.type # "Delete"
    BY <1>1, <1>3, StageValues DEF ReadTags, Step, Local, DeployStages
  <2>2. \/ job' = [job EXCEPT ![o] = [job[o] EXCEPT !.pc = AfterDeploy(r)]]
        \/ \E legs : job' = [job EXCEPT ![o] = [job[o] EXCEPT !.pc = "Legs", !.legs = legs]]
        \/ \E target : job' = [job EXCEPT ![o] = Sweep(job[o], r.ns, target)]
    BY <1>1, <1>3 DEF ReadTags, TypeOK
  <2>3. CASE job' = [job EXCEPT ![o] = [job[o] EXCEPT !.pc = AfterDeploy(r)]]
    <3>1. PICK stage \in {"Guard", "Done", "Failed"} : stage = AfterDeploy(r)
      BY AfterDeployHasCause
    <3>2. Stages(job[o]) > IF stage = "Guard" THEN 2 ELSE 0
      BY <2>1
    <3>3. job' = [job EXCEPT ![o] = [job[o] EXCEPT !.pc = stage]]
      BY <2>3, <3>1
    <3> QED BY <1>1, <3>2, <3>3, StageAdvances
  <2>4. CASE \E legs :
               job' = [job EXCEPT ![o] = [job[o] EXCEPT !.pc = "Legs", !.legs = legs]]
    <3>1. job'[o].pc = "Legs"
      BY <1>1, <2>4 DEF TypeOK, Job
    <3>2. Stages(job'[o]) = 3
      BY <3>1, StageValues
    <3> QED BY <2>1, <3>2, Advances
  <2>5. CASE \E target : job' = [job EXCEPT ![o] = Sweep(job[o], r.ns, target)]
    <3>1. job'[o].pc = "Scan" /\ job'[o].sweep = r.ns /\ job'[o].req = r
      BY <1>2, <2>5
    <3>2. Stages(job'[o]) = 3
      BY <2>1, <3>1, StageValues
    <3> QED BY <2>1, <3>2, Advances
  <2> QED BY <2>2, <2>3, <2>4, <2>5
<1>4. CASE GuardDelete(o)
  <2>1. job[o].pc = "Guard" /\ Stages(job[o]) = 2
    BY <1>4, StageValues DEF GuardDelete, Step
  <2>2. \/ job' = [job EXCEPT ![o] = [job[o] EXCEPT !.pc = "Done"]]
        \/ \E target : job' = [job EXCEPT ![o] = Sweep(job[o], Swept(r), target)]
    BY <1>1, <1>4 DEF GuardDelete, TypeOK
  <2>3. CASE job' = [job EXCEPT ![o] = [job[o] EXCEPT !.pc = "Done"]]
    <3>1. Stages(job[o]) > IF "Done" = "Guard" THEN 2 ELSE 0
      BY <2>1
    <3> QED BY <1>1, <2>3, <3>1, StageAdvances
  <2>4. CASE \E target : job' = [job EXCEPT ![o] = Sweep(job[o], Swept(r), target)]
    <3>1. job'[o].pc = "Scan" /\ job'[o].sweep = Swept(r) /\ job'[o].req = r
      BY <1>2, <2>4
    <3>2. r.type # "Delete" => Swept(r) # r.ns
      BY <1>1, <2>1 DEF Local, Swept, GuardHasCause, Change, CleanupOfPrevious, Relation
    <3>3. Stages(job'[o]) = 1
      BY <3>1, <3>2, StageValues
    <3> QED BY <2>1, <3>3, Advances
  <2> QED BY <2>2, <2>3, <2>4
<1> QED BY <1>3, <1>4

\* Stages of jobs that differ only in what they have listed and have to delete.
LEMMA SameStage ==
  ASSUME NEW i, NEW j, j.pc = i.pc, j.req = i.req, j.sweep = i.sweep
  PROVE  Stages(j) = Stages(i)
BY DEF Stages

LEMMA FetchAdvances ==
  ASSUME IInv, NEW o \in Owner, FetchPage(o)
  PROVE  Nearer(Distance(o)', Distance(o))
<1> DEFINE page == First(PageSize, Listing(job[o]))
           j == [job[o] EXCEPT !.cursor = Cursor(job[o], page),
                               !.more = Truncated(job[o], page),
                               !.fetched = TRUE, !.ahead = At(page) \cap job[o].target]
<1>1. /\ TypeOK /\ job[o] \in Job /\ job[o].more /\ job' = [job EXCEPT ![o] = j]
  BY DEF IInv, TypeOK, FetchPage
<1>2. /\ page \in SUBSET (DOMAIN KeyOrder) /\ Listing(job[o]) \in SUBSET (DOMAIN KeyOrder)
      /\ page \subseteq Listing(job[o])
  BY DEF First, Listing
<1>3. page = {} => Listing(job[o]) = {}
  BY <1>2, PageTakesOne, PlacesAssumption
<1>4. \A i \in page : i > job[o].cursor
  BY <1>2 DEF Listing
<1>5. Cursor(job[o], page) \in Nat /\ job[o].cursor \in Nat /\ Len(KeyOrder) \in Nat
  <2>1. Cursor(job[o], page) \in Positions
    BY <1>1, <1>2, CursorIsPosition
  <2> QED BY <1>1, <2>1, KeysInOrder DEF Positions, Job
<1>6. \/ Cursor(job[o], page) > job[o].cursor
      \/ Cursor(job[o], page) = job[o].cursor /\ ~Truncated(job[o], page)
  <2>1. CASE page = {}
    BY <1>3, <2>1 DEF Cursor, Truncated
  <2>2. CASE page # {}
    <3>1. Max(page) \in page
      BY <1>2, <2>2, LastOfPage
    <3> QED BY <1>4, <2>2, <3>1 DEF Cursor
  <2> QED BY <2>1, <2>2
<1> HIDE DEF page
<1>7. /\ j.pc = job[o].pc /\ j.req = job[o].req /\ j.sweep = job[o].sweep
      /\ j.unsent = job[o].unsent /\ j.legs = job[o].legs
      /\ j.cursor = Cursor(job[o], page) /\ j.more = Truncated(job[o], page)
  BY <1>1 DEF Job
<1>8. job'[o] = j
  BY <1>1 DEF TypeOK
<1> HIDE DEF j
<1>9. Pages(j) < Pages(job[o])
  BY <1>1, <1>5, <1>6, <1>7 DEF Pages
<1> QED BY <1>7, <1>8, <1>9, SameStage, Advances

LEMMA TurnAdvances ==
  ASSUME IInv, NEW o \in Owner, TurnPage(o)
  PROVE  Nearer(Distance(o)', Distance(o))
<1> DEFINE j == [job[o] EXCEPT !.rest = job[o].ahead, !.ahead = {}, !.fetched = FALSE]
<1>1. /\ TypeOK /\ job[o] \in Job /\ job[o].fetched /\ job' = [job EXCEPT ![o] = j]
  BY DEF IInv, TypeOK, TurnPage
<1>2. /\ j.pc = job[o].pc /\ j.req = job[o].req /\ j.sweep = job[o].sweep
      /\ j.unsent = job[o].unsent /\ j.legs = job[o].legs
      /\ j.cursor = job[o].cursor /\ j.more = job[o].more /\ ~j.fetched
  BY <1>1 DEF Job
<1>3. job'[o] = j
  BY <1>1 DEF TypeOK
<1> HIDE DEF j
<1>4. Pages(j) = Pages(job[o])
  BY <1>2 DEF Pages
<1> QED BY <1>1, <1>2, <1>3, <1>4, SameStage, Advances

LEMMA ScanAdvances ==
  ASSUME IInv, NEW o \in Owner, ScanEnds(o)
  PROVE  Nearer(Distance(o)', Distance(o))
<1> DEFINE r == job[o].req
           again == r.type # "Delete" /\ job[o].sweep = r.ns
           stage == IF again THEN AfterDeploy(r) ELSE "Done"
<1>1. /\ TypeOK /\ job[o].pc = "Scan"
      /\ job' = [job EXCEPT ![o] = [job[o] EXCEPT !.pc = stage]]
  BY DEF IInv, TypeOK, ScanEnds, Step
<1>2. Stages(job[o]) = IF again THEN 3 ELSE 1
  BY <1>1, StageValues
<1>3. stage \in {"Guard", "Done", "Failed"} /\ (stage = "Guard" => again)
  BY AfterDeployHasCause
<1> HIDE DEF stage
<1>4. Stages(job[o]) > IF stage = "Guard" THEN 2 ELSE 0
  BY <1>2, <1>3
<1> QED BY <1>1, <1>3, <1>4, StageAdvances

LEMMA LegsAdvance ==
  ASSUME IInv, NEW o \in Owner, NextLeg(o)
  PROVE  Nearer(Distance(o)', Distance(o))
<1>1. /\ TypeOK /\ job[o] \in Job /\ job[o].pc = "Legs" /\ job[o].legs \in Seq(SUBSET Keys)
  BY DEF IInv, TypeOK, Job, NextLeg, Step
<1>2. Stages(job[o]) = 3
  BY <1>1, StageValues
<1>3. CASE job[o].legs = <<>>
  <2>1. job' = [job EXCEPT ![o] = [job[o] EXCEPT !.pc = AfterDeploy(job[o].req)]]
    BY <1>1, <1>3 DEF NextLeg, TypeOK
  <2>2. PICK stage \in {"Guard", "Done", "Failed"} : stage = AfterDeploy(job[o].req)
    BY AfterDeployHasCause
  <2>3. Stages(job[o]) > IF stage = "Guard" THEN 2 ELSE 0
    BY <1>2
  <2>4. job' = [job EXCEPT ![o] = [job[o] EXCEPT !.pc = stage]]
    BY <2>1, <2>2
  <2> QED BY <1>1, <2>3, <2>4, StageAdvances
<1>4. CASE job[o].legs # <<>>
  <2> DEFINE j == [job[o] EXCEPT !.rest = Head(job[o].legs), !.legs = Tail(job[o].legs)]
  <2>1. job'[o] = j
    BY <1>1, <1>4 DEF NextLeg, TypeOK
  <2>2. j.pc = "Legs" /\ j.unsent = job[o].unsent /\ j.legs = Tail(job[o].legs)
    BY <1>1 DEF Job
  <2> HIDE DEF j
  <2>3. Stages(j) = 3
    BY <2>2, StageValues
  <2>4. Len(j.legs) < Len(job[o].legs)
    BY <1>1, <1>4, <2>2
  <2> QED BY <1>2, <2>1, <2>2, <2>3, <2>4, Advances
<1> QED BY <1>3, <1>4

LEMMA ChunkAdvances ==
  ASSUME IInv, NEW o \in Owner, TakeChunk(o)
  PROVE  Nearer(Distance(o)', Distance(o))
<1> DEFINE chunk == At(First(ChunkSize, {Position(k) : k \in job[o].rest}))
           j == [job[o] EXCEPT !.pending = chunk, !.rest = job[o].rest \ chunk, !.attempt = 1]
<1>1. /\ TypeOK /\ job[o] \in Job /\ job[o].rest \in SUBSET Keys /\ job[o].rest # {}
      /\ job' = [job EXCEPT ![o] = j]
  BY DEF IInv, TypeOK, Job, TakeChunk
<1>2. chunk # {} /\ chunk \subseteq job[o].rest
  <2> DEFINE S == {Position(k) : k \in job[o].rest}
  <2>1. \A k \in job[o].rest : Position(k) \in DOMAIN KeyOrder
    BY <1>1 DEF Position, Keys
  <2>2. S \in SUBSET (DOMAIN KeyOrder) /\ S # {}
    BY <1>1, <2>1
  <2> HIDE DEF S
  <2>3. First(ChunkSize, S) # {}
    BY <2>2, PageTakesOne, PlacesAssumption
  <2>4. At(First(ChunkSize, S)) # {}
    BY <2>3 DEF At
  <2> QED BY <1>1, <2>4, ChunkOfRest DEF S
<1> HIDE DEF chunk
<1>3. /\ j.pc = job[o].pc /\ j.req = job[o].req /\ j.sweep = job[o].sweep
      /\ j.unsent = job[o].unsent /\ j.legs = job[o].legs /\ j.fetched = job[o].fetched
      /\ j.cursor = job[o].cursor /\ j.more = job[o].more /\ j.rest = job[o].rest \ chunk
  BY <1>1 DEF Job
<1>4. job'[o] = j
  BY <1>1 DEF TypeOK
<1> HIDE DEF j
<1>5. Pages(j) = Pages(job[o])
  BY <1>3 DEF Pages
<1>6. Cardinality(j.rest) < Cardinality(job[o].rest)
  <2>1. j.rest \in SUBSET job[o].rest /\ j.rest # job[o].rest
    BY <1>2, <1>3
  <2> QED BY <1>1, <2>1, FewerKeys
<1> QED BY <1>3, <1>4, <1>5, <1>6, SameStage, Advances

LEMMA DeletesAdvance ==
  ASSUME IInv, NEW o \in Owner, AttemptsBounded(o), DeleteObjects(o)
  PROVE  Nearer(Distance(o)', Distance(o))
<1>1. /\ TypeOK /\ job[o] \in Job /\ Cleaning(o) /\ job[o].pending # {}
      /\ job[o].attempt \in 1 .. MaxAttempts /\ MaxAttempts \in Nat
  BY PlacesAssumption DEF IInv, TypeOK, DeleteObjects, AttemptsBounded
<1>2. \/ \E again, n :
           /\ again = {} \/ n = job[o].attempt + 1
           /\ job' = [job EXCEPT ![o] = [job[o] EXCEPT !.pending = again, !.attempt = n]]
      \/ job' = [job EXCEPT ![o] = [job[o] EXCEPT !.pc = "Failed"]]
  <2>1. PICK deleted \in SUBSET job[o].pending :
          \/ job' = [job EXCEPT ![o] = [job[o] EXCEPT !.pending = {}, !.attempt = 0]]
          \/ \E again \in {job[o].pending \ deleted, job[o].pending} \ {{}} :
               job' = [job EXCEPT ![o] =
                         [job[o] EXCEPT !.pending = again, !.attempt = job[o].attempt + 1]]
          \/ job' = [job EXCEPT ![o] = [job[o] EXCEPT !.pc = "Failed"]]
    BY <1>1 DEF DeleteObjects, TypeOK
  <2> QED BY <2>1
<1>3. CASE job' = [job EXCEPT ![o] = [job[o] EXCEPT !.pc = "Failed"]]
  <2>1. Stages(job[o]) > IF "Failed" = "Guard" THEN 2 ELSE 0
    BY <1>1, StageValues DEF Cleaning
  <2> QED BY <1>1, <1>3, <2>1, StageAdvances
<1>4. ASSUME NEW again, NEW n, again = {} \/ n = job[o].attempt + 1,
             job' = [job EXCEPT ![o] = [job[o] EXCEPT !.pending = again, !.attempt = n]]
      PROVE  Nearer(Distance(o)', Distance(o))
  <2> DEFINE j == [job[o] EXCEPT !.pending = again, !.attempt = n]
  <2>1. /\ j.pc = job[o].pc /\ j.req = job[o].req /\ j.sweep = job[o].sweep
        /\ j.unsent = job[o].unsent /\ j.legs = job[o].legs /\ j.fetched = job[o].fetched
        /\ j.cursor = job[o].cursor /\ j.more = job[o].more /\ j.rest = job[o].rest
        /\ j.pending = again /\ j.attempt = n
    BY <1>1 DEF Job
  <2>2. job'[o] = j
    BY <1>1, <1>4 DEF TypeOK
  <2> HIDE DEF j
  <2>3. Pages(j) = Pages(job[o])
    BY <2>1 DEF Pages
  <2>4. Tries(j) < Tries(job[o])
    BY <1>1, <1>4, <2>1 DEF Tries
  <2> QED BY <2>1, <2>2, <2>3, <2>4, SameStage, Advances
<1> QED BY <1>2, <1>3, <1>4

LEMMA FailureAdvances ==
  ASSUME IInv, NEW o \in Owner, Fail(o)
  PROVE  Nearer(Distance(o)', Distance(o))
<1>1. /\ TypeOK /\ job[o].pc \in Stage \ {"Idle", "Done", "Failed"}
      /\ job' = [job EXCEPT ![o] = [job[o] EXCEPT !.pc = "Failed"]]
  BY DEF IInv, TypeOK, Job, Fail
<1>2. Stages(job[o]) > IF "Failed" = "Guard" THEN 2 ELSE 0
  BY <1>1, StageValues DEF Stage
<1> QED BY <1>1, <1>2, StageAdvances

LEMMA OwnStepAdvances ==
  ASSUME IInv, NEW o \in Owner, AttemptsBounded(o), ~Idle(o),
         SendDeploy(o) \/ SendDelete(o) \/ Respond(o) \/ Fail(o) \/ ProviderStep(o)
  PROVE  Idle(o)' \/ Nearer(Distance(o)', Distance(o))
<1>1. ~SendDeploy(o) /\ ~SendDelete(o)
  BY DEF SendDeploy, SendDelete, Send
<1>2. CASE Respond(o)
  BY <1>2, NoJobIsJob DEF IInv, TypeOK, Respond, Idle
<1> QED BY <1>1, <1>2, FailureAdvances, TransfersAdvance, GuardsAdvance, FetchAdvances,
           TurnAdvances, ScanAdvances, LegsAdvance, ChunkAdvances, DeletesAdvance
           DEF ProviderStep

\* Attempts stay within their bound.
LEMMA AttemptsKept ==
  ASSUME IInv, AllAttemptsBounded, [Next]_vars
  PROVE  AllAttemptsBounded'
<1> SUFFICES ASSUME NEW o \in Owner, job'[o] # job[o] PROVE AttemptsBounded(o)'
  BY DEF AllAttemptsBounded, AttemptsBounded
<1>1. /\ job \in [Owner -> Job] /\ job[o] \in Job /\ AttemptsBounded(o)
      /\ MaxAttempts \in Nat \ {0}
  BY PlacesAssumption DEF IInv, TypeOK, AllAttemptsBounded
<1>2. SendDeploy(o) \/ SendDelete(o) \/ Respond(o) \/ Fail(o) \/ ProviderStep(o)
  BY OwnStep DEF IInv
<1>3. CASE SendDeploy(o) \/ SendDelete(o) \/ Respond(o)
  <2>1. \E r, stage : job' = [job EXCEPT ![o] = Begin(r, stage)]
    <3>1. CASE SendDeploy(o)
      <4>1. \E r : job' = [job EXCEPT ![o] = Begin(r, "List")]
        BY <3>1 DEF SendDeploy, Send
      <4> QED BY <4>1
    <3>2. CASE SendDelete(o)
      BY <3>2 DEF SendDelete, Send
    <3>3. CASE Respond(o)
      <4>1. \E r : job' = [job EXCEPT ![o] = Begin(r, "Idle")]
        BY <3>3 DEF Respond, NoJob
      <4> QED BY <4>1
    <3> QED BY <1>3, <3>1, <3>2, <3>3
  <2>2. job'[o].pending = {}
    BY <1>1, <2>1 DEF Begin
  <2> QED BY <2>2 DEF AttemptsBounded
<1>4. ASSUME job'[o].pending = job[o].pending, job'[o].attempt = job[o].attempt
      PROVE  AttemptsBounded(o)'
  BY <1>1, <1>4 DEF AttemptsBounded
<1>5. CASE Fail(o) \/ ListDestination(o) \/ Transfer(o) \/ TransfersEnd(o)
  <2>1. CASE Fail(o)
    BY <1>1, <1>4, <2>1 DEF Fail, Job
  <2>2. CASE ListDestination(o)
    BY <1>1, <1>4, <2>2 DEF ListDestination, Job
  <2>3. CASE Transfer(o)
    BY <1>1, <1>4, <2>3 DEF Transfer, Job
  <2>4. CASE TransfersEnd(o)
    BY <1>1, <1>4, <2>4 DEF TransfersEnd, Job
  <2> QED BY <1>5, <2>1, <2>2, <2>3, <2>4
<1>6. CASE ReadTags(o)
  <2>1. \/ \E stage, legs : job'[o] = [job[o] EXCEPT !.pc = stage, !.legs = legs]
        \/ \E stage : job'[o] = [job[o] EXCEPT !.pc = stage]
        \/ \E ns, target : job'[o] = Sweep(job[o], ns, target)
    BY <1>1, <1>6 DEF ReadTags
  <2> QED BY <1>1, <1>4, <2>1 DEF Sweep, Job
<1>7. CASE GuardDelete(o)
  <2>1. \/ \E stage : job'[o] = [job[o] EXCEPT !.pc = stage]
        \/ \E ns, target : job'[o] = Sweep(job[o], ns, target)
    BY <1>1, <1>7 DEF GuardDelete
  <2> QED BY <1>1, <1>4, <2>1 DEF Sweep, Job
<1>8. CASE FetchPage(o)
  <2>1. \E cursor, more, ahead :
          job'[o] = [job[o] EXCEPT !.cursor = cursor, !.more = more, !.fetched = TRUE,
                                   !.ahead = ahead]
    BY <1>1, <1>8 DEF FetchPage
  <2> QED BY <1>1, <1>4, <2>1 DEF Job
<1>9. CASE TurnPage(o) \/ ScanEnds(o) \/ NextLeg(o)
  <2>1. CASE TurnPage(o)
    BY <1>1, <1>4, <2>1 DEF TurnPage, Job
  <2>2. CASE ScanEnds(o)
    BY <1>1, <1>4, <2>2 DEF ScanEnds, Job
  <2>3. CASE NextLeg(o)
    BY <1>1, <1>4, <2>3 DEF NextLeg, Job
  <2> QED BY <1>9, <2>1, <2>2, <2>3
<1>10. CASE TakeChunk(o)
  <2>1. \E chunk : job'[o] = [job[o] EXCEPT !.pending = chunk,
                                !.rest = job[o].rest \ chunk, !.attempt = 1]
    BY <1>1, <1>10 DEF TakeChunk
  <2>2. job'[o].attempt = 1
    BY <1>1, <2>1 DEF Job
  <2> QED BY <1>1, <2>2 DEF AttemptsBounded
<1>11. CASE DeleteObjects(o)
  <2>1. job[o].attempt \in 1 .. MaxAttempts
    BY <1>1, <1>11 DEF DeleteObjects, AttemptsBounded
  <2>2. \/ job'[o] = [job[o] EXCEPT !.pending = {}, !.attempt = 0]
        \/ /\ job[o].attempt < MaxAttempts
           /\ \E again : job'[o] = [job[o] EXCEPT !.pending = again,
                                                  !.attempt = job[o].attempt + 1]
        \/ job'[o] = [job[o] EXCEPT !.pc = "Failed"]
    BY <1>1, <1>11 DEF DeleteObjects, MayRetry
  <2>3. \/ job'[o].pending = {}
        \/ job[o].attempt < MaxAttempts /\ job'[o].attempt = job[o].attempt + 1
        \/ job'[o].attempt = job[o].attempt
    BY <1>1, <2>2 DEF Job
  <2> QED BY <1>1, <2>1, <2>3 DEF AttemptsBounded
<1> QED BY <1>2, <1>3, <1>5, <1>6, <1>7, <1>8, <1>9, <1>10, <1>11 DEF ProviderStep

LEMMA AttemptsAtFirst == Init => AllAttemptsBounded
BY NoJobIsJob DEF Init, AllAttemptsBounded, AttemptsBounded, NoJob, Begin

\* Every step of a request brings it nearer to its end, in the order of Distance: the
\* loops over pages, legs, batches and attempts end, whatever is put into the bucket
\* and whatever part of a deletion fails (delete_keys_optional_stats,
\* delete_key_chunk, DestinationListPager::next_page).
THEOREM RequestsAdvance == Spec => RequestAdvances
<1>1. IInv /\ AllAttemptsBounded /\ [Next]_vars =>
        [\A o \in Owner : ~Idle(o) /\ job'[o] # job[o] =>
           Idle(o)' \/ Nearer(Distance(o)', Distance(o))]_vars
  BY OwnStep, OwnStepAdvances DEF IInv, AllAttemptsBounded
<1>2. Spec => [](IInv /\ AllAttemptsBounded)
  BY AttemptsAtFirst, Invariant, AttemptsKept, PTL DEF Spec
<1> QED BY <1>1, <1>2, PTL DEF Spec, RequestAdvances

=============================================================================
