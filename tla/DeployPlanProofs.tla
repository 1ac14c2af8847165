-------------------------- MODULE DeployPlanProofs --------------------------
(***************************************************************************)
(* Theorems about DeployPlan, for every set of requests, every length of   *)
(* the archives, every budget and every size of block, chunk and permit.   *)
(***************************************************************************)
EXTENDS DeployPlan, FiniteSetTheorems, NaturalsInduction, WellFoundedInduction, TLAPS

-----------------------------------------------------------------------------
(* Numbers *)

\* A set of natural numbers that is not empty has a least one.
LEMMA LeastNumber ==
  ASSUME NEW S \in SUBSET Nat, S # {}
  PROVE  \E m \in S : \A n \in S : m <= n
<1>1. IsWellFoundedOn(OpToRel(<, Nat), Nat)
  BY NatLessThanWellFounded
<1>2. IsWellFoundedOn(OpToRel(<, Nat), S)
  BY <1>1, IsWellFoundedOnSubset, Zenon
<1>3. PICK m \in S : \A y \in S : ~(<<y, m>> \in OpToRel(<, Nat))
  BY <1>2, WFMin, Zenon
<1>4. \A y \in S : ~(y < m)
  BY <1>3 DEF OpToRel
<1> QED BY <1>4

\* The rest of a division, and a division without one.
LEMMA Remainder ==
  ASSUME NEW k \in Nat, NEW r \in Nat, NEW c \in Nat \ {0}, r < c
  PROVE  (c * k + r) % c = r
  OBVIOUS

LEMMA Whole ==
  ASSUME NEW a \in Nat, NEW c \in Nat \ {0}, a % c = 0
  PROVE  a = c * (a \div c) /\ a \div c \in Nat
  OBVIOUS

\* A division by the length of a chunk gives the start of the chunk of an offset, and
\* the chunk of the offsets of one chunk.
LEMMA ChunkStart ==
  ASSUME NEW p \in Nat, NEW c \in Nat \ {0}
  PROVE  AlignDown(p, c) \in Nat /\ AlignDown(p, c) <= p /\ p < AlignDown(p, c) + c
  BY DEF AlignDown

\* All the offsets of a chunk have that chunk.
LEMMA ChunkOf ==
  ASSUME NEW p \in Nat, NEW q \in Nat, NEW c \in Nat \ {0},
         AlignDown(p, c) <= q, q < AlignDown(p, c) + c
  PROVE  AlignDown(q, c) = AlignDown(p, c)
<1> DEFINE k == p \div c
           r == q - AlignDown(p, c)
<1>1. k \in Nat /\ AlignDown(p, c) = c * k
  BY DEF AlignDown
<1>2. r \in Nat /\ r < c /\ q = c * k + r
  BY <1>1, ChunkStart
<1> HIDE DEF k, r
<1>3. q % c = r
  BY <1>1, <1>2, Remainder
<1>4. AlignDown(q, c) = q - r
  BY <1>3 DEF AlignDown
<1>5. AlignDown(p, c) \in Nat
  BY ChunkStart
<1> QED BY <1>4, <1>5 DEF r

\* The rounding up of amounts to permits keeps their order.
LEMMA RoundedUp ==
  ASSUME NEW a \in Int, NEW b \in Int, NEW u \in Nat \ {0}, a <= b
  PROVE  (a + u - 1) \div u <= (b + u - 1) \div u
  OBVIOUS

LEMMA AtLeastOne ==
  ASSUME NEW a \in Nat, NEW u \in Nat \ {0}, u <= a
  PROVE  a \div u \in Nat /\ 1 <= a \div u
  OBVIOUS

LEMMA RoundedWhole ==
  ASSUME NEW a \in Int, NEW q \in Nat, NEW u \in Nat \ {0}, a <= u * q
  PROVE  (a + u - 1) \div u <= q
  OBVIOUS

\* A set of natural numbers with a bound has a greatest one.
LEMMA GreatestNumber ==
  ASSUME NEW S \in SUBSET Nat, S # {}, NEW b \in Nat, \A n \in S : n <= b
  PROVE  Max(S) \in S /\ \A n \in S : n <= Max(S)
<1> DEFINE U == {u \in Nat : \A n \in S : n <= u}
<1>1. PICK m \in U : \A u \in U : m <= u
  <2>1. b \in U
    OBVIOUS
  <2> HIDE DEF U
  <2>2. U \subseteq Nat
    BY DEF U
  <2> QED BY <2>1, <2>2, LeastNumber
<1>2. m \in Nat /\ \A n \in S : n <= m
  BY <1>1
<1>3. m \in S
  <2> SUFFICES ASSUME m \notin S PROVE FALSE
    OBVIOUS
  <2>1. PICK n \in S : TRUE
    OBVIOUS
  <2>2. m - 1 \in Nat /\ \A k \in S : k <= m - 1
    BY <1>2, <2>1
  <2> QED BY <1>1, <1>2, <2>2
<1>4. \A n \in S : m >= n
  BY <1>2
<1>5. Max(S) \in S /\ \A n \in S : Max(S) >= n
  BY <1>3, <1>4, Zenon DEF Max
<1> QED BY <1>5

\* The greatest and the least member of a set, as the library chooses them.
LEMMA MaxIs ==
  ASSUME NEW S \in SUBSET Nat, NEW x \in S, \A y \in S : y <= x
  PROVE  Max(S) = x
<1>1. Max(S) \in S /\ \A y \in S : Max(S) >= y
  <2>1. \E m \in S : \A y \in S : m >= y
    OBVIOUS
  <2> QED BY <2>1, Zenon DEF Max
<1>2. Max(S) \in Nat /\ x \in Nat /\ Max(S) >= x /\ Max(S) <= x
  BY <1>1
<1> QED BY <1>2

LEMMA MinIs ==
  ASSUME NEW S \in SUBSET Nat, S # {}
  PROVE  Min(S) \in S /\ \A y \in S : Min(S) <= y
<1>1. \E m \in S : \A y \in S : m <= y
  BY LeastNumber
<1> QED BY <1>1, Zenon DEF Min

-----------------------------------------------------------------------------
(* The inductive invariant *)

\* The states in which an archive is being read: all of them, those in which its
\* directory is known, and those in which its entries are.
Reading == {"Scan", "Locator", "Record", "Reserve", "Parser", "Charge", "Catalog", "Entries"}
Known   == {"Reserve", "Parser", "Charge", "Catalog", "Entries"}
Parsed  == {"Charge", "Catalog", "Entries"}
Afterwards == {"Stores", "Planned"}

\* Where the planning stands.
Position ==
  /\ request \in Requests
  /\ DOMAIN current = Sources
  /\ \A s \in Sources : current[s] \in DOMAIN request.sources[s]
  /\ src \in Nat \ {0}
  /\ pc \in {"Parse", "Source", "Preflight", "Refused"} \cup Reading \cup Afterwards
  /\ why # "" => pc = "Refused"
  /\ pc \notin {"Parse", "Refused"} => Accepted(request.raw)
  /\ pc = "Parse" => src = 1 /\ manifest = <<>>
  /\ pc \in {"Source"} \cup Reading => src \in Sources
  /\ pc = "Preflight" => src = Len(request.sources) + 1
  /\ pc \in Reading => request.extract

\* How many archives have been pinned to an object.
Pinned ==
  IF pc \in Reading THEN src
  ELSE IF pc = "Source" THEN src - 1
  ELSE IF pc = "Parse" THEN 0 ELSE Len(request.sources)

\* Whatever has been read of an archive is of the object it is pinned to.
Pins ==
  /\ archives \in Seq(Nat)
  /\ \A s \in DOMAIN archives : s \in Sources /\ archives[s] \in DOMAIN request.sources[s]
  /\ request.extract /\ pc # "Refused" => Len(archives) = Pinned
  /\ pc \in Reading => archives[src] = pin
  /\ pc \notin Reading => loaded = <<>>
  /\ \A at \in DOMAIN loaded : loaded[at] = pin

Reached == Position /\ Pins

-----------------------------------------------------------------------------
(* What is known of a request *)

\* What RequestsAssumption says of the request at hand.
LEMMA RequestFacts ==
  ASSUME Position
  PROVE  /\ IsRaw(request.raw) /\ request.extract \in BOOLEAN
         /\ Len(request.sources) \in Nat /\ Sources = 1 .. Len(request.sources)
         /\ \A s \in Sources :
              /\ Len(request.sources[s]) \in Nat \ {0}
              /\ DOMAIN request.sources[s] = 1 .. Len(request.sources[s])
              /\ \A v \in DOMAIN request.sources[s] :
                   IF request.extract THEN IsArchive(Content(s, v))
                   ELSE Content(s, v).key = Content(s, 1).key
<1>1. /\ IsRaw(request.raw) /\ request.extract \in BOOLEAN
      /\ request.sources \in Seq(Range(request.sources))
      /\ \A s \in DOMAIN request.sources : IsSource(request.sources[s], request.extract)
  BY RequestsAssumption DEF Position
<1>2. Len(request.sources) \in Nat /\ Sources = 1 .. Len(request.sources)
  BY <1>1 DEF Sources
<1>3. ASSUME NEW s \in Sources
      PROVE  /\ Len(request.sources[s]) \in Nat \ {0}
             /\ DOMAIN request.sources[s] = 1 .. Len(request.sources[s])
             /\ \A v \in DOMAIN request.sources[s] :
                  IF request.extract THEN IsArchive(Content(s, v))
                  ELSE Content(s, v).key = Content(s, 1).key
  <2> DEFINE objects == request.sources[s]
  <2>1. /\ objects \in Seq(Range(objects)) /\ objects # <<>>
        /\ \A object \in Range(objects) :
             IF request.extract THEN IsArchive(object) ELSE object.key = objects[1].key
    BY <1>1, <1>3 DEF IsSource, Sources
  <2>2. Len(objects) \in Nat \ {0} /\ DOMAIN objects = 1 .. Len(objects)
    BY <2>1
  <2>3. \A v \in DOMAIN objects : objects[v] \in Range(objects)
    BY DEF Range
  <2> QED BY <2>1, <2>2, <2>3 DEF Content
<1> QED BY <1>1, <1>2, <1>3

\* The numbers of an archive.
LEMMA ArchiveFacts ==
  ASSUME NEW zip, IsArchive(zip)
  PROVE  /\ zip.len \in Nat
         /\ Len(zip.entries) \in Nat /\ DOMAIN zip.entries = 1 .. Len(zip.entries)
         /\ \A i \in DOMAIN zip.entries : IsEntry(zip.entries[i])
         /\ Len(zip.catalog.entries) \in Nat
         /\ DOMAIN zip.catalog.entries = 1 .. Len(zip.catalog.entries)
<1>1. \A i \in DOMAIN zip.entries : zip.entries[i] \in Range(zip.entries)
  BY DEF Range
<1> QED BY <1>1 DEF IsArchive

\* The number of a budget's permits, and the sizes of blocks and chunks.
LEMMA OptionFacts ==
  ASSUME Position
  PROVE  /\ Options.block \in Nat /\ ScanSize \in Nat \ {0} /\ ReadSize \in Nat \ {0}
         /\ Options.budget \in Nat
<1>1. IsRaw(request.raw)
  BY RequestFacts
<1>2. Options.block \in Nat
  BY <1>1, RuntimeAssumption DEF IsRaw, Optional, Options, Runtime, Given
<1>3. ScanSize \in Nat \ {0}
  BY <1>2, ZipAssumption DEF ScanSize, Lesser, Greater
<1>4. ReadSize \in Nat \ {0}
  BY <1>2, <1>3 DEF ReadSize, Greater
<1>5. Options.budget \in Nat
  <2>1. Options.budget = IF request.raw.budget = Absent THEN (request.raw.memory * MiB) \div 2
                         ELSE request.raw.budget * MiB
    BY DEF Options, Runtime, MemoryCap
  <2>2. request.raw.memory \in Nat /\ request.raw.budget \in Nat \cup {Absent} /\ MiB \in Nat
    BY <1>1, RuntimeAssumption DEF IsRaw, Optional
  <2>3. request.raw.memory * MiB \in Nat
    BY <2>2
  <2>4. request.raw.budget # Absent => request.raw.budget * MiB \in Nat
    BY <2>2
  <2> HIDE DEF Options
  <2> QED BY <2>1, <2>3, <2>4
<1> QED BY <1>2, <1>3, <1>4, <1>5

\* A budget that is accepted is a whole number of permits.
LEMMA BudgetIsWhole ==
  ASSUME Position, pc \notin {"Parse", "Refused"}
  PROVE  /\ Options.block \in Nat \ {0} /\ Options.block <= Options.budget
         /\ UnitOf(Options.budget) = PermitUnit
         /\ PermitTotal(Options.budget) \in Nat
         /\ Options.budget = PermitUnit * PermitTotal(Options.budget)
<1> DEFINE b == Options.budget
<1>1. Accepted(request.raw) /\ IsRaw(request.raw)
  BY RequestFacts DEF Position
<1>2. Options.block \in Nat \ {0} /\ Options.block <= b
  BY <1>1, RuntimeAssumption DEF Accepted, Options
<1>3. b \in Nat \ {0}
  BY <1>2, OptionFacts
<1>4. PICK k \in Nat : MiB = 2 * (PermitUnit * k)
  <2>1. MiB \in Nat /\ PermitUnit \in Nat \ {0} /\ MiB % (2 * PermitUnit) = 0
    BY RuntimeAssumption
  <2>2. 2 * PermitUnit \in Nat \ {0}
    BY <2>1
  <2>3. MiB = (2 * PermitUnit) * (MiB \div (2 * PermitUnit)) /\ MiB \div (2 * PermitUnit) \in Nat
    BY <2>1, <2>2, Whole
  <2> DEFINE k == MiB \div (2 * PermitUnit)
  <2>4. k \in Nat /\ MiB = (2 * PermitUnit) * k
    BY <2>3
  <2> HIDE DEF k
  <2>5. MiB = 2 * (PermitUnit * k)
    BY <2>1, <2>4
  <2> QED BY <2>4, <2>5
<1>5. PICK n \in Nat : b = PermitUnit * n
  <2>1. b = IF request.raw.budget = Absent THEN (request.raw.memory * MiB) \div 2
            ELSE request.raw.budget * MiB
    BY DEF Options, Runtime, MemoryCap
  <2>2. request.raw.memory \in Nat /\ request.raw.budget \in Nat \cup {Absent} /\ PermitUnit \in Nat
    BY <1>1, RuntimeAssumption DEF IsRaw, Optional
  <2>3. CASE request.raw.budget = Absent
    <3> DEFINE m == request.raw.memory
    <3>1. m \in Nat
      BY <2>2
    <3> HIDE DEF m
    <3>2. (m * MiB) \div 2 = PermitUnit * (m * k)
      <4>1. m * MiB = 2 * (PermitUnit * (m * k)) /\ PermitUnit * (m * k) \in Nat
        BY <1>4, <2>2, <3>1
      <4> QED BY <4>1
    <3>3. b = PermitUnit * (m * k) /\ m * k \in Nat
      BY <2>1, <2>3, <3>1, <3>2, <1>4 DEF m
    <3> QED BY <3>3
  <2>4. CASE request.raw.budget # Absent
    <3> DEFINE m == request.raw.budget
    <3>1. m \in Nat
      BY <2>2, <2>4
    <3>2. b = m * MiB
      BY <2>1, <2>4
    <3> HIDE DEF m, b
    <3>3. b = PermitUnit * (2 * (m * k)) /\ 2 * (m * k) \in Nat
      BY <1>4, <2>2, <3>1, <3>2
    <3> QED BY <3>3
  <2> QED BY <2>3, <2>4
<1>6. PermitUnit \in Nat \ {0} /\ n # 0 /\ PermitUnit <= b
  <2>1. PermitUnit \in Nat \ {0}
    BY RuntimeAssumption
  <2> HIDE DEF b
  <2>2. n # 0
    BY <1>3, <1>5, <2>1
  <2> QED BY <1>5, <2>1, <2>2
<1>7. UnitOf(b) = PermitUnit
  BY <1>6 DEF UnitOf, Lesser
<1>8. PermitTotal(b) = n
  <2>1. PermitTotal(b) = b \div PermitUnit
    BY <1>7 DEF PermitTotal
  <2> HIDE DEF b
  <2>2. (PermitUnit * n) \div PermitUnit = n
    BY <1>6
  <2> QED BY <1>5, <2>1, <2>2
<1> QED BY <1>2, <1>5, <1>7, <1>8

-----------------------------------------------------------------------------
(* What has been read *)

ChunksFrom(from, to, size) ==
  {[start |-> c, end |-> ChunkEnd(Length, c, size)] : c \in Chunks(from, to, size)}

\* The ranges that each state of the reading needs.
LEMMA RangesAre ==
  /\ pc = "Scan" => Ranges = ChunksFrom(scan.end - 1, scan.end, ScanSize)
  /\ pc = "Locator" /\ ~(LocatorAt < 0) => Ranges = ChunksFrom(LocatorAt, scan.eocd, ScanSize)
  /\ pc = "Locator" /\ LocatorAt < 0 => Ranges = {}
  /\ pc = "Record" => Ranges = ChunksFrom(Locator.at, Locator.at + RecordLen, ScanSize)
  /\ pc = "Parser" => Ranges = ChunksFrom(info.start, Length, ReadSize)
  /\ pc = "Catalog" => Ranges = {CatalogBlocks[b] : b \in DOMAIN CatalogBlocks}
  /\ pc \notin {"Scan", "Locator", "Record", "Parser", "Catalog"} => Ranges = {}
<1>1. pc = "Scan" => Ranges = ChunksFrom(scan.end - 1, scan.end, ScanSize)
  BY DEF Ranges, ChunksFrom
<1>2. pc = "Locator" /\ ~(LocatorAt < 0) => Ranges = ChunksFrom(LocatorAt, scan.eocd, ScanSize)
  BY DEF Ranges, ChunksFrom
<1>3. pc = "Locator" /\ LocatorAt < 0 => Ranges = {}
  BY DEF Ranges
<1>4. pc = "Record" => Ranges = ChunksFrom(Locator.at, Locator.at + RecordLen, ScanSize)
  BY DEF Ranges, ChunksFrom
<1>5. pc = "Parser" => Ranges = ChunksFrom(info.start, Length, ReadSize)
  BY DEF Ranges, ChunksFrom
<1>6. pc = "Catalog" => Ranges = {CatalogBlocks[b] : b \in DOMAIN CatalogBlocks}
  BY DEF Ranges
<1>7. pc \notin {"Scan", "Locator", "Record", "Parser", "Catalog"} => Ranges = {}
  BY DEF Ranges
<1> QED BY <1>1, <1>2, <1>3, <1>4, <1>5, <1>6, <1>7

\* When none of the chunks is missing, the one of each offset has been read.
LEMMA ChunkLoaded ==
  ASSUME NEW from, NEW to, NEW size, NEW p \in from .. to - 1,
         Missing = {}, Ranges = ChunksFrom(from, to, size)
  PROVE  AlignDown(p, size) \in DOMAIN loaded
<1> DEFINE r == [start |-> AlignDown(p, size), end |-> ChunkEnd(Length, AlignDown(p, size), size)]
<1>1. AlignDown(p, size) \in Chunks(from, to, size)
  BY DEF Chunks
<1>2. r \in Ranges
  BY <1>1 DEF ChunksFrom
<1>3. r.start \in DOMAIN loaded
  BY <1>2 DEF Missing
<1> QED BY <1>3

\* What is read of a chunk is the pinned archive's.
LEMMA AtIsArchive ==
  ASSUME Pins, NEW p, AlignDown(p, ScanSize) \in DOMAIN loaded
  PROVE  At(p) = Archive
  BY DEF Pins, At, Archive

\* The pinned archive is an archive.
LEMMA Pinning ==
  ASSUME Reached, pc \in Reading
  PROVE  /\ src \in Sources /\ pin \in DOMAIN request.sources[src] /\ IsArchive(Archive)
         /\ Len(archives) = src /\ pin \in Nat /\ Length \in Nat
<1>1. src \in Sources /\ request.extract /\ pc # "Refused"
  BY DEF Reached, Position, Reading
<1>2. Len(archives) = src /\ archives[src] = pin /\ archives \in Seq(Nat)
  BY <1>1 DEF Reached, Pins, Pinned
<1>3. src \in DOMAIN archives
  BY <1>1, <1>2, RequestFacts DEF Reached
<1>4. pin \in DOMAIN request.sources[src] /\ pin \in Nat
  BY <1>2, <1>3 DEF Reached, Pins
<1>5. IsArchive(Archive)
  BY <1>1, <1>4, RequestFacts DEF Reached, Archive
<1> QED BY <1>1, <1>2, <1>4, <1>5 DEF IsArchive, Length

\* The range that is asked for next is one that is missing.
LEMMA WantedIsMissing ==
  ASSUME Missing # {}, \A r \in Missing : r.start \in Nat
  PROVE  Wanted \in Missing
<1> DEFINE S == {r.start : r \in Missing}
<1>1. S \in SUBSET Nat /\ S # {}
  OBVIOUS
<1> HIDE DEF S
<1>2. PICK m \in S : \A n \in S : m <= n
  BY <1>1, LeastNumber
<1>3. PICK w \in Missing : w.start = m
  BY DEF S
<1>4. \A q \in Missing : w.start <= q.start
  BY <1>2, <1>3 DEF S
<1> QED BY <1>4, Zenon DEF Wanted

-----------------------------------------------------------------------------
(* Refusals *)

\* What every refusal does, and the refusals but for the one of the scan.
Refused ==
  /\ pc' = "Refused"
  /\ Forgotten
  /\ UNCHANGED <<request, current, src, faults, manifest, archives, stores>>

Refusal == Refused /\ why' # "EndRecord"

\* The reasons a request is refused for.
LEMMA Refusals ==
  /\ \A reason : Refuse(reason) => Refused /\ why' = reason
  /\ Refuse("Request") \/ Refuse("Head") \/ Refuse("Short") \/ Refuse("Get") \/ Refuse("Budget") => Refusal
  /\ Refuse("Directory") \/ Refuse("Catalog") \/ Refuse("Entries") \/ Refuse("Preflight") => Refusal
  /\ Refuse("Blocks") \/ Refuse("Deadline") => Refusal
  BY DEF Refuse, Refused, Refusal

\* A refusal forgets what has been read.
LEMMA RefusedKeepsReached ==
  ASSUME Reached, Refused
  PROVE  Reached'
<1>1. Position'
  BY DEF Reached, Position, Refused, Sources, Reading, Afterwards
<1>2. Pins'
  BY DEF Reached, Pins, Refused, Forgotten, Sources, Reading
<1> QED BY <1>1, <1>2 DEF Reached

-----------------------------------------------------------------------------
(* Where the planning stands *)

\* The steps that read on, in the archive being read.
ReadOn ==
  /\ pc \in Reading /\ pc' \in Reading
  /\ UNCHANGED <<request, current, why, src, pin, manifest, archives, stores>>

\* Reading on keeps the source and its pin.
LEMMA ReadOnKeepsReached ==
  ASSUME Reached, ReadOn, \A at \in DOMAIN loaded' : loaded'[at] = pin
  PROVE  Reached'
<1>1. Position'
  BY DEF Reached, Position, ReadOn, Sources, Reading, Afterwards
<1>2. Pins'
  BY DEF Reached, Pins, ReadOn, Sources, Reading, Pinned
<1> QED BY <1>1, <1>2 DEF Reached

\* The steps of the reading, but for those that refuse the request.
ReadingStep == GetRange \/ RetryGet \/ ScanForEnd \/ ReadEnd \/ ReadRecord \/ ReserveDirectory
  \/ ParseDirectory \/ ReserveCatalog \/ ReserveBlock \/ AuthenticateCatalog

\* Ranges are read while an archive is.
LEMMA MissingInReading ==
  Missing # {} => pc \in Reading
<1>1. pc \notin Reading => Ranges = {}
  BY RangesAre DEF Reading
<1> QED BY <1>1 DEF Missing

\* A step of the reading reads on, of the pinned object, or refuses the request.
LEMMA ReadingReadsOn ==
  ASSUME Reached, ReadingStep
  PROVE  \/ Refusal
         \/ pc = "Scan" /\ ScanForEnd /\ Refuse("EndRecord")
         \/ ReadOn /\ \A at \in DOMAIN loaded' : loaded'[at] = pin
<1> DEFINE OnPin == ReadOn /\ \A at \in DOMAIN loaded' : loaded'[at] = pin
<1>1. \A at \in DOMAIN loaded : loaded[at] = pin
  BY DEF Reached, Pins
<1>2. GetRange => OnPin
  <2> SUFFICES ASSUME GetRange PROVE OnPin
    OBVIOUS
  <2>1. pc \in Reading /\ current[src] = pin
    BY MissingInReading DEF GetRange, Asking, Serves
  <2>2. \A at \in DOMAIN loaded' : loaded'[at] = pin
    BY <1>1, <2>1 DEF GetRange
  <2> QED BY <2>1, <2>2 DEF GetRange, ReadOn
<1>3. RetryGet => OnPin
  BY <1>1, MissingInReading DEF RetryGet, Asking, ReadOn
<1>4. ScanForEnd => OnPin \/ Refuse("Directory") \/ (pc = "Scan" /\ Refuse("EndRecord"))
  BY <1>1 DEF ScanForEnd, ReadOn, Reading
<1>5. DirectoryIs(End, scan.eocd) /\ pc = "Locator" => OnPin \/ Refuse("Directory")
  BY <1>1 DEF DirectoryIs, ReadOn, Reading
<1>6. ReadEnd => OnPin \/ Refuse("Directory")
  BY <1>1, <1>5 DEF ReadEnd, ReadOn, reading, Reading
<1>7. ReadRecord => OnPin \/ Refuse("Directory")
  <2>1. ReadRecord => pc = "Record" /\ (Refuse("Directory") \/ \E r : DirectoryIs(r, Locator.at))
    BY DEF ReadRecord
  <2>2. ASSUME NEW r, DirectoryIs(r, Locator.at), pc = "Record" PROVE OnPin \/ Refuse("Directory")
    BY <1>1, <2>2 DEF DirectoryIs, ReadOn, Reading
  <2> HIDE DEF OnPin
  <2> QED BY <2>1, <2>2
<1>8. ReserveDirectory => OnPin \/ Refuse("Budget")
  BY <1>1 DEF ReserveDirectory, ReadOn, Reading
<1>9. ParseDirectory => OnPin \/ Refuse("Directory")
  BY <1>1 DEF ParseDirectory, ReadOn, Reading
<1>10. ReserveCatalog => OnPin \/ Refuse("Catalog")
  BY <1>1 DEF ReserveCatalog, ReadOn, Reading
<1>11. AuthenticateCatalog => OnPin \/ Refuse("Catalog")
  BY <1>1 DEF AuthenticateCatalog, ReadOn, Reading
<1>12. ReserveBlock => OnPin
  BY <1>1 DEF ReserveBlock, Coming, ReadOn, Reading
<1> HIDE DEF OnPin
<1>13. OnPin \/ Refusal \/ (pc = "Scan" /\ ScanForEnd /\ Refuse("EndRecord"))
  BY <1>2, <1>3, <1>4, <1>6, <1>7, <1>8, <1>9, <1>10, <1>11, <1>12, Refusals DEF ReadingStep
<1> QED BY <1>13 DEF OnPin

\* What a step does, when it does not refuse the request.
LEMMA Steps ==
  ASSUME Reached, Next
  PROVE  \/ Refusal
         \/ ScanForEnd /\ Refuse("EndRecord")
         \/ ReadingStep /\ ReadOn /\ \A at \in DOMAIN loaded' : loaded'[at] = pin
         \/ ParseRequest /\ pc' = "Source"
         \/ HeadArchive /\ pc' = "Scan"
         \/ HeadObject
         \/ AddEntries /\ NextSource
         \/ Preflight /\ pc' \in Afterwards
         \/ MakeStore /\ pc' = "Stores"
         \/ StoresMade
         \/ Overwrite
         \/ UNCHANGED vars
<1>1. CASE Step
  <2>1. HeadFails \/ GetFails \/ ScanTooLong \/ TimesOut => Refusal
    BY Refusals DEF HeadFails, GetFails, ScanTooLong, TimesOut
  <2>2. ReadingStep => \/ Refusal
                       \/ ScanForEnd /\ Refuse("EndRecord")
                       \/ ReadOn /\ \A at \in DOMAIN loaded' : loaded'[at] = pin
    BY ReadingReadsOn
  <2>3. ParseRequest => pc' = "Source" \/ Refusal
    BY Refusals DEF ParseRequest
  <2>4. HeadArchive => pc' = "Scan" \/ Refusal
    BY Refusals DEF HeadArchive
  <2>5. AddEntries => NextSource \/ Refusal
    BY Refusals DEF AddEntries
  <2>6. Preflight => pc' \in Afterwards \/ Refusal
    BY Refusals DEF Preflight, Afterwards
  <2>7. MakeStore => pc' = "Stores" \/ Refusal
    BY Refusals DEF MakeStore
  <2> QED BY <1>1, <2>1, <2>2, <2>3, <2>4, <2>5, <2>6, <2>7 DEF Step, ReadingStep
<1>2. CASE Overwrite
  BY <1>2
<1>3. CASE Terminated
  BY <1>3 DEF Terminated
<1> QED BY <1>1, <1>2, <1>3 DEF Next

\* Initially nothing has been read.
LEMMA ReachedInit == Init => Reached
<1> SUFFICES ASSUME Init PROVE Reached
  OBVIOUS
<1>1. request \in Requests /\ current = [s \in Sources |-> 1] /\ src = 1 /\ pc = "Parse" /\ why = ""
  BY DEF Init, Sources
<1>2. \A s \in Sources : 1 \in DOMAIN request.sources[s]
  <2>1. \A s \in DOMAIN request.sources : IsSource(request.sources[s], request.extract)
    BY <1>1, RequestsAssumption
  <2> QED BY <2>1 DEF IsSource, Sources
<1>3. Position
  <2>1. DOMAIN current = Sources /\ \A s \in Sources : current[s] \in DOMAIN request.sources[s]
    BY <1>1, <1>2
  <2>2. manifest = <<>>
    BY DEF Init
  <2>3. request \in Requests /\ src = 1 /\ pc = "Parse" /\ why = "" /\ pc \notin Reading
    BY <1>1 DEF Reading
  <2>4. src \in Nat \ {0}
    <3>1. src = 1
      BY <1>1
    <3> QED BY <3>1
  <2>5. pc \in {"Parse", "Source", "Preflight", "Refused"} \cup Reading \cup Afterwards
    BY <2>3
  <2>6. pc \in {"Source"} \cup Reading => src \in Sources
    BY <2>3
  <2>7. pc = "Preflight" => src = Len(request.sources) + 1
    BY <2>3
  <2>8. pc \notin {"Parse", "Refused"} => Accepted(request.raw)
    BY <2>3
  <2> QED BY <2>1, <2>2, <2>3, <2>4, <2>5, <2>6, <2>7, <2>8, Zenon DEF Position
<1>4. Pins
  <2>1. archives = <<>> /\ loaded = <<>>
    BY DEF Init
  <2>2. archives \in Seq(Nat) /\ DOMAIN archives = {} /\ DOMAIN loaded = {} /\ Len(archives) = 0
    BY <2>1
  <2>3. pc = "Parse" /\ pc \notin Reading
    BY <1>1 DEF Reading
  <2> QED BY <2>1, <2>2, <2>3 DEF Pins, Pinned
<1> QED BY <1>3, <1>4 DEF Reached

\* A refusal does not go on to the next source.
LEMMA RefusedNotNext ==
  NextSource => \A reason : ~Refuse(reason)
  BY DEF NextSource, Refuse

\* The next source begins with nothing read; the preflight follows the last one.
LEMMA NextSourceKeepsReached ==
  ASSUME Reached, pc \in {"Source", "Entries"}, pc = "Source" => ~request.extract,
         NextSource, UNCHANGED <<request, current, why, archives>>
  PROVE  Reached'
<1>1. Sources = 1 .. Len(request.sources) /\ Len(request.sources) \in Nat
  BY RequestFacts DEF Reached
<1>2. src \in Sources
  BY DEF Reached, Position, Reading
<1>3. /\ src' = src + 1
      /\ pc' = IF src = Len(request.sources) THEN "Preflight" ELSE "Source"
      /\ loaded' = <<>>
  BY DEF NextSource, Forgotten
<1>4. src' \in Nat \ {0} /\ (pc' = "Source" => src' \in Sources) /\ (pc' = "Preflight" => src' = Len(request.sources) + 1)
  BY <1>1, <1>2, <1>3
<1>5. pc' \in {"Source", "Preflight"}
  BY <1>3
<1>6. Position'
  BY <1>4, <1>5 DEF Reached, Position, Sources, Reading, Afterwards
<1>7. request.extract => Len(archives) = src
  BY DEF Reached, Pins, Pinned, Reading
<1>8. request.extract => Len(archives') = Pinned'
  BY <1>1, <1>2, <1>3, <1>7 DEF Pinned, Reading
<1>9. Pins'
  BY <1>3, <1>5, <1>8 DEF Reached, Pins, Sources, Reading
<1> QED BY <1>6, <1>9 DEF Reached

\* Every step leads from such a state to another.
LEMMA ReachedStep ==
  ASSUME Reached, Next
  PROVE  Reached'
<1>1. Sources = 1 .. Len(request.sources) /\ Len(request.sources) \in Nat
  BY RequestFacts DEF Reached
<1>2. CASE Refused
  BY <1>2, RefusedKeepsReached
<1>3. CASE ReadOn /\ \A at \in DOMAIN loaded' : loaded'[at] = pin
  BY <1>3, ReadOnKeepsReached
<1>4. CASE ParseRequest /\ pc' = "Source"
  <2>1. /\ pc = "Parse" /\ Accepted(request.raw) /\ LengthsOk
        /\ UNCHANGED <<request, current, why, src, reading, faults, manifest, archives, stores>>
    BY <1>4 DEF ParseRequest, Refuse
  <2>2. src = 1 /\ 1 \in Sources
    <3>1. src = 1 /\ request.sources # <<>>
      BY <2>1 DEF Reached, Position, LengthsOk
    <3>2. request.sources \in Seq(Range(request.sources))
      BY RequestsAssumption DEF Reached, Position
    <3> QED BY <1>1, <3>1, <3>2
  <2>3. Position'
    BY <1>4, <2>1, <2>2 DEF Reached, Position, Sources, Reading, Afterwards
  <2>4. Pins'
    BY <1>4, <2>1, <2>2 DEF Reached, Pins, Sources, Reading, Pinned, reading
  <2> QED BY <2>3, <2>4 DEF Reached
<1>5. CASE HeadArchive /\ pc' = "Scan"
  <2>1. /\ pc = "Source" /\ request.extract
        /\ pin' = current[src] /\ archives' = Append(archives, current[src])
        /\ UNCHANGED <<request, current, why, src, loaded, manifest>>
    BY <1>5 DEF HeadArchive, Refuse
  <2>2. src \in Sources /\ current[src] \in DOMAIN request.sources[src] /\ current[src] \in Nat
    <3>1. src \in Sources /\ current[src] \in DOMAIN request.sources[src]
      BY <2>1 DEF Reached, Position
    <3> QED BY <3>1, RequestFacts DEF Reached
  <2>3. archives \in Seq(Nat) /\ Len(archives) = src - 1
    BY <2>1 DEF Reached, Pins, Pinned, Reading
  <2>4. archives' \in Seq(Nat) /\ Len(archives') = src /\ archives'[src] = current[src]
    BY <2>1, <2>2, <2>3, <1>1
  <2>5. \A s \in DOMAIN archives' : s \in Sources /\ archives'[s] \in DOMAIN request.sources[s]
    <3>1. ASSUME NEW s \in DOMAIN archives' PROVE s = src \/ (s \in DOMAIN archives /\ archives'[s] = archives[s])
      BY <1>1, <2>1, <2>2, <2>3
    <3> QED BY <2>2, <2>4, <3>1 DEF Reached, Pins
  <2>6. Position'
    BY <1>5, <2>1, <2>2 DEF Reached, Position, Sources, Reading, Afterwards
  <2>7. loaded = <<>>
    BY <2>1 DEF Reached, Pins, Reading
  <2>8. Pins'
    BY <1>5, <2>1, <2>4, <2>5, <2>7 DEF Pins, Sources, Reading, Pinned
  <2> QED BY <2>6, <2>8 DEF Reached
<1>6. CASE HeadObject
  BY <1>6, NextSourceKeepsReached DEF HeadObject
<1>7. CASE AddEntries /\ NextSource
  <2>1. pc = "Entries" /\ UNCHANGED <<request, current, why, archives>>
    BY <1>7, RefusedNotNext DEF AddEntries
  <2> QED BY <1>7, <2>1, NextSourceKeepsReached
<1>8. CASE Preflight /\ pc' \in Afterwards
  <2>1. /\ pc = "Preflight" /\ src' = 1
        /\ UNCHANGED <<request, current, why, reading, faults, manifest, archives, stores>>
    BY <1>8 DEF Preflight, Refuse, Afterwards
  <2>2. Position'
    <3>1. src' \in Nat \ {0}
      BY <2>1
    <3> QED BY <1>8, <2>1, <3>1 DEF Reached, Position, Sources, Reading, Afterwards
  <2>3. Pins'
    BY <1>8, <2>1 DEF Reached, Pins, Sources, Reading, Pinned, reading, Afterwards
  <2> QED BY <2>2, <2>3 DEF Reached
<1>9. CASE (MakeStore /\ pc' = "Stores") \/ StoresMade
  <2>1. /\ pc = "Stores" /\ pc' \in Afterwards /\ (src' = src + 1 \/ src' = src)
        /\ UNCHANGED <<request, current, why, reading, faults, manifest, archives>>
    BY <1>9 DEF MakeStore, StoresMade, Refuse, Afterwards
  <2>2. src' \in Nat \ {0}
    <3>1. src \in Nat \ {0} /\ (src' = src + 1 \/ src' = src)
      BY <2>1 DEF Reached, Position
    <3> QED BY <3>1
  <2>3. Position'
    BY <2>1, <2>2 DEF Reached, Position, Sources, Reading, Afterwards
  <2>4. Pins'
    BY <2>1 DEF Reached, Pins, Sources, Reading, Pinned, reading, Afterwards
  <2> QED BY <2>3, <2>4 DEF Reached
<1>10. CASE Overwrite
  <2>1. PICK s \in Sources : /\ current[s] < Len(request.sources[s])
                             /\ current' = [current EXCEPT ![s] = @ + 1]
    BY <1>10 DEF Overwrite
  <2>2. UNCHANGED <<request, pc, why, src, reading, faults, manifest, archives, stores>>
    BY <1>10 DEF Overwrite
  <2>3. DOMAIN current = Sources /\ \A t \in Sources : current[t] \in DOMAIN request.sources[t]
    BY DEF Reached, Position
  <2>4. current[s] + 1 \in DOMAIN request.sources[s]
    BY <2>1, <2>3, RequestFacts DEF Reached
  <2>5. DOMAIN current' = Sources /\ \A t \in Sources : current'[t] \in DOMAIN request.sources[t]
    BY <2>1, <2>3, <2>4
  <2>6. Position'
    BY <2>2, <2>5 DEF Reached, Position, Sources
  <2>7. Pins'
    BY <2>2 DEF Reached, Pins, Sources, Pinned, reading
  <2> QED BY <2>6, <2>7 DEF Reached
<1>11. CASE UNCHANGED vars
  BY <1>11 DEF vars, reading, Reached, Position, Pins, Pinned, Sources
<1> QED BY <1>2, <1>3, <1>4, <1>5, <1>6, <1>7, <1>8, <1>9, <1>10, <1>11, Steps, Refusals DEF Refusal

-----------------------------------------------------------------------------
(* The scan for the end record *)

\* The scan has seen whatever is above its end, and knows the last end record.
ScanInv ==
  /\ scan \in [end : Nat, eocd : Optional, bytes : Int]
  /\ pc = "Scan" =>
       /\ scan.eocd = Absent /\ scan.end \in 1 .. Length
       /\ \A p \in BoundEnds(Archive) : p < scan.end
  /\ pc \in Reading \ {"Scan"} =>
       /\ scan.eocd \in BoundEnds(Archive)
       /\ \A p \in BoundEnds(Archive) : p <= scan.eocd
  /\ pc \notin Reading => scan.eocd = Absent
  /\ pc \in {"Locator", "Record"} => AlignDown(scan.eocd, ScanSize) \in DOMAIN loaded
  /\ pc = "Record" => LocatorAt \in DOMAIN Archive.locators /\ Locator.at + RecordLen <= Length
  /\ why = "EndRecord" => BoundEnds(Content(src, archives[src])) = {}

\* A bound end record lies in the part of the archive that is searched.
LEMMA BoundFacts ==
  ASSUME NEW zip, IsArchive(zip), NEW p \in BoundEnds(zip)
  PROVE  /\ p \in Nat /\ p + EocdLen <= zip.len /\ SearchStart(zip.len) <= p
         /\ SearchStart(zip.len) \in Nat
<1>1. p \in Nat /\ zip.len \in Nat /\ zip.ends[p].comment \in 0 .. MaxComment
  BY DEF BoundEnds, IsArchive
<1>2. p + EocdLen + zip.ends[p].comment = zip.len
  BY DEF BoundEnds, IsBound
<1> QED BY <1>1, <1>2, ZipAssumption DEF SearchStart, Less, Greater

\* What the scan of a chunk looks at, between the start and the end of the chunk.
LEMMA CandidatesAre ==
  ASSUME NEW len \in Nat, NEW start \in Nat, NEW end \in Nat, end <= len
  PROVE  /\ \A p \in Candidates(len, start, end) : p \in Nat /\ start <= p /\ p < end
         /\ \A p \in Nat : start <= p /\ p < end /\ SearchStart(len) <= p /\ p + EocdLen <= len
                             => p \in Candidates(len, start, end)
<1>1. SigLen \in Nat \ {0} /\ EocdLen \in Nat \ {0} /\ MaxComment \in Nat /\ SigLen <= EocdLen
  BY ZipAssumption
<1>2. SearchStart(len) \in Nat
  BY <1>1 DEF SearchStart, Less, Greater
<1>3. Greater(start, SearchStart(len)) \in Nat /\ start <= Greater(start, SearchStart(len))
      /\ SearchStart(len) <= Greater(start, SearchStart(len))
      /\ (Greater(start, SearchStart(len)) = start \/ Greater(start, SearchStart(len)) = SearchStart(len))
  BY <1>2 DEF Greater
<1> DEFINE last == Lesser(len, Lesser(end, len - EocdLen + SigLen) + SigLen - 1)
           high == Lesser(last - SigLen, len - EocdLen)
<1>4. high \in Int /\ high < end /\ \A p \in Nat : p < end /\ p + EocdLen <= len => p <= high
  BY <1>1 DEF Lesser
<1> HIDE DEF high
<1>5. Candidates(len, start, end) = Greater(start, SearchStart(len)) .. high
  BY DEF Candidates, high
<1> QED BY <1>2, <1>3, <1>4, <1>5

\* One round of the scan: the candidates are read from the pinned archive, and
\* every bound end record that has not been ruled out before is among them or
\* lies below the chunk.
LEMMA RoundOfScan ==
  ASSUME Reached, ScanInv, pc = "Scan", Missing = {},
         NEW start, start = AlignDown(scan.end - 1, ScanSize),
         NEW candidates, candidates = Candidates(Length, start, ChunkEnd(Length, start, ScanSize)),
         NEW found, found = {p \in candidates : p \in DOMAIN At(p).ends /\ IsBound(At(p), p)}
  PROVE  /\ start \in Nat /\ start <= Length /\ start \in DOMAIN loaded
         /\ \A p \in found : p \in BoundEnds(Archive) /\ start <= p /\ p <= Length
                               /\ AlignDown(p, ScanSize) = start /\ At(p) = Archive
         /\ \A p \in BoundEnds(Archive) : start <= p => p \in found
<1>1. pc \in Reading
  BY DEF Reading
<1>2. IsArchive(Archive) /\ Length \in Nat
  BY <1>1, Pinning
<1>3. scan.end \in 1 .. Length /\ ScanSize \in Nat \ {0}
  BY OptionFacts DEF ScanInv, Reached
<1>4. scan.end - 1 \in Nat
  BY <1>2, <1>3
<1>5. start \in Nat /\ start <= scan.end - 1 /\ scan.end - 1 < start + ScanSize
  BY <1>3, <1>4, ChunkStart
<1> DEFINE top == ChunkEnd(Length, start, ScanSize)
<1>6. top \in Nat /\ top <= Length /\ top <= start + ScanSize /\ scan.end <= top
  BY <1>2, <1>3, <1>5 DEF ChunkEnd, Lesser
<1>7. start \in DOMAIN loaded
  <2>1. scan.end - 1 \in scan.end - 1 .. scan.end - 1
    BY <1>4
  <2>2. Ranges = ChunksFrom(scan.end - 1, scan.end, ScanSize)
    BY RangesAre
  <2> QED BY <2>1, <2>2, ChunkLoaded
<1> HIDE DEF top
<1>8. candidates = Candidates(Length, start, top)
  BY DEF top
<1>9. ASSUME NEW p \in candidates
      PROVE  p \in Nat /\ start <= p /\ p < top /\ AlignDown(p, ScanSize) = start /\ At(p) = Archive
  <2>1. p \in Nat /\ start <= p /\ p < top
    BY <1>2, <1>5, <1>6, <1>8, <1>9, CandidatesAre
  <2>2. AlignDown(p, ScanSize) = start
    <3>1. p < AlignDown(scan.end - 1, ScanSize) + ScanSize
      BY <1>3, <1>5, <1>6, <2>1
    <3> QED BY <1>3, <1>4, <2>1, <3>1, ChunkOf
  <2>3. At(p) = Archive
    BY <1>7, <2>2, AtIsArchive DEF Reached
  <2> QED BY <2>1, <2>2, <2>3
<1>10. ASSUME NEW p \in found
       PROVE  p \in BoundEnds(Archive) /\ start <= p /\ p <= Length
                /\ AlignDown(p, ScanSize) = start /\ At(p) = Archive
  <2>1. p \in candidates /\ p \in DOMAIN At(p).ends /\ IsBound(At(p), p)
    BY <1>10
  <2>2. At(p) = Archive /\ p \in Nat /\ start <= p /\ p < top /\ AlignDown(p, ScanSize) = start
    BY <1>9, <2>1
  <2>3. p \in BoundEnds(Archive)
    BY <2>1, <2>2 DEF BoundEnds
  <2> QED BY <1>2, <1>6, <2>2, <2>3
<1>11. ASSUME NEW p \in BoundEnds(Archive), start <= p PROVE p \in found
  <2>1. p \in Nat /\ p + EocdLen <= Length /\ SearchStart(Length) <= p
    BY <1>2, BoundFacts DEF Length
  <2>2. p < scan.end
    BY DEF ScanInv
  <2>3. p < top
    BY <1>3, <1>6, <2>1, <2>2
  <2>4. p \in candidates
    BY <1>2, <1>5, <1>6, <1>8, <1>11, <2>1, <2>3, CandidatesAre
  <2>5. At(p) = Archive
    BY <1>9, <2>4
  <2>6. p \in DOMAIN At(p).ends /\ IsBound(At(p), p)
    BY <2>5 DEF BoundEnds
  <2> QED BY <2>4, <2>6
<1>12. start <= Length
  BY <1>2, <1>3, <1>5
<1> QED BY <1>5, <1>7, <1>10, <1>11, <1>12

\* What one round of the scan leads to.
FoundAt(p) ==
  /\ pc' = "Locator" /\ scan' = [scan EXCEPT !.eocd = p]
  /\ p \in BoundEnds(Archive) /\ \A q \in BoundEnds(Archive) : q <= p
  /\ AlignDown(p, ScanSize) \in DOMAIN loaded

GoesOnAt(start) ==
  /\ pc' = "Scan" /\ scan' = [scan EXCEPT !.end = start]
  /\ start \in 1 .. Length /\ \A q \in BoundEnds(Archive) : q < start

\* The three outcomes of a round of the scan.
LEMMA OutcomeOfScan ==
  ASSUME Reached, ScanInv, ScanForEnd
  PROVE  \/ Refuse("Directory")
         \/ Refuse("EndRecord") /\ BoundEnds(Archive) = {}
         \/ /\ UNCHANGED <<request, why, src, pin, loaded, info, entries, charged, archives>>
            /\ (\E p : FoundAt(p)) \/ (\E start : GoesOnAt(start))
<1> DEFINE start == AlignDown(scan.end - 1, ScanSize)
           candidates == Candidates(Length, start, ChunkEnd(Length, start, ScanSize))
           found == {p \in candidates : p \in DOMAIN At(p).ends /\ IsBound(At(p), p)}
<1>1. pc = "Scan" /\ Missing = {} /\ pc \in Reading
  BY DEF ScanForEnd, Reading
<1>2. /\ start \in Nat /\ start <= Length /\ start \in DOMAIN loaded
      /\ \A p \in found : p \in BoundEnds(Archive) /\ start <= p /\ p <= Length
                            /\ AlignDown(p, ScanSize) = start /\ At(p) = Archive
      /\ \A p \in BoundEnds(Archive) : start <= p => p \in found
  BY <1>1, RoundOfScan
<1>3. IF found # {}
      THEN IF At(Max(found)).ends[Max(found)].split THEN Refuse("Directory")
           ELSE /\ scan' = [scan EXCEPT !.eocd = Max(found)]
                /\ pc' = "Locator"
                /\ UNCHANGED <<request, current, why, src, pin, loaded, info, entries, charged, attempt, faults, manifest, archives, stores>>
      ELSE IF start <= SearchStart(Length) \/ start = 0 THEN Refuse("EndRecord")
      ELSE /\ scan' = [scan EXCEPT !.end = start]
           /\ UNCHANGED <<request, current, pc, why, src, pin, loaded, info, entries, charged, attempt, faults, manifest, archives, stores>>
  BY DEF ScanForEnd
<1> HIDE DEF start, found
<1>4. IsArchive(Archive) /\ Length \in Nat
  BY <1>1, Pinning
<1>5. \A p \in BoundEnds(Archive) : p \in Nat /\ SearchStart(Length) <= p /\ SearchStart(Length) \in Nat
  BY <1>4, BoundFacts DEF Length
<1>6. CASE found # {}
  <2>1. found \in SUBSET Nat
    BY <1>2, <1>5
  <2>2. Max(found) \in found /\ \A p \in found : p <= Max(found)
    BY <1>2, <1>4, <1>6, <2>1, GreatestNumber
  <2>3. ASSUME NEW q \in BoundEnds(Archive) PROVE q <= Max(found)
    <3>1. Max(found) \in Nat /\ start \in Nat /\ start <= Max(found) /\ q \in Nat
      BY <1>2, <1>5, <2>1, <2>2
    <3>2. start <= q => q <= Max(found)
      BY <1>2, <2>2
    <3> QED BY <3>1, <3>2
  <2>4. Max(found) \in BoundEnds(Archive) /\ AlignDown(Max(found), ScanSize) \in DOMAIN loaded
    BY <1>2, <2>2
  <2>5. CASE At(Max(found)).ends[Max(found)].split
    BY <1>3, <1>6, <2>5
  <2>6. CASE ~At(Max(found)).ends[Max(found)].split
    BY <1>3, <1>6, <2>3, <2>4, <2>6 DEF FoundAt
  <2> QED BY <2>5, <2>6
<1>7. CASE found = {}
  <2>1. \A q \in BoundEnds(Archive) : q < start
    BY <1>2, <1>5, <1>7
  <2>2. CASE start <= SearchStart(Length) \/ start = 0
    <3>1. BoundEnds(Archive) = {}
      BY <1>2, <1>5, <2>1, <2>2
    <3> QED BY <1>3, <1>7, <2>2, <3>1
  <2>3. CASE ~(start <= SearchStart(Length) \/ start = 0)
    <3>1. start \in 1 .. Length
      BY <1>2, <1>4, <2>3
    <3> QED BY <1>1, <1>3, <1>7, <2>1, <2>3, <3>1 DEF GoesOnAt
  <2> QED BY <2>2, <2>3
<1> QED BY <1>6, <1>7

\* A round that finds no end record has seen its chunk and what is above.
LEMMA ScanForEndKeepsScan ==
  ASSUME Reached, ScanInv, ScanForEnd
  PROVE  ScanInv'
<1>1. pc = "Scan" /\ pc \in Reading /\ archives[src] = pin /\ why = ""
  BY DEF ScanForEnd, Reached, Position, Pins, Reading
<1>2. scan \in [end : Nat, eocd : Optional, bytes : Int] /\ scan.eocd = Absent
  BY <1>1 DEF ScanInv
<1>3. Length \in Nat /\ IsArchive(Archive)
  BY <1>1, Pinning
<1>4. CASE Refused
  <2>1. scan' = NoScan /\ pc' = "Refused"
    BY <1>4 DEF Refused, Forgotten
  <2>2. scan' \in [end : Nat, eocd : Optional, bytes : Int] /\ scan'.eocd = Absent
    BY <2>1 DEF NoScan, Optional
  <2>3. why' = "EndRecord" => BoundEnds(Archive) = {}
    BY <1>4, OutcomeOfScan, Refusals DEF FoundAt, GoesOnAt, Refused
  <2>4. why' = "EndRecord" => BoundEnds(Content(src, archives[src])') = {}
    BY <1>1, <1>4, <2>3 DEF Refused, Content, Archive, BoundEnds, IsBound
  <2> QED BY <2>1, <2>2, <2>4 DEF ScanInv, Reading
<1>5. CASE UNCHANGED <<request, why, src, pin, loaded, info, entries, charged, archives>>
  <2>1. Archive' = Archive /\ Length' = Length /\ ScanSize' = ScanSize /\ BoundEnds(Archive)' = BoundEnds(Archive)
    BY <1>5 DEF Archive, Length, Content, ScanSize, Options, BoundEnds, IsBound
  <2>2. why' # "EndRecord"
    BY <1>1, <1>5
  <2>3. ASSUME NEW p, FoundAt(p) PROVE ScanInv'
    <3>1. scan' \in [end : Nat, eocd : Optional, bytes : Int] /\ scan'.eocd = p
      BY <1>2, <1>3, <2>3, BoundFacts DEF FoundAt, Optional
    <3> QED BY <1>5, <2>1, <2>2, <2>3, <3>1 DEF ScanInv, FoundAt, Reading
  <2>4. ASSUME NEW start, GoesOnAt(start) PROVE ScanInv'
    <3>1. scan' \in [end : Nat, eocd : Optional, bytes : Int] /\ scan'.eocd = Absent /\ scan'.end = start
      BY <1>2, <1>3, <2>4 DEF GoesOnAt, Optional
    <3> QED BY <1>5, <2>1, <2>2, <2>4, <3>1 DEF ScanInv, GoesOnAt, Reading
  <2>5. (\E p : FoundAt(p)) \/ (\E start : GoesOnAt(start))
    BY <1>1, <1>5, OutcomeOfScan DEF Refuse
  <2> QED BY <2>3, <2>4, <2>5
<1> QED BY <1>4, <1>5, OutcomeOfScan, Refusals

\* The borders of chunks.
LEMMA ChunkBorders ==
  ASSUME NEW from \in Nat, NEW to \in Int, NEW size \in Nat \ {0}, Length \in Nat,
         NEW r \in ChunksFrom(from, to, size)
  PROVE  r.start \in Nat /\ r.end \in Nat
<1>1. PICK p \in from .. to - 1 :
        r = [start |-> AlignDown(p, size), end |-> ChunkEnd(Length, AlignDown(p, size), size)]
  BY DEF ChunksFrom, Chunks
<1>2. p \in Nat
  BY <1>1
<1>3. AlignDown(p, size) \in Nat
  BY <1>2, ChunkStart
<1>4. ChunkEnd(Length, AlignDown(p, size), size) \in Nat
  BY <1>3 DEF ChunkEnd, Lesser
<1> QED BY <1>1, <1>3, <1>4

\* The offsets at which the scan and its sequel read.
LEMMA OffsetsOfScan ==
  ASSUME Reached, ScanInv, Scanning
  PROVE  /\ pc = "Scan" => scan.end - 1 \in Nat
         /\ pc \in {"Locator", "Record"} => LocatorAt \in Int /\ scan.eocd \in Nat
         /\ pc = "Record" => Locator.at \in Nat
         /\ \A r \in Missing : r.start \in Nat /\ r.end \in Nat
<1>1. pc \in Reading /\ pc \in {"Scan", "Locator", "Record"}
  BY DEF Scanning, Reading
<1>2. IsArchive(Archive) /\ Length \in Nat /\ ScanSize \in Nat \ {0}
  BY <1>1, Pinning, OptionFacts DEF Reached
<1>3. pc = "Scan" => scan.end - 1 \in Nat /\ scan.end \in Nat
  BY <1>2 DEF ScanInv
<1>4. pc \in {"Locator", "Record"} => scan.eocd \in Nat
  BY <1>1, <1>2, BoundFacts DEF ScanInv, Reading
<1>5. pc \in {"Locator", "Record"} => LocatorAt \in Int
  BY <1>4, ZipAssumption DEF LocatorAt
<1>6. pc = "Record" => Locator.at \in Nat
  BY <1>2 DEF ScanInv, Locator, IsArchive
<1>7. ASSUME NEW r \in Missing PROVE r.start \in Nat /\ r.end \in Nat
  <2>1. r \in Ranges
    BY DEF Missing
  <2>2. CASE pc = "Scan"
    <3>1. r \in ChunksFrom(scan.end - 1, scan.end, ScanSize)
      BY <2>1, <2>2, RangesAre
    <3>2. scan.end - 1 \in Nat /\ scan.end \in Int
      BY <1>3, <2>2
    <3>3. Length \in Nat /\ ScanSize \in Nat \ {0}
      BY <1>2
    <3> QED BY <3>1, <3>2, <3>3, ChunkBorders
  <2>3. CASE pc = "Locator"
    <3>1. ~(LocatorAt < 0) /\ Ranges = ChunksFrom(LocatorAt, scan.eocd, ScanSize)
      BY <2>1, <2>3, RangesAre
    <3>2. LocatorAt \in Nat
      BY <1>5, <2>3, <3>1
    <3>3. scan.eocd \in Int /\ r \in ChunksFrom(LocatorAt, scan.eocd, ScanSize)
      BY <1>4, <2>1, <2>3, <3>1
    <3>4. Length \in Nat /\ ScanSize \in Nat \ {0}
      BY <1>2
    <3> QED BY <3>2, <3>3, <3>4, ChunkBorders
  <2>4. CASE pc = "Record"
    <3>1. r \in ChunksFrom(Locator.at, Locator.at + RecordLen, ScanSize)
      BY <2>1, <2>4, RangesAre
    <3>2. Locator.at \in Nat /\ Locator.at + RecordLen \in Int
      BY <1>6, <2>4, ZipAssumption
    <3>3. Length \in Nat /\ ScanSize \in Nat \ {0}
      BY <1>2
    <3> QED BY <3>1, <3>2, <3>3, ChunkBorders
  <2> QED BY <1>1, <2>2, <2>3, <2>4
<1> QED BY <1>3, <1>4, <1>5, <1>6, <1>7

\* A GET adds to what has been read, and to the bytes of the scan.
LEMMA GetKeepsScan ==
  ASSUME Reached, ScanInv, GetRange \/ RetryGet
  PROVE  ScanInv'
<1>1. /\ pc \in Reading /\ DOMAIN loaded \subseteq DOMAIN loaded'
      /\ UNCHANGED <<request, pc, why, src, pin, archives>>
  BY MissingInReading DEF GetRange, RetryGet, Asking
<1>2. why # "EndRecord"
  BY <1>1 DEF Reached, Position, Reading
<1>3. scan \in [end : Nat, eocd : Optional, bytes : Int]
  BY DEF ScanInv
<1>4. /\ scan' \in [end : Nat, eocd : Optional, bytes : Int]
      /\ scan'.end = scan.end /\ scan'.eocd = scan.eocd
  <2>1. CASE scan' = scan
    BY <1>3, <2>1
  <2>2. CASE GetRange /\ Scanning
    <3>1. Missing # {} /\ scan' = [scan EXCEPT !.bytes = @ + Wanted.end - Wanted.start]
      BY <2>2 DEF GetRange, Asking
    <3>2. \A r \in Missing : r.start \in Nat /\ r.end \in Nat
      BY <2>2, OffsetsOfScan
    <3>3. Wanted \in Missing
      BY <3>1, <3>2, WantedIsMissing
    <3>4. Wanted.start \in Nat /\ Wanted.end \in Nat
      BY <3>2, <3>3
    <3> QED BY <1>3, <3>1, <3>4
  <2> QED BY <2>1, <2>2 DEF GetRange, RetryGet
<1>5. /\ Archive' = Archive /\ Length' = Length /\ ScanSize' = ScanSize
      /\ BoundEnds(Archive)' = BoundEnds(Archive)
  BY <1>1 DEF Archive, Length, Content, ScanSize, Options, BoundEnds, IsBound
<1>6. LocatorAt' = LocatorAt /\ Locator' = Locator
  BY <1>4, <1>5 DEF LocatorAt, Locator
<1> QED BY <1>1, <1>2, <1>4, <1>5, <1>6 DEF ScanInv

\* The ZIP64 locator, and the record it leads to.
LEMMA ReadEndKeepsScan ==
  ASSUME Reached, ScanInv, ReadEnd, ReadOn
  PROVE  ScanInv'
<1>1. pc = "Locator" /\ Missing = {} /\ UNCHANGED <<scan, loaded>> /\ pc' \in {"Record", "Reserve"}
  BY DEF ReadEnd, DirectoryIs, ReadOn, Refuse, Reading, reading
<1>2. pc \in Reading /\ why # "EndRecord" /\ UNCHANGED <<request, why, src, pin, archives>>
  BY <1>1 DEF ReadOn, Reached, Position, Reading
<1>3. /\ Archive' = Archive /\ Length' = Length /\ ScanSize' = ScanSize
      /\ BoundEnds(Archive)' = BoundEnds(Archive)
  BY <1>2 DEF Archive, Length, Content, ScanSize, Options, BoundEnds, IsBound
<1>4. LocatorAt' = LocatorAt /\ Locator' = Locator
  BY <1>1, <1>3 DEF LocatorAt, Locator
<1>5. ASSUME pc' = "Record"
      PROVE  LocatorAt \in DOMAIN Archive.locators /\ Locator.at + RecordLen <= Length
  <2>1. /\ LocatorAt >= 0 /\ LocatorAt \in DOMAIN At(LocatorAt).locators
        /\ ~(Locator.at + RecordLen > Length)
    BY <1>5 DEF ReadEnd, DirectoryIs, ReadOn, Refuse, Reading
  <2>2. LocatorAt \in Int /\ scan.eocd \in Nat /\ LocatorAt < scan.eocd
    BY <1>1, OffsetsOfScan, ZipAssumption DEF LocatorAt, Scanning
  <2>3. AlignDown(LocatorAt, ScanSize) \in DOMAIN loaded
    <3>1. Ranges = ChunksFrom(LocatorAt, scan.eocd, ScanSize)
      BY <1>1, <2>1, <2>2, RangesAre
    <3>2. LocatorAt \in LocatorAt .. scan.eocd - 1
      BY <2>2
    <3> QED BY <1>1, <3>1, <3>2, ChunkLoaded
  <2>4. LocatorAt \in DOMAIN Archive.locators
    BY <2>1, <2>3, AtIsArchive DEF Reached
  <2>5. Locator.at \in Nat /\ Length \in Nat
    BY <1>2, <2>4, Pinning DEF Locator, IsArchive
  <2> QED BY <2>1, <2>4, <2>5, ZipAssumption
<1> QED BY <1>1, <1>2, <1>3, <1>4, <1>5 DEF ScanInv, Reading

\* A new archive is scanned from its end.
LEMMA HeadKeepsScan ==
  ASSUME Reached, HeadArchive, pc' = "Scan"
  PROVE  ScanInv'
<1> DEFINE zip == Content(src, current[src])
<1>1. /\ pc = "Source" /\ request.extract /\ ~(zip.len < EocdLen)
      /\ pin' = current[src] /\ scan' = [NoScan EXCEPT !.end = zip.len]
      /\ UNCHANGED <<request, why, src>>
  BY DEF HeadArchive, Refuse
<1>2. src \in Sources /\ current[src] \in DOMAIN request.sources[src] /\ why # "EndRecord"
  BY <1>1 DEF Reached, Position
<1>3. IsArchive(zip)
  BY <1>1, <1>2, RequestFacts DEF Reached
<1>4. Archive' = zip /\ Length' = zip.len
  BY <1>1 DEF Archive, Length, Content
<1> HIDE DEF zip
<1>5. zip.len \in Nat /\ zip.len \in 1 .. zip.len
  BY <1>1, <1>3, ZipAssumption DEF IsArchive
<1>6. /\ scan' \in [end : Nat, eocd : Optional, bytes : Int]
      /\ scan'.eocd = Absent /\ scan'.end = zip.len
  BY <1>1, <1>5 DEF NoScan, Optional
<1>7. \A p \in BoundEnds(zip) : p < zip.len
  <2>1. ASSUME NEW p \in BoundEnds(zip) PROVE p < zip.len
    <3>1. p \in Nat /\ p + EocdLen <= zip.len
      BY <1>3, BoundFacts
    <3> QED BY <1>5, <3>1, ZipAssumption
  <2> QED BY <2>1
<1>8. BoundEnds(Archive)' = BoundEnds(zip)
  BY <1>4 DEF BoundEnds, IsBound
<1> QED BY <1>1, <1>2, <1>4, <1>5, <1>6, <1>7, <1>8 DEF ScanInv, Reading

\* The steps that take the scan as it is.
LEMMA OthersKeepScan ==
  ASSUME Reached, ScanInv,
         UNCHANGED <<request, why, scan>>,
         \/ pc \notin Reading /\ pc # "Refused" /\ pc' \notin Reading
         \/ /\ pc \in Reading \ {"Scan"} /\ pc' \in Known
            /\ UNCHANGED <<src, pin, archives>>
         \/ UNCHANGED <<pc, src, pin, loaded, archives>>
  PROVE  ScanInv'
<1>1. scan' = scan /\ request' = request /\ why' = why
  OBVIOUS
<1>2. CASE pc \notin Reading /\ pc # "Refused" /\ pc' \notin Reading
  <2>1. why # "EndRecord" /\ scan.eocd = Absent
    BY <1>2 DEF Reached, Position, ScanInv
  <2> QED BY <1>1, <1>2, <2>1 DEF ScanInv, Reading
<1>3. CASE pc \in Reading \ {"Scan"} /\ pc' \in Known /\ UNCHANGED <<src, pin, archives>>
  <2>1. Archive' = Archive /\ BoundEnds(Archive)' = BoundEnds(Archive)
    BY <1>1, <1>3 DEF Archive, Content, BoundEnds, IsBound
  <2>2. why # "EndRecord"
    BY <1>3 DEF Reached, Position, Reading
  <2> QED BY <1>1, <1>3, <2>1, <2>2 DEF ScanInv, Reading, Known
<1>4. CASE UNCHANGED <<pc, src, pin, loaded, archives>>
  <2>1. /\ Archive' = Archive /\ BoundEnds(Archive)' = BoundEnds(Archive) /\ Length' = Length
        /\ ScanSize' = ScanSize /\ LocatorAt' = LocatorAt /\ Locator' = Locator
        /\ BoundEnds(Content(src, archives[src]))' = BoundEnds(Content(src, archives[src]))
    BY <1>1, <1>4 DEF Archive, Content, BoundEnds, IsBound, Length, ScanSize, Options, LocatorAt, Locator
  <2> QED BY <1>1, <1>4, <2>1 DEF ScanInv
<1> QED BY <1>2, <1>3, <1>4

\* A refusal, and the turn to the next source, forget the scan.
LEMMA ForgottenKeepsScan ==
  ASSUME Forgotten, pc' \notin Reading, why' # "EndRecord"
  PROVE  ScanInv'
<1>1. scan' = NoScan
  BY DEF Forgotten
<1>2. scan' \in [end : Nat, eocd : Optional, bytes : Int] /\ scan'.eocd = Absent
  BY <1>1 DEF NoScan, Optional
<1> QED BY <1>2 DEF ScanInv, Reading

\* The scan, in the initial states and from step to step.
LEMMA ScanInit == Init => ScanInv
<1> SUFFICES ASSUME Init PROVE ScanInv
  OBVIOUS
<1>1. scan = NoScan
  BY DEF Init
<1>2. scan \in [end : Nat, eocd : Optional, bytes : Int] /\ scan.eocd = Absent
  BY <1>1 DEF NoScan, Optional
<1>3. why # "EndRecord"
  BY Zenon DEF Init
<1>4. pc \notin Reading /\ pc \notin {"Scan", "Locator", "Record"}
  <2>1. pc = "Parse"
    BY DEF Init
  <2> QED BY <2>1 DEF Reading
<1> QED BY <1>2, <1>3, <1>4 DEF ScanInv

LEMMA ScanStep ==
  ASSUME Reached, ScanInv, Next
  PROVE  ScanInv'
<1>1. why # "" => pc = "Refused"
  BY DEF Reached, Position
<1>2. CASE Refusal
  BY <1>2, ForgottenKeepsScan DEF Refusal, Refused, Reading
<1>3. CASE ScanForEnd
  BY <1>3, ScanForEndKeepsScan
<1>4. CASE ReadingStep /\ ReadOn
  <2>1. CASE GetRange \/ RetryGet
    BY <2>1, GetKeepsScan
  <2>2. CASE ReadEnd
    BY <1>4, <2>2, ReadEndKeepsScan
  <2>3. CASE ReadRecord
    <3>1. pc = "Record" /\ scan' = scan /\ pc' = "Reserve"
      <4>1. \E r : DirectoryIs(r, Locator.at)
        BY <1>4, <2>3 DEF ReadRecord, ReadOn, Reading, Refuse
      <4> QED BY <1>4, <2>3, <4>1 DEF ReadRecord, DirectoryIs, ReadOn, Reading, Refuse
    <3> QED BY <1>4, <3>1, OthersKeepScan DEF ReadOn, Reading, Known
  <2>4. CASE ReserveDirectory \/ ParseDirectory \/ ReserveCatalog \/ ReserveBlock \/ AuthenticateCatalog
    <3>1. pc \in Known /\ scan' = scan /\ pc' \in Known
      BY <1>4, <2>4 DEF ReserveDirectory, ParseDirectory, ReserveCatalog, ReserveBlock, Coming,
                        AuthenticateCatalog, Known, ReadOn, Reading, Refuse
    <3> QED BY <1>4, <3>1, OthersKeepScan DEF ReadOn, Reading, Known
  <2> QED BY <1>3, <1>4, <2>1, <2>2, <2>3, <2>4 DEF ReadingStep
<1>5. CASE ParseRequest /\ pc' = "Source"
  <2>1. pc = "Parse" /\ UNCHANGED <<request, why, scan>>
    BY <1>5 DEF ParseRequest, Refuse, reading
  <2> QED BY <1>5, <2>1, OthersKeepScan DEF Reading
<1>6. CASE HeadArchive /\ pc' = "Scan"
  BY <1>6, HeadKeepsScan
<1>7. CASE HeadObject \/ (AddEntries /\ NextSource)
  <2>1. /\ pc \in {"Source", "Entries"} /\ UNCHANGED why /\ Forgotten
        /\ pc' \in {"Source", "Preflight"}
    BY <1>7, RefusedNotNext DEF HeadObject, AddEntries, NextSource
  <2> QED BY <1>1, <2>1, ForgottenKeepsScan DEF Reading
<1>8. CASE Preflight /\ pc' \in Afterwards
  <2>1. pc = "Preflight" /\ UNCHANGED <<request, why, scan>>
    BY <1>8 DEF Preflight, Refuse, reading, Afterwards
  <2> QED BY <1>8, <2>1, OthersKeepScan DEF Reading, Afterwards
<1>9. CASE (MakeStore /\ pc' = "Stores") \/ StoresMade
  <2>1. pc = "Stores" /\ pc' \in {"Stores", "Planned"} /\ UNCHANGED <<request, why, scan>>
    BY <1>9 DEF MakeStore, StoresMade, Refuse, reading
  <2> QED BY <2>1, OthersKeepScan DEF Reading
<1>10. CASE Overwrite \/ UNCHANGED vars
  <2>1. UNCHANGED <<request, why, scan, pc, src, pin, loaded, archives>>
    BY <1>10 DEF Overwrite, vars, reading
  <2> QED BY <2>1, OthersKeepScan
<1> QED BY <1>2, <1>3, <1>4, <1>5, <1>6, <1>7, <1>8, <1>9, <1>10, Steps

-----------------------------------------------------------------------------
(* The directory, the permits and the catalog *)

DirectoryInv ==
  /\ pc \in Known =>
       {info.start, info.size, info.count, info.comment} \subseteq Nat /\ info.start < Length
  /\ pc \in Parsed => entries = Archive.entries /\ ArchiveOk(entries, Archive, info)

\* What is charged is what the permits are for.
IsCharge ==
  /\ charged = [directory |-> charged.directory, catalog |-> charged.catalog,
                block |-> charged.block, at |-> charged.at]
  /\ {charged.directory, charged.catalog, charged.block} \subseteq Int

\* No block of the catalog is charged for before it is read, and room for one is
\* left while it is.
ChargeInv ==
  /\ IsCharge
  /\ pc \notin {"Parser", "Charge", "Catalog", "Entries"} => charged = NoCharge
  /\ pc \in {"Parser", "Charge"} => charged.catalog = 0 /\ charged.block = 0
  /\ pc = "Catalog" => CatalogFound /\ LeavesRoom(BlockRoom)

CatalogInv ==
  pc = "Entries" /\ Bound(src) # Absent =>
    /\ CatalogRead = Archive.catalog
    /\ Archive.catalog.digest = Bound(src)
    /\ CatalogOk(Archive.catalog, entries, request.limits)

KnownInv == DirectoryInv /\ ChargeInv /\ CatalogInv

\* The end record that the scan has found is read from the pinned archive.
LEMMA EndRead ==
  ASSUME Reached, ScanInv, pc \in {"Locator", "Record"}
  PROVE  /\ End = Archive.ends[scan.eocd] /\ scan.eocd \in Nat /\ scan.eocd < Length
         /\ End.comment \in Nat /\ {End.start, End.size, End.count} \subseteq Optional
<1>1. pc \in Reading
  BY DEF Reading
<1>2. IsArchive(Archive) /\ scan.eocd \in BoundEnds(Archive) /\ Length \in Nat
  BY <1>1, Pinning DEF ScanInv
<1>3. At(scan.eocd) = Archive
  BY AtIsArchive DEF ScanInv, Reached
<1>4. scan.eocd \in DOMAIN Archive.ends
  BY <1>2 DEF BoundEnds
<1>5. scan.eocd \in Nat /\ scan.eocd < Length
  BY <1>2, BoundFacts, ZipAssumption DEF Length
<1>6. End = Archive.ends[scan.eocd]
  BY <1>3 DEF End
<1>7. Archive.ends[scan.eocd].comment \in 0 .. MaxComment /\ MaxComment \in Nat
  BY <1>2, <1>4, ZipAssumption DEF IsArchive
<1>8. {Archive.ends[scan.eocd].start, Archive.ends[scan.eocd].size,
       Archive.ends[scan.eocd].count} \subseteq Optional
  BY <1>2, <1>4 DEF IsArchive
<1> QED BY <1>5, <1>6, <1>7, <1>8

\* A directory that is accepted ends at the boundary, within the archive.
LEMMA DirectoryIsKeeps ==
  ASSUME Reached, ScanInv, pc \in {"Locator", "Record"},
         NEW fields, NEW boundary \in Nat, boundary < Length,
         {fields.start, fields.size, fields.count} \subseteq Nat,
         DirectoryIs(fields, boundary), pc' # "Refused"
  PROVE  DirectoryInv'
<1> DEFINE d == Info(fields, End.comment)
<1>1. /\ DirectoryOk(d, boundary) /\ info' = d /\ pc' = "Reserve"
      /\ UNCHANGED <<request, src, pin>>
  BY DEF DirectoryIs, Refuse
<1>2. /\ d.start = fields.start /\ d.size = fields.size
      /\ d.count = fields.count /\ d.comment = End.comment
  BY DEF Info
<1>3. {d.start, d.size, d.count, d.comment} \subseteq Nat
  BY <1>2, EndRead
<1>4. d.start + d.size = boundary
  BY <1>1 DEF DirectoryOk
<1> HIDE DEF d
<1>5. Length \in Nat
  BY Pinning DEF Reading
<1>6. d.start < Length
  BY <1>3, <1>4, <1>5
<1>7. Length' = Length
  BY <1>1 DEF Length, Archive, Content
<1> QED BY <1>1, <1>3, <1>6, <1>7 DEF DirectoryInv, Parsed

\* So it does when it is the one of the end record,
LEMMA ReadEndKeepsDirectory ==
  ASSUME Reached, ScanInv, ReadEnd, ReadOn
  PROVE  DirectoryInv'
<1>1. pc = "Locator" /\ pc' # "Refused"
  BY DEF ReadEnd, ReadOn, Reading
<1>2. CASE pc' = "Record"
  BY <1>2 DEF DirectoryInv, Known, Parsed
<1>3. CASE Absent \notin {End.count, End.size, End.start} /\ DirectoryIs(End, scan.eocd)
  BY <1>1, <1>3, EndRead, DirectoryIsKeeps DEF Optional
<1>4. ~Refuse("Directory")
  BY <1>1 DEF Refuse
<1>5. pc' = "Record" \/ (Absent \notin {End.count, End.size, End.start} /\ DirectoryIs(End, scan.eocd))
  BY <1>4 DEF ReadEnd
<1> QED BY <1>2, <1>3, <1>5

\* and when it is the one of a ZIP64 record.
LEMMA ReadRecordKeepsDirectory ==
  ASSUME Reached, ScanInv, ReadRecord, ReadOn
  PROVE  DirectoryInv'
<1> DEFINE at == Locator.at
           record == At(at).records[at]
<1>1. pc = "Record" /\ Missing = {} /\ pc' # "Refused" /\ pc \in Reading
  BY DEF ReadRecord, ReadOn, Reading
<1>2. at \in DOMAIN At(at).records /\ DirectoryIs(record, at)
  BY <1>1 DEF ReadRecord, Refuse
<1>3. IsArchive(Archive) /\ Length \in Nat
  BY <1>1, Pinning
<1>4. at \in Nat /\ at + RecordLen <= Length
  BY <1>1, OffsetsOfScan DEF ScanInv, Scanning
<1>5. at < Length
  BY <1>3, <1>4, ZipAssumption
<1>6. AlignDown(at, ScanSize) \in DOMAIN loaded
  <2>1. at \in at .. (at + RecordLen) - 1
    BY <1>4, ZipAssumption
  <2>2. Ranges = ChunksFrom(at, at + RecordLen, ScanSize)
    BY <1>1, RangesAre
  <2> QED BY <1>1, <2>1, <2>2, ChunkLoaded
<1>7. {record.start, record.size, record.count} \subseteq Nat
  <2>1. At(at) = Archive
    BY <1>6, AtIsArchive DEF Reached
  <2> QED BY <1>2, <1>3, <2>1 DEF IsArchive
<1> HIDE DEF at, record
<1> QED BY <1>1, <1>2, <1>4, <1>5, <1>7, DirectoryIsKeeps

\* The entries that are parsed are the pinned archive's, which have been validated.
LEMMA ParseKeepsDirectory ==
  ASSUME Reached, DirectoryInv, ParseDirectory, ReadOn
  PROVE  DirectoryInv'
<1> DEFINE zip == Content(src, loaded[AlignDown(info.start, ReadSize)])
<1>1. pc = "Parser" /\ Missing = {} /\ pc' # "Refused" /\ pc \in Reading
  BY DEF ParseDirectory, ReadOn, Reading
<1>2. /\ ArchiveOk(zip.entries, Archive, info) /\ entries' = zip.entries
      /\ pc' \in {"Entries", "Charge"} /\ info' = info
  BY <1>1 DEF ParseDirectory, Refuse
<1>3. info.start \in Nat /\ info.start < Length /\ Length \in Nat
  BY <1>1, Pinning DEF DirectoryInv, Known
<1>4. AlignDown(info.start, ReadSize) \in DOMAIN loaded
  <2>1. info.start \in info.start .. Length - 1
    BY <1>3
  <2>2. Ranges = ChunksFrom(info.start, Length, ReadSize)
    BY <1>1, RangesAre
  <2> QED BY <1>1, <2>1, <2>2, ChunkLoaded
<1>5. zip = Archive
  BY <1>4 DEF Reached, Pins, Archive
<1> HIDE DEF zip
<1>6. Archive' = Archive /\ Length' = Length
  BY DEF ReadOn, Archive, Length, Content
<1>7. info' = info /\ {info.start, info.size, info.count, info.comment} \subseteq Nat
  BY <1>1, <1>2 DEF DirectoryInv, Known
<1> QED BY <1>2, <1>3, <1>5, <1>6, <1>7 DEF DirectoryInv

\* The catalog, and the bytes from its header to the next.
LEMMA CatalogFacts ==
  ASSUME Reached, DirectoryInv, pc \in Parsed, CatalogFound
  PROVE  /\ CatalogEntry.size \in Nat
         /\ CatalogSpan.start \in Nat /\ CatalogSpan.end \in Nat /\ CatalogSpan.start < CatalogSpan.end
         /\ CatalogSpan.end <= info.start
<1> DEFINE found == EntriesAt(entries, CatalogKey)
<1>1. pc \in Reading /\ pc \in Known
  BY DEF Parsed, Reading, Known
<1>2. IsArchive(Archive) /\ entries = Archive.entries /\ ArchiveOk(entries, Archive, info)
  BY <1>1, Pinning DEF DirectoryInv
<1>3. info.start \in Nat
  BY <1>1 DEF DirectoryInv
<1>4. found # {}
  <2>1. Cardinality(found) = 1
    BY DEF CatalogFound
  <2>2. Cardinality({}) = 0
    BY FS_EmptySet
  <2> HIDE DEF found
  <2> QED BY <2>1, <2>2
<1>5. (CHOOSE i \in found : TRUE) \in found
  BY <1>4
<1> DEFINE c == CHOOSE i \in found : TRUE
<1>6. c \in DOMAIN entries /\ CatalogEntry = entries[c]
  BY <1>5 DEF EntriesAt, CatalogEntry
<1> HIDE DEF c, found
<1>7. IsEntry(CatalogEntry)
  BY <1>2, <1>6, ArchiveFacts
<1>8. CatalogEntry.offset \in Offsets(entries) /\ CatalogEntry.offset < info.start
  BY <1>2, <1>6 DEF Offsets, ArchiveOk
<1> DEFINE later == {o \in Offsets(entries) : o > CatalogEntry.offset}
<1>9. later \in SUBSET Nat
  BY <1>2, ArchiveFacts DEF Offsets, IsEntry
<1>10. later # {} => Min(later) \in later
  BY <1>9, MinIs
<1>11. /\ CatalogSpan.start = CatalogEntry.offset
       /\ CatalogSpan.end = Lesser(info.start, IF later = {} THEN info.start ELSE Min(later))
  BY DEF CatalogSpan, SpanEnd
<1>12. CatalogEntry.offset \in Nat /\ CatalogEntry.size \in Nat
  BY <1>7 DEF IsEntry
<1>13. CASE later = {}
  BY <1>3, <1>8, <1>11, <1>12, <1>13 DEF Lesser
<1>14. CASE later # {}
  <2>1. Min(later) \in Nat /\ Min(later) > CatalogEntry.offset
    BY <1>9, <1>10, <1>14
  <2> HIDE DEF later
  <2> QED BY <1>3, <1>8, <1>11, <1>12, <1>14, <2>1 DEF Lesser
<1> QED BY <1>13, <1>14

\* The blocks of the catalog: the first starts with it, and none is longer than
\* a block or than the catalog's bytes.
LEMMA CatalogTiles ==
  ASSUME Reached, DirectoryInv, pc = "Catalog", CatalogFound
  PROVE  /\ \E r \in Ranges : r.start = CatalogSpan.start
         /\ \A r \in Ranges : /\ r.start \in Nat /\ r.end - r.start \in Int
                             /\ r.end - r.start <= CatalogBlockBytes
         /\ CatalogBlockBytes \in Nat
<1> DEFINE from == CatalogSpan.start
           to == CatalogSpan.end
           block == Options.block
           n == (to - from + block - 1) \div block
           Tile(i) == [start |-> from + (i - 1) * block, end |-> Least(from + i * block, to)]
<1>1. from \in Nat /\ to \in Nat /\ from < to
  BY CatalogFacts DEF Parsed
<1>2. block \in Nat \ {0}
  BY BudgetIsWhole DEF Reached
<1>3. BlockSize(CatalogInput) = block
  BY <1>2 DEF BlockSize, CatalogInput, Input, Greatest
<1>4. CatalogBlocks = [i \in 1 .. n |-> Tile(i)]
  BY <1>3 DEF CatalogBlocks, Tiles
<1>5. Ranges = {CatalogBlocks[b] : b \in DOMAIN CatalogBlocks}
  BY RangesAre
<1>6. \A r \in Ranges : \E i \in 1 .. n : r = Tile(i)
  BY <1>4, <1>5
<1>7. \A i \in 1 .. n : Tile(i) \in Ranges
  BY <1>4, <1>5
<1>8. CatalogBlockBytes = Lesser(block, to - from)
  BY DEF CatalogBlockBytes
<1> HIDE DEF from, to, block
<1>9. n \in Nat /\ 1 <= n
  <2> DEFINE a == to - from + block - 1
  <2>1. a \in Nat /\ block <= a
    BY <1>1, <1>2
  <2> HIDE DEF a
  <2>2. a \div block \in Nat /\ 1 <= a \div block
    BY <1>2, <2>1, AtLeastOne
  <2> QED BY <2>2 DEF a
<1> HIDE DEF n
<1>10. \E r \in Ranges : r.start = from
  <2>1. 1 \in 1 .. n
    BY <1>9
  <2>2. Tile(1) \in Ranges
    BY <1>7, <2>1
  <2>3. Tile(1).start = from
    BY <1>1, <1>2
  <2> QED BY <2>2, <2>3
<1>11. ASSUME NEW i \in 1 .. n
       PROVE  /\ Tile(i).start \in Nat /\ Tile(i).end - Tile(i).start \in Int
              /\ Tile(i).end - Tile(i).start <= Lesser(block, to - from)
  <2>1. i \in Nat /\ i >= 1
    BY <1>9
  <2>2. PICK k \in Nat : k = (i - 1) * block
    BY <1>2, <2>1
  <2>3. i * block = k + block
    BY <1>2, <2>1, <2>2
  <2>4. Tile(i).start = from + k /\ Tile(i).end = Least(from + (k + block), to)
    BY <2>2, <2>3
  <2> HIDE DEF Tile
  <2> QED BY <1>1, <1>2, <2>2, <2>4 DEF Least, Lesser
<1>12. CatalogBlockBytes \in Nat
  BY <1>1, <1>2, <1>8 DEF Lesser
<1>13. \A r \in Ranges : /\ r.start \in Nat /\ r.end - r.start \in Int
                         /\ r.end - r.start <= CatalogBlockBytes
  BY <1>6, <1>8, <1>11
<1> QED BY <1>10, <1>12, <1>13 DEF from

\* The permits of an amount.
LEMMA PermitsOf ==
  ASSUME Position, pc \notin {"Parse", "Refused"}, NEW a \in Int
  PROVE  /\ PermitCount(Options.budget, a) \in Int
         /\ \A b \in Int : a <= b => PermitCount(Options.budget, a) <= PermitCount(Options.budget, b)
         /\ a <= Options.budget => PermitCount(Options.budget, a) <= PermitTotal(Options.budget)
<1> DEFINE q == PermitTotal(Options.budget)
<1>1. /\ UnitOf(Options.budget) = PermitUnit /\ PermitUnit \in Nat \ {0}
      /\ q \in Nat /\ Options.budget = PermitUnit * q
  BY BudgetIsWhole, RuntimeAssumption
<1> HIDE DEF q
<1>2. \A b \in Int : PermitCount(Options.budget, b) = (b + PermitUnit - 1) \div PermitUnit
  BY <1>1 DEF PermitCount
<1>3. (a + PermitUnit - 1) \div PermitUnit \in Int
  BY <1>1
<1>4. \A b \in Int : a <= b => PermitCount(Options.budget, a) <= PermitCount(Options.budget, b)
  BY <1>1, <1>2, RoundedUp
<1>5. a <= Options.budget => PermitCount(Options.budget, a) <= q
  <2>1. a <= PermitUnit * q => (a + PermitUnit - 1) \div PermitUnit <= q
    BY <1>1, RoundedWhole
  <2> QED BY <1>1, <1>2, <2>1
<1> QED BY <1>2, <1>3, <1>4, <1>5 DEF q

\* The estimate of a directory is a number.
LEMMA DirectoryEstimated ==
  ASSUME ScanInv, DirectoryInv, pc \in Known
  PROVE  DirectoryBytes \in Int
<1>1. {info.start, info.size, info.count, info.comment} \subseteq Nat /\ scan.bytes \in Int
  BY DEF DirectoryInv, ScanInv
<1>2. /\ Lesser(info.start, ParserBuffer) \in Int /\ info.size * DirectoryFactor \in Int
      /\ info.count * EntryMetadata \in Int /\ info.comment * 2 \in Int
  BY <1>1, ZipAssumption DEF Lesser
<1> QED BY <1>1, <1>2 DEF DirectoryBytes, DirectoryEstimate

\* The permit of the directory leaves what the budget has left, and the catalog's
\* is given only when a block of it fits next to both.
LEMMA ReserveKeepsCharge ==
  ASSUME Reached, ScanInv, DirectoryInv, ChargeInv, ReserveDirectory, ReadOn
  PROVE  ChargeInv'
<1>1. /\ pc = "Reserve" /\ pc' = "Parser"
      /\ charged' = [charged EXCEPT !.directory = PermitCount(Options.budget, DirectoryBytes)]
      /\ PermitCount(Options.budget, DirectoryBytes) <= Available
  BY DEF ReserveDirectory, ReadOn, Reading, Refuse
<1>2. charged = NoCharge
  BY <1>1 DEF ChargeInv
<1>3. charged' = [NoCharge EXCEPT !.directory = PermitCount(Options.budget, DirectoryBytes)]
  BY <1>1, <1>2
<1>4. PermitCount(Options.budget, DirectoryBytes) \in Int
  BY <1>1, DirectoryEstimated, PermitsOf DEF Reached, Known
<1>5. IsCharge' /\ charged'.catalog = 0 /\ charged'.block = 0
  BY <1>3, <1>4 DEF IsCharge, NoCharge
<1> QED BY <1>1, <1>5 DEF ChargeInv

\* After the permits of the catalog, those of its blocks are left.
LEMMA ReserveCatalogKeepsCharge ==
  ASSUME Reached, DirectoryInv, ChargeInv, ReserveCatalog, ReadOn
  PROVE  ChargeInv'
<1> DEFINE permits == PermitCount(Options.budget, CatalogBytes)
<1>1. /\ pc = "Charge" /\ pc' = "Catalog"
      /\ CatalogFound /\ LeavesRoom(Available - permits)
      /\ charged' = [charged EXCEPT !.catalog = permits]
      /\ UNCHANGED <<request, src, pin, info, entries>>
  BY DEF ReserveCatalog, ReadOn, Reading, Refuse
<1>2. IsCharge /\ charged.catalog = 0 /\ charged.block = 0
  BY <1>1 DEF ChargeInv
<1>3. CatalogBytes \in Nat
  <2>1. CatalogEntry.size \in Nat
    BY <1>1, CatalogFacts DEF Parsed
  <2>2. CatalogFactor \in Nat
    BY PlanAssumption
  <2> QED BY <2>1, <2>2 DEF CatalogBytes
<1>4. permits \in Int
  BY <1>1, <1>3, PermitsOf DEF Reached
<1> HIDE DEF permits
<1>5. /\ IsCharge' /\ charged'.catalog = permits
      /\ charged'.directory = charged.directory /\ charged'.block = 0
  BY <1>1, <1>2, <1>4 DEF IsCharge
<1>6. PermitTotal(Options.budget) \in Nat
  BY <1>1, BudgetIsWhole DEF Reached
<1>7. BlockRoom' = Available - permits
  <2>1. Options' = Options
    BY <1>1 DEF Options
  <2>2. charged.directory \in Int
    BY <1>2 DEF IsCharge
  <2> QED BY <1>2, <1>4, <1>5, <1>6, <2>1, <2>2 DEF Available, BlockRoom
<1>8. CatalogFound'
  BY <1>1 DEF CatalogFound
<1>9. LeavesRoom(BlockRoom)'
  <2>1. CatalogBlockBytes' = CatalogBlockBytes /\ Options' = Options
    BY <1>1 DEF CatalogBlockBytes, CatalogSpan, CatalogEntry, Options
  <2> QED BY <1>1, <1>7, <2>1 DEF LeavesRoom
<1> QED BY <1>1, <1>5, <1>8, <1>9 DEF ChargeInv

\* The block of the catalog that is asked for next fits beside what is charged for
\* the directory and for the catalog.
LEMMA BlockFits ==
  ASSUME Reached, DirectoryInv, ChargeInv, Coming
  PROVE  BlockPermits \in Int /\ BlockPermits <= BlockRoom /\ BlockRoom \in Int
<1>1. pc = "Catalog" /\ Missing # {}
  BY DEF Coming
<1>2. CatalogFound /\ PermitCount(Options.budget, CatalogBlockBytes) <= BlockRoom
  BY <1>1 DEF ChargeInv, LeavesRoom
<1>3. /\ \A r \in Ranges : /\ r.start \in Nat /\ r.end - r.start \in Int
                          /\ r.end - r.start <= CatalogBlockBytes
      /\ CatalogBlockBytes \in Nat
  BY <1>1, <1>2, CatalogTiles
<1>4. Wanted \in Ranges
  <2>1. Missing \subseteq Ranges
    BY DEF Missing
  <2> QED BY <1>1, <1>3, <2>1, WantedIsMissing
<1>5. BlockRoom \in Int
  <2>1. PermitTotal(Options.budget) \in Nat
    BY <1>1, BudgetIsWhole DEF Reached
  <2>2. {charged.directory, charged.catalog, charged.block} \subseteq Int
    BY DEF ChargeInv, IsCharge
  <2> QED BY <2>1, <2>2 DEF BlockRoom, Available
<1> DEFINE a == Wanted.end - Wanted.start
           b == CatalogBlockBytes
<1>6. a \in Int /\ b \in Int /\ a <= b
  BY <1>3, <1>4
<1> HIDE DEF a, b
<1>7. /\ PermitCount(Options.budget, a) \in Int /\ PermitCount(Options.budget, b) \in Int
      /\ PermitCount(Options.budget, a) <= PermitCount(Options.budget, b)
  BY <1>1, <1>6, PermitsOf DEF Reached
<1>8. BlockPermits = PermitCount(Options.budget, a) /\ PermitCount(Options.budget, b) <= BlockRoom
  BY <1>2 DEF BlockPermits, a, b
<1> HIDE DEF BlockPermits, BlockRoom, PermitCount, Options
<1> QED BY <1>5, <1>7, <1>8

\* The permits of a block are taken in place of those of the block behind it.
LEMMA ReserveBlockKeepsCharge ==
  ASSUME Reached, DirectoryInv, ChargeInv, ReserveBlock
  PROVE  ChargeInv'
<1>1. /\ Coming /\ charged' = [charged EXCEPT !.block = BlockPermits, !.at = Wanted.start]
      /\ UNCHANGED <<request, src, pc, pin, info, entries>>
  BY DEF ReserveBlock
<1>2. pc = "Catalog" /\ IsCharge /\ CatalogFound /\ LeavesRoom(BlockRoom)
  BY <1>1 DEF Coming, ChargeInv
<1>3. BlockPermits \in Int
  BY <1>1, BlockFits
<1>4. /\ IsCharge' /\ charged'.block = BlockPermits
      /\ charged'.directory = charged.directory /\ charged'.catalog = charged.catalog
  BY <1>1, <1>2, <1>3 DEF IsCharge
<1>5. Options' = Options /\ CatalogFound' = CatalogFound /\ CatalogBlockBytes' = CatalogBlockBytes
  BY <1>1 DEF Options, CatalogFound, CatalogBlockBytes, CatalogSpan, CatalogEntry
<1>6. BlockRoom' = BlockRoom
  <2>1. PermitTotal(Options.budget) \in Nat
    BY <1>2, BudgetIsWhole DEF Reached
  <2>2. {charged.directory, charged.catalog, charged.block} \subseteq Int
    BY <1>2 DEF IsCharge
  <2> QED BY <1>3, <1>4, <1>5, <2>1, <2>2 DEF BlockRoom, Available
<1>7. LeavesRoom(BlockRoom)'
  BY <1>2, <1>5, <1>6 DEF LeavesRoom
<1> QED BY <1>1, <1>2, <1>4, <1>5, <1>7 DEF ChargeInv

\* The catalog that is authenticated is the pinned archive's.
LEMMA AuthenticateKeepsCatalog ==
  ASSUME Reached, DirectoryInv, ChargeInv, AuthenticateCatalog, ReadOn
  PROVE  CatalogInv'
<1>1. /\ pc = "Catalog" /\ Missing = {} /\ pc' = "Entries"
      /\ CatalogRead.digest = Bound(src) /\ CatalogOk(CatalogRead, entries, request.limits)
      /\ UNCHANGED <<request, src, pin, loaded, info, entries>>
  BY DEF AuthenticateCatalog, ReadOn, Reading, Refuse
<1>2. CatalogFound
  BY <1>1 DEF ChargeInv
<1>3. CatalogSpan.start \in DOMAIN loaded
  BY <1>1, <1>2, CatalogTiles DEF Missing
<1>4. CatalogRead = Archive.catalog
  BY <1>3 DEF CatalogRead, Reached, Pins, Archive
<1>5. CatalogRead' = CatalogRead /\ Archive' = Archive /\ Bound(src)' = Bound(src)
  BY <1>1 DEF CatalogRead, CatalogSpan, CatalogEntry, Content, Archive, Bound
<1> QED BY <1>1, <1>4, <1>5 DEF CatalogInv

\* The steps after which no directory is known, or the same as before.
LEMMA UnknownKeepsKnown ==
  ASSUME pc' \notin Known, charged' = NoCharge
  PROVE  KnownInv'
<1>1. IsCharge'
  BY DEF IsCharge, NoCharge
<1> QED BY <1>1 DEF KnownInv, DirectoryInv, ChargeInv, CatalogInv, Known, Parsed

\* The directory stays known while an archive is read.
LEMMA DirectoryStays ==
  ASSUME Reached, DirectoryInv, UNCHANGED <<request, src, pin, info, entries>>,
         pc \in Known, pc' \in Known, pc' \in Parsed => pc \in Parsed
  PROVE  DirectoryInv'
<1>1. Archive' = Archive /\ Length' = Length
  BY DEF Archive, Length, Content
<1> QED BY <1>1 DEF DirectoryInv

\* A GET changes only what has been read.
LEMMA GetKeepsKnown ==
  ASSUME Reached, KnownInv, GetRange \/ RetryGet
  PROVE  KnownInv'
<1>1. /\ Missing # {} /\ UNCHANGED <<request, src, pc, pin, info, entries, charged>>
  BY DEF GetRange, RetryGet, Asking
<1>2. pc # "Entries" /\ pc \in Reading
  BY <1>1, RangesAre, MissingInReading DEF Missing
<1>3. DirectoryInv'
  <2>1. CASE pc \in Known
    BY <1>1, <2>1, DirectoryStays DEF KnownInv
  <2>2. CASE pc \notin Known
    BY <1>1, <2>2 DEF DirectoryInv, Known, Parsed
  <2> QED BY <2>1, <2>2
<1>4. ChargeInv'
  <2>1. BlockRoom' = BlockRoom /\ CatalogFound' = CatalogFound /\ Options' = Options
        /\ CatalogBlockBytes' = CatalogBlockBytes
    BY <1>1 DEF BlockRoom, Available, Options, CatalogFound, CatalogBlockBytes, CatalogSpan, CatalogEntry
  <2>2. LeavesRoom(BlockRoom)' <=> LeavesRoom(BlockRoom)
    BY <2>1 DEF LeavesRoom
  <2> QED BY <1>1, <2>1, <2>2 DEF KnownInv, ChargeInv, IsCharge
<1>5. CatalogInv'
  BY <1>1, <1>2 DEF CatalogInv
<1> QED BY <1>3, <1>4, <1>5 DEF KnownInv

\* So do the steps that leave the reading alone.
LEMMA StillKeepsKnown ==
  ASSUME Reached, KnownInv, UNCHANGED <<request, pc, src, pin, loaded, info, entries, charged>>
  PROVE  KnownInv'
<1>1. /\ Archive' = Archive /\ Length' = Length /\ BlockRoom' = BlockRoom /\ Options' = Options
      /\ CatalogFound' = CatalogFound /\ CatalogBlockBytes' = CatalogBlockBytes
      /\ CatalogRead' = CatalogRead /\ Bound(src)' = Bound(src)
  BY DEF Archive, Length, Content, BlockRoom, Available, Options, CatalogFound, CatalogBlockBytes,
         CatalogSpan, CatalogEntry, CatalogRead, Bound
<1>2. LeavesRoom(BlockRoom)' <=> LeavesRoom(BlockRoom)
  BY <1>1 DEF LeavesRoom
<1> QED BY <1>1, <1>2 DEF KnownInv, DirectoryInv, ChargeInv, IsCharge, CatalogInv

\* What is known, in the initial states and from step to step.
LEMMA KnownInit == Init => KnownInv
<1> SUFFICES ASSUME Init PROVE KnownInv
  OBVIOUS
<1>1. charged = NoCharge /\ pc = "Parse"
  BY DEF Init
<1>2. IsCharge
  BY <1>1 DEF IsCharge, NoCharge
<1> QED BY <1>1, <1>2 DEF KnownInv, DirectoryInv, ChargeInv, CatalogInv, Known, Parsed

LEMMA KnownStep ==
  ASSUME Reached, ScanInv, KnownInv, Next
  PROVE  KnownInv'
<1>1. pc \notin {"Parser", "Charge", "Catalog", "Entries"} => charged = NoCharge
  BY DEF KnownInv, ChargeInv
<1>2. CASE Refused
  BY <1>2, UnknownKeepsKnown DEF Refused, Forgotten, Known
<1>3. CASE ReadingStep /\ ReadOn
  <2>1. CASE GetRange \/ RetryGet
    BY <2>1, GetKeepsKnown
  <2>2. CASE ScanForEnd
    <3>1. pc = "Scan" /\ pc' \in {"Scan", "Locator"} /\ charged' = charged
      BY <1>3, <2>2, OutcomeOfScan DEF ReadOn, Reading, Refuse, FoundAt, GoesOnAt, ScanForEnd
    <3> QED BY <1>1, <3>1, UnknownKeepsKnown DEF Known
  <2>3. CASE ReadEnd \/ ReadRecord
    <3>1. pc \in {"Locator", "Record"} /\ pc' \in {"Record", "Reserve"} /\ charged' = charged
      <4>1. ReadRecord => \E r : DirectoryIs(r, Locator.at)
        BY <1>3 DEF ReadRecord, ReadOn, Reading, Refuse
      <4> QED BY <1>3, <2>3, <4>1 DEF ReadEnd, ReadRecord, DirectoryIs, ReadOn, Reading, Refuse, reading
    <3>2. DirectoryInv'
      BY <1>3, <2>3, ReadEndKeepsDirectory, ReadRecordKeepsDirectory
    <3>3. charged' = NoCharge /\ IsCharge'
      BY <1>1, <3>1 DEF IsCharge, NoCharge
    <3> QED BY <3>1, <3>2, <3>3 DEF KnownInv, ChargeInv, CatalogInv
  <2>4. CASE ReserveDirectory
    <3>1. pc = "Reserve" /\ pc' = "Parser" /\ UNCHANGED <<request, src, pin, info, entries>>
      BY <1>3, <2>4 DEF ReserveDirectory, ReadOn, Reading, Refuse
    <3>2. DirectoryInv'
      BY <3>1, DirectoryStays DEF KnownInv, Known, Parsed
    <3>3. ChargeInv'
      BY <1>3, <2>4, ReserveKeepsCharge DEF KnownInv
    <3> QED BY <3>1, <3>2, <3>3 DEF KnownInv, CatalogInv
  <2>5. CASE ParseDirectory
    <3>1. /\ pc = "Parser" /\ pc' = IF Bound(src) = Absent THEN "Entries" ELSE "Charge"
          /\ UNCHANGED <<request, src, charged>>
      BY <1>3, <2>5 DEF ParseDirectory, ReadOn, Reading, Refuse
    <3>2. DirectoryInv'
      BY <1>3, <2>5, ParseKeepsDirectory DEF KnownInv
    <3>3. ChargeInv'
      BY <3>1 DEF KnownInv, ChargeInv, IsCharge, NoCharge
    <3>4. CatalogInv'
      BY <3>1 DEF CatalogInv, Bound
    <3> QED BY <3>2, <3>3, <3>4 DEF KnownInv
  <2>6. CASE ReserveCatalog
    <3>1. pc = "Charge" /\ pc' = "Catalog" /\ UNCHANGED <<request, src, pin, info, entries>>
      BY <1>3, <2>6 DEF ReserveCatalog, ReadOn, Reading, Refuse
    <3>2. DirectoryInv'
      BY <3>1, DirectoryStays DEF KnownInv, Known, Parsed
    <3>3. ChargeInv'
      BY <1>3, <2>6, ReserveCatalogKeepsCharge DEF KnownInv
    <3> QED BY <3>1, <3>2, <3>3 DEF KnownInv, CatalogInv
  <2>7. CASE AuthenticateCatalog
    <3>1. /\ pc = "Catalog" /\ pc' = "Entries" /\ UNCHANGED <<request, src, pin, info, entries>>
          /\ charged' = [charged EXCEPT !.catalog = 0, !.block = 0, !.at = Absent]
      BY <1>3, <2>7 DEF AuthenticateCatalog, ReadOn, Reading, Refuse
    <3>2. DirectoryInv'
      BY <3>1, DirectoryStays DEF KnownInv, Known, Parsed
    <3>3. ChargeInv'
      <4>1. IsCharge
        BY DEF KnownInv, ChargeInv
      <4>2. charged' = [directory |-> charged.directory, catalog |-> 0, block |-> 0, at |-> Absent]
        BY <3>1, <4>1 DEF IsCharge
      <4>3. IsCharge'
        BY <4>1, <4>2 DEF IsCharge
      <4> QED BY <3>1, <4>3 DEF ChargeInv
    <3>4. CatalogInv'
      BY <1>3, <2>7, AuthenticateKeepsCatalog DEF KnownInv
    <3> QED BY <3>2, <3>3, <3>4 DEF KnownInv
  <2>8. CASE ReserveBlock
    <3>1. pc = "Catalog" /\ pc' = pc /\ UNCHANGED <<request, src, pin, info, entries>>
      BY <2>8 DEF ReserveBlock, Coming
    <3>2. DirectoryInv'
      BY <3>1, DirectoryStays DEF KnownInv, Known, Parsed
    <3>3. ChargeInv'
      BY <2>8, ReserveBlockKeepsCharge DEF KnownInv
    <3> QED BY <3>1, <3>2, <3>3 DEF KnownInv, CatalogInv
  <2> QED BY <1>3, <2>1, <2>2, <2>3, <2>4, <2>5, <2>6, <2>7, <2>8 DEF ReadingStep
<1>4. CASE (ParseRequest /\ pc' = "Source") \/ (HeadArchive /\ pc' = "Scan")
  <2>1. pc \in {"Parse", "Source"} /\ pc' \in {"Source", "Scan"} /\ charged' = charged
    BY <1>4 DEF ParseRequest, HeadArchive, Refuse, reading
  <2> QED BY <1>1, <2>1, UnknownKeepsKnown DEF Known
<1>5. CASE HeadObject \/ (AddEntries /\ NextSource)
  <2>1. charged' = NoCharge /\ pc' \in {"Source", "Preflight"}
    BY <1>5 DEF HeadObject, NextSource, Forgotten
  <2> QED BY <2>1, UnknownKeepsKnown DEF Known
<1>6. CASE (Preflight /\ pc' \in Afterwards) \/ (MakeStore /\ pc' = "Stores") \/ StoresMade
  <2>1. pc \in {"Preflight", "Stores"} /\ pc' \in {"Stores", "Planned"} /\ charged' = charged
    BY <1>6 DEF Preflight, MakeStore, StoresMade, Refuse, reading, Afterwards
  <2> QED BY <1>1, <2>1, UnknownKeepsKnown DEF Known
<1>7. CASE Overwrite \/ UNCHANGED vars
  <2>1. UNCHANGED <<request, pc, src, pin, loaded, info, entries, charged>>
    BY <1>7 DEF Overwrite, vars, reading
  <2> QED BY <2>1, StillKeepsKnown
<1> QED BY <1>2, <1>3, <1>4, <1>5, <1>6, <1>7, Steps, Refusals DEF Refusal

\* The inductive invariant of the reading.
ReadInv == Reached /\ ScanInv /\ KnownInv

\* The reading, in the initial states and from step to step.
LEMMA ReadInit == Init => ReadInv
  BY ReachedInit, ScanInit, KnownInit DEF ReadInv

LEMMA ReadStep ==
  ASSUME ReadInv, [Next]_vars
  PROVE  ReadInv'
<1>1. CASE Next
  BY <1>1, ReachedStep, ScanStep, KnownStep DEF ReadInv
<1>2. CASE UNCHANGED vars
  <2>1. Reached'
    BY <1>2 DEF vars, reading, ReadInv, Reached, Position, Pins, Pinned, Sources
  <2>2. ScanInv'
    BY <1>2, OthersKeepScan DEF vars, reading, ReadInv
  <2>3. KnownInv'
    BY <1>2, StillKeepsKnown DEF vars, reading, ReadInv
  <2> QED BY <2>1, <2>2, <2>3 DEF ReadInv
<1> QED BY <1>1, <1>2

\* The scan finds the last end record that is bound, wherever the borders of its
\* chunks fall, and finds none only when there is none.
THEOREM EndIsFound == Spec => []EndRecordFound
<1>1. ReadInv => EndRecordFound
  <2> SUFFICES ASSUME Reached, ScanInv PROVE EndRecordFound
    BY DEF ReadInv
  <2>1. ASSUME scan.eocd # Absent PROVE scan.eocd = Max(BoundEnds(Archive))
    <3>1. pc \in Reading /\ scan.eocd \in BoundEnds(Archive) /\ \A p \in BoundEnds(Archive) : p <= scan.eocd
      BY <2>1 DEF ScanInv
    <3>2. BoundEnds(Archive) \in SUBSET Nat
      BY <3>1, Pinning, BoundFacts
    <3> QED BY <3>1, <3>2, MaxIs
  <2>2. why = "EndRecord" => BoundEnds(Content(src, archives[src])) = {}
    BY DEF ScanInv
  <2> QED BY <2>1, <2>2 DEF EndRecordFound
<1> QED BY <1>1, ReadInit, ReadStep, PTL DEF Spec

\* Planning waits for nobody: the permits it asks for are there, although each
\* amount is rounded up by itself, because the budget is a whole number of permits,
\* and because the one reader of a catalog gives up a block before it asks for the
\* next (PlanningNeverWaits, of budget.rs and of planner.rs:645).
THEOREM NobodyIsWaitedFor == Spec => []PlanningNeverWaits
<1>1. ReadInv => PlanningNeverWaits
  <2> SUFFICES ASSUME ReadInv PROVE PlanningNeverWaits
    OBVIOUS
  <2>1. Position /\ Reached /\ ScanInv /\ DirectoryInv /\ ChargeInv
    BY DEF ReadInv, Reached, KnownInv
  <2>2. ASSUME pc = "Reserve", DirectoryBytes + Headroom <= Options.budget
        PROVE  PermitCount(Options.budget, DirectoryBytes) <= Available
    <3>1. DirectoryBytes \in Int
      BY <2>1, <2>2, DirectoryEstimated DEF Known
    <3>2. Headroom \in Nat /\ Options.budget \in Nat
      <4>1. Length \in Nat /\ Options.block \in Nat /\ Options.budget \in Nat
        BY <2>1, <2>2, Pinning, OptionFacts DEF Reading
      <4> HIDE DEF Options, Length
      <4> QED BY <4>1 DEF Headroom, Lesser
    <3>3. DirectoryBytes <= Options.budget
      BY <2>2, <3>1, <3>2
    <3>4. PermitCount(Options.budget, DirectoryBytes) <= PermitTotal(Options.budget)
      BY <2>1, <2>2, <3>1, <3>3, PermitsOf
    <3>5. PermitTotal(Options.budget) \in Nat
      BY <2>1, <2>2, BudgetIsWhole
    <3>6. charged.directory = 0 /\ charged.catalog = 0 /\ charged.block = 0
      BY <2>1, <2>2 DEF ChargeInv, NoCharge
    <3>7. Available = PermitTotal(Options.budget)
      BY <3>5, <3>6 DEF Available
    <3> QED BY <3>4, <3>7
  <2>3. Coming => BlockPermits <= BlockRoom
    BY <2>1, BlockFits
  <2> QED BY <2>2, <2>3 DEF PlanningNeverWaits
<1> QED BY <1>1, ReadInit, ReadStep, PTL DEF Spec

-----------------------------------------------------------------------------
(* The files of a directory and of its catalog *)

\* As many members as indices, when each index has a member of its own.
LEMMA CountedOnce ==
  ASSUME NEW S, IsFiniteSet(S), NEW f, DOMAIN f = S,
         \A i, j \in S : f[i] = f[j] => i = j
  PROVE  /\ IsFiniteSet({f[i] : i \in S})
         /\ Cardinality({f[i] : i \in S}) = Cardinality(S)
<1> DEFINE T == {f[i] : i \in S}
           g == [i \in S |-> f[i]]
<1>1. g \in [S -> T] /\ \A t \in T : \E i \in S : g[i] = t
  OBVIOUS
<1>2. \A i, j \in S : g[i] = g[j] => i = j
  OBVIOUS
<1> HIDE DEF T, g
<1>3. g \in Bijection(S, T)
  BY <1>1, <1>2 DEF Bijection, Injection, Surjection, IsInjective
<1>4. ExistsBijection(S, T)
  BY <1>3 DEF ExistsBijection
<1>5. IsFiniteSet(T) /\ Cardinality(T) = Cardinality(S)
  BY <1>4, FS_Bijection
<1> QED BY <1>5 DEF T

\* A catalog that is accepted lists the files one for one.
LEMMA CatalogIsWhole ==
  ASSUME NEW zip, IsArchive(zip), NEW limits, CatalogOk(zip.catalog, zip.entries, limits)
  PROVE  /\ Listed(zip.catalog) = Files(zip.entries)
         /\ Len(zip.catalog.entries) = Cardinality(FileEntries(zip.entries))
<1> DEFINE listed == zip.catalog.entries
           files == FileEntries(zip.entries)
           paths == [c \in DOMAIN listed |-> listed[c].path]
           names == [i \in files |-> KeyAt(zip.entries, i)]
<1>1. /\ Len(listed) \in Nat /\ DOMAIN listed = 1 .. Len(listed)
      /\ Len(zip.entries) \in Nat /\ DOMAIN zip.entries = 1 .. Len(zip.entries)
  BY ArchiveFacts
<1>2. IsFiniteSet(DOMAIN listed) /\ Cardinality(DOMAIN listed) = Len(listed)
  <2> DEFINE n == Len(listed)
  <2>1. n \in Nat /\ DOMAIN listed = 1 .. n
    BY <1>1
  <2> HIDE DEF n
  <2>2. IsFiniteSet(1 .. n) /\ Cardinality(1 .. n) = IF 1 > n THEN 0 ELSE n - 1 + 1
    BY <2>1, FS_Interval
  <2>3. Cardinality(1 .. n) = n
    BY <2>1, <2>2
  <2> QED BY <2>1, <2>2, <2>3 DEF n
<1>3. IsFiniteSet(files)
  <2> DEFINE n == Len(zip.entries)
  <2>1. n \in Nat /\ files \in SUBSET (1 .. n)
    BY <1>1 DEF FileEntries
  <2> HIDE DEF n, files
  <2>2. IsFiniteSet(1 .. n)
    BY <2>1, FS_Interval
  <2> QED BY <2>1, <2>2, FS_Subset
<1>4. Listed(zip.catalog) = {paths[c] : c \in DOMAIN listed}
  BY DEF Listed
<1>5. Files(zip.entries) = {names[i] : i \in files}
  BY DEF Files
<1>6. \A c, d \in DOMAIN listed : paths[c] = paths[d] => c = d
  BY DEF CatalogOk, CatalogFormed
<1>7. \A i, j \in files : names[i] = names[j] => i = j
  BY DEF CatalogOk, EntriesOk
<1>8. /\ Cardinality(Listed(zip.catalog)) = Cardinality(Files(zip.entries))
      /\ Listed(zip.catalog) \subseteq Files(zip.entries)
  BY DEF CatalogOk, SameFiles
<1>9. DOMAIN paths = DOMAIN listed /\ DOMAIN names = files
  OBVIOUS
<1> HIDE DEF listed, files, paths, names
<1>10. Cardinality(Listed(zip.catalog)) = Cardinality(DOMAIN listed)
  BY <1>2, <1>4, <1>6, <1>9, CountedOnce
<1>11. IsFiniteSet(Files(zip.entries)) /\ Cardinality(Files(zip.entries)) = Cardinality(files)
  BY <1>3, <1>5, <1>7, <1>9, CountedOnce
<1>12. Listed(zip.catalog) = Files(zip.entries)
  BY <1>8, <1>11, FS_Subset
<1> QED BY <1>2, <1>8, <1>10, <1>11, <1>12 DEF listed, files

\* The size it gives a file is the size of the entry.
LEMMA ListedSize ==
  ASSUME NEW zip, NEW limits, CatalogOk(zip.catalog, zip.entries, limits),
         NEW i \in FileEntries(zip.entries), NEW key, key = KeyAt(zip.entries, i),
         NEW c \in DOMAIN zip.catalog.entries, zip.catalog.entries[c].path = key
  PROVE  zip.catalog.entries[c].size = zip.entries[i].size
<1>1. PICK j \in FileEntries(zip.entries) :
        /\ zip.catalog.entries[c].path = KeyAt(zip.entries, j)
        /\ zip.catalog.entries[c].size = zip.entries[j].size
  BY DEF CatalogOk, SizesMatch
<1>2. j = i
  BY <1>1 DEF CatalogOk, EntriesOk
<1> QED BY <1>1, <1>2

-----------------------------------------------------------------------------
(* The manifest *)

\* The sources that have been planned.
Finished == IF pc \in Afterwards THEN Len(request.sources) ELSE src - 1

\* What is planned is described by the object it has been read from, and by the
\* catalog the source is bound to.
Described ==
  /\ PlanDescribesPin /\ TrustIsWhole
  /\ request.extract => \A key \in DOMAIN manifest : manifest[key].source \in DOMAIN archives

\* The keys are those that the sources planned so far offer, each planned from
\* the last of them that offers it.
Collected ==
  pc # "Refused" =>
    /\ \A key \in DOMAIN manifest : \E s \in 1 .. Finished :
         /\ manifest[key].source = s /\ key \in Offered(s)
         /\ \A t \in s + 1 .. Finished : key \notin Offered(t)
    /\ \A s \in 1 .. Finished : Offered(s) \subseteq DOMAIN manifest

ManifestInv == Described /\ Collected

\* What the entries of an archive add to the manifest.
Adding ==
  [key \in {KeyAt(entries, i) : i \in Chosen} |->
     LET e == entries[CHOOSE i \in Chosen : KeyAt(entries, i) = key] IN
     Planned(src, pin, e, SpanEnd(entries, e.offset, info), TrustOf(key))]

\* An archive whose entries can be planned is added to the manifest.
LEMMA EntriesAdd ==
  ASSUME AddEntries, NextSource
  PROVE  /\ pc = "Entries" /\ EntriesOk(entries, request.limits) /\ manifest' = Inserted(Adding)
         /\ UNCHANGED <<request, current, why, archives>>
  BY RefusedNotNext DEF AddEntries, Adding

\* They are the files that the source offers, each as the archive has it.
LEMMA AddingIs ==
  ASSUME Reached, DirectoryInv, CatalogInv, pc = "Entries", EntriesOk(entries, request.limits)
  PROVE  /\ DOMAIN Adding = Offered(src)
         /\ \A key \in DOMAIN Adding : LET p == Adding[key] IN
              /\ p.source = src /\ p.version = pin
              /\ \E e \in Range(Archive.entries) :
                   KeyOf(e.path) = key /\ e.offset = p.offset /\ e.size = p.size /\ e.packed = p.packed
              /\ Bound(src) # Absent =>
                   /\ p.trusted = p.size
                   /\ Archive.catalog.digest = Bound(src)
                   /\ Listed(Archive.catalog) = Files(Archive.entries)
                   /\ Len(Archive.catalog.entries) = Cardinality(FileEntries(Archive.entries))
<1>1. pc \in Reading /\ pc \in Parsed
  BY DEF Reading, Parsed
<1>2. IsArchive(Archive) /\ entries = Archive.entries
  BY <1>1, Pinning DEF DirectoryInv
<1>3. archives[src] = pin /\ request.extract
  BY <1>1 DEF Reached, Pins, Position
<1>4. Content(src, archives[src]) = Archive
  BY <1>3 DEF Archive
<1>5. DOMAIN Adding = {KeyAt(entries, i) : i \in Chosen}
  BY DEF Adding
<1>6. {KeyAt(entries, i) : i \in Chosen} = Offered(src)
  BY <1>2, <1>3, <1>4 DEF Chosen, Offered, Files
<1>7. ASSUME Bound(src) # Absent
      PROVE  /\ CatalogRead = Archive.catalog /\ Archive.catalog.digest = Bound(src)
             /\ CatalogOk(Archive.catalog, Archive.entries, request.limits)
             /\ Listed(Archive.catalog) = Files(Archive.entries)
             /\ Len(Archive.catalog.entries) = Cardinality(FileEntries(Archive.entries))
  <2>1. /\ CatalogRead = Archive.catalog /\ Archive.catalog.digest = Bound(src)
        /\ CatalogOk(Archive.catalog, Archive.entries, request.limits)
    BY <1>2, <1>7 DEF CatalogInv
  <2> QED BY <1>2, <2>1, CatalogIsWhole
<1>8. ASSUME NEW key \in DOMAIN Adding
      PROVE  \E i \in FileEntries(Archive.entries) : LET e == Archive.entries[i] IN
               /\ KeyAt(Archive.entries, i) = key
               /\ Adding[key] = Planned(src, pin, e, SpanEnd(entries, e.offset, info), TrustOf(key))
  <2> DEFINE i == CHOOSE i \in Chosen : KeyAt(entries, i) = key
  <2>1. i \in Chosen /\ KeyAt(entries, i) = key
    BY <1>5, <1>8
  <2>2. Adding[key] = Planned(src, pin, entries[i], SpanEnd(entries, entries[i].offset, info), TrustOf(key))
    BY <1>5, <1>8 DEF Adding
  <2>3. i \in FileEntries(Archive.entries)
    BY <1>2, <2>1 DEF Chosen
  <2> HIDE DEF i
  <2> QED BY <1>2, <2>1, <2>2, <2>3
<1>9. ASSUME NEW key \in DOMAIN Adding
      PROVE  LET p == Adding[key] IN
              /\ p.source = src /\ p.version = pin
              /\ \E e \in Range(Archive.entries) :
                   KeyOf(e.path) = key /\ e.offset = p.offset /\ e.size = p.size /\ e.packed = p.packed
              /\ Bound(src) # Absent => p.trusted = p.size
  <2>1. PICK i \in FileEntries(Archive.entries) :
          /\ KeyAt(Archive.entries, i) = key
          /\ Adding[key] = Planned(src, pin, Archive.entries[i],
                                   SpanEnd(entries, Archive.entries[i].offset, info), TrustOf(key))
    BY <1>8
  <2>2. i \in DOMAIN Archive.entries
    BY DEF FileEntries
  <2>3. Archive.entries[i] \in Range(Archive.entries)
    BY <2>2 DEF Range
  <2>4. KeyOf(Archive.entries[i].path) = key
    BY <2>1 DEF KeyAt
  <2>5. /\ Adding[key].source = src /\ Adding[key].version = pin
        /\ Adding[key].offset = Archive.entries[i].offset
        /\ Adding[key].size = Archive.entries[i].size
        /\ Adding[key].packed = Archive.entries[i].packed
        /\ Adding[key].trusted = TrustOf(key)
    BY <2>1 DEF Planned
  <2>6. ASSUME Bound(src) # Absent PROVE TrustOf(key) = Archive.entries[i].size
    <3> DEFINE listed == Archive.catalog.entries
               c == CHOOSE c \in DOMAIN listed : listed[c].path = key
    <3>1. key \in Listed(Archive.catalog)
      BY <1>7, <2>1, <2>6 DEF Files
    <3>2. c \in DOMAIN listed /\ listed[c].path = key
      BY <3>1 DEF Listed
    <3>3. TrustOf(key) = listed[c].size
      BY <1>7, <2>6, <3>1 DEF TrustOf
    <3> HIDE DEF c
    <3>4. listed[c].size = Archive.entries[i].size
      BY <1>7, <2>1, <2>6, <3>2, ListedSize
    <3> QED BY <3>3, <3>4
  <2> QED BY <2>3, <2>4, <2>5, <2>6
<1> QED BY <1>5, <1>6, <1>7, <1>9

\* The archives stay pinned to the objects they are pinned to.
PinsStay == \A s \in DOMAIN archives : s \in DOMAIN archives' /\ archives'[s] = archives[s]

\* What has been planned stays described, while no pin changes,
LEMMA DescribedStays ==
  ASSUME Described, UNCHANGED <<request, manifest>>, PinsStay
  PROVE  Described'
<1>1. \A s, v : Content(s, v)' = Content(s, v) /\ Bound(s)' = Bound(s)
  BY DEF Content, Bound
<1>2. CASE ~request.extract
  BY <1>2 DEF Described, PlanDescribesPin, TrustIsWhole
<1>3. CASE request.extract
  <2>1. ASSUME NEW key \in DOMAIN manifest
        PROVE  LET p == manifest[key]
                   zip == Content(p.source, archives[p.source]) IN
               /\ p.source \in DOMAIN archives'
               /\ archives'[p.source] = archives[p.source]
               /\ Content(p.source, archives[p.source])' = zip
               /\ Bound(p.source)' = Bound(p.source)
    <3>1. manifest[key].source \in DOMAIN archives
      BY <1>3 DEF Described
    <3>2. archives'[manifest[key].source] = archives[manifest[key].source]
      BY <3>1 DEF PinsStay
    <3> QED BY <3>1, <3>2 DEF PinsStay, Content, Bound
  <2>2. PlanDescribesPin'
    BY <1>3, <2>1 DEF Described, PlanDescribesPin
  <2>3. TrustIsWhole'
    BY <1>3, <2>1 DEF Described, TrustIsWhole
  <2> QED BY <1>3, <2>1, <2>2, <2>3 DEF Described
<1> QED BY <1>2, <1>3

\* and the sources go on offering the same keys.
LEMMA OfferedStays ==
  ASSUME NEW s, UNCHANGED request, request.extract => s \in DOMAIN archives, PinsStay
  PROVE  Offered(s)' = Offered(s)
  BY DEF PinsStay, Offered, Content, Included

\* The archives of the sources planned so far are pinned.
LEMMA FinishedArePinned ==
  ASSUME Reached, pc # "Refused", request.extract
  PROVE  \A s \in 1 .. Finished : s \in DOMAIN archives
<1>1. Len(archives) = Pinned /\ archives \in Seq(Nat) /\ Len(request.sources) \in Nat /\ src \in Nat \ {0}
  BY RequestFacts DEF Reached, Pins, Position
<1>2. pc = "Preflight" => src = Len(request.sources) + 1
  BY DEF Reached, Position
<1>3. pc = "Parse" => src = 1
  BY DEF Reached, Position
<1>4. pc \in {"Parse", "Source", "Preflight"} \cup Reading \cup Afterwards
  BY DEF Reached, Position
<1>5. Finished <= Len(archives) /\ Finished \in Int
  BY <1>1, <1>2, <1>3, <1>4 DEF Finished, Pinned, Reading, Afterwards
<1>6. DOMAIN archives = 1 .. Len(archives)
  BY <1>1
<1> QED BY <1>1, <1>5, <1>6

\* The steps that plan no source.
LEMMA CollectedStays ==
  ASSUME Reached, Collected, pc # "Refused", UNCHANGED <<request, manifest>>, PinsStay,
         Finished' = Finished
  PROVE  Collected'
<1>1. \A s \in 1 .. Finished : Offered(s)' = Offered(s)
  BY FinishedArePinned, OfferedStays
<1>2. Finished \in Int
  <2>1. Len(request.sources) \in Nat /\ src \in Nat
    BY RequestFacts DEF Reached, Position
  <2> QED BY <2>1 DEF Finished
<1>3. ASSUME NEW key \in DOMAIN manifest
      PROVE  \E s \in 1 .. Finished :
               /\ manifest[key].source = s /\ key \in Offered(s)'
               /\ \A t \in s + 1 .. Finished : key \notin Offered(t)'
  <2>1. PICK s \in 1 .. Finished :
          /\ manifest[key].source = s /\ key \in Offered(s)
          /\ \A t \in s + 1 .. Finished : key \notin Offered(t)
    BY DEF Collected
  <2>2. \A t \in s + 1 .. Finished : t \in 1 .. Finished
    BY <1>2
  <2> QED BY <1>1, <2>1, <2>2
<1>4. \A s \in 1 .. Finished : Offered(s)' \subseteq DOMAIN manifest
  BY <1>1 DEF Collected
<1> QED BY <1>3, <1>4 DEF Collected

\* A source that has been planned replaces what the sources before it offer.
LEMMA SourceCollected ==
  ASSUME Reached, Collected, pc \in {"Source", "Entries"}, NextSource,
         UNCHANGED <<request, archives>>,
         DOMAIN manifest' = DOMAIN manifest \cup Offered(src),
         \A key \in Offered(src) : manifest'[key].source = src,
         \A key \in DOMAIN manifest \ Offered(src) : manifest'[key] = manifest[key],
         request.extract => src \in DOMAIN archives
  PROVE  Collected'
<1>1. src \in Nat \ {0} /\ Finished = src - 1 /\ Finished' = src /\ pc' # "Refused"
  <2>1. src \in Nat \ {0}
    BY DEF Reached, Position
  <2>2. src' = src + 1 /\ pc' \in {"Source", "Preflight"}
    BY DEF NextSource
  <2> QED BY <2>1, <2>2 DEF Finished, Afterwards
<1>2. \A s \in 1 .. src : Offered(s)' = Offered(s)
  <2>1. ASSUME NEW s \in 1 .. src, request.extract PROVE s \in DOMAIN archives
    <3>1. \A t \in 1 .. src - 1 : t \in DOMAIN archives
      BY <1>1, <2>1, FinishedArePinned
    <3> QED BY <1>1, <2>1, <3>1
  <2> QED BY <2>1, OfferedStays DEF PinsStay
<1>3. \A key \in DOMAIN manifest : \E s \in 1 .. src - 1 :
        /\ manifest[key].source = s /\ key \in Offered(s)
        /\ \A t \in s + 1 .. src - 1 : key \notin Offered(t)
  BY <1>1 DEF Collected
<1>4. ASSUME NEW key \in DOMAIN manifest'
      PROVE  \E s \in 1 .. src :
               /\ manifest'[key].source = s /\ key \in Offered(s)'
               /\ \A t \in s + 1 .. src : key \notin Offered(t)'
  <2>1. \E s \in 1 .. src :
          /\ manifest'[key].source = s /\ key \in Offered(s)
          /\ \A t \in s + 1 .. src : key \notin Offered(t)
    <3>1. CASE key \in Offered(src)
      BY <1>1, <3>1
    <3>2. CASE key \notin Offered(src)
      <4>1. key \in DOMAIN manifest /\ manifest'[key] = manifest[key]
        BY <3>2
      <4>2. PICK s \in 1 .. src - 1 :
              /\ manifest[key].source = s /\ key \in Offered(s)
              /\ \A t \in s + 1 .. src - 1 : key \notin Offered(t)
        BY <1>3, <4>1
      <4>3. \A t \in s + 1 .. src : t \in s + 1 .. src - 1 \/ t = src
        BY <1>1, <4>2
      <4> QED BY <1>1, <3>2, <4>1, <4>2, <4>3
    <3> QED BY <3>1, <3>2
  <2>2. \A s \in 1 .. src : \A t \in s + 1 .. src : t \in 1 .. src
    BY <1>1
  <2> QED BY <1>2, <2>1, <2>2
<1>5. \A s \in 1 .. src : Offered(s)' \subseteq DOMAIN manifest'
  <2>1. \A s \in 1 .. src - 1 : Offered(s) \subseteq DOMAIN manifest
    BY <1>1 DEF Collected
  <2>2. \A s \in 1 .. src : s \in 1 .. src - 1 \/ s = src
    BY <1>1
  <2> QED BY <1>2, <2>1, <2>2
<1> QED BY <1>1, <1>4, <1>5 DEF Collected

\* What the manifest is after it has been added to.
LEMMA InsertedIs ==
  ASSUME NEW planned
  PROVE  /\ DOMAIN Inserted(planned) = DOMAIN manifest \cup DOMAIN planned
         /\ \A key \in DOMAIN planned : Inserted(planned)[key] = planned[key]
         /\ \A key \in DOMAIN manifest \ DOMAIN planned : Inserted(planned)[key] = manifest[key]
  BY DEF Inserted

\* An archive that is planned: its entries are its files, from the pinned object.
LEMMA EntriesKeepManifest ==
  ASSUME ReadInv, ManifestInv, AddEntries, NextSource
  PROVE  ManifestInv'
<1>1. /\ pc = "Entries" /\ EntriesOk(entries, request.limits) /\ manifest' = Inserted(Adding)
      /\ UNCHANGED <<request, current, why, archives>>
  BY EntriesAdd
<1>2. pc \in Reading /\ Reached /\ DirectoryInv /\ CatalogInv
  BY <1>1 DEF ReadInv, KnownInv, Reading
<1>3. request.extract /\ archives[src] = pin /\ src \in DOMAIN archives /\ Content(src, archives[src]) = Archive
  <2>1. request.extract /\ archives[src] = pin /\ archives \in Seq(Nat) /\ src \in Nat \ {0}
    BY <1>2 DEF Reached, Position, Pins
  <2>2. Len(archives) = src
    BY <1>2, Pinning
  <2> QED BY <2>1, <2>2 DEF Archive
<1>4. /\ DOMAIN Adding = Offered(src)
      /\ \A key \in DOMAIN Adding : LET p == Adding[key] IN
           /\ p.source = src /\ p.version = pin
           /\ \E e \in Range(Archive.entries) :
                KeyOf(e.path) = key /\ e.offset = p.offset /\ e.size = p.size /\ e.packed = p.packed
           /\ Bound(src) # Absent =>
                /\ p.trusted = p.size
                /\ Archive.catalog.digest = Bound(src)
                /\ Listed(Archive.catalog) = Files(Archive.entries)
                /\ Len(Archive.catalog.entries) = Cardinality(FileEntries(Archive.entries))
  BY <1>1, <1>2, AddingIs
<1>5. /\ DOMAIN manifest' = DOMAIN manifest \cup DOMAIN Adding
      /\ \A key \in DOMAIN Adding : manifest'[key] = Adding[key]
      /\ \A key \in DOMAIN manifest \ DOMAIN Adding : manifest'[key] = manifest[key]
  BY <1>1, InsertedIs
<1>6. Collected'
  BY <1>1, <1>2, <1>3, <1>4, <1>5, SourceCollected DEF ManifestInv
<1>7. ASSUME NEW key \in DOMAIN manifest'
      PROVE  LET p == manifest'[key]
                 zip == Content(p.source, archives[p.source]) IN
             /\ p.source \in DOMAIN archives /\ p.version = archives[p.source]
             /\ \E e \in Range(zip.entries) :
                  KeyOf(e.path) = key /\ e.offset = p.offset /\ e.size = p.size /\ e.packed = p.packed
             /\ Bound(p.source) # Absent =>
                  /\ p.trusted = p.size
                  /\ zip.catalog.digest = Bound(p.source)
                  /\ Listed(zip.catalog) = Files(zip.entries)
                  /\ Len(zip.catalog.entries) = Cardinality(FileEntries(zip.entries))
  <2>1. CASE key \in DOMAIN Adding
    <3>1. manifest'[key] = Adding[key] /\ Adding[key].source = src
      BY <1>4, <1>5, <2>1
    <3> QED BY <1>3, <1>4, <2>1, <3>1
  <2>2. CASE key \notin DOMAIN Adding
    <3>1. key \in DOMAIN manifest /\ manifest'[key] = manifest[key]
      BY <1>5, <1>7, <2>2
    <3> QED BY <1>3, <3>1 DEF ManifestInv, Described, PlanDescribesPin, TrustIsWhole
  <2> QED BY <2>1, <2>2
<1>8. \A s, v : Content(s, v)' = Content(s, v) /\ Bound(s)' = Bound(s)
  BY <1>1 DEF Content, Bound
<1>9. Described'
  <2>1. PlanDescribesPin'
    BY <1>1, <1>7 DEF PlanDescribesPin, Content
  <2>2. TrustIsWhole'
    BY <1>1, <1>7 DEF TrustIsWhole, Content, Bound
  <2>3. \A key \in DOMAIN manifest' : manifest'[key].source \in DOMAIN archives'
    BY <1>1, <1>7
  <2> QED BY <2>1, <2>2, <2>3 DEF Described
<1> QED BY <1>6, <1>9 DEF ManifestInv

\* An object that is planned to be copied.
LEMMA ObjectKeepsManifest ==
  ASSUME Reached, ManifestInv, HeadObject
  PROVE  ManifestInv'
<1> DEFINE object == Content(src, current[src])
           planned == [key \in {object.key} |-> Copied(src, current[src], object)]
<1>1. /\ pc = "Source" /\ ~request.extract /\ NextSource
      /\ UNCHANGED <<request, current, why, faults, archives, stores>>
      /\ manifest' = IF Included(object.key) THEN Inserted(planned) ELSE manifest
  BY DEF HeadObject
<1>2. object.key = Content(src, 1).key
  <2>1. src \in Sources /\ current[src] \in DOMAIN request.sources[src]
    BY <1>1 DEF Reached, Position
  <2> QED BY <1>1, <2>1, RequestFacts DEF Reached
<1>3. DOMAIN planned = {object.key} /\ planned[object.key].source = src
  BY DEF Copied
<1> HIDE DEF planned, object
<1>4. Offered(src) = IF Included(object.key) THEN {object.key} ELSE {}
  BY <1>1, <1>2 DEF Offered
<1>5. /\ DOMAIN manifest' = DOMAIN manifest \cup Offered(src)
      /\ \A key \in Offered(src) : manifest'[key].source = src
      /\ \A key \in DOMAIN manifest \ Offered(src) : manifest'[key] = manifest[key]
  <2>1. CASE Included(object.key)
    <3>1. manifest' = Inserted(planned) /\ Offered(src) = DOMAIN planned
      BY <1>1, <1>3, <1>4, <2>1
    <3>2. /\ DOMAIN Inserted(planned) = DOMAIN manifest \cup DOMAIN planned
          /\ \A key \in DOMAIN planned : Inserted(planned)[key] = planned[key]
          /\ \A key \in DOMAIN manifest \ DOMAIN planned : Inserted(planned)[key] = manifest[key]
      BY InsertedIs
    <3>3. \A key \in DOMAIN planned : planned[key].source = src
      BY <1>3
    <3> QED BY <3>1, <3>2, <3>3
  <2>2. CASE ~Included(object.key)
    BY <1>1, <1>4, <2>2
  <2> QED BY <2>1, <2>2
<1>6. Collected'
  BY <1>1, <1>5, SourceCollected DEF ManifestInv
<1>7. Described'
  BY <1>1 DEF Described, PlanDescribesPin, TrustIsWhole
<1> QED BY <1>6, <1>7 DEF ManifestInv

\* The steps that add nothing.
LEMMA OthersKeepManifest ==
  ASSUME Reached, ManifestInv, UNCHANGED <<request, manifest>>, PinsStay,
         pc = "Refused" => pc' = "Refused",
         pc' # "Refused" => Finished' = Finished
  PROVE  ManifestInv'
<1>1. Described'
  BY DescribedStays DEF ManifestInv
<1>2. CASE pc' # "Refused"
  <2>1. Collected'
    BY <1>2, CollectedStays DEF ManifestInv
  <2> QED BY <1>1, <2>1 DEF ManifestInv
<1>3. CASE pc' = "Refused"
  BY <1>1, <1>3 DEF ManifestInv, Collected
<1> QED BY <1>2, <1>3

\* The manifest, in the initial states and from step to step.
LEMMA ManifestInit == Init => ManifestInv
<1> SUFFICES ASSUME Init PROVE ManifestInv
  OBVIOUS
<1>1. manifest = <<>> /\ src = 1 /\ pc = "Parse"
  BY DEF Init
<1>2. DOMAIN manifest = {} /\ 1 .. Finished = {}
  BY <1>1 DEF Finished, Afterwards
<1> QED BY <1>2 DEF ManifestInv, Described, PlanDescribesPin, TrustIsWhole, Collected

LEMMA ManifestStep ==
  ASSUME ReadInv, ManifestInv, Next
  PROVE  ManifestInv'
<1>1. Reached /\ src \in Nat \ {0} /\ Len(request.sources) \in Nat /\ archives \in Seq(Nat)
  BY RequestFacts DEF ReadInv, Reached, Position, Pins
<1>2. archives' = archives => PinsStay
  BY DEF PinsStay
<1>3. CASE Refused
  BY <1>1, <1>2, <1>3, OthersKeepManifest DEF Refused
<1>4. CASE ReadOn
  <2>1. Finished' = Finished /\ pc # "Refused"
    BY <1>4 DEF ReadOn, Finished, Reading, Afterwards
  <2> QED BY <1>1, <1>2, <1>4, <2>1, OthersKeepManifest DEF ReadOn
<1>5. CASE ParseRequest /\ pc' = "Source"
  <2>1. pc = "Parse" /\ UNCHANGED <<request, src, manifest, archives>>
    BY <1>5 DEF ParseRequest, Refuse
  <2>2. Finished' = Finished
    BY <1>5, <2>1 DEF Finished, Afterwards
  <2> QED BY <1>1, <1>2, <2>1, <2>2, OthersKeepManifest
<1>6. CASE HeadArchive /\ pc' = "Scan"
  <2>1. /\ pc = "Source" /\ archives' = Append(archives, current[src])
        /\ UNCHANGED <<request, src, manifest>>
    BY <1>6 DEF HeadArchive, Refuse
  <2>2. PinsStay
    BY <1>1, <2>1 DEF PinsStay
  <2>3. Finished' = Finished
    BY <1>6, <2>1 DEF Finished, Afterwards
  <2> QED BY <1>1, <2>1, <2>2, <2>3, OthersKeepManifest
<1>7. CASE HeadObject
  BY <1>1, <1>7, ObjectKeepsManifest
<1>8. CASE AddEntries /\ NextSource
  BY <1>8, EntriesKeepManifest
<1>9. CASE Preflight /\ pc' \in Afterwards
  <2>1. pc = "Preflight" /\ UNCHANGED <<request, manifest, archives>>
    BY <1>9 DEF Preflight, Refuse, Afterwards
  <2>2. src = Len(request.sources) + 1
    BY <1>1, <2>1 DEF Reached, Position
  <2>3. Finished' = Finished
    BY <1>1, <1>9, <2>1, <2>2 DEF Finished, Afterwards
  <2> QED BY <1>1, <1>2, <2>1, <2>3, OthersKeepManifest
<1>10. CASE (MakeStore /\ pc' = "Stores") \/ StoresMade
  <2>1. pc = "Stores" /\ pc' \in Afterwards /\ UNCHANGED <<request, manifest, archives>>
    BY <1>10 DEF MakeStore, StoresMade, Refuse, Afterwards
  <2>2. Finished' = Finished
    BY <2>1 DEF Finished, Afterwards
  <2> QED BY <1>1, <1>2, <2>1, <2>2, OthersKeepManifest
<1>11. CASE Overwrite \/ UNCHANGED vars
  <2>1. UNCHANGED <<request, pc, src, manifest, archives>>
    BY <1>11 DEF Overwrite, vars
  <2>2. Finished' = Finished
    BY <2>1 DEF Finished
  <2> QED BY <1>1, <1>2, <2>1, <2>2, OthersKeepManifest
<1> QED BY <1>1, <1>3, <1>4, <1>5, <1>6, <1>7, <1>8, <1>9, <1>10, <1>11, Steps, Refusals DEF Refusal

\* The inductive invariant of the planning.
PlanInv == ReadInv /\ ManifestInv

\* The planning, from step to step and in every reachable state.
LEMMA PlanStep ==
  ASSUME PlanInv, [Next]_vars
  PROVE  PlanInv'
<1>1. ReadInv'
  BY ReadStep DEF PlanInv
<1>2. CASE Next
  BY <1>1, <1>2, ManifestStep DEF PlanInv
<1>3. CASE UNCHANGED vars
  <2>1. UNCHANGED <<request, pc, src, manifest, archives>> /\ Reached /\ ManifestInv
    BY <1>3 DEF vars, PlanInv, ReadInv
  <2>2. Finished' = Finished /\ PinsStay
    BY <2>1 DEF Finished, PinsStay
  <2> QED BY <1>1, <2>1, <2>2, OthersKeepManifest DEF PlanInv
<1> QED BY <1>2, <1>3

LEMMA PlanReached == Spec => []PlanInv
<1>1. Init => PlanInv
  BY ReadInit, ManifestInit DEF PlanInv
<1> QED BY <1>1, PlanStep, PTL DEF Spec

\* Whatever is put into the place of a source while it is being planned, every
\* planned object is an entry of the one archive that its HEAD has seen.
THEOREM OneObjectIsPlanned == Spec => []PlanDescribesPin
<1>1. PlanInv => PlanDescribesPin
  BY DEF PlanInv, ManifestInv, Described
<1> QED BY <1>1, PlanReached, PTL

\* A source that is bound to a catalog is planned with that catalog, which lists
\* the files of the archive one for one, and with the sizes of the archive.
THEOREM WholeCatalogIsTrusted == Spec => []TrustIsWhole
<1>1. PlanInv => TrustIsWhole
  BY DEF PlanInv, ManifestInv, Described
<1> QED BY <1>1, PlanReached, PTL

\* When all the sources are planned, every key that some source offers is, and
\* from the last source that offers it.
THEOREM LastSourceIsPlanned == Spec => []LastSourceWins
<1>1. PlanInv => LastSourceWins
  <2> SUFFICES ASSUME PlanInv, pc \in {"Preflight", "Stores", "Planned"}
               PROVE  /\ DOMAIN manifest = UNION {Offered(s) : s \in Sources}
                      /\ \A key \in DOMAIN manifest :
                           manifest[key].source = Max({s \in Sources : key \in Offered(s)})
    BY DEF LastSourceWins
  <2>1. Position
    BY DEF PlanInv, ReadInv, Reached
  <2>2. Sources = 1 .. Len(request.sources) /\ Len(request.sources) \in Nat
    BY <2>1, RequestFacts
  <2>3. pc = "Preflight" => src = Len(request.sources) + 1
    BY <2>1 DEF Position
  <2>4. Finished = Len(request.sources)
    BY <2>2, <2>3 DEF Finished, Afterwards
  <2>5. /\ \A key \in DOMAIN manifest : \E s \in Sources :
             /\ manifest[key].source = s /\ key \in Offered(s)
             /\ \A t \in s + 1 .. Len(request.sources) : key \notin Offered(t)
        /\ \A s \in Sources : Offered(s) \subseteq DOMAIN manifest
    BY <2>2, <2>4 DEF PlanInv, ManifestInv, Collected
  <2>6. ASSUME NEW key \in DOMAIN manifest
        PROVE  manifest[key].source = Max({s \in Sources : key \in Offered(s)})
    <3> DEFINE S == {s \in Sources : key \in Offered(s)}
    <3>1. PICK s \in Sources :
            /\ manifest[key].source = s /\ key \in Offered(s)
            /\ \A t \in s + 1 .. Len(request.sources) : key \notin Offered(t)
      BY <2>5
    <3>2. S \in SUBSET Nat /\ s \in S
      BY <2>2, <3>1
    <3>3. \A t \in S : t <= s
      BY <2>2, <3>1
    <3> HIDE DEF S
    <3>4. s = Max(S)
      BY <3>2, <3>3, MaxIs
    <3> QED BY <3>1, <3>4 DEF S
  <2> QED BY <2>5, <2>6
<1> QED BY <1>1, PlanReached, PTL

-----------------------------------------------------------------------------
(* The windows of the block stores *)

\* What the adaptive window leaves of the budget: the whole MiB of the budget, of
\* which one is assumed even if there is only half, less than what is reserved.
LEMMA RoomIsWithin ==
  ASSUME NEW raw, IsRaw(raw), Accepted(raw), NEW r, r = Runtime(raw),
         NEW reserved \in Int, BaseOverhead <= reserved
  PROVE  Less(Greater(r.budget \div MiB, 1) * MiB, reserved) <= r.budget
<1> DEFINE b == r.budget
           q == b \div MiB
<1>1. MiB \in Nat \ {0} /\ BaseOverhead \in Nat /\ MiB <= 2 * BaseOverhead
  BY RuntimeAssumption
<1>2. raw.memory \in Nat \ {0} /\ (raw.budget # Absent => raw.budget \in Nat \ {0})
  BY DEF Accepted
<1>3. b = IF raw.budget = Absent THEN (raw.memory * MiB) \div 2 ELSE raw.budget * MiB
  BY DEF Runtime, MemoryCap
<1>4. b \in Nat /\ MiB <= 2 * b + 1
  <2>1. CASE raw.budget = Absent
    <3> DEFINE m == raw.memory
    <3>1. m \in Nat \ {0} /\ m * MiB \in Nat /\ MiB <= m * MiB
      BY <1>1, <1>2
    <3> DEFINE p == m * MiB
    <3>2. b = p \div 2 /\ p \in Nat /\ MiB <= p
      BY <1>3, <2>1, <3>1
    <3> HIDE DEF p, b
    <3>3. p \div 2 \in Nat /\ p <= 2 * (p \div 2) + 1
      BY <3>2
    <3> QED BY <1>1, <3>2, <3>3
  <2>2. CASE raw.budget # Absent
    <3> DEFINE m == raw.budget
    <3>1. m \in Nat \ {0} /\ b = m * MiB
      BY <1>2, <1>3, <2>2
    <3> HIDE DEF m, b
    <3>2. m * MiB \in Nat /\ MiB <= m * MiB
      BY <1>1, <3>1
    <3> QED BY <1>1, <3>1, <3>2
  <2> QED BY <2>1, <2>2
<1>5. MiB % 2 = 0
  <2>1. PermitUnit \in Nat \ {0} /\ MiB % (2 * PermitUnit) = 0
    BY RuntimeAssumption
  <2> DEFINE u == 2 * PermitUnit
             k == MiB \div u
  <2>2. u \in Nat \ {0}
    BY <2>1
  <2>3. MiB % u = 0
    BY <2>1
  <2> HIDE DEF u
  <2>4. MiB = u * k /\ k \in Nat
    BY <1>1, <2>2, <2>3, Whole
  <2> HIDE DEF k
  <2>5. MiB = 2 * (PermitUnit * k) /\ PermitUnit * k \in Nat
    BY <2>1, <2>4 DEF u
  <2> QED BY <2>5
<1>6. MiB <= 2 * b
  <2> HIDE DEF b
  <2> QED BY <1>1, <1>4, <1>5
<1>7. q \in Nat /\ q * MiB <= b
  <2> HIDE DEF b
  <2> QED BY <1>1, <1>4
<1> HIDE DEF b, q
<1>8. CASE q = 0
  <2>1. Greater(q, 1) * MiB = MiB
    BY <1>1, <1>8 DEF Greater
  <2> QED BY <1>1, <1>4, <1>6, <2>1 DEF Less, Greater, b, q
<1>9. CASE q # 0
  <2>1. Greater(q, 1) = q
    BY <1>7, <1>9 DEF Greater
  <2>2. q * MiB \in Int
    BY <1>1, <1>7
  <2> DEFINE p == q * MiB
  <2>3. Less(p, reserved) <= b
    <3> HIDE DEF p
    <3> QED BY <1>1, <1>4, <1>7, <2>2 DEF Less, Greater, p
  <2> QED BY <2>1, <2>3 DEF b, q
<1> QED BY <1>7, <1>8, <1>9

\* The window of a store with any number of files, for an archive of any length.
LEMMA WindowFits ==
  ASSUME NEW raw, IsRaw(raw), Accepted(raw), NEW r, r = Runtime(raw),
         NEW len \in Nat, NEW files \in Nat
  PROVE  /\ StoreWindow(r, len, files) \in Int
         /\ r.block <= StoreWindow(r, len, files)
         /\ StoreWindow(r, len, files) <= r.budget
         /\ raw.window = Absent => StoreWindow(r, len, files) >= Lesser(r.block * r.gets, len)
<1>1. /\ r.block \in Nat \ {0} /\ r.gets \in Nat \ {0} /\ r.block <= r.budget
      /\ r.block * r.gets <= r.budget /\ r.concurrency \in Nat
  BY RuntimeAssumption DEF Accepted
<1>2. r.window = raw.window /\ (r.window # Absent => r.window \in Nat /\ r.block <= r.window /\ r.window <= r.budget)
  BY DEF Accepted, Runtime
<1>3. r.budget \in Nat
  <2>1. raw.memory \in Nat /\ MiB \in Nat /\ (raw.budget # Absent => raw.budget \in Nat)
    BY RuntimeAssumption DEF IsRaw, Optional
  <2>2. r.budget = IF raw.budget = Absent THEN (raw.memory * MiB) \div 2 ELSE raw.budget * MiB
    BY DEF Runtime, MemoryCap
  <2>3. raw.memory * MiB \in Nat /\ (raw.budget # Absent => raw.budget * MiB \in Nat)
    BY <2>1
  <2> DEFINE p == raw.memory * MiB
  <2>4. p \in Nat
    BY <2>3
  <2> HIDE DEF p
  <2>5. p \div 2 \in Nat
    BY <2>4
  <2> QED BY <2>2, <2>3, <2>5 DEF p
<1> DEFINE all == r.block * r.gets
           feed == Feed(r, len)
           reserved == Reserved(r, files)
           capacity == Capacity(r, len, files)
<1>4. all \in Nat \ {0} /\ all <= r.budget /\ r.block <= all
  BY <1>1
<1>5. feed = Lesser(all, Greater(len, 1)) /\ Greater(r.block, 1) = r.block
  <2>1. r.block \in Nat \ {0} /\ r.gets \in Nat \ {0}
    BY <1>1
  <2>2. Greater(r.block, 1) = r.block /\ Greater(r.gets, 1) = r.gets
    BY <2>1 DEF Greater
  <2> QED BY <2>2 DEF Feed
<1>6. feed \in Nat /\ feed <= r.budget /\ Lesser(all, len) <= feed
  <2> HIDE DEF all
  <2> QED BY <1>3, <1>4, <1>5 DEF Lesser, Greater
<1>7. reserved \in Int /\ BaseOverhead <= reserved
  <2>1. /\ BaseOverhead \in Nat /\ Greater(r.concurrency, 1) * WorkerOverhead \in Nat
        /\ files * FileOverhead \in Nat /\ Greater(r.gets, 1) * r.block \in Nat
    BY <1>1, RuntimeAssumption DEF Greater
  <2> QED BY <2>1 DEF Reserved
<1>8. capacity \in Int /\ capacity <= r.budget
  <2> DEFINE room == Less(Greater(r.budget \div MiB, 1) * MiB, reserved)
  <2>1. room \in Nat
    <3>1. Greater(r.budget \div MiB, 1) * MiB \in Int
      <4>1. r.budget \div MiB \in Int /\ MiB \in Nat
        BY <1>3, RuntimeAssumption
      <4> QED BY <4>1 DEF Greater
    <3> DEFINE p == Greater(r.budget \div MiB, 1) * MiB
    <3>2. p \in Int
      BY <3>1
    <3> HIDE DEF p, reserved
    <3>3. Less(p, reserved) \in Nat
      BY <1>7, <3>2 DEF Less, Greater
    <3> QED BY <3>3 DEF p
  <2>2. room <= r.budget
    BY <1>7, RoomIsWithin
  <2>3. capacity = LET least == Lesser(room, len) IN
                   Lesser(IF least > LargeThreshold THEN Less(least, LargeSlack) ELSE least, MaxWindow)
    BY DEF Capacity
  <2>4. LargeThreshold \in Nat /\ LargeSlack \in Nat /\ MaxWindow \in Nat
    BY RuntimeAssumption
  <2> HIDE DEF room, capacity
  <2> QED BY <1>3, <2>1, <2>2, <2>3, <2>4 DEF Lesser, Less, Greater
<1> HIDE DEF feed, capacity
<1>9. StoreWindow(r, len, files) =
         Greater(IF r.window # Absent THEN r.window ELSE Greater(capacity, feed), r.block)
  BY <1>5 DEF StoreWindow, WindowOf, capacity, feed
<1>10. CASE r.window # Absent
  BY <1>1, <1>2, <1>3, <1>9, <1>10 DEF Greater
<1>11. CASE r.window = Absent
  <2>1. Greater(capacity, feed) \in Int /\ feed <= Greater(capacity, feed) /\ Greater(capacity, feed) <= r.budget
    BY <1>3, <1>6, <1>8 DEF Greater
  <2> DEFINE w == Greater(capacity, feed)
  <2>2. StoreWindow(r, len, files) = Greater(w, r.block)
    BY <1>9, <1>11
  <2> HIDE DEF w
  <2>3. w \in Int /\ feed <= w /\ w <= r.budget
    BY <2>1 DEF w
  <2>4. Lesser(all, len) \in Int
    <3> HIDE DEF all
    <3> QED BY <1>4 DEF Lesser
  <2> HIDE DEF all
  <2> QED BY <1>1, <1>2, <1>3, <1>6, <2>2, <2>3, <2>4 DEF Greater, all
<1> QED BY <1>10, <1>11

\* There are finitely many keys, and stores are made of archives.
StoresInv ==
  /\ IsFiniteSet(DOMAIN manifest)
  /\ pc = "Stores" => request.extract
  /\ stores \in Seq(Range(stores))
  /\ WindowsFit

\* The keys that an archive adds are finitely many.
LEMMA AddingIsFinite ==
  ASSUME Reached, DirectoryInv, pc = "Entries", EntriesOk(entries, request.limits)
  PROVE  IsFiniteSet(DOMAIN Adding)
<1>1. pc \in Reading /\ pc \in Parsed
  BY DEF Reading, Parsed
<1>2. IsArchive(Archive) /\ entries = Archive.entries
  BY <1>1, Pinning DEF DirectoryInv
<1> DEFINE n == Len(entries)
           chosen == Chosen
           names == [i \in chosen |-> KeyAt(entries, i)]
<1>3. n \in Nat /\ chosen \in SUBSET (1 .. n)
  BY <1>2, ArchiveFacts DEF Chosen, FileEntries
<1>4. \A i, j \in chosen : names[i] = names[j] => i = j
  BY DEF EntriesOk, Chosen
<1>5. DOMAIN Adding = {names[i] : i \in chosen}
  BY DEF Adding
<1>6. DOMAIN names = chosen
  OBVIOUS
<1> HIDE DEF n, chosen, names
<1>7. IsFiniteSet(1 .. n)
  BY <1>3, FS_Interval
<1>8. IsFiniteSet(chosen)
  BY <1>3, <1>7, FS_Subset
<1> QED BY <1>4, <1>5, <1>6, <1>8, CountedOnce

\* The steps that make no store.
LEMMA OthersKeepStores ==
  ASSUME StoresInv, UNCHANGED <<request, stores>>, IsFiniteSet(DOMAIN manifest'),
         pc' = "Stores" => request.extract
  PROVE  StoresInv'
<1>1. Options' = Options
  BY DEF Options
<1>2. WindowsFit'
  BY <1>1 DEF StoresInv, WindowsFit
<1> QED BY <1>2 DEF StoresInv

\* A store that is made: its window is that of the files still to be read.
LEMMA MakeKeepsStores ==
  ASSUME Reached, StoresInv, MakeStore, pc' = "Stores"
  PROVE  StoresInv'
<1>1. pc = "Stores" /\ src \in Sources /\ request.extract
  BY DEF MakeStore, StoresInv
<1>2. PICK skipped \in SUBSET Skippable(src) :
        LET keys == PlannedFrom(src) \ skipped
            in == Input(Content(src, archives[src]).len, PlansOf(keys), Options.block, Options.gap)
            blocks == Blocks(in) IN
        stores' = IF keys = {} THEN stores
                  ELSE Append(stores, [input |-> in, blocks |-> blocks,
                          claims |-> Claims(blocks, in.plans),
                          window |-> StoreWindow(Options, in.len, Cardinality(keys))])
  BY DEF MakeStore, Refuse
<1>3. UNCHANGED <<request, manifest>>
  BY DEF MakeStore, Refuse
<1> DEFINE keys == PlannedFrom(src) \ skipped
           in == Input(Content(src, archives[src]).len, PlansOf(keys), Options.block, Options.gap)
           made == [input |-> in, blocks |-> Blocks(in), claims |-> Claims(Blocks(in), in.plans),
                    window |-> StoreWindow(Options, in.len, Cardinality(keys))]
<1>4. CASE keys = {}
  <2>1. stores' = stores
    BY <1>2, <1>4
  <2> QED BY <1>1, <1>3, <2>1, OthersKeepStores DEF StoresInv
<1>5. CASE keys # {}
  <2>1. stores' = Append(stores, made)
    BY <1>2, <1>5
  <2>2. Cardinality(keys) \in Nat
    <3>1. IsFiniteSet(DOMAIN manifest) /\ keys \in SUBSET DOMAIN manifest
      BY DEF StoresInv, PlannedFrom
    <3> HIDE DEF keys
    <3>2. IsFiniteSet(keys)
      BY <3>1, FS_Subset
    <3> QED BY <3>2, FS_CardinalityType
  <2>3. in.len = Content(src, archives[src]).len /\ in.len \in Nat
    <3>1. src \in DOMAIN archives
      <4>1. Len(archives) = Len(request.sources) /\ archives \in Seq(Nat)
        BY <1>1 DEF Reached, Pins, Pinned, Reading
      <4>2. Sources = 1 .. Len(request.sources)
        BY RequestFacts DEF Reached
      <4> QED BY <1>1, <4>1, <4>2
    <3>2. IsArchive(Content(src, archives[src]))
      BY <1>1, <3>1, RequestFacts DEF Reached, Pins
    <3> QED BY <3>2 DEF Input, IsArchive
  <2>4. made.window = StoreWindow(Options, in.len, Cardinality(keys)) /\ made.input.len = in.len
    OBVIOUS
  <2>5. IsRaw(request.raw) /\ Accepted(request.raw)
    BY <1>1, RequestFacts DEF Reached, Position
  <2> DEFINE len == in.len
             files == Cardinality(keys)
             w == made.window
             l == made.input.len
  <2>6. len \in Nat /\ files \in Nat /\ w = StoreWindow(Options, len, files) /\ l = len
    BY <2>2, <2>3, <2>4
  <2> HIDE DEF len, files, w, l
  <2>7. /\ Options.block <= w /\ w <= Options.budget
        /\ request.raw.window = Absent => w >= Lesser(Options.block * Options.gets, l)
    BY <2>5, <2>6, WindowFits DEF Options
  <2>8. PermitCount(Options.budget, Options.block) <= PermitTotal(Options.budget)
    <3>1. Options.block \in Nat /\ Options.block <= Options.budget
      BY <1>1, BudgetIsWhole DEF Reached
    <3> QED BY <1>1, <3>1, PermitsOf DEF Reached
  <2> HIDE DEF made
  <2>9. stores' \in Seq(Range(stores')) /\ \A n \in DOMAIN stores' :
          stores'[n] = made \/ (n \in DOMAIN stores /\ stores'[n] = stores[n])
    <3> DEFINE T == Range(stores) \cup {made}
    <3>1. stores \in Seq(T)
      BY DEF StoresInv
    <3>2. made \in T
      OBVIOUS
    <3> HIDE DEF T
    <3>3. /\ stores' \in Seq(T) /\ Len(stores') = Len(stores) + 1
          /\ \A n \in 1 .. Len(stores) : stores'[n] = stores[n]
          /\ stores'[Len(stores) + 1] = made
      BY <2>1, <3>1, <3>2
    <3>4. DOMAIN stores = 1 .. Len(stores) /\ DOMAIN stores' = 1 .. Len(stores') /\ Len(stores) \in Nat
      BY <3>1, <3>3
    <3>5. \A n \in DOMAIN stores' : stores'[n] \in Range(stores')
      BY DEF Range
    <3>6. stores' \in Seq(Range(stores'))
      BY <3>3, <3>5
    <3> QED BY <3>3, <3>4, <3>6
  <2>10. WindowsFit'
    <3>1. Options' = Options
      BY <1>3 DEF Options
    <3>2. ASSUME NEW n \in DOMAIN stores'
          PROVE  /\ Options.block <= stores'[n].window /\ stores'[n].window <= Options.budget
                 /\ request.raw.window = Absent =>
                      stores'[n].window >= Lesser(Options.block * Options.gets, stores'[n].input.len)
      <4>1. CASE stores'[n] = made
        BY <2>7, <4>1 DEF w, l
      <4>2. CASE n \in DOMAIN stores /\ stores'[n] = stores[n]
        BY <4>2 DEF StoresInv, WindowsFit
      <4> QED BY <2>9, <4>1, <4>2
    <3> QED BY <1>3, <2>8, <3>1, <3>2 DEF WindowsFit
  <2> QED BY <1>1, <1>3, <2>9, <2>10 DEF StoresInv
<1> QED BY <1>4, <1>5

\* The stores, in the initial states and from step to step.
LEMMA StoresInit == Init => StoresInv
<1> SUFFICES ASSUME Init PROVE StoresInv
  OBVIOUS
<1>1. manifest = <<>> /\ stores = <<>> /\ pc = "Parse"
  BY DEF Init
<1>2. DOMAIN manifest = {} /\ DOMAIN stores = {} /\ stores \in Seq(Range(stores))
  BY <1>1
<1>3. IsFiniteSet(DOMAIN manifest)
  BY <1>2, FS_EmptySet
<1> QED BY <1>1, <1>2, <1>3 DEF StoresInv, WindowsFit

LEMMA StoresStep ==
  ASSUME ReadInv, StoresInv, Next
  PROVE  StoresInv'
<1>1. Reached /\ DirectoryInv /\ IsFiniteSet(DOMAIN manifest) /\ (pc = "Stores" => request.extract)
  BY DEF ReadInv, KnownInv, StoresInv
<1>2. CASE Refused
  BY <1>1, <1>2, OthersKeepStores DEF Refused
<1>3. CASE ReadOn
  BY <1>1, <1>3, OthersKeepStores DEF ReadOn, Reading
<1>4. CASE (ParseRequest /\ pc' = "Source") \/ (HeadArchive /\ pc' = "Scan")
  <2>1. UNCHANGED <<request, manifest, stores>> /\ pc' # "Stores"
    BY <1>4 DEF ParseRequest, HeadArchive, Refuse
  <2> QED BY <1>1, <2>1, OthersKeepStores
<1>5. CASE HeadObject
  <2> DEFINE object == Content(src, current[src])
             planned == [key \in {object.key} |-> Copied(src, current[src], object)]
  <2>1. /\ UNCHANGED <<request, stores>> /\ pc' # "Stores"
        /\ manifest' = manifest \/ manifest' = Inserted(planned)
    BY <1>5 DEF HeadObject, NextSource
  <2>2. IsFiniteSet({object.key}) /\ DOMAIN planned = {object.key}
    BY FS_Singleton
  <2> HIDE DEF planned, object
  <2>3. IsFiniteSet(DOMAIN manifest \cup {object.key})
    BY <1>1, <2>2, FS_Union
  <2>4. DOMAIN Inserted(planned) = DOMAIN manifest \cup {object.key}
    BY <2>2, InsertedIs
  <2>5. IsFiniteSet(DOMAIN manifest')
    BY <1>1, <2>1, <2>3, <2>4
  <2> QED BY <2>1, <2>5, OthersKeepStores
<1>6. CASE AddEntries /\ NextSource
  <2>1. /\ pc = "Entries" /\ EntriesOk(entries, request.limits) /\ manifest' = Inserted(Adding)
        /\ UNCHANGED request
    BY <1>6, EntriesAdd
  <2>2. UNCHANGED stores /\ pc' # "Stores"
    BY <1>6, RefusedNotNext DEF AddEntries, NextSource
  <2>3. IsFiniteSet(DOMAIN manifest \cup DOMAIN Adding)
    BY <1>1, <2>1, AddingIsFinite, FS_Union
  <2>4. IsFiniteSet(DOMAIN manifest')
    BY <2>1, <2>3, InsertedIs
  <2> QED BY <2>1, <2>2, <2>4, OthersKeepStores
<1>7. CASE Preflight /\ pc' \in Afterwards
  <2>1. UNCHANGED <<request, manifest, stores>> /\ (pc' = "Stores" => request.extract)
    BY <1>7 DEF Preflight, Refuse, Afterwards
  <2> QED BY <1>1, <2>1, OthersKeepStores
<1>8. CASE MakeStore /\ pc' = "Stores"
  BY <1>1, <1>8, MakeKeepsStores
<1>9. CASE StoresMade \/ Overwrite \/ UNCHANGED vars
  <2>1. UNCHANGED <<request, manifest, stores>> /\ (pc' = "Stores" => pc = "Stores")
    BY <1>9 DEF StoresMade, Overwrite, vars
  <2> QED BY <1>1, <2>1, OthersKeepStores
<1>10. Reached
  BY <1>1
<1> QED BY <1>2, <1>3, <1>4, <1>5, <1>6, <1>7, <1>8, <1>9, <1>10, Steps, Refusals DEF Refusal

\* The part of StoreContract that is about sizes: the window of every block store
\* is within the budget and holds a block, and a block for every GET or else the
\* archive, whatever adaptive_source_window_bytes takes off for its overheads.
THEOREM WindowsAreWithin == Spec => []WindowsFit
<1> DEFINE I == PlanInv /\ StoresInv
<1>1. Init => I
  BY ReadInit, ManifestInit, StoresInit DEF PlanInv
<1>2. ASSUME I, [Next]_vars PROVE I'
  <2>1. PlanInv'
    BY <1>2, PlanStep
  <2>2. CASE Next
    BY <1>2, <2>1, <2>2, StoresStep DEF PlanInv
  <2>3. CASE UNCHANGED vars
    <3>1. StoresInv /\ UNCHANGED <<request, manifest, stores, pc>>
      BY <1>2, <2>3 DEF vars
    <3> QED BY <2>1, <3>1, OthersKeepStores DEF StoresInv
  <2> QED BY <1>2, <2>2, <2>3
<1>3. I => WindowsFit
  BY DEF StoresInv
<1> HIDE DEF I
<1> QED BY <1>1, <1>2, <1>3, PTL DEF Spec

-----------------------------------------------------------------------------
(* The blocks of an archive, as functions of its spans *)

\* A function that repeats a step up to a bound.
Repeats(T, N, init, step, f) ==
  /\ f \in [0 .. N -> T] /\ f[0] = init
  /\ \A n \in 1 .. N : f[n] = step[n][f[n - 1]]

\* A recursion over the numbers up to a bound has a result, for a step that is
\* given as a function.
LEMMA Recursion ==
  ASSUME NEW T, NEW N \in Nat, NEW init \in T, NEW step \in [1 .. N -> [T -> T]]
  PROVE  \E f : Repeats(T, N, init, step, f)
<1> DEFINE Upto(k, f) == Repeats(T, k, init, step, f)
           Bad == {k \in 0 .. N : ~ \E f : Upto(k, f)}
<1>1. 0 \notin Bad
  <2>1. Upto(0, [n \in 0 .. 0 |-> init])
    BY DEF Repeats
  <2> QED BY <2>1
<1>2. ASSUME NEW k \in 0 .. N, k # 0, k \in Bad
      PROVE  k - 1 \in Bad
  <2>1. k \in Nat /\ k - 1 \in 0 .. N /\ k \in 1 .. N
    BY <1>2
  <2> SUFFICES ASSUME NEW f, Upto(k - 1, f)
               PROVE  \E g : Upto(k, g)
    BY <1>2, <2>1
  <2> DEFINE g == [n \in 0 .. k |-> IF n = k THEN step[k][f[k - 1]] ELSE f[n]]
  <2>2. f[k - 1] \in T
    BY <2>1 DEF Repeats
  <2>3. step[k][f[k - 1]] \in T
    BY <2>1, <2>2
  <2>4. g \in [0 .. k -> T] /\ g[0] = init
    BY <2>1, <2>3 DEF Repeats
  <2>5. ASSUME NEW n \in 1 .. k
        PROVE  g[n] = step[n][g[n - 1]]
    <3>1. n - 1 \in 0 .. k - 1 /\ n - 1 # k /\ n - 1 \in 0 .. k
      BY <2>1
    <3>2. g[n - 1] = f[n - 1]
      BY <3>1
    <3>3. CASE n = k
      BY <3>2, <3>3
    <3>4. CASE n # k
      <4>1. n \in 1 .. k - 1
        BY <2>1, <3>4
      <4>2. g[n] = f[n]
        BY <3>4
      <4>3. f[n] = step[n][f[n - 1]]
        BY <4>1 DEF Repeats
      <4> QED BY <3>2, <4>2, <4>3
    <3> QED BY <3>3, <3>4
  <2> HIDE DEF g
  <2>6. Upto(k, g)
    BY <2>4, <2>5 DEF Repeats
  <2> QED BY <2>6
<1>3. Bad = {}
  <2> SUFFICES ASSUME Bad # {} PROVE FALSE
    OBVIOUS
  <2>1. Bad \in SUBSET Nat
    OBVIOUS
  <2> HIDE DEF Bad
  <2>2. PICK m \in Bad : \A n \in Bad : m <= n
    BY <2>1, LeastNumber
  <2>3. m \in 0 .. N
    BY <2>2 DEF Bad
  <2>4. m # 0
    BY <1>1, <2>2
  <2>5. m - 1 \in Bad
    BY <1>2, <2>2, <2>3, <2>4
  <2> QED BY <2>1, <2>2, <2>5
<1>4. N \in 0 .. N
  OBVIOUS
<1>5. \E f : Upto(N, f)
  <2> HIDE DEF Upto
  <2>1. ~ (~ \E f : Upto(N, f))
    BY <1>3, <1>4, Zenon
  <2> QED BY <2>1
<1> QED BY <1>5

\* The members of a set with a lower number than one of them, and with none higher.
Lower(S, at, x) == {y \in S : at[y] < at[x]}
NotHigher(S, at, x) == {y \in S : ~(at[x] < at[y])}

\* The places of the members of a finite set by a number each of them has: there is
\* one member at each place, and the places follow the numbers.
LEMMA Places ==
  ASSUME NEW S, IsFiniteSet(S), NEW N, N = Cardinality(S), NEW at \in [S -> Int],
         \A x, y \in S : at[x] = at[y] => x = y
  PROVE  \E place \in [1 .. N -> S] :
           /\ \A x \in S : \E n \in 1 .. N : place[n] = x
           /\ \A m, n \in 1 .. N : m < n => at[place[m]] < at[place[n]]
           /\ \A n \in 1 .. N, x \in S :
                /\ Cardinality(Lower(S, at, x)) < n
                /\ n <= Cardinality(NotHigher(S, at, x))
                <=> x = place[n]
<1> DEFINE less(x) == Lower(S, at, x)
           rank == [x \in S |-> Cardinality(less(x)) + 1]
<1>1. N \in Nat
  BY FS_CardinalityType
<1>2. ASSUME NEW x \in S
      PROVE  /\ IsFiniteSet(less(x)) /\ Cardinality(less(x)) \in Nat
             /\ Cardinality(NotHigher(S, at, x)) = Cardinality(less(x)) + 1
             /\ Cardinality(less(x)) + 1 <= N
  <2>0. less(x) \in SUBSET S
    BY DEF Lower
  <2>1. IsFiniteSet(less(x))
    BY <2>0, FS_Subset
  <2>2. x \notin less(x)
    BY DEF Lower
  <2>3. NotHigher(S, at, x) = less(x) \cup {x}
    BY DEF NotHigher, Lower
  <2>4. less(x) \cup {x} \in SUBSET S
    BY <2>0
  <2> HIDE DEF less
  <2>5. Cardinality(less(x) \cup {x}) = Cardinality(less(x)) + 1
    BY <2>1, <2>2, FS_AddElement
  <2>6. Cardinality(less(x) \cup {x}) <= N
    BY <2>4, FS_Subset
  <2>7. Cardinality(less(x)) \in Nat
    BY <2>1, FS_CardinalityType
  <2> QED BY <2>1, <2>3, <2>5, <2>6, <2>7
<1>3. ASSUME NEW x \in S, NEW y \in S, at[x] < at[y]
      PROVE  rank[x] < rank[y]
  <2>1. less(x) \cup {x} \in SUBSET less(y) /\ x \notin less(x)
    BY <1>3 DEF Lower
  <2>2. IsFiniteSet(less(x)) /\ IsFiniteSet(less(y))
    BY <1>2
  <2>3. Cardinality(less(x)) \in Nat /\ Cardinality(less(y)) \in Nat
    BY <1>2
  <2> HIDE DEF less
  <2>4. Cardinality(less(x) \cup {x}) = Cardinality(less(x)) + 1
    BY <2>1, <2>2, FS_AddElement
  <2>5. Cardinality(less(x) \cup {x}) <= Cardinality(less(y))
    BY <2>1, <2>2, FS_Subset
  <2> QED BY <2>3, <2>4, <2>5
<1>4. rank \in Injection(S, 1 .. N)
  <2>1. ASSUME NEW x \in S PROVE rank[x] \in 1 .. N
    <3>1. Cardinality(less(x)) \in Nat /\ Cardinality(less(x)) + 1 <= N
      BY <1>2
    <3> HIDE DEF less
    <3> QED BY <1>1, <3>1
  <2>2. rank \in [S -> 1 .. N]
    <3> HIDE DEF less
    <3> QED BY <2>1
  <2>3. ASSUME NEW x \in S, NEW y \in S, rank[x] = rank[y] PROVE x = y
    <3> HIDE DEF rank, less
    <3>1. rank[x] \in Int /\ rank[y] \in Int
      BY <2>3, <2>1
    <3>2. ~(at[x] < at[y]) /\ ~(at[y] < at[x])
      BY <1>3, <2>3, <3>1
    <3>3. at[x] = at[y]
      BY <3>2
    <3> QED BY <3>3
  <2> HIDE DEF rank
  <2>4. IsInjective(rank)
    BY <2>2, <2>3 DEF IsInjective
  <2> QED BY <2>2, <2>4 DEF Injection
<1>5. IsFiniteSet(1 .. N) /\ Cardinality(1 .. N) = N
  BY <1>1, FS_Interval
<1>6. rank \in Surjection(S, 1 .. N)
  <2> HIDE DEF rank
  <2> QED BY <1>4, <1>5, FS_Injection
<1>7. \A n \in 1 .. N : \E x \in S : rank[x] = n
  <2> HIDE DEF rank
  <2> QED BY <1>6 DEF Surjection
<1>8. \A x \in S : rank[x] \in 1 .. N
  <2> HIDE DEF rank
  <2> QED BY <1>4 DEF Injection
<1>9. \A x, y \in S : rank[x] = rank[y] => x = y
  <2> HIDE DEF rank
  <2> QED BY <1>4 DEF Injection, IsInjective
<1> DEFINE place == [n \in 1 .. N |-> CHOOSE x \in S : rank[x] = n]
<1>10. \A n \in 1 .. N : place[n] \in S /\ rank[place[n]] = n
  <2> HIDE DEF rank
  <2> QED BY <1>7
<1>11. place \in [1 .. N -> S]
  <2> HIDE DEF rank
  <2> QED BY <1>10
<1>12. ASSUME NEW n \in 1 .. N, NEW x \in S
       PROVE  /\ Cardinality(Lower(S, at, x)) < n
              /\ n <= Cardinality(NotHigher(S, at, x))
              <=> x = place[n]
  <2>1. Cardinality(less(x)) \in Nat /\ Cardinality(NotHigher(S, at, x)) = Cardinality(less(x)) + 1
    BY <1>2
  <2>2. rank[x] = Cardinality(less(x)) + 1
    OBVIOUS
  <2>3. less(x) = Lower(S, at, x)
    OBVIOUS
  <2>4. place[n] \in S /\ rank[place[n]] = n
    BY <1>10
  <2> HIDE DEF place, rank, less
  <2>5. x = place[n] <=> rank[x] = n
    BY <1>9, <2>4
  <2>6. rank[x] = n <=> Cardinality(less(x)) < n /\ n <= Cardinality(less(x)) + 1
    BY <2>1, <2>2
  <2> QED BY <2>1, <2>3, <2>5, <2>6
<1> HIDE DEF place, rank, less
<1>13. \A x \in S : \E n \in 1 .. N : place[n] = x
  BY <1>8, <1>9, <1>10
<1>14. ASSUME NEW m \in 1 .. N, NEW n \in 1 .. N, m < n
       PROVE  at[place[m]] < at[place[n]]
  <2>1. place[m] \in S /\ place[n] \in S /\ rank[place[m]] = m /\ rank[place[n]] = n
    BY <1>10
  <2>2. ~(at[place[n]] < at[place[m]])
    BY <1>3, <1>14, <2>1
  <2>3. at[place[n]] # at[place[m]]
    BY <1>14, <2>1
  <2> QED BY <2>1, <2>2, <2>3
<1> QED BY <1>11, <1>12, <1>13, <1>14

\* Two spans hold no byte in common.
Apart(r, s) == r.end <= s.start \/ s.end <= r.start

\* An input whose plans are spans of the archive that are apart from each other.
Sound(in) ==
  /\ in.len \in Nat /\ in.block \in Nat /\ in.gap \in Nat
  /\ IsFiniteSet(DOMAIN in.plans)
  /\ \A i \in DOMAIN in.plans : LET p == in.plans[i] IN
       p.start \in Nat /\ p.end \in Nat /\ p.start < p.end /\ p.end <= in.len
  /\ \A i, j \in DOMAIN in.plans : i # j => Apart(in.plans[i], in.plans[j])

Same(r, s) == r.start = s.start /\ r.end = s.end

Span == [start : Int, end : Int]

\* The spans of the plans, one after another.
SpansOf(in, s) ==
  /\ s \in Seq(Span)
  /\ \A n \in DOMAIN s : s[n].start < s[n].end /\ \E i \in DOMAIN in.plans : Same(s[n], in.plans[i])
  /\ \A i \in DOMAIN in.plans : \E n \in DOMAIN s : Same(s[n], in.plans[i])
  /\ \A m, n \in DOMAIN s : m < n => s[m].end <= s[n].start

\* What is kept of the plans is the plans, which differ by where they start.
LEMMA KeptAre ==
  ASSUME NEW in, Sound(in)
  PROVE  /\ IsFiniteSet(Kept(in))
         /\ \A r \in Kept(in) : /\ r.start \in Nat /\ r.end \in Nat /\ r.start < r.end
                                /\ r.plan \in DOMAIN in.plans /\ Same(r, in.plans[r.plan])
         /\ \A i \in DOMAIN in.plans : \E r \in Kept(in) : r.plan = i
         /\ \A q, r \in Kept(in) : q # r => Apart(q, r)
         /\ \A q, r \in Kept(in) : Before(q, r) <=> q.start < r.start
<1> DEFINE D == DOMAIN in.plans
           clamped == [i \in D |-> Clamped(in, i)]
<1>1. ASSUME NEW i \in D
      PROVE  /\ Clamped(in, i).plan = i
             /\ Clamped(in, i).start = in.plans[i].start /\ Clamped(in, i).end = in.plans[i].end
             /\ in.plans[i].start \in Nat /\ in.plans[i].end \in Nat /\ in.plans[i].start < in.plans[i].end
  <2>1. /\ in.len \in Nat /\ in.plans[i].start \in Nat /\ in.plans[i].end \in Nat
        /\ in.plans[i].start < in.plans[i].end /\ in.plans[i].end <= in.len
    BY DEF Sound
  <2> QED BY <2>1 DEF Clamped, Least
<1>2. Kept(in) = {Clamped(in, i) : i \in D}
  BY <1>1 DEF Kept
<1>3. IsFiniteSet(Kept(in))
  <2>1. clamped \in Surjection(D, Kept(in))
    BY <1>2 DEF Surjection
  <2>2. IsFiniteSet(D)
    BY DEF Sound
  <2> HIDE DEF clamped, D
  <2> QED BY <2>1, <2>2, FS_Surjection
<1>4. \A r \in Kept(in) : \E i \in D : r = Clamped(in, i)
  BY <1>2
<1>5. \A r \in Kept(in) : /\ r.start \in Nat /\ r.end \in Nat /\ r.start < r.end
                          /\ r.plan \in D /\ Same(r, in.plans[r.plan]) /\ r = Clamped(in, r.plan)
  BY <1>1, <1>4 DEF Same
<1>6. \A i \in D : \E r \in Kept(in) : r.plan = i
  BY <1>1, <1>2
<1>7. ASSUME NEW q \in Kept(in), NEW r \in Kept(in), q # r
      PROVE  Apart(q, r)
  <2>1. q.plan # r.plan
    BY <1>5, <1>7
  <2>2. Apart(in.plans[q.plan], in.plans[r.plan])
    BY <1>5, <2>1 DEF Sound
  <2> QED BY <1>5, <2>2 DEF Apart, Same
<1>8. ASSUME NEW q \in Kept(in), NEW r \in Kept(in)
      PROVE  Before(q, r) <=> q.start < r.start
  <2>1. q = r \/ Apart(q, r)
    BY <1>7
  <2> QED BY <1>5, <2>1 DEF Apart, Before
<1> HIDE DEF D
<1> QED BY <1>3, <1>5, <1>6, <1>7, <1>8 DEF D

\* The sorted spans.
LEMMA SpansAre ==
  ASSUME NEW in, Sound(in)
  PROVE  SpansOf(in, Spans(in))
<1> DEFINE K == Kept(in)
           N == Cardinality(K)
           at == [r \in K |-> r.start]
<1>1. IsFiniteSet(K) /\ N \in Nat
  BY KeptAre, FS_CardinalityType
<1>2. \A r \in K : r.start \in Nat /\ r.end \in Nat /\ r.start < r.end
  BY KeptAre
<1>3. at \in [K -> Int] /\ \A x, y \in K : at[x] = at[y] => x = y
  <2>1. at \in [K -> Int]
    BY <1>2
  <2>2. ASSUME NEW x \in K, NEW y \in K, x.start = y.start
        PROVE  x = y
    <3>1. x # y => Apart(x, y)
      BY KeptAre
    <3> QED BY <1>2, <2>2, <3>1 DEF Apart
  <2> QED BY <2>1, <2>2
<1>4. PICK place \in [1 .. N -> K] :
        /\ \A x \in K : \E n \in 1 .. N : place[n] = x
        /\ \A m, n \in 1 .. N : m < n => at[place[m]] < at[place[n]]
        /\ \A n \in 1 .. N, x \in K :
             /\ Cardinality(Lower(K, at, x)) < n
             /\ n <= Cardinality(NotHigher(K, at, x))
             <=> x = place[n]
  <2> HIDE DEF K, at
  <2>1. N = Cardinality(K)
    OBVIOUS
  <2> HIDE DEF N
  <2> QED BY <1>1, <1>3, <2>1, Places
<1>5. ASSUME NEW x \in K
      PROVE  /\ {y \in K : Before(y, x)} = Lower(K, at, x)
             /\ {y \in K : ~Before(x, y)} = NotHigher(K, at, x)
  <2>1. \A y \in K : (Before(y, x) <=> y.start < x.start) /\ (Before(x, y) <=> x.start < y.start)
    BY KeptAre
  <2>2. at[x] = x.start /\ \A y \in K : at[y] = y.start
    OBVIOUS
  <2> HIDE DEF K, at
  <2> QED BY <2>1, <2>2 DEF Lower, NotHigher
<1> DEFINE order == InOrder(K, Before)
<1>6. \A n \in 1 .. N : order[n] = place[n]
  <2>1. order = [n \in 1 .. N |-> CHOOSE x \in K :
                   /\ Cardinality({y \in K : Before(y, x)}) < n
                   /\ n <= Cardinality({y \in K : ~Before(x, y)})]
    BY DEF InOrder
  <2> HIDE DEF order, K, at, N
  <2> TAKE n \in 1 .. N
  <2>2. \A x \in K : /\ Cardinality({y \in K : Before(y, x)}) < n
                     /\ n <= Cardinality({y \in K : ~Before(x, y)})
                     <=> x = place[n]
    BY <1>4, <1>5
  <2>3. place[n] \in K
    BY <1>4
  <2> QED BY <2>1, <2>2, <2>3
<1>7. DOMAIN order = 1 .. N
  BY DEF InOrder
<1>8. Spans(in) = [n \in 1 .. N |-> [start |-> order[n].start, end |-> order[n].end]]
  BY <1>7 DEF Spans
<1> DEFINE s == Spans(in)
<1>9. /\ DOMAIN s = 1 .. N
      /\ \A n \in 1 .. N : s[n] = [start |-> place[n].start, end |-> place[n].end]
  BY <1>6, <1>8
<1> HIDE DEF order, s, N
<1>10. \A n \in 1 .. N : place[n] \in K /\ s[n] \in Span /\ Same(s[n], place[n]) /\ s[n].start < s[n].end
  BY <1>2, <1>4, <1>9 DEF Span, Same
<1>11. s \in Seq(Span)
  <2>1. s \in [1 .. N -> Span]
    BY <1>8, <1>9, <1>10 DEF s
  <2> QED BY <1>1, <2>1
<1>12. ASSUME NEW n \in 1 .. N
       PROVE  \E i \in DOMAIN in.plans : Same(s[n], in.plans[i])
  <2>1. place[n] \in K /\ Same(s[n], place[n])
    BY <1>10
  <2>2. place[n].plan \in DOMAIN in.plans /\ Same(place[n], in.plans[place[n].plan])
    BY <2>1, KeptAre
  <2> QED BY <2>1, <2>2 DEF Same
<1>13. ASSUME NEW i \in DOMAIN in.plans
       PROVE  \E n \in 1 .. N : Same(s[n], in.plans[i])
  <2>1. PICK r \in K : r.plan = i
    BY KeptAre
  <2>2. Same(r, in.plans[i])
    BY <2>1, KeptAre
  <2>3. PICK n \in 1 .. N : place[n] = r
    BY <1>4
  <2>4. Same(s[n], r)
    BY <1>10, <2>3
  <2> QED BY <2>2, <2>4 DEF Same
<1>14. ASSUME NEW m \in 1 .. N, NEW n \in 1 .. N, m < n
       PROVE  s[m].end <= s[n].start
  <2>1. place[m] \in K /\ place[n] \in K /\ Same(s[m], place[m]) /\ Same(s[n], place[n])
    BY <1>10
  <2>2. at[place[m]] < at[place[n]]
    BY <1>4, <1>14
  <2>3. place[m].start < place[n].start
    BY <2>1, <2>2
  <2>4. /\ place[m].start \in Nat /\ place[m].end \in Nat /\ place[m].start < place[m].end
        /\ place[n].start \in Nat /\ place[n].end \in Nat /\ place[n].start < place[n].end
    BY <1>2, <2>1
  <2>5. place[m] # place[n]
    BY <2>3, <2>4
  <2>6. Apart(place[m], place[n])
    BY <2>1, <2>5, KeptAre
  <2> HIDE DEF at
  <2> QED BY <2>1, <2>3, <2>4, <2>6 DEF Apart, Same
<1> QED BY <1>9, <1>10, <1>11, <1>12, <1>13, <1>14 DEF SpansOf, s

\* One step of the loop that joins the spans gives a span.
LEMMA AfterIsSpan ==
  ASSUME NEW in, NEW r \in Span, NEW s \in Span
  PROVE  After(in, r, s) \in Span
  BY DEF After, Span, Greatest

\* The loop that joins the spans, span by span.
LEMMA CoalescedIs ==
  ASSUME NEW in, Spans(in) \in Seq(Span)
  PROVE  /\ Coalesced(in) \in [DOMAIN Spans(in) -> Span]
         /\ \A n \in DOMAIN Spans(in) :
              Coalesced(in)[n] = IF n = 1 THEN Spans(in)[n] ELSE After(in, Coalesced(in)[n - 1], Spans(in)[n])
<1> DEFINE s == Spans(in)
           N == Len(s)
           Is(c) == c = [n \in DOMAIN s |-> IF n = 1 THEN s[n] ELSE After(in, c[n - 1], s[n])]
           step == [n \in 1 .. N |-> [t \in Span |-> IF n = 1 THEN s[n] ELSE After(in, t, s[n])]]
           none == [start |-> 0, end |-> 0]
<1>1. N \in Nat /\ DOMAIN s = 1 .. N /\ \A n \in 1 .. N : s[n] \in Span
  OBVIOUS
<1>2. none \in Span
  BY DEF Span
<1>3. step \in [1 .. N -> [Span -> Span]]
  <2> HIDE DEF s, N
  <2> QED BY <1>1, AfterIsSpan
<1>4. \A t \in Span, n \in 1 .. N : step[n][t] = IF n = 1 THEN s[n] ELSE After(in, t, s[n])
  <2> HIDE DEF s, N
  <2> QED OBVIOUS
<1>5. PICK f : Repeats(Span, N, none, step, f)
  <2> HIDE DEF step, none, N, s
  <2> QED BY <1>1, <1>2, <1>3, Recursion
<1>6. f \in [0 .. N -> Span] /\ \A n \in 1 .. N : f[n] = step[n][f[n - 1]]
  <2> HIDE DEF step, none, N, s
  <2> QED BY <1>5 DEF Repeats
<1> DEFINE g == [n \in 1 .. N |-> f[n]]
<1>7. Is(g)
  <2>1. ASSUME NEW n \in 1 .. N
        PROVE  f[n] = IF n = 1 THEN s[n] ELSE After(in, g[n - 1], s[n])
    <3> HIDE DEF step, s, N
    <3>1. n - 1 \in 0 .. N /\ f[n - 1] \in Span
      BY <1>1, <1>6
    <3>2. f[n] = IF n = 1 THEN s[n] ELSE After(in, f[n - 1], s[n])
      BY <1>4, <1>6, <3>1
    <3>3. n # 1 => g[n - 1] = f[n - 1]
      BY <1>1
    <3> QED BY <3>2, <3>3
  <2> HIDE DEF step, s, N
  <2> QED BY <1>1, <2>1
<1>8. Coalesced(in) = CHOOSE c : Is(c)
  BY DEF Coalesced
<1>9. Is(Coalesced(in))
  <2> HIDE DEF Is, g
  <2> QED BY <1>7, <1>8
<1> DEFINE c == Coalesced(in)
<1>10. DOMAIN c = 1 .. N
  BY <1>1, <1>9
<1>11. \A n \in 1 .. N : c[n] = IF n = 1 THEN s[n] ELSE After(in, c[n - 1], s[n])
  <2>1. c = [n \in 1 .. N |-> IF n = 1 THEN s[n] ELSE After(in, c[n - 1], s[n])]
    BY <1>1, <1>9
  <2> HIDE DEF c, s, N
  <2> QED BY <2>1
<1>12. \A n \in 1 .. N : c[n] \in Span
  <2> DEFINE Bad == {n \in 1 .. N : c[n] \notin Span}
  <2> SUFFICES ASSUME Bad # {} PROVE FALSE
    OBVIOUS
  <2>1. Bad \in SUBSET Nat
    BY <1>1
  <2> HIDE DEF Bad
  <2>2. PICK m \in Bad : \A n \in Bad : m <= n
    BY <2>1, LeastNumber
  <2>3. m \in 1 .. N /\ c[m] \notin Span
    BY <2>2 DEF Bad
  <2> HIDE DEF c, s, N
  <2>4. CASE m = 1
    BY <1>1, <1>11, <2>3, <2>4
  <2>5. CASE m # 1
    <3>1. m - 1 \in 1 .. N /\ m - 1 \notin Bad
      BY <1>1, <2>2, <2>3, <2>5
    <3>2. c[m - 1] \in Span
      BY <3>1 DEF Bad
    <3> QED BY <1>1, <1>11, <2>3, <2>5, <3>2, AfterIsSpan
  <2> QED BY <2>4, <2>5
<1>13. c = [n \in DOMAIN c |-> c[n]]
  <2>1. c = [n \in 1 .. N |-> IF n = 1 THEN s[n] ELSE After(in, c[n - 1], s[n])]
    BY <1>1, <1>9
  <2> HIDE DEF c, s, N
  <2> QED BY <2>1
<1> HIDE DEF c, s, N, Is
<1> QED BY <1>1, <1>10, <1>11, <1>12, <1>13 DEF c, s

\* A division, and the order of products.
LEMMA Divided ==
  ASSUME NEW a \in Nat, NEW u \in Nat \ {0}
  PROVE  a \div u \in Nat /\ (a \div u) * u <= a /\ a < (a \div u) * u + u
  OBVIOUS

LEMMA Products ==
  ASSUME NEW i \in Int, NEW j \in Int, NEW u \in Nat
  PROVE  /\ i * u \in Int /\ (i - 1) * u = i * u - u
         /\ i <= j => i * u <= j * u
<1>1. i * u \in Int /\ (i - 1) * u = i * u - u
  OBVIOUS
<1>2. ASSUME i <= j PROVE i * u <= j * u
  <2>1. j - i \in Nat
    BY <1>2
  <2>2. (j - i) * u \in Nat
    BY <2>1
  <2>3. j * u = i * u + (j - i) * u
    OBVIOUS
  <2> DEFINE a == i * u
             b == j * u
             c == (j - i) * u
  <2>4. a \in Int /\ b \in Int /\ c \in Nat /\ b = a + c
    BY <2>2, <2>3
  <2> HIDE DEF a, b, c
  <2>5. a <= b
    BY <2>4
  <2> QED BY <2>5 DEF a, b
<1> QED BY <1>1, <1>2

\* The blocks of one span: they lie in it, one after another, none is longer than a
\* block, they hold all of it, and a span no longer than a block is one block.
LEMMA TilesAre ==
  ASSUME NEW in, in.block \in Nat, NEW r \in Span, r.start < r.end
  PROVE  /\ BlockSize(in) \in Nat \ {0}
         /\ Tiles(in, r) \in Seq(Span)
         /\ \A i \in DOMAIN Tiles(in, r) : LET t == Tiles(in, r)[i] IN
              /\ r.start <= t.start /\ t.start < t.end /\ t.end <= r.end
              /\ t.end - t.start <= BlockSize(in)
         /\ \A i, j \in DOMAIN Tiles(in, r) : i < j => Tiles(in, r)[i].end <= Tiles(in, r)[j].start
         /\ \A x \in Bytes(r) : \E i \in DOMAIN Tiles(in, r) : x \in Bytes(Tiles(in, r)[i])
         /\ r.end - r.start <= BlockSize(in) => \A i \in DOMAIN Tiles(in, r) : Same(Tiles(in, r)[i], r)
<1> DEFINE B == BlockSize(in)
           L == r.end - r.start
           n == (L + B - 1) \div B
           t == Tiles(in, r)
<1>1. B \in Nat \ {0}
  BY DEF BlockSize, Greatest
<1>2. r.start \in Int /\ r.end \in Int /\ L \in Nat /\ 1 <= L
  BY DEF Span
<1>3. t = [i \in 1 .. n |-> [start |-> r.start + (i - 1) * B, end |-> Least(r.start + i * B, r.end)]]
  BY DEF Tiles
<1>4. n \in Nat /\ n * B <= L + B - 1 /\ L <= n * B
  <2> DEFINE a == L + B - 1
  <2>1. a \in Nat
    BY <1>1, <1>2
  <2> HIDE DEF a, B, L
  <2>2. a \div B \in Nat /\ (a \div B) * B <= a /\ a < (a \div B) * B + B
    BY <1>1, <2>1, Divided
  <2> DEFINE p == (a \div B) * B
  <2>3. p \in Int /\ p <= a /\ a < p + B
    BY <1>1, <2>2
  <2> HIDE DEF p
  <2>4. L <= p
    BY <1>1, <1>2, <2>1, <2>3 DEF a
  <2> QED BY <2>2, <2>3, <2>4 DEF a, p
<1> HIDE DEF B, L, n, t
<1>5. ASSUME NEW i \in 1 .. n
      PROVE  /\ i * B \in Int /\ i * B <= n * B
             /\ t[i] = [start |-> r.start + (i * B - B), end |-> Least(r.start + i * B, r.end)]
  <2>1. i \in Int /\ n \in Int /\ i <= n
    BY <1>4
  <2>2. i * B \in Int /\ (i - 1) * B = i * B - B /\ i * B <= n * B
    BY <1>1, <2>1, Products
  <2>3. t[i] = [start |-> r.start + (i - 1) * B, end |-> Least(r.start + i * B, r.end)]
    BY <1>3
  <2> QED BY <2>2, <2>3
<1>6. DOMAIN t = 1 .. n
  BY <1>3
<1>7. ASSUME NEW i \in 1 .. n
      PROVE  /\ t[i] \in Span
             /\ r.start <= t[i].start /\ t[i].start < t[i].end /\ t[i].end <= r.end
             /\ t[i].end - t[i].start <= B
             /\ t[i].start = r.start + (i * B - B) /\ t[i].end <= r.start + i * B
             /\ t[i].end = r.start + i * B \/ t[i].end = r.end
  <2> DEFINE p == i * B
             q == n * B
  <2>1. p \in Int /\ p <= q /\ q <= L + B - 1 /\ q \in Int
    <3>1. n \in Int
      BY <1>4
    <3> QED BY <1>1, <1>4, <1>5, <3>1, Products
  <2>2. B <= p
    <3>1. i \in Int /\ 1 <= i
      BY <1>4
    <3>2. 1 * B <= i * B
      BY <1>1, <3>1, Products
    <3> QED BY <1>1, <3>2
  <2>3. t[i] = [start |-> r.start + (p - B), end |-> Least(r.start + p, r.end)]
    BY <1>5
  <2> HIDE DEF p, q
  <2>4. r.end = r.start + L
    BY <1>2 DEF L
  <2>5. /\ t[i].start = r.start + (p - B) /\ t[i].start \in Int
        /\ t[i].end = Least(r.start + p, r.end) /\ t[i].end \in Int
    BY <1>1, <1>2, <2>1, <2>3 DEF Least
  <2>6. t[i] \in Span
    BY <2>3, <2>5 DEF Span
  <2>7. /\ r.start <= t[i].start /\ t[i].start < t[i].end /\ t[i].end <= r.end
        /\ t[i].end - t[i].start <= B /\ t[i].end <= r.start + p
        /\ t[i].end = r.start + p \/ t[i].end = r.end
    BY <1>1, <1>2, <2>1, <2>2, <2>4, <2>5 DEF Least
  <2> QED BY <2>5, <2>6, <2>7 DEF p
<1>8. t \in Seq(Span)
  <2>1. t \in [1 .. n -> Span]
    BY <1>3, <1>6, <1>7
  <2> QED BY <1>4, <2>1
<1>9. ASSUME NEW i \in 1 .. n, NEW j \in 1 .. n, i < j
      PROVE  t[i].end <= t[j].start
  <2>1. i \in Int /\ j \in Int /\ j - 1 \in Int /\ i <= j - 1
    BY <1>4, <1>9
  <2>2. i * B \in Int /\ j * B \in Int /\ (j - 1) * B = j * B - B /\ i * B <= (j - 1) * B
    BY <1>1, <2>1, Products
  <2> DEFINE p == i * B
             q == j * B
  <2>3. p \in Int /\ q \in Int /\ p <= q - B
    BY <2>2
  <2>4. t[i] \in Span /\ t[j] \in Span /\ t[i].end <= r.start + p /\ t[j].start = r.start + (q - B)
    BY <1>7
  <2> HIDE DEF p, q
  <2>5. t[i].end \in Int
    BY <2>4 DEF Span
  <2> QED BY <1>1, <1>2, <2>3, <2>4, <2>5
<1>10. ASSUME NEW x \in Bytes(r)
       PROVE  \E i \in 1 .. n : x \in Bytes(t[i])
  <2> DEFINE a == x - r.start
             k == a \div B
             p == k * B
  <2>1. x \in Int /\ r.start <= x /\ x < r.end /\ a \in Nat /\ a < L
    BY <1>2 DEF Bytes, L
  <2> HIDE DEF a
  <2>2. k \in Nat /\ p <= a /\ a < p + B
    BY <1>1, <2>1, Divided
  <2> HIDE DEF k
  <2>3. p \in Int /\ (k + 1) * B = p + B
    <3>1. k + 1 \in Int /\ k \in Int
      BY <2>2
    <3>2. (k + 1 - 1) * B = (k + 1) * B - B /\ (k + 1) * B \in Int
      BY <1>1, <3>1, Products
    <3>3. k + 1 - 1 = k
      BY <3>1
    <3> QED BY <1>1, <3>1, <3>2, <3>3
  <2>4. k + 1 \in 1 .. n
    <3> SUFFICES ASSUME ~(k + 1 <= n) PROVE FALSE
      BY <1>4, <2>2
    <3>1. n <= k /\ n \in Int /\ k \in Int
      BY <1>4, <2>2
    <3>2. n * B <= p
      BY <1>1, <3>1, Products
    <3>3. n * B \in Int
      BY <1>1, <3>1, Products
    <3> HIDE DEF p
    <3> DEFINE q == n * B
    <3>4. q \in Int /\ q <= p /\ L <= q
      BY <1>4, <3>2, <3>3
    <3> HIDE DEF q
    <3> QED BY <1>2, <2>1, <2>2, <2>3, <3>4
  <2>5. /\ t[k + 1] \in Span /\ t[k + 1].start = r.start + ((k + 1) * B - B)
        /\ t[k + 1].end = r.start + (k + 1) * B \/ t[k + 1].end = r.end
    BY <1>7, <2>4
  <2> HIDE DEF p
  <2>6. t[k + 1].start = r.start + p /\ (t[k + 1].end = r.start + (p + B) \/ t[k + 1].end = r.end)
    BY <1>1, <2>3, <2>5
  <2>7. x = r.start + a
    BY <1>2, <2>1 DEF a
  <2>8. x \in Bytes(t[k + 1])
    BY <1>1, <1>2, <2>1, <2>2, <2>3, <2>6, <2>7 DEF Bytes
  <2> QED BY <2>4, <2>8
<1>11. ASSUME L <= B, NEW i \in 1 .. n
       PROVE  Same(t[i], r)
  <2>1. n = 1
    <3> SUFFICES ASSUME n >= 2 PROVE FALSE
      BY <1>4
    <3>1. 2 * B <= n * B /\ n * B \in Int
      <4>1. n \in Int /\ 2 \in Int /\ 2 <= n
        BY <1>4
      <4> QED BY <1>1, <4>1, Products
    <3> DEFINE q == n * B
    <3>2. q \in Int /\ 2 * B <= q /\ q <= L + B - 1
      BY <1>4, <3>1
    <3> HIDE DEF q
    <3> QED BY <1>1, <1>2, <1>11, <3>2
  <2>2. i = 1
    BY <2>1
  <2>3. t[i] \in Span /\ t[i].start = r.start + (1 * B - B) /\ t[i].end <= r.end
        /\ (t[i].end = r.start + 1 * B \/ t[i].end = r.end)
    BY <1>7, <2>2
  <2>4. r.end = r.start + L
    BY <1>2 DEF L
  <2> QED BY <1>1, <1>2, <1>11, <2>3, <2>4 DEF Same, Span
<1>12. \A i \in 1 .. n : /\ r.start <= t[i].start /\ t[i].start < t[i].end /\ t[i].end <= r.end
                         /\ t[i].end - t[i].start <= B
  BY <1>7
<1> QED BY <1>1, <1>6, <1>8, <1>9, <1>10, <1>11, <1>12 DEF t, B, L

\* The spans from the m-th to the n-th are joined, when the loop has taken n spans.
Group(in, m, n) ==
  /\ Coalesced(in)[n].start = Spans(in)[m].start /\ Coalesced(in)[n].end = Spans(in)[n].end
  /\ \A k \in m .. n - 1 :
       /\ Joins(in, Coalesced(in)[k], Spans(in)[k + 1])
       /\ Spans(in)[k + 1].start - Spans(in)[k].end <= in.gap
  /\ m < n => Spans(in)[n].end - Spans(in)[m].start <= BlockSize(in)

\* No span joins the n-th any more.
Complete(in, n) == ~(n < Len(Spans(in)) /\ Joins(in, Coalesced(in)[n], Spans(in)[n + 1]))

\* What the facts about the spans say of their numbers.
LEMMA SpanNumbers ==
  ASSUME NEW in, Sound(in)
  PROVE  /\ Len(Spans(in)) \in Nat /\ DOMAIN Spans(in) = 1 .. Len(Spans(in))
         /\ \A n \in 1 .. Len(Spans(in)) :
              /\ Spans(in)[n] \in Span
              /\ Spans(in)[n].start \in Int /\ Spans(in)[n].end \in Int
              /\ Spans(in)[n].start < Spans(in)[n].end
              /\ Coalesced(in)[n] \in Span
              /\ Coalesced(in)[n].start \in Int /\ Coalesced(in)[n].end \in Int
         /\ \A m, n \in 1 .. Len(Spans(in)) : m < n => Spans(in)[m].end <= Spans(in)[n].start
         /\ \A n \in 1 .. Len(Spans(in)) :
              Coalesced(in)[n] = IF n = 1 THEN Spans(in)[n] ELSE After(in, Coalesced(in)[n - 1], Spans(in)[n])
         /\ in.gap \in Nat /\ BlockSize(in) \in Nat \ {0}
<1>1. Spans(in) \in Seq(Span) /\ SpansOf(in, Spans(in))
  BY SpansAre DEF SpansOf
<1>2. DOMAIN Spans(in) = 1 .. Len(Spans(in)) /\ Len(Spans(in)) \in Nat
  BY <1>1
<1>3. \A n \in 1 .. Len(Spans(in)) : Spans(in)[n] \in Span
  BY <1>1, <1>2
<1>4. /\ Coalesced(in) \in [DOMAIN Spans(in) -> Span]
      /\ \A n \in DOMAIN Spans(in) :
           Coalesced(in)[n] = IF n = 1 THEN Spans(in)[n] ELSE After(in, Coalesced(in)[n - 1], Spans(in)[n])
  BY <1>1, CoalescedIs
<1>5. \A n \in 1 .. Len(Spans(in)) : Coalesced(in)[n] \in Span
  BY <1>2, <1>4
<1>6. \A r \in Span : r.start \in Int /\ r.end \in Int
  BY DEF Span
<1>7. in.gap \in Nat /\ BlockSize(in) \in Nat \ {0}
  BY DEF Sound, BlockSize, Greatest
<1>8. /\ \A n \in 1 .. Len(Spans(in)) : Spans(in)[n].start < Spans(in)[n].end
      /\ \A m, n \in 1 .. Len(Spans(in)) : m < n => Spans(in)[m].end <= Spans(in)[n].start
  BY <1>1, <1>2 DEF SpansOf
<1> QED BY <1>2, <1>3, <1>4, <1>5, <1>6, <1>7, <1>8

LEMMA GroupsAre ==
  ASSUME NEW in, Sound(in)
  PROVE  \A n \in 1 .. Len(Spans(in)) : \E m \in 1 .. n : Group(in, m, n)
<1> DEFINE s == Spans(in)
           c == Coalesced(in)
           N == Len(s)
           B == BlockSize(in)
           Bad == {n \in 1 .. N : ~ \E m \in 1 .. n : Group(in, m, n)}
<1>1. /\ N \in Nat /\ in.gap \in Nat /\ B \in Nat
      /\ \A n \in 1 .. N : /\ s[n].start \in Int /\ s[n].end \in Int /\ s[n].start < s[n].end
                           /\ c[n].start \in Int /\ c[n].end \in Int
                           /\ c[n] = IF n = 1 THEN s[n] ELSE After(in, c[n - 1], s[n])
      /\ \A m, n \in 1 .. N : m < n => s[m].end <= s[n].start
  BY SpanNumbers
<1>2. ASSUME NEW n \in 1 .. N, c[n] = s[n]
      PROVE  Group(in, n, n)
  <2>1. n .. n - 1 = {} /\ ~(n < n)
    BY <1>1
  <2> QED BY <1>2, <2>1 DEF Group
<1>3. ASSUME NEW n \in 1 .. N, n # 1, NEW m \in 1 .. n - 1, Group(in, m, n - 1), Joins(in, c[n - 1], s[n])
      PROVE  Group(in, m, n)
  <2>1. n - 1 \in 1 .. N /\ m \in 1 .. N /\ n - 1 < n /\ m < n /\ n \in Int /\ m \in Int
    BY <1>1, <1>3
  <2>2. /\ c[n - 1].start = s[m].start /\ c[n - 1].end = s[n - 1].end
        /\ \A k \in m .. n - 1 - 1 : Joins(in, c[k], s[k + 1]) /\ s[k + 1].start - s[k].end <= in.gap
    BY <1>3 DEF Group
  <2>3. c[n] = [start |-> c[n - 1].start, end |-> Greatest(c[n - 1].end, s[n].end)]
    BY <1>1, <1>3 DEF After
  <2>4. /\ s[n].start \in Int /\ s[n].end \in Int /\ s[n].start < s[n].end
        /\ s[n - 1].end \in Int /\ s[n - 1].end <= s[n].start /\ s[m].start \in Int
    BY <1>1, <2>1
  <2>5. c[n].start = s[m].start /\ c[n].end = s[n].end
    BY <2>2, <2>3, <2>4 DEF Greatest
  <2>6. s[n].start - s[n - 1].end <= in.gap /\ s[n].end - s[m].start <= B
    <3>1. Greatest(s[n].start - c[n - 1].end, 0) <= in.gap /\ Greatest(c[n - 1].end, s[n].end) - c[n - 1].start <= B
      BY <1>3 DEF Joins
    <3> HIDE DEF s, c, B
    <3> QED BY <1>1, <2>2, <2>4, <3>1 DEF Greatest
  <2>7. ASSUME NEW k \in m .. n - 1
        PROVE  Joins(in, c[k], s[k + 1]) /\ s[k + 1].start - s[k].end <= in.gap
    <3>1. CASE k = n - 1
      <4>1. k + 1 = n
        BY <2>1, <3>1
      <4> QED BY <1>3, <2>6, <3>1, <4>1
    <3>2. CASE k # n - 1
      <4>1. k \in m .. n - 1 - 1
        BY <2>1, <3>2
      <4> QED BY <2>2, <4>1
    <3> QED BY <3>1, <3>2
  <2> QED BY <2>5, <2>6, <2>7 DEF Group
<1>4. Bad = {}
  <2> SUFFICES ASSUME Bad # {} PROVE FALSE
    OBVIOUS
  <2>1. Bad \in SUBSET Nat
    BY <1>1
  <2> HIDE DEF Bad
  <2>2. PICK n \in Bad : \A k \in Bad : n <= k
    BY <2>1, LeastNumber
  <2>3. n \in 1 .. N /\ n \in Nat
    BY <1>1, <2>2 DEF Bad
  <2>4. \A m \in 1 .. n : ~Group(in, m, n)
    BY <2>2 DEF Bad
  <2>5. n # 1 /\ c[n] = After(in, c[n - 1], s[n]) /\ c[n] # s[n]
    <3>1. n \in 1 .. n
      BY <2>3
    <3>2. c[n] # s[n]
      BY <1>2, <2>3, <2>4, <3>1
    <3> HIDE DEF s, c, N
    <3> QED BY <1>1, <2>3, <3>2
  <2>6. n - 1 \in 1 .. N /\ n - 1 \notin Bad
    BY <1>1, <2>2, <2>3, <2>5
  <2>7. PICK m \in 1 .. n - 1 : Group(in, m, n - 1)
    BY <2>6 DEF Bad
  <2>8. Joins(in, c[n - 1], s[n])
    BY <2>5 DEF After
  <2>9. Group(in, m, n)
    BY <1>3, <2>3, <2>5, <2>7, <2>8
  <2>10. m \in 1 .. n
    BY <2>3, <2>7
  <2> QED BY <2>4, <2>9, <2>10
<1>5. \A n \in 1 .. N : \E m \in 1 .. n : Group(in, m, n)
  <2> TAKE n \in 1 .. N
  <2>1. ~ (~ \E m \in 1 .. n : Group(in, m, n))
    BY <1>4, Zenon
  <2> QED BY <2>1
<1> QED BY <1>5

\* A group begins behind every span that is complete before.
LEMMA GroupsApart ==
  ASSUME NEW in, Sound(in), NEW n \in 1 .. Len(Spans(in)), NEW m \in 1 .. n, Group(in, m, n),
         NEW g \in 1 .. n - 1, Complete(in, g)
  PROVE  g < m
<1>1. Len(Spans(in)) \in Nat
  BY SpanNumbers
<1>2. n \in Int /\ m \in Int /\ g \in Int /\ g < Len(Spans(in))
  BY <1>1
<1>3. ~Joins(in, Coalesced(in)[g], Spans(in)[g + 1])
  BY <1>2 DEF Complete
<1>4. g \notin m .. n - 1
  BY <1>3 DEF Group
<1> QED BY <1>2, <1>4

\* What stands at the places of two sequences of spans that are joined.
LEMMA JoinedAre ==
  ASSUME NEW q \in Seq(Span), NEW t \in Seq(Span)
  PROVE  /\ q \o t \in Seq(Span)
         /\ Len(q) \in Nat /\ Len(t) \in Nat
         /\ DOMAIN q = 1 .. Len(q) /\ DOMAIN t = 1 .. Len(t)
         /\ DOMAIN (q \o t) = 1 .. Len(q) + Len(t)
         /\ \A b \in 1 .. Len(q) : (q \o t)[b] = q[b]
         /\ \A b \in 1 .. Len(t) : (q \o t)[Len(q) + b] = t[b]
         /\ \A b \in 1 .. Len(q) + Len(t) : b \in 1 .. Len(q) \/ b - Len(q) \in 1 .. Len(t)
  OBVIOUS

\* Blocks laid for the spans up to the n-th: the blocks of their complete groups, all of
\* them, one after another.
Laid(in, n, blocks) ==
  /\ blocks \in Seq(Span)
  /\ \A b \in DOMAIN blocks : \E g \in 1 .. n :
       Complete(in, g) /\ \E i \in DOMAIN Tiles(in, Coalesced(in)[g]) : blocks[b] = Tiles(in, Coalesced(in)[g])[i]
  /\ \A g \in 1 .. n : Complete(in, g) =>
       \A i \in DOMAIN Tiles(in, Coalesced(in)[g]) : \E b \in DOMAIN blocks : blocks[b] = Tiles(in, Coalesced(in)[g])[i]
  /\ \A a, b \in DOMAIN blocks : a < b => blocks[a].end <= blocks[b].start

\* What the blocks of a group are.
LEMMA GroupTiles ==
  ASSUME NEW in, Sound(in), NEW n \in 1 .. Len(Spans(in))
  PROVE  /\ Tiles(in, Coalesced(in)[n]) \in Seq(Span)
         /\ Coalesced(in)[n] \in Span /\ Coalesced(in)[n].start < Coalesced(in)[n].end
         /\ \A i \in DOMAIN Tiles(in, Coalesced(in)[n]) : LET t == Tiles(in, Coalesced(in)[n])[i] IN
              /\ Coalesced(in)[n].start <= t.start /\ t.start < t.end /\ t.end <= Coalesced(in)[n].end
              /\ t.end - t.start <= BlockSize(in)
         /\ \A i, j \in DOMAIN Tiles(in, Coalesced(in)[n]) :
              i < j => Tiles(in, Coalesced(in)[n])[i].end <= Tiles(in, Coalesced(in)[n])[j].start
         /\ \A x \in Bytes(Coalesced(in)[n]) : \E i \in DOMAIN Tiles(in, Coalesced(in)[n]) :
              x \in Bytes(Tiles(in, Coalesced(in)[n])[i])
         /\ Coalesced(in)[n].end - Coalesced(in)[n].start <= BlockSize(in) =>
              \A i \in DOMAIN Tiles(in, Coalesced(in)[n]) : Same(Tiles(in, Coalesced(in)[n])[i], Coalesced(in)[n])
<1> DEFINE r == Coalesced(in)[n]
<1>1. PICK m \in 1 .. n : Group(in, m, n)
  BY GroupsAre
<1>2. n \in Int /\ m \in 1 .. Len(Spans(in)) /\ m <= n
  BY SpanNumbers
<1>3. r.start = Spans(in)[m].start /\ r.end = Spans(in)[n].end
  BY <1>1 DEF Group
<1>4. /\ r \in Span
      /\ Spans(in)[m].start < Spans(in)[m].end /\ Spans(in)[n].start < Spans(in)[n].end
      /\ m < n => Spans(in)[m].end <= Spans(in)[n].start
      /\ Spans(in)[m].start \in Int /\ Spans(in)[m].end \in Int
      /\ Spans(in)[n].start \in Int /\ Spans(in)[n].end \in Int
  BY <1>2, SpanNumbers
<1>5. r.start < r.end
  <2> HIDE DEF r
  <2> QED BY <1>2, <1>3, <1>4
<1>6. in.block \in Nat
  BY DEF Sound
<1> HIDE DEF r
<1>7. /\ Tiles(in, r) \in Seq(Span)
      /\ \A i \in DOMAIN Tiles(in, r) : LET t == Tiles(in, r)[i] IN
           /\ r.start <= t.start /\ t.start < t.end /\ t.end <= r.end
           /\ t.end - t.start <= BlockSize(in)
      /\ \A i, j \in DOMAIN Tiles(in, r) : i < j => Tiles(in, r)[i].end <= Tiles(in, r)[j].start
      /\ \A x \in Bytes(r) : \E i \in DOMAIN Tiles(in, r) : x \in Bytes(Tiles(in, r)[i])
      /\ r.end - r.start <= BlockSize(in) => \A i \in DOMAIN Tiles(in, r) : Same(Tiles(in, r)[i], r)
  BY <1>4, <1>5, <1>6, TilesAre
<1> QED BY <1>4, <1>5, <1>7 DEF r

\* The blocks of a span that is complete are laid behind the others.
LEMMA TilesAreLaid ==
  ASSUME NEW in, Sound(in), NEW n \in 1 .. Len(Spans(in)), Complete(in, n),
         NEW q, Laid(in, n - 1, q)
  PROVE  Laid(in, n, q \o Tiles(in, Coalesced(in)[n]))
<1> DEFINE c == Coalesced(in)
           t == Tiles(in, c[n])
           z == q \o t
<1>1. q \in Seq(Span) /\ t \in Seq(Span)
  BY GroupTiles DEF Laid
<1>2. /\ z \in Seq(Span)
      /\ Len(q) \in Nat /\ Len(t) \in Nat
      /\ DOMAIN q = 1 .. Len(q) /\ DOMAIN t = 1 .. Len(t)
      /\ DOMAIN z = 1 .. Len(q) + Len(t)
      /\ \A b \in 1 .. Len(q) : z[b] = q[b]
      /\ \A b \in 1 .. Len(t) : z[Len(q) + b] = t[b]
      /\ \A b \in 1 .. Len(q) + Len(t) : b \in 1 .. Len(q) \/ b - Len(q) \in 1 .. Len(t)
  <2> HIDE DEF t
  <2> QED BY <1>1, JoinedAre
<1>3. n \in Nat /\ n \in 1 .. n /\ \A g \in 1 .. n : g = n \/ g \in 1 .. n - 1
  BY SpanNumbers
<1>4. \A b \in DOMAIN q : \E g \in 1 .. n - 1 :
        Complete(in, g) /\ \E i \in DOMAIN Tiles(in, c[g]) : q[b] = Tiles(in, c[g])[i]
  BY DEF Laid
<1>5. \A g \in 1 .. n - 1 : Complete(in, g) =>
        \A i \in DOMAIN Tiles(in, c[g]) : \E b \in DOMAIN q : q[b] = Tiles(in, c[g])[i]
  BY DEF Laid
<1>6. \A a, b \in DOMAIN q : a < b => q[a].end <= q[b].start
  BY DEF Laid
<1> HIDE DEF z
<1>7. ASSUME NEW b \in DOMAIN z
      PROVE  \E g \in 1 .. n : Complete(in, g) /\ \E i \in DOMAIN Tiles(in, c[g]) : z[b] = Tiles(in, c[g])[i]
  <2>1. CASE b \in 1 .. Len(q)
    <3>1. z[b] = q[b] /\ b \in DOMAIN q
      BY <1>2, <2>1
    <3>2. PICK g \in 1 .. n - 1 : Complete(in, g) /\ \E i \in DOMAIN Tiles(in, c[g]) : q[b] = Tiles(in, c[g])[i]
      BY <1>4, <3>1
    <3>3. g \in 1 .. n
      BY <1>3, <3>2
    <3> QED BY <3>1, <3>2, <3>3
  <2>2. CASE b - Len(q) \in 1 .. Len(t)
    <3>1. b \in Int /\ Len(q) + (b - Len(q)) = b
      BY <1>2
    <3>2. z[b] = t[b - Len(q)] /\ b - Len(q) \in DOMAIN t
      BY <1>2, <2>2, <3>1
    <3> QED BY <1>3, <3>2
  <2> QED BY <1>2, <2>1, <2>2
<1>8. ASSUME NEW g \in 1 .. n, Complete(in, g), NEW i \in DOMAIN Tiles(in, c[g])
      PROVE  \E b \in DOMAIN z : z[b] = Tiles(in, c[g])[i]
  <2>1. CASE g = n
    <3>1. i \in 1 .. Len(t) /\ z[Len(q) + i] = Tiles(in, c[g])[i]
      BY <1>2, <1>8, <2>1
    <3>2. Len(q) + i \in DOMAIN z
      BY <1>2, <3>1
    <3> QED BY <3>1, <3>2
  <2>2. CASE g \in 1 .. n - 1
    <3>1. PICK b \in DOMAIN q : q[b] = Tiles(in, c[g])[i]
      BY <1>5, <1>8, <2>2
    <3>2. b \in DOMAIN z /\ z[b] = q[b]
      BY <1>2
    <3> QED BY <3>1, <3>2
  <2> QED BY <1>3, <2>1, <2>2
<1>9. ASSUME NEW a \in DOMAIN z, NEW b \in DOMAIN z, a < b
      PROVE  z[a].end <= z[b].start
  <2>1. a \in Int /\ b \in Int
    BY <1>2
  <2>2. CASE a \in 1 .. Len(q) /\ b \in 1 .. Len(q)
    BY <1>2, <1>6, <1>9, <2>2
  <2>3. CASE a - Len(q) \in 1 .. Len(t) /\ b - Len(q) \in 1 .. Len(t)
    <3>1. Len(q) + (a - Len(q)) = a /\ Len(q) + (b - Len(q)) = b /\ a - Len(q) < b - Len(q)
      BY <1>2, <1>9, <2>1
    <3>2. z[a] = t[a - Len(q)] /\ z[b] = t[b - Len(q)]
      BY <1>2, <2>3, <3>1
    <3>3. \A i, j \in DOMAIN t : i < j => t[i].end <= t[j].start
      BY GroupTiles
    <3> HIDE DEF t
    <3> QED BY <1>2, <2>3, <3>1, <3>2, <3>3
  <2>4. CASE a \in 1 .. Len(q) /\ b - Len(q) \in 1 .. Len(t)
    <3>1. Len(q) + (b - Len(q)) = b
      BY <1>2, <2>1
    <3>2. z[a] = q[a] /\ z[b] = t[b - Len(q)]
      BY <1>2, <2>4, <3>1
    <3>3. PICK g \in 1 .. n - 1 : Complete(in, g) /\ \E i \in DOMAIN Tiles(in, c[g]) : q[a] = Tiles(in, c[g])[i]
      BY <1>2, <1>4, <2>4
    <3>4. g \in 1 .. Len(Spans(in)) /\ n \in 1 .. Len(Spans(in)) /\ Len(Spans(in)) \in Nat
      BY SpanNumbers
    <3>5. q[a].end <= c[g].end /\ c[n].start <= t[b - Len(q)].start
      <4>1. PICK i \in DOMAIN Tiles(in, c[g]) : q[a] = Tiles(in, c[g])[i]
        BY <3>3
      <4>2. Tiles(in, c[g])[i].end <= c[g].end
        BY <3>4, <4>1, GroupTiles
      <4>3. \A j \in DOMAIN t : c[n].start <= t[j].start
        BY GroupTiles
      <4> QED BY <1>2, <2>4, <4>1, <4>2, <4>3
    <3>6. PICK m \in 1 .. n : Group(in, m, n)
      BY GroupsAre
    <3>7. g < m
      BY <3>3, <3>6, GroupsApart
    <3>8. PICK k \in 1 .. g : Group(in, k, g)
      BY <3>4, GroupsAre
    <3>9. c[g].end = Spans(in)[g].end /\ c[n].start = Spans(in)[m].start
      BY <3>6, <3>8 DEF Group
    <3>10. m \in 1 .. Len(Spans(in))
      BY <3>4, <3>6
    <3>11. Spans(in)[g].end <= Spans(in)[m].start
      BY <3>4, <3>7, <3>10, SpanNumbers
    <3>12. q[a].end \in Int /\ t[b - Len(q)].start \in Int
      <4>1. q[a] \in Span /\ t[b - Len(q)] \in Span
        BY <1>1, <1>2, <2>4
      <4> QED BY <4>1 DEF Span
    <3>13. Spans(in)[g].end \in Int /\ Spans(in)[m].start \in Int
      BY <3>4, <3>10, SpanNumbers
    <3> HIDE DEF c, t
    <3>14. c[g].end \in Int /\ c[n].start \in Int /\ c[g].end <= c[n].start
      BY <3>9, <3>11, <3>13
    <3>15. q[a].end <= t[b - Len(q)].start
      BY <3>5, <3>12, <3>14
    <3> QED BY <3>2, <3>15
  <2>5. CASE a - Len(q) \in 1 .. Len(t) /\ b \in 1 .. Len(q)
    BY <1>2, <1>9, <2>1, <2>5
  <2> HIDE DEF t
  <2> QED BY <1>2, <2>2, <2>3, <2>4, <2>5
<1> QED BY <1>2, <1>7, <1>8, <1>9 DEF Laid, z

\* A span that is not complete lays nothing.
LEMMA NothingIsLaid ==
  ASSUME NEW in, Sound(in), NEW n \in 1 .. Len(Spans(in)), ~Complete(in, n),
         NEW q, Laid(in, n - 1, q)
  PROVE  Laid(in, n, q)
<1>1. n \in Nat /\ 1 .. n - 1 \subseteq 1 .. n /\ \A g \in 1 .. n : g = n \/ g \in 1 .. n - 1
  BY SpanNumbers
<1>2. \A g \in 1 .. n : Complete(in, g) => g \in 1 .. n - 1
  BY <1>1
<1> QED BY <1>1, <1>2 DEF Laid

\* h[n] are the blocks laid when the loop that joins the spans has taken n of them.
Laying(in, h) ==
  /\ h[0] = <<>> /\ Blocks(in) = h[Len(Spans(in))]
  /\ \A n \in 1 .. Len(Spans(in)) :
       h[n] = IF Complete(in, n) THEN h[n - 1] \o Tiles(in, Coalesced(in)[n]) ELSE h[n - 1]

\* The blocks of an archive are laid span by span.
LEMMA BlocksAreCollected ==
  ASSUME NEW in, Sound(in)
  PROVE  \E h : Laying(in, h)
<1> DEFINE s == Spans(in)
           c == Coalesced(in)
           N == Len(s)
           Is(f) == f = [n \in 0 .. N |->
                           IF n = 0 THEN <<>>
                           ELSE IF n < N /\ Joins(in, c[n], s[n + 1]) THEN f[n - 1]
                           ELSE f[n - 1] \o Tiles(in, c[n])]
           step == [n \in 1 .. N |-> [q \in Seq(Span) |-> IF Complete(in, n) THEN q \o Tiles(in, c[n]) ELSE q]]
           none == <<>>
<1>1. N \in Nat
  BY SpanNumbers
<1>2. none \in Seq(Span)
  OBVIOUS
<1>3. \A n \in 1 .. N : Tiles(in, c[n]) \in Seq(Span)
  BY GroupTiles
<1>4. step \in [1 .. N -> [Seq(Span) -> Seq(Span)]]
  <2> HIDE DEF N, c
  <2>1. \A n \in 1 .. N, q \in Seq(Span) : q \o Tiles(in, c[n]) \in Seq(Span)
    BY <1>3, JoinedAre
  <2> QED BY <2>1
<1>5. \A n \in 1 .. N, q \in Seq(Span) : step[n][q] = IF Complete(in, n) THEN q \o Tiles(in, c[n]) ELSE q
  <2> HIDE DEF N, c
  <2> QED OBVIOUS
<1>6. PICK f : Repeats(Seq(Span), N, none, step, f)
  <2> HIDE DEF step, none, N, c
  <2> QED BY <1>1, <1>2, <1>4, Recursion
<1>7. f \in [0 .. N -> Seq(Span)] /\ f[0] = none /\ \A n \in 1 .. N : f[n] = step[n][f[n - 1]]
  <2> HIDE DEF step, none, N, s
  <2> QED BY <1>6 DEF Repeats
<1>8. Is(f)
  <2>1. ASSUME NEW n \in 0 .. N
        PROVE  f[n] = IF n = 0 THEN <<>>
                      ELSE IF n < N /\ Joins(in, c[n], s[n + 1]) THEN f[n - 1]
                      ELSE f[n - 1] \o Tiles(in, c[n])
    <3>1. CASE n = 0
      BY <1>7, <3>1
    <3>2. CASE n # 0
      <4>1. n \in 1 .. N /\ n - 1 \in 0 .. N
        BY <1>1, <3>2
      <4>2. f[n - 1] \in Seq(Span)
        BY <1>7, <4>1
      <4>3. f[n] = IF Complete(in, n) THEN f[n - 1] \o Tiles(in, c[n]) ELSE f[n - 1]
        <5> HIDE DEF step, N, c
        <5> QED BY <1>5, <1>7, <4>1, <4>2
      <4>4. Complete(in, n) <=> ~(n < N /\ Joins(in, c[n], s[n + 1]))
        BY DEF Complete
      <4> HIDE DEF N, s, c
      <4> QED BY <3>2, <4>3, <4>4
    <3> QED BY <3>1, <3>2
  <2>2. f = [n \in 0 .. N |-> f[n]]
    BY <1>7
  <2> HIDE DEF N, s, c
  <2> QED BY <2>1, <2>2
<1>9. Blocks(in) = (CHOOSE h : Is(h))[N]
  BY DEF Blocks
<1> DEFINE h == CHOOSE g : Is(g)
<1>10. Is(h)
  <2> HIDE DEF Is
  <2> QED BY <1>8
<1>11. \A n \in 0 .. N : h[n] = IF n = 0 THEN <<>>
                                ELSE IF n < N /\ Joins(in, c[n], s[n + 1]) THEN h[n - 1]
                                ELSE h[n - 1] \o Tiles(in, c[n])
  <2>1. h = [n \in 0 .. N |-> IF n = 0 THEN <<>>
                                ELSE IF n < N /\ Joins(in, c[n], s[n + 1]) THEN h[n - 1]
                                ELSE h[n - 1] \o Tiles(in, c[n])]
    BY <1>10
  <2> HIDE DEF h, N, s, c
  <2> QED BY <2>1
<1> HIDE DEF h, Is
<1>12. h[0] = <<>>
  BY <1>1, <1>11
<1>13. ASSUME NEW n \in 1 .. N
       PROVE  h[n] = IF Complete(in, n) THEN h[n - 1] \o Tiles(in, c[n]) ELSE h[n - 1]
  <2>1. n \in 0 .. N /\ n # 0
    BY <1>1
  <2>2. Complete(in, n) <=> ~(n < N /\ Joins(in, c[n], s[n + 1]))
    BY DEF Complete
  <2> HIDE DEF N, s, c
  <2> QED BY <1>11, <2>1, <2>2
<1>14. Blocks(in) = h[N]
  BY <1>9 DEF h
<1>15. Laying(in, h)
  BY <1>12, <1>13, <1>14 DEF Laying
<1> QED BY <1>15

\* They are the blocks of the complete groups.
LEMMA BlocksAre ==
  ASSUME NEW in, Sound(in)
  PROVE  Laid(in, Len(Spans(in)), Blocks(in))
<1> DEFINE c == Coalesced(in)
           N == Len(Spans(in))
<1>1. N \in Nat
  BY SpanNumbers
<1>2. PICK h : Laying(in, h)
  BY BlocksAreCollected
<1>3. /\ h[0] = <<>> /\ Blocks(in) = h[N]
      /\ \A n \in 1 .. N : h[n] = IF Complete(in, n) THEN h[n - 1] \o Tiles(in, c[n]) ELSE h[n - 1]
  BY <1>2 DEF Laying
<1>4. Laid(in, 0, h[0])
  <2>1. 1 .. 0 = {}
    OBVIOUS
  <2> QED BY <1>3, <2>1 DEF Laid
<1>5. ASSUME NEW n \in 1 .. N, Laid(in, n - 1, h[n - 1])
       PROVE  Laid(in, n, h[n])
  <2>1. CASE Complete(in, n)
    <3>1. h[n] = h[n - 1] \o Tiles(in, c[n])
      BY <1>3, <2>1
    <3>2. Laid(in, n, h[n - 1] \o Tiles(in, c[n]))
      BY <1>5, <2>1, TilesAreLaid
    <3> QED BY <3>1, <3>2
  <2>2. CASE ~Complete(in, n)
    <3>1. h[n] = h[n - 1]
      BY <1>3, <2>2
    <3>2. Laid(in, n, h[n - 1])
      BY <1>5, <2>2, NothingIsLaid
    <3> QED BY <3>1, <3>2
  <2> QED BY <2>1, <2>2
<1> DEFINE Bad == {n \in 0 .. N : ~Laid(in, n, h[n])}
<1>6. Bad = {}
  <2> SUFFICES ASSUME Bad # {} PROVE FALSE
    OBVIOUS
  <2>1. Bad \in SUBSET Nat
    BY <1>1
  <2> HIDE DEF Bad
  <2>2. PICK n \in Bad : \A k \in Bad : n <= k
    BY <2>1, LeastNumber
  <2>3. n \in 0 .. N /\ ~Laid(in, n, h[n])
    BY <2>2 DEF Bad
  <2>4. n # 0
    BY <1>4, <2>3
  <2>5. n \in 1 .. N /\ n - 1 \in 0 .. N /\ n - 1 \notin Bad
    BY <1>1, <2>2, <2>3, <2>4
  <2>6. Laid(in, n - 1, h[n - 1])
    BY <2>5 DEF Bad
  <2> QED BY <1>5, <2>3, <2>5, <2>6
<1>7. Laid(in, N, h[N])
  <2>1. N \in 0 .. N
    BY <1>1
  <2> HIDE DEF N
  <2> QED BY <1>6, <2>1
<1> QED BY <1>3, <1>7

\* A set of numbers that begins with 1 and has no gap is as large as its greatest member.
LEMMA NoGap ==
  ASSUME NEW n \in Nat, NEW D \in SUBSET (1 .. n), \A x, y \in 1 .. n : x < y /\ y \in D => x \in D
  PROVE  Cardinality(D) \in 0 .. n /\ D = 1 .. Cardinality(D)
<1> DEFINE U == {u \in 0 .. n : u + 1 \notin D}
<1>1. U \in SUBSET Nat /\ n \in U
  OBVIOUS
<1> HIDE DEF U
<1>2. PICK u \in U : \A k \in U : u <= k
  BY <1>1, LeastNumber
<1>3. u \in 0 .. n /\ u + 1 \notin D
  BY <1>2 DEF U
<1>4. D = 1 .. u
  <2>1. ASSUME NEW x \in 1 .. u PROVE x \in D
    <3>1. x - 1 \in 0 .. n /\ x - 1 < u /\ (x - 1) + 1 = x
      BY <1>3
    <3>2. x - 1 \notin U
      BY <1>2, <1>3, <3>1
    <3> QED BY <3>1, <3>2 DEF U
  <2>2. ASSUME NEW x \in D PROVE x \in 1 .. u
    <3> SUFFICES ASSUME x > u PROVE FALSE
      BY <1>3
    <3>1. x \in 1 .. n
      OBVIOUS
    <3>2. x # u + 1
      BY <1>3
    <3>3. u + 1 \in 1 .. n /\ u + 1 < x
      BY <1>3, <3>1, <3>2
    <3> QED BY <1>3, <3>1, <3>3
  <2> QED BY <2>1, <2>2
<1>5. Cardinality(1 .. u) = u
  <2>1. u \in Int /\ 0 <= u
    BY <1>3
  <2>2. Cardinality(1 .. u) = IF 1 > u THEN 0 ELSE u - 1 + 1
    BY <2>1, FS_Interval
  <2> QED BY <2>1, <2>2
<1> QED BY <1>3, <1>4, <1>5

\* Where a block lies: in a group that is complete, and it is the whole group unless
\* the group is one span.
InGroup(in, r, m, g) ==
  /\ Group(in, m, g)
  /\ Spans(in)[m].start <= r.start /\ r.end <= Spans(in)[g].end
  /\ m < g => r.start = Spans(in)[m].start /\ r.end = Spans(in)[g].end

LEMMA BlockOf ==
  ASSUME NEW in, Sound(in), NEW b \in DOMAIN Blocks(in)
  PROVE  /\ Blocks(in)[b].start \in Int /\ Blocks(in)[b].end \in Int
         /\ Blocks(in)[b].start < Blocks(in)[b].end
         /\ Blocks(in)[b].end - Blocks(in)[b].start <= BlockSize(in)
         /\ \E g \in 1 .. Len(Spans(in)) : \E m \in 1 .. g : InGroup(in, Blocks(in)[b], m, g)
<1> DEFINE r == Blocks(in)[b]
           c == Coalesced(in)
<1>1. Laid(in, Len(Spans(in)), Blocks(in))
  BY BlocksAre
<1>2. r \in Span
  <2>1. Blocks(in) \in Seq(Span)
    BY <1>1 DEF Laid
  <2> QED BY <2>1
<1>3. r.start \in Int /\ r.end \in Int
  BY <1>2 DEF Span
<1>4. PICK g \in 1 .. Len(Spans(in)) :
        Complete(in, g) /\ \E i \in DOMAIN Tiles(in, c[g]) : r = Tiles(in, c[g])[i]
  BY <1>1 DEF Laid
<1>5. PICK i \in DOMAIN Tiles(in, c[g]) : r = Tiles(in, c[g])[i]
  BY <1>4
<1>6. PICK m \in 1 .. g : Group(in, m, g)
  BY <1>4, GroupsAre
<1> HIDE DEF r
<1>7. /\ c[g].start <= r.start /\ r.start < r.end /\ r.end <= c[g].end
      /\ r.end - r.start <= BlockSize(in)
      /\ c[g].end - c[g].start <= BlockSize(in) => Same(r, c[g])
  BY <1>4, <1>5, GroupTiles
<1>8. /\ c[g].start = Spans(in)[m].start /\ c[g].end = Spans(in)[g].end
      /\ m < g => Spans(in)[g].end - Spans(in)[m].start <= BlockSize(in)
  BY <1>6 DEF Group
<1>9. InGroup(in, r, m, g)
  BY <1>6, <1>7, <1>8 DEF InGroup, Same
<1> QED BY <1>3, <1>4, <1>6, <1>7, <1>9 DEF r

\* Every span becomes part of a group that is complete.
LEMMA Completed ==
  ASSUME NEW in, Sound(in)
  PROVE  \A n \in 1 .. Len(Spans(in)) : \E g \in n .. Len(Spans(in)) :
           Complete(in, g) /\ Coalesced(in)[g].start = Coalesced(in)[n].start
<1> DEFINE N == Len(Spans(in))
           c == Coalesced(in)
           Ends(n) == \E g \in n .. N : Complete(in, g) /\ c[g].start = c[n].start
           Bad == {d \in 0 .. N : N - d \in 1 .. N /\ ~Ends(N - d)}
<1>1. N \in Nat
  BY SpanNumbers
<1>2. \A n \in 1 .. N : Complete(in, n) => Ends(n)
  <2> TAKE n \in 1 .. N
  <2>1. n \in n .. N
    BY <1>1
  <2> QED BY <2>1
<1>3. Complete(in, N)
  BY <1>1 DEF Complete
<1>4. ASSUME NEW n \in 1 .. N, ~Complete(in, n)
      PROVE  n + 1 \in 1 .. N /\ c[n + 1].start = c[n].start
  <2>1. n < N /\ Joins(in, c[n], Spans(in)[n + 1])
    BY <1>4 DEF Complete
  <2>2. n + 1 \in 1 .. N /\ n + 1 # 1 /\ n + 1 - 1 = n
    BY <1>1, <2>1
  <2>3. c[n + 1] = After(in, c[n], Spans(in)[n + 1])
    BY <2>2, SpanNumbers
  <2> QED BY <2>1, <2>2, <2>3 DEF After
<1>5. ASSUME NEW n \in 1 .. N, ~Complete(in, n), Ends(n + 1)
      PROVE  Ends(n)
  <2>1. PICK g \in n + 1 .. N : Complete(in, g) /\ c[g].start = c[n + 1].start
    BY <1>5
  <2>2. g \in n .. N
    BY <1>1, <2>1
  <2>3. c[g].start = c[n].start
    BY <1>4, <1>5, <2>1
  <2> QED BY <2>1, <2>2, <2>3
<1> HIDE DEF Ends
<1>6. Bad = {}
  <2> SUFFICES ASSUME Bad # {} PROVE FALSE
    OBVIOUS
  <2>1. Bad \in SUBSET Nat
    BY <1>1
  <2> HIDE DEF Bad
  <2>2. PICK d \in Bad : \A k \in Bad : d <= k
    BY <2>1, LeastNumber
  <2>3. d \in 0 .. N /\ N - d \in 1 .. N /\ ~Ends(N - d)
    BY <2>2 DEF Bad
  <2>4. ~Complete(in, N - d)
    BY <1>2, <2>3
  <2>5. d # 0
    BY <1>1, <1>3, <2>4
  <2>6. N - d + 1 \in 1 .. N /\ ~Ends(N - d + 1)
    BY <1>4, <1>5, <2>3, <2>4
  <2>7. d - 1 \in 0 .. N /\ N - (d - 1) = N - d + 1
    BY <1>1, <2>3, <2>5
  <2>8. d - 1 \in Bad
    BY <2>6, <2>7 DEF Bad
  <2> QED BY <1>1, <2>2, <2>3, <2>8
<1>7. ASSUME NEW n \in 1 .. N PROVE Ends(n)
  <2>1. N - n \in 0 .. N /\ N - (N - n) = n
    BY <1>1
  <2>2. ~ (N - (N - n) \in 1 .. N /\ ~Ends(N - (N - n)))
    BY <1>6, <2>1
  <2> QED BY <2>1, <2>2
<1> QED BY <1>7 DEF Ends

\* The blocks hold every byte of the spans.
LEMMA SpansAreHeld ==
  ASSUME NEW in, Sound(in), NEW n \in 1 .. Len(Spans(in)), NEW x \in Bytes(Spans(in)[n])
  PROVE  \E b \in DOMAIN Blocks(in) : x \in Bytes(Blocks(in)[b])
<1> DEFINE s == Spans(in)
           c == Coalesced(in)
           N == Len(s)
<1>1. PICK g \in n .. N : Complete(in, g) /\ c[g].start = c[n].start
  BY Completed
<1>2. PICK m \in 1 .. n : Group(in, m, n)
  BY GroupsAre
<1>3. N \in Nat /\ g \in 1 .. N /\ m \in 1 .. N /\ m <= n /\ n <= g
  BY <1>1, <1>2, SpanNumbers
<1>4. PICK k \in 1 .. g : Group(in, k, g)
  BY <1>3, GroupsAre
<1>5. c[n].start = s[m].start /\ c[g].end = s[g].end
  BY <1>2, <1>4 DEF Group
<1>6. /\ s[n].start \in Int /\ s[n].end \in Int /\ s[n].start < s[n].end
      /\ s[m].start \in Int /\ s[m].end \in Int /\ s[m].start < s[m].end
      /\ s[g].start \in Int /\ s[g].end \in Int /\ s[g].start < s[g].end
      /\ m < n => s[m].end <= s[n].start
      /\ n < g => s[n].end <= s[g].start
  BY <1>3, SpanNumbers
<1>7. x \in Int /\ s[n].start <= x /\ x < s[n].end
  BY <1>6 DEF Bytes
<1>8. c[g].start <= x /\ x < c[g].end
  <2>1. s[m].start <= s[n].start /\ s[n].end <= s[g].end
    <3>1. CASE m = n
      BY <1>3, <1>6, <3>1
    <3> HIDE DEF s, c
    <3>2. m # n => s[m].start <= s[n].start
      BY <1>3, <1>6
    <3>3. n # g => s[n].end <= s[g].end
      BY <1>3, <1>6
    <3>4. m = n => s[m].start <= s[n].start
      BY <1>6
    <3>5. n = g => s[n].end <= s[g].end
      BY <1>6
    <3> QED BY <3>2, <3>3, <3>4, <3>5
  <2> HIDE DEF s, c
  <2> QED BY <1>1, <1>5, <1>6, <1>7, <2>1
<1>9. x \in Bytes(c[g])
  <2>1. c[g].start \in Int /\ c[g].end \in Int
    BY <1>3, SpanNumbers
  <2> HIDE DEF c
  <2> QED BY <1>7, <1>8, <2>1 DEF Bytes
<1>10. PICK i \in DOMAIN Tiles(in, c[g]) : x \in Bytes(Tiles(in, c[g])[i])
  BY <1>3, <1>9, GroupTiles
<1>11. PICK b \in DOMAIN Blocks(in) : Blocks(in)[b] = Tiles(in, c[g])[i]
  BY <1>1, <1>3, BlocksAre DEF Laid
<1> QED BY <1>10, <1>11

\* The blocks are one after another.
LEMMA BlocksIncrease ==
  ASSUME NEW in, Sound(in)
  PROVE  /\ Len(Blocks(in)) \in Nat /\ DOMAIN Blocks(in) = 1 .. Len(Blocks(in))
         /\ \A a, b \in DOMAIN Blocks(in) : a < b => Blocks(in)[a].end <= Blocks(in)[b].start
         /\ Increasing(Blocks(in))
<1>1. /\ Blocks(in) \in Seq(Span)
      /\ \A a, b \in DOMAIN Blocks(in) : a < b => Blocks(in)[a].end <= Blocks(in)[b].start
  BY BlocksAre DEF Laid
<1>2. Len(Blocks(in)) \in Nat /\ DOMAIN Blocks(in) = 1 .. Len(Blocks(in))
  BY <1>1
<1>3. \A b \in DOMAIN Blocks(in) : Blocks(in)[b].start < Blocks(in)[b].end
  BY BlockOf
<1>4. \A b \in DOMAIN Blocks(in) : b < b + 1
  BY <1>2
<1> QED BY <1>1, <1>2, <1>3, <1>4 DEF Increasing

\* The search on the two bounds finds the blocks with a byte of a span.
LEMMA IndicesAre ==
  ASSUME NEW in, Sound(in), NEW r, r.start \in Int, r.end \in Int, r.start < r.end
  PROVE  Indices(Blocks(in), r) =
           {b \in DOMAIN Blocks(in) : r.start < Blocks(in)[b].end /\ Blocks(in)[b].start < r.end}
<1> DEFINE z == Blocks(in)
           n == Len(z)
           P == {b \in DOMAIN z : z[b].end <= r.start}
           Q == {b \in DOMAIN z : z[b].start < r.end}
<1>1. n \in Nat /\ DOMAIN z = 1 .. n
  BY BlocksIncrease
<1>2. /\ \A b \in 1 .. n : z[b].start \in Int /\ z[b].end \in Int /\ z[b].start < z[b].end
      /\ \A a, b \in 1 .. n : a < b => z[a].end <= z[b].start
  BY <1>1, BlocksIncrease, BlockOf
<1> HIDE DEF z, n
<1>3. P \in SUBSET (1 .. n) /\ \A x, y \in 1 .. n : x < y /\ y \in P => x \in P
  <2>1. ASSUME NEW x \in 1 .. n, NEW y \in 1 .. n, x < y, y \in P
        PROVE  x \in P
    <3>1. z[x].end <= z[y].start /\ z[y].start < z[y].end /\ z[y].end <= r.start
      BY <1>2, <2>1
    <3>2. z[x].end \in Int /\ z[y].start \in Int /\ z[y].end \in Int
      BY <1>2
    <3> QED BY <1>1, <3>1, <3>2
  <2> QED BY <1>1, <2>1
<1>4. Q \in SUBSET (1 .. n) /\ \A x, y \in 1 .. n : x < y /\ y \in Q => x \in Q
  <2>1. ASSUME NEW x \in 1 .. n, NEW y \in 1 .. n, x < y, y \in Q
        PROVE  x \in Q
    <3>1. z[x].end <= z[y].start /\ z[x].start < z[x].end /\ z[y].start < r.end
      BY <1>2, <2>1
    <3>2. z[x].start \in Int /\ z[x].end \in Int /\ z[y].start \in Int
      BY <1>2
    <3> QED BY <1>1, <3>1, <3>2
  <2> QED BY <1>1, <2>1
<1>5. FirstAfter(z, r.start) = Cardinality(P) /\ LastBefore(z, r.end) = Cardinality(Q)
  BY DEF FirstAfter, LastBefore
<1>6. Indices(z, r) = Cardinality(P) + 1 .. Cardinality(Q)
  <2> HIDE DEF P, Q
  <2> QED BY <1>5 DEF Indices
<1>7. \A b \in 1 .. n : (b \in P <=> z[b].end <= r.start) /\ (b \in Q <=> z[b].start < r.end)
  BY <1>1
<1> HIDE DEF P, Q
<1>8. /\ Cardinality(P) \in 0 .. n /\ P = 1 .. Cardinality(P)
      /\ Cardinality(Q) \in 0 .. n /\ Q = 1 .. Cardinality(Q)
  BY <1>1, <1>3, <1>4, NoGap
<1> DEFINE p == Cardinality(P)
           q == Cardinality(Q)
<1>9. p \in 0 .. n /\ q \in 0 .. n /\ P = 1 .. p /\ Q = 1 .. q /\ Indices(z, r) = p + 1 .. q
  BY <1>6, <1>8
<1> HIDE DEF p, q
<1>10. Indices(z, r) = {b \in 1 .. n : b \notin P /\ b \in Q}
  BY <1>1, <1>9
<1>11. \A b \in 1 .. n : b \notin P <=> r.start < z[b].end
  BY <1>2, <1>7
<1> QED BY <1>1, <1>7, <1>10, <1>11 DEF z

\* The blocks with bytes of an entry, by their bounds, and the blocks its claims count.
LEMMA TouchedAre ==
  ASSUME NEW in, Sound(in), NEW i \in DOMAIN in.plans
  PROVE  /\ Touched(in, Blocks(in), i) =
              {b \in DOMAIN Blocks(in) :
                 in.plans[i].start < Blocks(in)[b].end /\ Blocks(in)[b].start < in.plans[i].end}
         /\ Touched(in, Blocks(in), i) = Indices(Blocks(in), in.plans[i])
<1> DEFINE z == Blocks(in)
           p == in.plans[i]
<1>1. p.start \in Int /\ p.end \in Int /\ p.start < p.end
  BY DEF Sound
<1>2. \A b \in DOMAIN z : z[b].start \in Int /\ z[b].end \in Int /\ z[b].start < z[b].end
  BY BlockOf
<1> HIDE DEF z, p
<1>3. ASSUME NEW b \in DOMAIN z
      PROVE  Bytes(z[b]) \cap Bytes(p) # {} <=> p.start < z[b].end /\ z[b].start < p.end
  <2>1. z[b].start \in Int /\ z[b].end \in Int /\ z[b].start < z[b].end
    BY <1>2
  <2>2. ASSUME NEW x \in Bytes(z[b]) \cap Bytes(p)
        PROVE  p.start < z[b].end /\ z[b].start < p.end
    BY <1>1, <2>1 DEF Bytes
  <2>3. ASSUME p.start < z[b].end, z[b].start < p.end
        PROVE  Bytes(z[b]) \cap Bytes(p) # {}
    <3>1. CASE p.start <= z[b].start
      <4>1. z[b].start \in Bytes(z[b]) /\ z[b].start \in Bytes(p)
        BY <1>1, <2>1, <2>3, <3>1 DEF Bytes
      <4> QED BY <4>1
    <3>2. CASE z[b].start <= p.start
      <4>1. p.start \in Bytes(z[b]) /\ p.start \in Bytes(p)
        BY <1>1, <2>1, <2>3, <3>2 DEF Bytes
      <4> QED BY <4>1
    <3> QED BY <1>1, <2>1, <3>1, <3>2
  <2> QED BY <2>2, <2>3
<1>4. Touched(in, z, i) = {b \in DOMAIN z : Bytes(z[b]) \cap Bytes(p) # {}}
  BY DEF Touched, p
<1>5. Touched(in, z, i) = {b \in DOMAIN z : p.start < z[b].end /\ z[b].start < p.end}
  BY <1>3, <1>4
<1>6. Indices(z, p) = {b \in DOMAIN z : p.start < z[b].end /\ z[b].start < p.end}
  BY <1>1, IndicesAre DEF z
<1> QED BY <1>5, <1>6 DEF z, p

\* The bytes that some entry needs.
Needed(in) == UNION {Bytes(in.plans[i]) : i \in DOMAIN in.plans}

LEMMA NeededIs ==
  ASSUME NEW in, Sound(in)
  PROVE  /\ \A y : y \in Needed(in) <=> \E i \in DOMAIN in.plans : y \in Bytes(in.plans[i])
         /\ \A n \in 1 .. Len(Spans(in)) : Bytes(Spans(in)[n]) \subseteq Needed(in)
<1>1. \A y : y \in Needed(in) <=> \E i \in DOMAIN in.plans : y \in Bytes(in.plans[i])
  BY DEF Needed
<1>2. ASSUME NEW n \in 1 .. Len(Spans(in)), NEW y \in Bytes(Spans(in)[n])
      PROVE  y \in Needed(in)
  <2>1. n \in DOMAIN Spans(in)
    BY SpanNumbers
  <2>2. PICK i \in DOMAIN in.plans : Same(Spans(in)[n], in.plans[i])
    BY <2>1, SpansAre DEF SpansOf
  <2>3. y \in Bytes(in.plans[i])
    BY <2>2 DEF Same, Bytes
  <2> QED BY <1>1, <2>3
<1> QED BY <1>1, <1>2

\* A block begins and ends with a byte that is needed, and no gap in it is longer
\* than allowed.
LEMMA BlocksAreTight ==
  ASSUME NEW in, Sound(in)
  PROVE  Tight(in, Blocks(in))
<1> SUFFICES ASSUME NEW b \in DOMAIN Blocks(in)
             PROVE  LET r == Blocks(in)[b] IN
                    /\ r.end - r.start <= BlockSize(in)
                    /\ {r.start, r.end - 1} \subseteq Needed(in)
                    /\ \A x \in Bytes(r) \ Needed(in) : \E y \in Needed(in) : x < y /\ y <= x + in.gap
  BY DEF Tight, Needed
<1> DEFINE r == Blocks(in)[b]
           s == Spans(in)
           N == Len(s)
<1>1. /\ r.start \in Int /\ r.end \in Int /\ r.start < r.end
      /\ r.end - r.start <= BlockSize(in)
  BY BlockOf
<1>20. PICK g \in 1 .. N : \E m \in 1 .. g : InGroup(in, r, m, g)
  BY BlockOf
<1>2. PICK m \in 1 .. g : InGroup(in, r, m, g)
  BY <1>20
<1>3. /\ s[m].start <= r.start /\ r.end <= s[g].end
      /\ m < g => r.start = s[m].start /\ r.end = s[g].end
      /\ \A k \in m .. g - 1 : s[k + 1].start - s[k].end <= in.gap
  BY <1>2 DEF InGroup, Group
<1>4. N \in Nat /\ m \in 1 .. N /\ m \in Int /\ g \in Int /\ m <= g
  BY <1>2, SpanNumbers
<1>5. /\ \A n \in 1 .. N : s[n].start \in Int /\ s[n].end \in Int /\ s[n].start < s[n].end
      /\ in.gap \in Nat
  BY SpanNumbers
<1>6. \A n \in 1 .. N : Bytes(s[n]) \subseteq Needed(in)
  BY NeededIs
<1> HIDE DEF r, s, N
<1>7. {r.start, r.end - 1} \subseteq Needed(in)
  <2>1. CASE m = g
    <3>1. r.start \in Bytes(s[m]) /\ r.end - 1 \in Bytes(s[m])
      BY <1>1, <1>3, <1>4, <1>5, <2>1 DEF Bytes
    <3> QED BY <1>4, <1>6, <3>1
  <2>2. CASE m < g
    <3>1. r.start \in Bytes(s[m]) /\ r.end - 1 \in Bytes(s[g])
      BY <1>2, <1>3, <1>4, <1>5, <2>2 DEF Bytes
    <3> QED BY <1>2, <1>4, <1>6, <3>1
  <2> QED BY <1>4, <2>1, <2>2
<1>8. ASSUME NEW x \in Bytes(r), x \notin Needed(in)
      PROVE  \E y \in Needed(in) : x < y /\ y <= x + in.gap
  <2>1. x \in Int /\ r.start <= x /\ x < r.end
    BY <1>1 DEF Bytes
  <2> DEFINE U == {k \in m .. g : x < s[k].end}
  <2>2. U \in SUBSET Nat
    BY <1>4
  <2>3. g \in U
    BY <1>1, <1>2, <1>3, <1>4, <1>5, <2>1
  <2> HIDE DEF U
  <2>4. PICK k \in U : \A n \in U : k <= n
    BY <2>2, <2>3, LeastNumber
  <2>5. k \in m .. g /\ x < s[k].end /\ k \in 1 .. N
    BY <1>2, <1>4, <2>4 DEF U
  <2>6. /\ s[k].start \in Int /\ s[k].end \in Int /\ s[k].start < s[k].end
        /\ s[m].start \in Int
    BY <1>4, <1>5, <2>5
  <2>7. x < s[k].start
    <3>1. x \notin Bytes(s[k])
      BY <1>6, <1>8, <2>5
    <3> QED BY <2>1, <2>5, <2>6, <3>1 DEF Bytes
  <2>8. k # m
    BY <1>1, <1>3, <2>1, <2>6, <2>7
  <2>9. k - 1 \in m .. g - 1 /\ k - 1 \in m .. g /\ k - 1 \in 1 .. N /\ k - 1 + 1 = k
    BY <1>2, <1>4, <2>5, <2>8
  <2>10. s[k - 1].end <= x
    <3>1. k - 1 \notin U
      BY <2>2, <2>4
    <3>2. ~(x < s[k - 1].end)
      BY <2>9, <3>1 DEF U
    <3>3. s[k - 1].end \in Int
      BY <1>5, <2>9
    <3> QED BY <2>1, <3>2, <3>3
  <2>11. s[k].start - s[k - 1].end <= in.gap
    BY <1>3, <2>9
  <2>12. s[k].start \in Needed(in)
    <3>1. s[k].start \in Bytes(s[k])
      BY <2>6 DEF Bytes
    <3> QED BY <1>6, <2>5, <3>1
  <2>13. s[k - 1].end \in Int
    BY <1>5, <2>9
  <2>14. s[k].start <= x + in.gap
    BY <1>5, <2>1, <2>6, <2>10, <2>11, <2>13
  <2> QED BY <2>7, <2>12, <2>14
<1> QED BY <1>1, <1>7, <1>8 DEF r

\* The blocks of an entry hold all of it, and each is claimed once for each entry.
LEMMA BlocksCover ==
  ASSUME NEW in, Sound(in)
  PROVE  Covered(in, Blocks(in), Claims(Blocks(in), in.plans))
<1> DEFINE z == Blocks(in)
           D == DOMAIN in.plans
<1>1. ASSUME NEW i \in D
      PROVE  Touched(in, z, i) = Indices(z, in.plans[i])
  BY TouchedAre
<1>2. ASSUME NEW i \in D, NEW x \in Bytes(in.plans[i])
      PROVE  \E b \in Touched(in, z, i) : x \in Bytes(z[b])
  <2>1. PICK n \in DOMAIN Spans(in) : Same(Spans(in)[n], in.plans[i])
    BY SpansAre DEF SpansOf
  <2>2. n \in 1 .. Len(Spans(in)) /\ x \in Bytes(Spans(in)[n])
    BY <2>1, SpanNumbers DEF Same, Bytes
  <2>3. PICK b \in DOMAIN z : x \in Bytes(z[b])
    BY <2>2, SpansAreHeld
  <2>4. b \in Touched(in, z, i)
    BY <2>3 DEF Touched
  <2> QED BY <2>3, <2>4
<1>3. ASSUME NEW b \in DOMAIN z
      PROVE  LET R == {i \in D : b \in Touched(in, z, i)} IN
             Claims(z, in.plans)[b] = Cardinality(R) /\ Cardinality(R) > 0
  <2> DEFINE R == {i \in D : b \in Touched(in, z, i)}
  <2>1. Claims(z, in.plans)[b] = Cardinality({i \in D : b \in Indices(z, in.plans[i])})
    <3> HIDE DEF z
    <3> QED BY DEF Claims
  <2>2. {i \in D : b \in Indices(z, in.plans[i])} = R
    <3> HIDE DEF z, D
    <3> QED BY <1>1
  <2>3. IsFiniteSet(R) /\ Cardinality(R) \in Nat
    <3>1. IsFiniteSet(D) /\ R \in SUBSET D
      BY DEF Sound
    <3> HIDE DEF R, D
    <3> QED BY <3>1, FS_Subset, FS_CardinalityType
  <2>4. R # {}
    <3>1. z[b].start \in Needed(in)
      BY BlocksAreTight DEF Tight, Needed
    <3>2. PICK i \in D : z[b].start \in Bytes(in.plans[i])
      BY <3>1, NeededIs
    <3>3. z[b].start \in Bytes(z[b])
      BY BlockOf DEF Bytes
    <3>4. b \in Touched(in, z, i)
      BY <3>2, <3>3 DEF Touched
    <3> QED BY <3>4
  <2>5. Cardinality(R) # 0
    <3> HIDE DEF R
    <3> QED BY <2>3, <2>4, FS_EmptySet
  <2>6. Cardinality(R) > 0
    <3> HIDE DEF R
    <3> QED BY <2>3, <2>5
  <2>7. Claims(z, in.plans)[b] = Cardinality(R)
    BY <2>1, <2>2, Zenon
  <2> HIDE DEF R
  <2> QED BY <2>6, <2>7 DEF R
<1> HIDE DEF z
<1> QED BY <1>1, <1>2, <1>3 DEF Covered, z

\* A block with bytes of two entries holds all of both.
LEMMA BlocksAreSharedWhole ==
  ASSUME NEW in, Sound(in)
  PROVE  SharedIsWhole(in, Blocks(in))
<1> DEFINE z == Blocks(in)
           s == Spans(in)
           N == Len(s)
<1>1. ASSUME NEW i \in DOMAIN in.plans, NEW j \in DOMAIN in.plans, i # j,
             NEW b \in DOMAIN z, b \in Touched(in, z, i), b \in Touched(in, z, j)
      PROVE  Touched(in, z, i) = {b}
  <2> DEFINE r == z[b]
             p == in.plans[i]
             q == in.plans[j]
  <2>1. /\ p.start \in Int /\ p.end \in Int /\ p.start < p.end
        /\ q.start \in Int /\ q.end \in Int /\ q.start < q.end
        /\ Apart(p, q)
    BY <1>1 DEF Sound
  <2>2. p.start < r.end /\ r.start < p.end /\ q.start < r.end /\ r.start < q.end
    BY <1>1, TouchedAre
  <2>3. r.start \in Int /\ r.end \in Int /\ r.start < r.end
    BY BlockOf
  <2>40. PICK g \in 1 .. N : \E m \in 1 .. g : InGroup(in, r, m, g)
    BY BlockOf
  <2>4. PICK m \in 1 .. g : InGroup(in, r, m, g)
    BY <2>40
  <2>5. PICK k \in DOMAIN s : Same(s[k], p)
    BY SpansAre DEF SpansOf
  <2>6. PICK l \in DOMAIN s : Same(s[l], q)
    BY SpansAre DEF SpansOf
  <2>7. /\ N \in Nat /\ m \in 1 .. N /\ m <= g /\ k \in 1 .. N /\ l \in 1 .. N
    BY <2>4, <2>5, <2>6, SpanNumbers
  <2>8. /\ \A n \in 1 .. N : s[n].start \in Int /\ s[n].end \in Int /\ s[n].start < s[n].end
        /\ \A n, o \in 1 .. N : n < o => s[n].end <= s[o].start
    BY SpanNumbers
  <2>9. /\ s[m].start <= r.start /\ r.end <= s[g].end
        /\ m < g => r.start = s[m].start /\ r.end = s[g].end
    BY <2>4 DEF InGroup
  <2> HIDE DEF r, p, q, s, N, z
  <2>10. p.start = s[k].start /\ p.end = s[k].end /\ q.start = s[l].start /\ q.end = s[l].end
    BY <2>5, <2>6 DEF Same
  <2>11. m <= k /\ k <= g /\ m <= l /\ l <= g
    <3>1. \A n \in 1 .. N : n < m => s[n].end <= r.start
      <4> TAKE n \in 1 .. N
      <4>1. n < m => s[n].end <= s[m].start
        BY <2>7, <2>8
      <4>2. s[n].end \in Int /\ s[m].start \in Int
        BY <2>7, <2>8
      <4> QED BY <2>3, <2>9, <4>1, <4>2
    <3>2. \A n \in 1 .. N : g < n => r.end <= s[n].start
      <4> TAKE n \in 1 .. N
      <4>1. g < n => s[g].end <= s[n].start
        BY <2>4, <2>8
      <4>2. s[g].end \in Int /\ s[n].start \in Int
        BY <2>4, <2>8
      <4> QED BY <2>3, <2>9, <4>1, <4>2
    <3>3. k \in Int /\ l \in Int /\ m \in Int /\ g \in Int
      BY <2>4, <2>7
    <3>4. m <= k
      BY <2>1, <2>2, <2>3, <2>7, <2>10, <3>1, <3>3
    <3>5. m <= l
      BY <2>1, <2>2, <2>3, <2>7, <2>10, <3>1, <3>3
    <3>6. k <= g
      BY <2>1, <2>2, <2>3, <2>7, <2>10, <3>2, <3>3
    <3>7. l <= g
      BY <2>1, <2>2, <2>3, <2>7, <2>10, <3>2, <3>3
    <3> QED BY <3>4, <3>5, <3>6, <3>7
  <2>12. k # l
    BY <2>1, <2>10 DEF Apart
  <2>13. m < g
    BY <2>4, <2>7, <2>11, <2>12
  <2>14. r.start <= p.start /\ p.end <= r.end
    <3>1. s[m].start <= s[k].start
      <4>1. m = k \/ s[m].end <= s[k].start
        BY <2>7, <2>8, <2>11
      <4>2. /\ s[m].start \in Int /\ s[m].end \in Int /\ s[m].start < s[m].end
            /\ s[k].start \in Int
        BY <2>7, <2>8
      <4> QED BY <4>1, <4>2
    <3>2. s[k].end <= s[g].end
      <4>1. k = g \/ s[k].end <= s[g].start
        BY <2>4, <2>7, <2>8, <2>11
      <4>2. /\ s[g].start \in Int /\ s[g].end \in Int /\ s[g].start < s[g].end
            /\ s[k].end \in Int
        BY <2>4, <2>7, <2>8
      <4> QED BY <4>1, <4>2
    <3> QED BY <2>9, <2>10, <2>13, <3>1, <3>2
  <2>15. ASSUME NEW a \in DOMAIN z, a \in Touched(in, z, i)
         PROVE  a = b
    <3>1. p.start < z[a].end /\ z[a].start < p.end
      BY <2>15, TouchedAre DEF z, p
    <3>2. z[a].start \in Int /\ z[a].end \in Int
      BY BlockOf DEF z
    <3>3. a \in Int /\ b \in Int
      BY <1>1, BlocksIncrease DEF z
    <3>4. /\ a < b => z[a].end <= r.start
          /\ b < a => r.end <= z[a].start
      BY <1>1, BlocksIncrease DEF z, r
    <3> QED BY <2>1, <2>3, <2>14, <3>1, <3>2, <3>3, <3>4
  <2>16. Touched(in, z, i) \subseteq DOMAIN z
    BY DEF Touched
  <2> QED BY <1>1, <2>15, <2>16
<1>2. \A i, j \in DOMAIN in.plans : \A b \in Touched(in, z, i) \cap Touched(in, z, j) : b \in DOMAIN z
  BY DEF Touched
<1> HIDE DEF z
<1>3. ASSUME NEW i \in DOMAIN in.plans, NEW j \in DOMAIN in.plans, i # j,
             Touched(in, z, i) \cap Touched(in, z, j) # {}
      PROVE  Touched(in, z, i) = Touched(in, z, j) /\ Cardinality(Touched(in, z, i)) = 1
  <2>1. PICK b \in Touched(in, z, i) \cap Touched(in, z, j) : TRUE
    BY <1>3
  <2>2. Touched(in, z, i) = {b} /\ Touched(in, z, j) = {b}
    BY <1>1, <1>2, <1>3, <2>1
  <2>3. Cardinality({b}) = 1
    BY FS_Singleton
  <2> QED BY <2>2, <2>3
<1> QED BY <1>3 DEF SharedIsWhole, z
\* The blocks of an archive keep what SourceBlockStore assumes of them, whatever its
\* spans are, so long as they are in the archive and apart from each other.
LEMMA BlocksKeepContract ==
  ASSUME NEW in, Sound(in)
  PROVE  /\ Increasing(Blocks(in)) /\ Tight(in, Blocks(in))
         /\ Covered(in, Blocks(in), Claims(Blocks(in), in.plans))
         /\ SharedIsWhole(in, Blocks(in))
         /\ \A b \in DOMAIN Blocks(in) : LET size == Blocks(in)[b].end - Blocks(in)[b].start IN
              size \in Int /\ size <= BlockSize(in)
<1>1. ASSUME NEW b \in DOMAIN Blocks(in)
      PROVE  /\ Blocks(in)[b].end - Blocks(in)[b].start \in Int
             /\ Blocks(in)[b].end - Blocks(in)[b].start <= BlockSize(in)
  BY BlockOf
<1> QED BY <1>1, BlocksIncrease, BlocksAreTight, BlocksCover, BlocksAreSharedWhole

\* Plans in the order in which they begin.
Ordered(plans) == \A i, j \in DOMAIN plans : i < j => plans[i].start < plans[j].start

\* An entry has a first and a last block, which are its blocks with those between them.
LEMMA EndsAre ==
  ASSUME NEW in, Sound(in), NEW i \in DOMAIN in.plans
  PROVE  LET first == FirstAfter(Blocks(in), in.plans[i].start) + 1
             last == LastBefore(Blocks(in), in.plans[i].end) IN
         /\ Touched(in, Blocks(in), i) = first .. last
         /\ first \in Int /\ last \in Int /\ first <= last
         /\ {first, last} \subseteq DOMAIN Blocks(in)
<1> DEFINE z == Blocks(in)
           p == in.plans[i]
           first == FirstAfter(z, p.start) + 1
           last == LastBefore(z, p.end)
           T == Touched(in, z, i)
<1>1. p.start \in Nat /\ p.end \in Nat /\ p.start < p.end /\ p.end <= in.len /\ in.len \in Nat
  BY DEF Sound
<1>2. DOMAIN z = 1 .. Len(z) /\ Len(z) \in Nat
  BY BlocksIncrease
<1>3. first \in Int /\ last \in Int
  <2>1. IsFiniteSet(DOMAIN z)
    <3> HIDE DEF z
    <3> QED BY <1>2, FS_Interval
  <2>2. {b \in DOMAIN z : z[b].end <= p.start} \in SUBSET DOMAIN z
    OBVIOUS
  <2>3. {b \in DOMAIN z : z[b].start < p.end} \in SUBSET DOMAIN z
    OBVIOUS
  <2> HIDE DEF z, p
  <2>4. FirstAfter(z, p.start) \in Nat /\ LastBefore(z, p.end) \in Nat
    BY <2>1, <2>2, <2>3, FS_Subset, FS_CardinalityType DEF FirstAfter, LastBefore
  <2> QED BY <2>4
<1>4. T = Indices(z, p)
  BY TouchedAre
<1>5. Indices(z, p) = first .. last
  <2> HIDE DEF z, p
  <2> QED BY <1>1 DEF Indices
<1>6. T \subseteq DOMAIN z
  BY DEF Touched
<1>7. T # {}
  <2>1. p.start \in Bytes(p) /\ p.start < in.len
    <3> HIDE DEF p
    <3> QED BY <1>1 DEF Bytes
  <2>2. \E b \in Touched(in, z, i) : p.start \in Bytes(z[b])
    <3>1. Covered(in, z, Claims(z, in.plans))
      BY BlocksCover
    <3> QED BY <2>1, <3>1 DEF Covered
  <2> QED BY <2>2
<1> HIDE DEF z, p, T, first, last
<1>8. first <= last
  <2>1. PICK b \in first .. last : TRUE
    BY <1>4, <1>5, <1>7
  <2> QED BY <1>3, <2>1
<1>9. first \in first .. last /\ last \in first .. last
  BY <1>3, <1>8
<1> QED BY <1>3, <1>4, <1>5, <1>6, <1>8, <1>9 DEF z, p, T, first, last

\* The blocks can be read entry by entry.
LEMMA BlocksAreReadable ==
  ASSUME NEW in, Sound(in), NEW N \in Nat \ {0}, DOMAIN in.plans = 1 .. N, Ordered(in.plans)
  PROVE  Readable(in, Blocks(in))
<1> DEFINE z == Blocks(in)
           T(i) == Touched(in, z, i)
           first(i) == FirstAfter(z, in.plans[i].start) + 1
           last(i) == LastBefore(z, in.plans[i].end)
<1>1. /\ \A b \in DOMAIN z : z[b].start \in Int /\ z[b].end \in Int /\ z[b].start < z[b].end
      /\ \A a, b \in DOMAIN z : a < b => z[a].end <= z[b].start
      /\ DOMAIN z = 1 .. Len(z)
  BY BlockOf, BlocksIncrease
<1>2. \A i \in 1 .. N : in.plans[i].start \in Nat /\ in.plans[i].end \in Nat /\ in.plans[i].start < in.plans[i].end
  BY DEF Sound
<1>3. ASSUME NEW b \in DOMAIN z
      PROVE  0 <= z[b].start
  <2>1. z[b].start \in Needed(in)
    BY BlocksAreTight DEF Tight, Needed
  <2>2. PICK i \in 1 .. N : z[b].start \in Bytes(in.plans[i])
    BY <2>1, NeededIs
  <2> HIDE DEF z
  <2> QED BY <1>1, <1>2, <2>2 DEF Bytes
<1>4. ASSUME NEW i \in 1 .. N
      PROVE  /\ T(i) = first(i) .. last(i) /\ first(i) \in Int /\ last(i) \in Int /\ first(i) <= last(i)
             /\ {first(i), last(i)} \subseteq DOMAIN z
             /\ first(i) \in T(i) /\ last(i) \in T(i)
  <2>1. /\ T(i) = first(i) .. last(i) /\ first(i) \in Int /\ last(i) \in Int /\ first(i) <= last(i)
        /\ {first(i), last(i)} \subseteq DOMAIN z
    BY EndsAre
  <2> HIDE DEF T, first, last
  <2> QED BY <2>1
<1>5. ASSUME NEW i \in 1 .. N, NEW b \in T(i)
      PROVE  in.plans[i].start < z[b].end /\ z[b].start < in.plans[i].end
  BY TouchedAre
<1>6. \A i, j \in 1 .. N : i # j /\ T(i) \cap T(j) # {} => T(i) = T(j) /\ Cardinality(T(i)) = 1
  BY BlocksAreSharedWhole DEF SharedIsWhole
<1> HIDE DEF z, T, first, last
<1>7. ASSUME NEW i \in 1 .. N, NEW j \in 1 .. N, i < j
      PROVE  last(i) < first(j) \/ first(i) = last(j)
  <2>1. in.plans[i].end <= in.plans[j].start
    <3>1. in.plans[i].start < in.plans[j].start
      BY <1>7 DEF Ordered
    <3>2. Apart(in.plans[i], in.plans[j])
      BY <1>7 DEF Sound
    <3> QED BY <1>2, <3>1, <3>2 DEF Apart
  <2> DEFINE a == last(i)
             c == first(j)
  <2>2. a \in T(i) /\ c \in T(j) /\ a \in Int /\ c \in Int /\ a \in DOMAIN z /\ c \in DOMAIN z
    BY <1>4
  <2>3. z[a].start < in.plans[i].end /\ in.plans[j].start < z[c].end
    BY <1>5, <2>2
  <2> HIDE DEF a, c
  <2>4. ~(c < a)
    <3>1. z[a].start \in Int /\ z[c].end \in Int /\ (c < a => z[c].end <= z[a].start)
      BY <1>1, <2>2
    <3> QED BY <1>2, <2>1, <2>3, <3>1
  <2>5. a < c \/ a = c
    BY <2>2, <2>4
  <2>6. ASSUME a = c
        PROVE  first(i) = last(j)
    <3>1. T(i) = T(j) /\ Cardinality(T(i)) = 1
      BY <1>6, <1>7, <2>2, <2>6
    <3>2. \A x, y \in T(i) : x = y
      <4>1. PICK x : T(i) = {x}
        <5> DEFINE S == T(i)
        <5>1. Cardinality(S) = 1 /\ IsFiniteSet(S)
          BY <1>4, <3>1, FS_Interval
        <5> HIDE DEF S
        <5>2. \E x : S = {x}
          BY <5>1, FS_Singleton
        <5> QED BY <5>2 DEF S
      <4> QED BY <4>1
    <3>3. first(i) \in T(i) /\ last(j) \in T(i)
      BY <1>4, <3>1
    <3> QED BY <3>2, <3>3
  <2> QED BY <2>5, <2>6 DEF a, c
<1>8. z # <<>>
  <2>1. first(1) \in DOMAIN z
    BY <1>4
  <2>2. DOMAIN <<>> = {}
    OBVIOUS
  <2> QED BY <2>1, <2>2
<1>9. \A i \in 1 .. N : {first(i), last(i)} \subseteq DOMAIN z /\ first(i) <= last(i)
  BY <1>4
<1>10. Readable(in, z)
  BY <1>1, <1>3, <1>7, <1>8, <1>9 DEF Readable, first, last
<1> QED BY <1>10 DEF z

\* The blocks of the only plan of an archive are its span cut up.
LEMMA OnePlanIsCutUp ==
  ASSUME NEW in, Sound(in), NEW r \in Span, in.plans = <<r>>
  PROVE  Blocks(in) = Tiles(in, r)
<1> DEFINE s == Spans(in)
           N == Len(s)
<1>1. /\ N \in Nat /\ DOMAIN s = 1 .. N
      /\ \A n \in 1 .. N : s[n] \in Span /\ s[n].start < s[n].end
      /\ \A m, n \in 1 .. N : m < n => s[m].end <= s[n].start
  BY SpanNumbers
<1>2. DOMAIN in.plans = {1} /\ in.plans[1] = r
  OBVIOUS
<1>3. /\ \A n \in 1 .. N : Same(s[n], r)
      /\ \E n \in 1 .. N : TRUE
  BY <1>1, <1>2, SpansAre DEF SpansOf
<1>4. \A n \in 1 .. N : s[n] = r
  <2> TAKE n \in 1 .. N
  <2>1. s[n].start = r.start /\ s[n].end = r.end
    BY <1>3 DEF Same
  <2>2. s[n] \in Span
    BY <1>1
  <2> HIDE DEF s, N
  <2> QED BY <2>1, <2>2 DEF Span
<1> HIDE DEF s, N
<1>5. N = 1
  <2>1. N >= 1
    BY <1>1, <1>3
  <2>2. CASE N >= 2
    <3>1. 1 \in 1 .. N /\ 2 \in 1 .. N
      BY <1>1, <2>2
    <3>2. s[1] = r /\ s[2] = r /\ s[1].end <= s[2].start /\ r.start < r.end
      BY <1>1, <1>4, <3>1
    <3> QED BY <3>2 DEF Span
  <2> QED BY <1>1, <2>1, <2>2
<1>6. Complete(in, 1) /\ Coalesced(in)[1] = r
  <2>1. 1 \in 1 .. Len(Spans(in))
    BY <1>5 DEF N, s
  <2>2. Coalesced(in)[1] = Spans(in)[1]
    BY <2>1, SpanNumbers
  <2>3. ~(1 < Len(Spans(in)))
    BY <1>5 DEF N, s
  <2> QED BY <1>4, <1>5, <2>2, <2>3 DEF Complete, s, N
<1>7. PICK h : Laying(in, h)
  BY BlocksAreCollected
<1>8. h[0] = <<>> /\ Blocks(in) = h[1] /\ h[1] = h[0] \o Tiles(in, r)
  <2>1. Len(Spans(in)) = 1
    BY <1>5 DEF N, s
  <2>2. h[0] = <<>> /\ Blocks(in) = h[1]
    BY <1>7, <2>1 DEF Laying
  <2>3. 1 \in 1 .. Len(Spans(in)) /\ 1 - 1 = 0
    BY <2>1
  <2>4. h[1] = IF Complete(in, 1) THEN h[1 - 1] \o Tiles(in, Coalesced(in)[1]) ELSE h[1 - 1]
    BY <1>7, <2>3 DEF Laying
  <2>5. h[1] = h[1 - 1] \o Tiles(in, r)
    BY <1>6, <2>4
  <2> QED BY <2>2, <2>3, <2>5
<1>9. Tiles(in, r) \in Seq(Span)
  <2>1. in.block \in Nat
    BY DEF Sound
  <2>2. r.start < r.end
    BY <1>2 DEF Sound
  <2> QED BY <2>1, <2>2, TilesAre
<1>10. \A t \in Seq(Span) : <<>> \o t = t
  OBVIOUS
<1> QED BY <1>8, <1>9, <1>10

\* The places of the plans of an archive: each of its entries once.
LEMMA PlansAre ==
  ASSUME NEW keys, IsFiniteSet(keys),
         \A k \in keys : manifest[k].offset \in Int,
         \A j, k \in keys : manifest[j].offset = manifest[k].offset => j = k
  PROVE  \E place \in [1 .. Cardinality(keys) -> keys] :
           /\ \A m, n \in 1 .. Cardinality(keys) :
                m < n => manifest[place[m]].offset < manifest[place[n]].offset
           /\ PlansOf(keys) = [n \in 1 .. Cardinality(keys) |->
                [start |-> manifest[place[n]].offset, end |-> manifest[place[n]].end]]
<1> DEFINE at == [k \in keys |-> manifest[k].offset]
           N == Cardinality(keys)
<1>1. N \in Nat
  BY FS_CardinalityType
<1>2. at \in [keys -> Int] /\ \A j, k \in keys : at[j] = at[k] => j = k
  OBVIOUS
<1>3. \A k \in keys : at[k] = manifest[k].offset
  OBVIOUS
<1>4. PICK place \in [1 .. N -> keys] :
        /\ \A k \in keys : \E n \in 1 .. N : place[n] = k
        /\ \A m, n \in 1 .. N : m < n => at[place[m]] < at[place[n]]
        /\ \A n \in 1 .. N, k \in keys :
             /\ Cardinality(Lower(keys, at, k)) < n
             /\ n <= Cardinality(NotHigher(keys, at, k))
             <=> k = place[n]
  <2> HIDE DEF at
  <2>1. N = Cardinality(keys)
    OBVIOUS
  <2> HIDE DEF N
  <2> QED BY <1>2, <2>1, Places
<1> DEFINE order == InOrder(keys, LAMBDA j, k : manifest[j].offset < manifest[k].offset)
<1>5. order = [n \in 1 .. N |-> CHOOSE k \in keys :
                 /\ Cardinality({j \in keys : manifest[j].offset < manifest[k].offset}) < n
                 /\ n <= Cardinality({j \in keys : ~(manifest[k].offset < manifest[j].offset)})]
  BY DEF InOrder
<1>6. PlansOf(keys) = [n \in DOMAIN order |->
                        [start |-> manifest[order[n]].offset, end |-> manifest[order[n]].end]]
  BY DEF PlansOf
<1> HIDE DEF order, at, N
<1>7. ASSUME NEW k \in keys
      PROVE  /\ {j \in keys : manifest[j].offset < manifest[k].offset} = Lower(keys, at, k)
             /\ {j \in keys : ~(manifest[k].offset < manifest[j].offset)} = NotHigher(keys, at, k)
  BY <1>3 DEF Lower, NotHigher
<1>8. DOMAIN order = 1 .. N
  BY <1>5
<1>9. ASSUME NEW n \in 1 .. N
      PROVE  order[n] = place[n]
  <2>1. \A k \in keys :
          /\ Cardinality({j \in keys : manifest[j].offset < manifest[k].offset}) < n
          /\ n <= Cardinality({j \in keys : ~(manifest[k].offset < manifest[j].offset)})
          <=> k = place[n]
    BY <1>4, <1>7
  <2>2. place[n] \in keys
    BY <1>4
  <2> QED BY <1>5, <2>1, <2>2
<1>10. \A m, n \in 1 .. N : m < n => manifest[place[m]].offset < manifest[place[n]].offset
  BY <1>3, <1>4
<1>11. PlansOf(keys) = [n \in 1 .. N |->
         [start |-> manifest[place[n]].offset, end |-> manifest[place[n]].end]]
  BY <1>6, <1>8, <1>9
<1> QED BY <1>4, <1>10, <1>11 DEF N
-----------------------------------------------------------------------------
(* The plans of an archive are its entries, apart from each other *)

\* A planned entry lies in its archive, and two of them lie beside each other.
Lies(p) ==
  /\ p.offset \in Nat /\ p.end \in Nat /\ p.offset < p.end
  /\ p.end <= Content(p.source, archives[p.source]).len

Beside(p, q) == p.end <= q.offset \/ q.end <= p.offset

SpansInv ==
  request.extract =>
    /\ \A key \in DOMAIN manifest : Lies(manifest[key])
    /\ \A j, k \in DOMAIN manifest :
         j # k /\ manifest[j].source = manifest[k].source => Beside(manifest[j], manifest[k])

\* The entries of a directory that has been accepted end within the archive and
\* before the next one begins.
LEMMA EntriesLie ==
  ASSUME NEW zip, IsArchive(zip), NEW d, d.start \in Nat, ArchiveOk(zip.entries, zip, d)
  PROVE  /\ \A i \in DOMAIN zip.entries : LET o == zip.entries[i].offset IN
              /\ o \in Nat /\ SpanEnd(zip.entries, o, d) \in Nat
              /\ o < SpanEnd(zip.entries, o, d) /\ SpanEnd(zip.entries, o, d) <= zip.len
         /\ \A i, j \in DOMAIN zip.entries : zip.entries[i].offset < zip.entries[j].offset =>
              SpanEnd(zip.entries, zip.entries[i].offset, d) <= zip.entries[j].offset
<1> DEFINE es == zip.entries
           all == Offsets(es)
           later(o) == {p \in all : p > o}
<1>1. all \in SUBSET Nat /\ \A i \in DOMAIN es : es[i].offset \in all
  BY ArchiveFacts DEF IsEntry, Offsets
<1>2. zip.len \in Nat /\ d.start <= zip.len /\ \A o \in all : o < d.start
  BY ArchiveFacts DEF ArchiveOk
<1>3. \A o : SpanEnd(es, o, d) = Lesser(d.start, IF later(o) = {} THEN d.start ELSE Min(later(o)))
  BY DEF SpanEnd
<1>4. \A o \in all : later(o) \in SUBSET Nat /\ \A p \in later(o) : p \in all /\ p > o
  BY <1>1
<1>5. \A o, p \in all : p > o => p \in later(o)
  OBVIOUS
<1> HIDE DEF all, later
<1>6. ASSUME NEW o \in all
      PROVE  /\ SpanEnd(es, o, d) \in Nat /\ o < SpanEnd(es, o, d) /\ SpanEnd(es, o, d) <= d.start
             /\ \A p \in all : p > o => SpanEnd(es, o, d) <= p
  <2>1. o \in Nat /\ o < d.start /\ \A p \in all : p \in Nat
    BY <1>1, <1>2
  <2>2. CASE later(o) = {}
    <3>1. SpanEnd(es, o, d) = d.start
      BY <1>3, <2>2 DEF Lesser
    <3> QED BY <1>5, <2>1, <2>2, <3>1
  <2>3. CASE later(o) # {}
    <3> DEFINE m == Min(later(o))
    <3>1. m \in later(o) /\ \A p \in later(o) : m <= p
      BY <1>4, <2>3, MinIs
    <3>2. m \in Nat /\ m > o
      BY <1>4, <3>1
    <3>3. SpanEnd(es, o, d) = Lesser(d.start, m)
      BY <1>3, <2>3
    <3>4. \A p \in all : p > o => m <= p
      BY <1>5, <3>1
    <3> HIDE DEF m
    <3> QED BY <2>1, <3>2, <3>3, <3>4 DEF Lesser
  <2> QED BY <2>2, <2>3
<1>7. ASSUME NEW i \in DOMAIN es
      PROVE  LET o == es[i].offset IN
             /\ o \in Nat /\ SpanEnd(es, o, d) \in Nat
             /\ o < SpanEnd(es, o, d) /\ SpanEnd(es, o, d) <= zip.len
  <2>1. es[i].offset \in all /\ es[i].offset \in Nat
    BY <1>1
  <2>2. /\ SpanEnd(es, es[i].offset, d) \in Nat /\ es[i].offset < SpanEnd(es, es[i].offset, d)
        /\ SpanEnd(es, es[i].offset, d) <= d.start
    BY <1>6, <2>1
  <2> HIDE DEF es
  <2> QED BY <1>2, <2>1, <2>2
<1>8. ASSUME NEW i \in DOMAIN es, NEW j \in DOMAIN es, es[i].offset < es[j].offset
      PROVE  SpanEnd(es, es[i].offset, d) <= es[j].offset
  <2>1. es[i].offset \in all /\ es[j].offset \in all /\ es[j].offset \in Nat /\ es[i].offset \in Nat
    BY <1>1
  <2> HIDE DEF es
  <2> QED BY <1>6, <1>8, <2>1
<1> QED BY <1>7, <1>8

\* So do the entries that an archive adds to the manifest.
LEMMA AddingLies ==
  ASSUME Reached, DirectoryInv, pc = "Entries"
  PROVE  /\ \A key \in DOMAIN Adding : LET p == Adding[key] IN
              /\ p.source = src /\ p.offset \in Nat /\ p.end \in Nat
              /\ p.offset < p.end /\ p.end <= Archive.len
         /\ \A j, k \in DOMAIN Adding : j # k => Beside(Adding[j], Adding[k])
<1>1. pc \in Reading /\ pc \in Parsed /\ pc \in Known
  BY DEF Reading, Parsed, Known
<1>2. /\ IsArchive(Archive) /\ entries = Archive.entries /\ info.start \in Nat
      /\ ArchiveOk(Archive.entries, Archive, info)
  BY <1>1, Pinning DEF DirectoryInv
<1> DEFINE from(i) == entries[i].offset
           to(i) == SpanEnd(entries, entries[i].offset, info)
           of(key) == CHOOSE i \in Chosen : KeyAt(entries, i) = key
<1>3. /\ \A i \in DOMAIN entries : from(i) \in Nat /\ to(i) \in Nat /\ from(i) < to(i) /\ to(i) <= Archive.len
      /\ \A i, j \in DOMAIN entries : from(i) < from(j) => to(i) <= from(j)
  <2>1. /\ \A i \in DOMAIN Archive.entries : LET o == Archive.entries[i].offset IN
              /\ o \in Nat /\ SpanEnd(Archive.entries, o, info) \in Nat
              /\ o < SpanEnd(Archive.entries, o, info) /\ SpanEnd(Archive.entries, o, info) <= Archive.len
        /\ \A i, j \in DOMAIN Archive.entries : Archive.entries[i].offset < Archive.entries[j].offset =>
              SpanEnd(Archive.entries, Archive.entries[i].offset, info) <= Archive.entries[j].offset
    BY <1>2, EntriesLie
  <2> QED BY <1>2, <2>1
<1>4. \A i, j \in DOMAIN entries : i # j => from(i) # from(j)
  BY <1>2 DEF ArchiveOk, UniqueOffsets
<1>5. DOMAIN Adding = {KeyAt(entries, i) : i \in Chosen} /\ Chosen \subseteq DOMAIN entries
  BY DEF Adding, Chosen, FileEntries
<1>6. ASSUME NEW key \in DOMAIN Adding
      PROVE  /\ of(key) \in DOMAIN entries /\ KeyAt(entries, of(key)) = key
             /\ Adding[key].source = src
             /\ Adding[key].offset = from(of(key)) /\ Adding[key].end = to(of(key))
  <2>1. of(key) \in Chosen /\ KeyAt(entries, of(key)) = key
    BY <1>5, <1>6
  <2>2. Adding[key] = Planned(src, pin, entries[of(key)], to(of(key)), TrustOf(key))
    BY <1>5, <1>6 DEF Adding
  <2> HIDE DEF of, to
  <2> QED BY <1>5, <2>1, <2>2 DEF Planned
<1> HIDE DEF from, to, of
<1>7. ASSUME NEW j \in DOMAIN Adding, NEW k \in DOMAIN Adding, j # k
      PROVE  Beside(Adding[j], Adding[k])
  <2>1. of(j) \in DOMAIN entries /\ of(k) \in DOMAIN entries /\ of(j) # of(k)
    BY <1>6, <1>7
  <2>2. from(of(j)) # from(of(k)) /\ from(of(j)) \in Nat /\ from(of(k)) \in Nat
    BY <1>3, <1>4, <2>1
  <2>3. to(of(j)) <= from(of(k)) \/ to(of(k)) <= from(of(j))
    BY <1>3, <2>1, <2>2
  <2> QED BY <1>6, <2>3 DEF Beside
<1>8. ASSUME NEW key \in DOMAIN Adding
      PROVE  LET p == Adding[key] IN
              /\ p.source = src /\ p.offset \in Nat /\ p.end \in Nat
              /\ p.offset < p.end /\ p.end <= Archive.len
  BY <1>3, <1>6
<1> QED BY <1>7, <1>8

\* An archive that is planned: the entries planned before are of other archives.
LEMMA EntriesKeepSpans ==
  ASSUME ReadInv, ManifestInv, SpansInv, AddEntries, NextSource
  PROVE  SpansInv'
<1>1. /\ pc = "Entries" /\ manifest' = Inserted(Adding)
      /\ UNCHANGED <<request, archives>>
  BY EntriesAdd
<1>2. pc \in Reading /\ Reached /\ DirectoryInv
  BY <1>1 DEF ReadInv, KnownInv, Reading
<1>3. request.extract /\ archives[src] = pin /\ Content(src, archives[src]) = Archive /\ src \in Nat
  BY <1>2 DEF Reached, Position, Pins, Archive
<1>4. /\ DOMAIN manifest' = DOMAIN manifest \cup DOMAIN Adding
      /\ \A key \in DOMAIN Adding : manifest'[key] = Adding[key]
      /\ \A key \in DOMAIN manifest \ DOMAIN Adding : manifest'[key] = manifest[key]
  BY <1>1, InsertedIs
<1>5. /\ \A key \in DOMAIN Adding : LET p == Adding[key] IN
           /\ p.source = src /\ p.offset \in Nat /\ p.end \in Nat
           /\ p.offset < p.end /\ p.end <= Archive.len
      /\ \A j, k \in DOMAIN Adding : j # k => Beside(Adding[j], Adding[k])
  BY <1>1, <1>2, AddingLies
<1>6. \A key \in DOMAIN manifest : manifest[key].source # src
  <2>1. Finished = src - 1
    BY <1>1 DEF Finished, Afterwards
  <2>2. \A key \in DOMAIN manifest : manifest[key].source \in 1 .. Finished
    BY <1>1 DEF ManifestInv, Collected
  <2> QED BY <1>3, <2>1, <2>2
<1>7. \A p : Lies(p)' <=> Lies(p)
  BY <1>1 DEF Lies, Content
<1>8. ASSUME NEW key \in DOMAIN manifest'
      PROVE  Lies(manifest'[key])
  <2>1. CASE key \in DOMAIN Adding
    <3>1. Lies(Adding[key])
      BY <1>3, <1>5, <2>1 DEF Lies
    <3> QED BY <1>4, <2>1, <3>1
  <2>2. CASE key \notin DOMAIN Adding
    BY <1>3, <1>4, <1>8, <2>2 DEF SpansInv
  <2> QED BY <2>1, <2>2
<1>9. ASSUME NEW j \in DOMAIN manifest', NEW k \in DOMAIN manifest', j # k,
             manifest'[j].source = manifest'[k].source
      PROVE  Beside(manifest'[j], manifest'[k])
  <2>1. CASE j \in DOMAIN Adding /\ k \in DOMAIN Adding
    BY <1>4, <1>5, <1>9, <2>1
  <2>2. CASE j \notin DOMAIN Adding /\ k \notin DOMAIN Adding
    BY <1>3, <1>4, <1>9, <2>2 DEF SpansInv
  <2>3. ~(j \in DOMAIN Adding /\ k \notin DOMAIN Adding)
    BY <1>4, <1>5, <1>6, <1>9
  <2>4. ~(j \notin DOMAIN Adding /\ k \in DOMAIN Adding)
    BY <1>4, <1>5, <1>6, <1>9
  <2> QED BY <2>1, <2>2, <2>3, <2>4
<1>10. \A p, q : Beside(p, q)' <=> Beside(p, q)
  BY DEF Beside
<1> QED BY <1>1, <1>7, <1>8, <1>9, <1>10 DEF SpansInv

\* The steps that plan nothing.
LEMMA OthersKeepSpans ==
  ASSUME Described, SpansInv, UNCHANGED <<request, manifest>>, PinsStay
  PROVE  SpansInv'
<1>1. CASE ~request.extract
  BY <1>1 DEF SpansInv
<1>2. CASE request.extract
  <2>1. ASSUME NEW key \in DOMAIN manifest
        PROVE  Lies(manifest[key])'
    <3>1. manifest[key].source \in DOMAIN archives /\ Lies(manifest[key])
      BY <1>2 DEF Described, SpansInv
    <3>2. archives'[manifest[key].source] = archives[manifest[key].source]
      BY <3>1 DEF PinsStay
    <3> QED BY <3>1, <3>2 DEF Lies, Content
  <2> QED BY <1>2, <2>1 DEF SpansInv, Beside
<1> QED BY <1>1, <1>2

LEMMA SpansStep ==
  ASSUME ReadInv, ManifestInv, SpansInv, Next
  PROVE  SpansInv'
<1>1. Reached /\ Described /\ archives \in Seq(Nat)
  BY DEF ReadInv, Reached, Pins, ManifestInv
<1>2. archives' = archives => PinsStay
  BY DEF PinsStay
<1>3. CASE Refused \/ ReadOn
  BY <1>1, <1>2, <1>3, OthersKeepSpans DEF Refused, ReadOn
<1>4. CASE (ParseRequest /\ pc' = "Source") \/ (Preflight /\ pc' \in Afterwards)
  <2>1. UNCHANGED <<request, manifest, archives>>
    BY <1>4 DEF ParseRequest, Preflight, Refuse, Afterwards
  <2> QED BY <1>1, <1>2, <2>1, OthersKeepSpans
<1>5. CASE HeadArchive /\ pc' = "Scan"
  <2>1. archives' = Append(archives, current[src]) /\ UNCHANGED <<request, manifest>>
    BY <1>5 DEF HeadArchive, Refuse
  <2>2. PinsStay
    BY <1>1, <2>1 DEF PinsStay
  <2> QED BY <1>1, <2>1, <2>2, OthersKeepSpans
<1>6. CASE HeadObject
  BY <1>6 DEF HeadObject, SpansInv
<1>7. CASE AddEntries /\ NextSource
  BY <1>7, EntriesKeepSpans
<1>8. CASE (MakeStore /\ pc' = "Stores") \/ StoresMade \/ Overwrite \/ UNCHANGED vars
  <2>1. UNCHANGED <<request, manifest, archives>>
    BY <1>8 DEF MakeStore, StoresMade, Overwrite, Refuse, vars
  <2> QED BY <1>1, <1>2, <2>1, OthersKeepSpans
<1> QED BY <1>1, <1>3, <1>4, <1>5, <1>6, <1>7, <1>8, Steps, Refusals DEF Refusal
-----------------------------------------------------------------------------
(* The stores *)

\* Whatever is left of an archive's plans, when some are skipped, its blocks can be
\* planned.
LEMMA StoreInputIsSound ==
  ASSUME ReadInv, ManifestInv, StoresInv, SpansInv, pc = "Stores", src \in Sources,
         NEW keys \in SUBSET PlannedFrom(src)
  PROVE  /\ Sound(Input(Content(src, archives[src]).len, PlansOf(keys), Options.block, Options.gap))
         /\ Options.block \in Nat \ {0}
         /\ Cardinality(keys) \in Nat /\ DOMAIN PlansOf(keys) = 1 .. Cardinality(keys)
         /\ Ordered(PlansOf(keys))
<1> DEFINE len == Content(src, archives[src]).len
           in == Input(len, PlansOf(keys), Options.block, Options.gap)
           N == Cardinality(keys)
<1>1. Reached /\ Position /\ request.extract /\ Accepted(request.raw)
  BY DEF ReadInv, Reached, Position, StoresInv
<1>2. Options.block \in Nat \ {0} /\ Options.gap \in Nat
  <2>1. Options.gap \in 0 .. MaxInteger /\ MaxInteger \in Nat
    BY <1>1, RuntimeAssumption DEF Accepted, Options
  <2>2. Options.block \in Nat \ {0}
    BY <1>1, BudgetIsWhole
  <2> QED BY <2>1, <2>2
<1>3. len \in Nat
  <2>1. src \in DOMAIN archives
    <3>1. Len(archives) = Len(request.sources) /\ archives \in Seq(Nat)
      BY <1>1 DEF Reached, Pins, Pinned, Reading
    <3>2. Sources = 1 .. Len(request.sources)
      BY <1>1, RequestFacts
    <3> QED BY <3>1, <3>2
  <2>2. IsArchive(Content(src, archives[src]))
    BY <1>1, <2>1, RequestFacts DEF Reached, Pins
  <2> QED BY <2>2 DEF IsArchive
<1>4. IsFiniteSet(keys) /\ N \in Nat
  <2>1. IsFiniteSet(DOMAIN manifest) /\ keys \in SUBSET DOMAIN manifest
    BY DEF StoresInv, PlannedFrom
  <2> QED BY <2>1, FS_Subset, FS_CardinalityType
<1>5. ASSUME NEW k \in keys
      PROVE  /\ manifest[k].source = src /\ k \in DOMAIN manifest
             /\ manifest[k].offset \in Nat /\ manifest[k].end \in Nat
             /\ manifest[k].offset < manifest[k].end /\ manifest[k].end <= len
  <2>1. manifest[k].source = src /\ k \in DOMAIN manifest
    BY DEF PlannedFrom
  <2> QED BY <1>1, <2>1 DEF SpansInv, Lies
<1>6. \A j, k \in keys : j # k => Beside(manifest[j], manifest[k])
  BY <1>1, <1>5 DEF SpansInv
<1>7. ASSUME NEW j \in keys, NEW k \in keys, manifest[j].offset = manifest[k].offset
      PROVE  j = k
  <2>1. j # k => Beside(manifest[j], manifest[k])
    BY <1>6
  <2> QED BY <1>5, <1>7, <2>1 DEF Beside
<1>8. PICK place \in [1 .. N -> keys] :
        /\ \A m, n \in 1 .. N : m < n => manifest[place[m]].offset < manifest[place[n]].offset
        /\ PlansOf(keys) = [n \in 1 .. N |->
             [start |-> manifest[place[n]].offset, end |-> manifest[place[n]].end]]
  <2>1. \A k \in keys : manifest[k].offset \in Int
    BY <1>5
  <2> QED BY <1>4, <1>7, <2>1, PlansAre
<1>9. /\ in.len = len /\ in.block = Options.block /\ in.gap = Options.gap
      /\ in.plans = PlansOf(keys)
  BY DEF Input
<1> HIDE DEF in, len, N
<1>10. DOMAIN in.plans = 1 .. N /\ IsFiniteSet(1 .. N)
  <2>1. in.plans = [n \in 1 .. N |-> [start |-> manifest[place[n]].offset, end |-> manifest[place[n]].end]]
    BY <1>8, <1>9
  <2>2. IsFiniteSet(1 .. N)
    BY <1>4, FS_Interval
  <2> QED BY <2>1, <2>2
<1>11. \A n \in 1 .. N : LET p == in.plans[n] IN
         p.start = manifest[place[n]].offset /\ p.end = manifest[place[n]].end
  BY <1>8, <1>9
<1>12. ASSUME NEW n \in 1 .. N
       PROVE  LET p == in.plans[n] IN
              p.start \in Nat /\ p.end \in Nat /\ p.start < p.end /\ p.end <= in.len
  <2>1. place[n] \in keys
    BY <1>8
  <2> QED BY <1>5, <1>9, <1>11, <2>1
<1>13. ASSUME NEW m \in 1 .. N, NEW n \in 1 .. N, m # n
       PROVE  Apart(in.plans[m], in.plans[n])
  <2>1. place[m] \in keys /\ place[n] \in keys /\ m \in Int /\ n \in Int
    BY <1>4, <1>8
  <2>2. manifest[place[m]].offset \in Nat /\ manifest[place[n]].offset \in Nat
    BY <1>5, <2>1
  <2>3. place[m] # place[n]
    BY <1>8, <1>13, <2>1, <2>2
  <2> QED BY <1>6, <1>11, <2>1, <2>3 DEF Apart, Beside
<1>14. Sound(in)
  BY <1>2, <1>3, <1>9, <1>10, <1>12, <1>13 DEF Sound
<1>15. Ordered(in.plans)
  BY <1>8, <1>10, <1>11 DEF Ordered
<1> QED BY <1>2, <1>4, <1>9, <1>10, <1>14, <1>15 DEF in, len, N

\* What StoreContract says of a store.
Contracted(s) ==
  /\ Tight(s.input, s.blocks) /\ Covered(s.input, s.blocks, s.claims)
  /\ SharedIsWhole(s.input, s.blocks) /\ Readable(s.input, s.blocks)
  /\ \A b \in DOMAIN s.blocks :
       LET size == s.blocks[b].end - s.blocks[b].start IN
       /\ size <= s.window
       /\ PermitCount(Options.budget, size) <= PermitTotal(Options.budget)

ContractInv == why # "Blocks" /\ \A n \in DOMAIN stores : Contracted(stores[n])

\* The store of an archive, made for those of its entries that are not skipped.
Made(keys) ==
  LET in == Input(Content(src, archives[src]).len, PlansOf(keys), Options.block, Options.gap)
      blocks == Blocks(in)
  IN [input |-> in, blocks |-> blocks, claims |-> Claims(blocks, in.plans),
      window |-> StoreWindow(Options, in.len, Cardinality(keys))]

\* A store that is made keeps the contract.
LEMMA MadeIsContracted ==
  ASSUME ReadInv, ManifestInv, StoresInv, SpansInv, pc = "Stores", src \in Sources,
         NEW keys \in SUBSET PlannedFrom(src), keys # {}
  PROVE  Contracted(Made(keys)) /\ Increasing(Made(keys).blocks)
<1> DEFINE in == Input(Content(src, archives[src]).len, PlansOf(keys), Options.block, Options.gap)
           s == Made(keys)
<1>1. Sound(in) /\ Options.block \in Nat \ {0}
  BY StoreInputIsSound
<1>2. /\ s.input = in /\ s.blocks = Blocks(in) /\ s.claims = Claims(Blocks(in), in.plans)
      /\ s.window = StoreWindow(Options, in.len, Cardinality(keys))
  BY DEF Made
<1>3. in.block = Options.block /\ in.len \in Nat
  BY <1>1 DEF Input, Sound
<1>4. Cardinality(keys) \in Nat \ {0} /\ DOMAIN in.plans = 1 .. Cardinality(keys) /\ Ordered(in.plans)
  <2>1. /\ Cardinality(keys) \in Nat /\ in.plans = PlansOf(keys)
        /\ DOMAIN PlansOf(keys) = 1 .. Cardinality(keys) /\ Ordered(PlansOf(keys))
    BY StoreInputIsSound DEF Input
  <2>2. IsFiniteSet(DOMAIN manifest) /\ keys \in SUBSET DOMAIN manifest
    BY DEF StoresInv, PlannedFrom
  <2>3. Cardinality(keys) # 0
    BY <2>2, FS_Subset, FS_EmptySet
  <2> QED BY <2>1, <2>3
<1> HIDE DEF in, s
<1>5. Readable(s.input, s.blocks)
  <2> DEFINE N == Cardinality(keys)
  <2>1. N \in Nat \ {0} /\ DOMAIN in.plans = 1 .. N
    BY <1>4
  <2> HIDE DEF N
  <2> QED BY <1>1, <1>2, <1>4, <2>1, BlocksAreReadable
<1>6. /\ Increasing(s.blocks) /\ Tight(s.input, s.blocks) /\ Covered(s.input, s.blocks, s.claims)
      /\ SharedIsWhole(s.input, s.blocks)
      /\ \A b \in DOMAIN s.blocks : LET size == s.blocks[b].end - s.blocks[b].start IN
           size \in Int /\ size <= BlockSize(in)
  BY <1>1, <1>2, BlocksKeepContract
<1>7. BlockSize(in) = Options.block
  BY <1>1, <1>3 DEF BlockSize, Greatest
<1>8. Options.block <= s.window /\ s.window \in Int
  <2>1. IsRaw(request.raw) /\ Accepted(request.raw)
    BY RequestFacts DEF ReadInv, Reached, Position
  <2>2. Cardinality(keys) \in Nat
    <3>1. IsFiniteSet(DOMAIN manifest) /\ keys \in SUBSET DOMAIN manifest
      BY DEF StoresInv, PlannedFrom
    <3> QED BY <3>1, FS_Subset, FS_CardinalityType
  <2> DEFINE len == in.len
             files == Cardinality(keys)
             w == s.window
  <2>3. len \in Nat /\ files \in Nat /\ w = StoreWindow(Options, len, files)
    BY <1>2, <1>3, <2>2
  <2> HIDE DEF len, files, w
  <2>4. Options.block <= w /\ w \in Int
    BY <2>1, <2>3, WindowFits DEF Options
  <2> QED BY <2>4 DEF w
<1>9. ASSUME NEW b \in DOMAIN s.blocks
      PROVE  LET size == s.blocks[b].end - s.blocks[b].start IN
             /\ size <= s.window
             /\ PermitCount(Options.budget, size) <= PermitTotal(Options.budget)
  <2> DEFINE size == s.blocks[b].end - s.blocks[b].start
  <2>1. size \in Int /\ size <= Options.block
    BY <1>6, <1>7
  <2>2. Options.budget \in Nat /\ Options.block <= Options.budget
    BY BudgetIsWhole, OptionFacts DEF ReadInv, Reached
  <2> HIDE DEF size
  <2>3. size <= s.window /\ size <= Options.budget
    BY <1>1, <1>8, <2>1, <2>2
  <2>4. PermitCount(Options.budget, size) <= PermitTotal(Options.budget)
    BY <2>1, <2>3, PermitsOf DEF ReadInv, Reached
  <2> QED BY <2>3, <2>4 DEF size
<1> QED BY <1>6, <1>9, <1>5 DEF s, Contracted

\* A store that is made is the one of the entries that are left, and none is refused.
LEMMA MakeStoreMakes ==
  ASSUME ReadInv, ManifestInv, StoresInv, SpansInv, MakeStore
  PROVE  /\ pc' = "Stores"
         /\ UNCHANGED <<request, why>>
         /\ \/ stores' = stores
            \/ \E keys \in SUBSET PlannedFrom(src) : keys # {} /\ stores' = Append(stores, Made(keys))
<1>1. pc = "Stores" /\ src \in Sources
  BY DEF MakeStore
<1>2. PICK skipped \in SUBSET Skippable(src) :
        LET keys == PlannedFrom(src) \ skipped
            in == Input(Content(src, archives[src]).len, PlansOf(keys), Options.block, Options.gap)
            blocks == Blocks(in) IN
        IF keys # {} /\ ~Increasing(blocks) THEN Refuse("Blocks")
        ELSE /\ src' = src + 1
             /\ stores' = IF keys = {} THEN stores
                          ELSE Append(stores, [input |-> in, blocks |-> blocks,
                                 claims |-> Claims(blocks, in.plans),
                                 window |-> StoreWindow(Options, in.len, Cardinality(keys))])
             /\ UNCHANGED <<request, current, pc, why, reading, faults, manifest, archives>>
  BY DEF MakeStore
<1> DEFINE keys == PlannedFrom(src) \ skipped
<1>3. keys \in SUBSET PlannedFrom(src)
  OBVIOUS
<1>4. /\ IF keys # {} /\ ~Increasing(Made(keys).blocks) THEN Refuse("Blocks")
         ELSE /\ stores' = IF keys = {} THEN stores ELSE Append(stores, Made(keys))
              /\ UNCHANGED <<request, pc, why>>
  BY <1>2 DEF Made
<1> HIDE DEF keys
<1>5. keys # {} => Increasing(Made(keys).blocks)
  BY <1>1, <1>3, MadeIsContracted
<1> QED BY <1>1, <1>3, <1>4, <1>5
\* The blocks that the catalog is read in are those of a store with it alone.
LEMMA CatalogIsCutUp ==
  ASSUME ReadInv, pc = "Catalog"
  PROVE  CatalogBlocks = Blocks(CatalogInput)
<1>1. Reached /\ DirectoryInv /\ CatalogFound
  BY DEF ReadInv, KnownInv, ChargeInv
<1>2. /\ CatalogSpan.start \in Nat /\ CatalogSpan.end \in Nat /\ CatalogSpan.start < CatalogSpan.end
      /\ CatalogSpan.end <= info.start
  BY <1>1, CatalogFacts DEF Parsed
<1>3. info.start \in Nat /\ info.start < Length /\ Length \in Nat
  BY <1>1, Pinning DEF DirectoryInv, Known, Reading
<1>4. Options.block \in Nat /\ Options.gap \in Nat
  <2>1. Options.gap \in 0 .. MaxInteger /\ MaxInteger \in Nat
    BY <1>1, RuntimeAssumption DEF Reached, Position, Accepted, Options
  <2>2. Options.block \in Nat \ {0}
    BY <1>1, BudgetIsWhole DEF Reached
  <2> QED BY <2>1, <2>2
<1> DEFINE in == CatalogInput
           r == CatalogSpan
<1>5. /\ in.len = Length /\ in.block = Options.block /\ in.gap = Options.gap
      /\ in.plans = <<r>>
  BY DEF CatalogInput, Input
<1>6. r \in Span
  BY <1>2 DEF CatalogSpan, Span
<1> HIDE DEF in, r
<1>7. DOMAIN in.plans = {1} /\ in.plans[1] = r
  BY <1>5
<1>8. IsFiniteSet(DOMAIN in.plans)
  BY <1>7, FS_Singleton
<1>9. r.start \in Nat /\ r.end \in Nat /\ r.start < r.end /\ r.end <= in.len
  BY <1>2, <1>3, <1>5 DEF r
<1>10. Sound(in)
  BY <1>3, <1>4, <1>5, <1>7, <1>8, <1>9 DEF Sound
<1>11. Blocks(in) = Tiles(in, r)
  BY <1>5, <1>6, <1>10, OnePlanIsCutUp
<1> QED BY <1>11 DEF CatalogBlocks, in, r

\* The steps that make no store.
LEMMA OthersKeepContract ==
  ASSUME ContractInv, UNCHANGED <<request, stores>>, why' # "Blocks"
  PROVE  ContractInv'
<1>1. Options' = Options
  BY DEF Options
<1>2. \A s : Contracted(s)' <=> Contracted(s)
  BY <1>1 DEF Contracted
<1> QED BY <1>2 DEF ContractInv

\* No other step refuses a request for its blocks, or makes a store.
LEMMA OthersMakeNothing ==
  ASSUME why # "Blocks", Next \/ UNCHANGED vars, ~MakeStore
  PROVE  UNCHANGED <<request, stores>> /\ why' # "Blocks"
<1> DEFINE Nothing == UNCHANGED <<request, stores>> /\ why' # "Blocks"
<1>1. \A reason : Refuse(reason) /\ reason # "Blocks" => Nothing
  BY DEF Refuse
<1>2. UNCHANGED <<request, stores, why>> => Nothing
  OBVIOUS
<1> HIDE DEF Nothing
<1>3. ParseRequest \/ HeadFails \/ HeadArchive \/ HeadObject => Nothing
  BY <1>1, <1>2 DEF ParseRequest, HeadFails, HeadArchive, HeadObject
<1>4. GetRange \/ RetryGet \/ GetFails \/ ScanTooLong => Nothing
  BY <1>1, <1>2 DEF GetRange, RetryGet, GetFails, ScanTooLong
<1>5. ScanForEnd \/ ReadEnd \/ ReadRecord => Nothing
  <2>1. \A fields, boundary : DirectoryIs(fields, boundary) => Nothing
    BY <1>1, <1>2 DEF DirectoryIs
  <2>2. ScanForEnd => Nothing
    BY <1>1, <1>2 DEF ScanForEnd
  <2>3. ReadEnd => Nothing
    BY <1>1, <1>2, <2>1 DEF ReadEnd
  <2>4. ReadRecord => Nothing
    BY <1>1, <1>2, <2>1 DEF ReadRecord
  <2> QED BY <2>2, <2>3, <2>4
<1>6. ReserveDirectory \/ ParseDirectory \/ ReserveCatalog \/ ReserveBlock \/ AuthenticateCatalog => Nothing
  BY <1>1, <1>2 DEF ReserveDirectory, ParseDirectory, ReserveCatalog, ReserveBlock, AuthenticateCatalog
<1>7. AddEntries \/ Preflight \/ StoresMade \/ TimesOut => Nothing
  BY <1>1, <1>2 DEF AddEntries, Preflight, StoresMade, TimesOut
<1>8. Overwrite \/ Terminated \/ UNCHANGED vars => Nothing
  BY <1>2 DEF Overwrite, Terminated, vars
<1>9. Nothing
  BY <1>3, <1>4, <1>5, <1>6, <1>7, <1>8 DEF Next, Step
<1> QED BY <1>9 DEF Nothing

LEMMA ContractStep ==
  ASSUME ReadInv, ManifestInv, StoresInv, SpansInv, ContractInv, Next
  PROVE  ContractInv'
<1>1. Reached /\ why # "Blocks"
  BY DEF ReadInv, ContractInv
<1>2. CASE MakeStore
  <2>1. /\ UNCHANGED <<request, why>>
        /\ \/ stores' = stores
           \/ \E keys \in SUBSET PlannedFrom(src) : keys # {} /\ stores' = Append(stores, Made(keys))
    BY <1>2, MakeStoreMakes
  <2>2. CASE stores' = stores
    BY <1>1, <2>1, <2>2, OthersKeepContract
  <2>3. CASE \E keys \in SUBSET PlannedFrom(src) : keys # {} /\ stores' = Append(stores, Made(keys))
    <3>1. PICK keys \in SUBSET PlannedFrom(src) : keys # {} /\ stores' = Append(stores, Made(keys))
      BY <2>3
    <3>2. pc = "Stores" /\ src \in Sources
      BY <1>2 DEF MakeStore
    <3> DEFINE s == Made(keys)
    <3>3. Contracted(s)
      BY <3>1, <3>2, MadeIsContracted
    <3>4. stores' = Append(stores, s) /\ stores \in Seq(Range(stores))
      BY <3>1 DEF StoresInv
    <3> HIDE DEF s
    <3>5. \A n \in DOMAIN stores' : stores'[n] = s \/ (n \in DOMAIN stores /\ stores'[n] = stores[n])
      BY <3>4
    <3>6. \A n \in DOMAIN stores' : Contracted(stores'[n])
      BY <3>3, <3>5 DEF ContractInv
    <3>7. Options' = Options
      BY <2>1 DEF Options
    <3>8. \A t : Contracted(t)' <=> Contracted(t)
      BY <3>7 DEF Contracted
    <3> QED BY <1>1, <2>1, <3>6, <3>8 DEF ContractInv
  <2> QED BY <2>1, <2>2, <2>3
<1>3. CASE ~MakeStore
  BY <1>1, <1>3, OthersMakeNothing, OthersKeepContract
<1> QED BY <1>2, <1>3

\* No store is refused when objects of the archives before it may have been written
\* already, and what SourceBlockStore assumes of its blocks holds of every store that is
\* made: plan_source_blocks lays blocks that start and end with a byte of an entry, that
\* hold every entry whole, that two entries share only if it is the only one of both,
\* and each of which the window and the budget can hold; initial_claim_counts counts the
\* readers of each.
THEOREM StoresKeepContract == Spec => []StoreContract
<1> DEFINE I == PlanInv /\ StoresInv /\ SpansInv /\ ContractInv
<1>1. Init => I
  <2> SUFFICES ASSUME Init PROVE I
    OBVIOUS
  <2>1. ReadInv /\ ManifestInv /\ StoresInv
    BY ReadInit, ManifestInit, StoresInit
  <2>2. DOMAIN manifest = {} /\ DOMAIN stores = {}
    <3>1. manifest = <<>> /\ stores = <<>>
      BY DEF Init
    <3> QED BY <3>1
  <2>3. why # "Blocks"
    BY Zenon DEF Init
  <2> QED BY <2>1, <2>2, <2>3 DEF PlanInv, SpansInv, ContractInv
<1>2. ASSUME I, [Next]_vars PROVE I'
  <2>1. PlanInv' /\ ReadInv /\ ManifestInv
    BY <1>2, PlanStep DEF PlanInv
  <2>2. CASE Next
    BY <1>2, <2>1, <2>2, StoresStep, SpansStep, ContractStep
  <2>3. CASE UNCHANGED vars
    <3>1. UNCHANGED <<request, manifest, archives, stores, pc, why>>
      BY <2>3 DEF vars
    <3>2. StoresInv'
      BY <1>2, <3>1, OthersKeepStores DEF StoresInv
    <3>3. SpansInv'
      BY <1>2, <2>1, <3>1, OthersKeepSpans DEF ManifestInv, PinsStay
    <3>4. ContractInv'
      BY <1>2, <3>1, OthersKeepContract DEF ContractInv
    <3> QED BY <2>1, <3>2, <3>3, <3>4
  <2> QED BY <1>2, <2>2, <2>3
<1>3. I => StoreContract
  <2> SUFFICES ASSUME I PROVE StoreContract
    OBVIOUS
  <2>1. WindowsFit /\ why # "Blocks" /\ \A n \in DOMAIN stores : Contracted(stores[n])
    BY DEF StoresInv, ContractInv
  <2>2. pc = "Catalog" => CatalogBlocks = Blocks(CatalogInput)
    BY CatalogIsCutUp DEF PlanInv
  <2> QED BY <2>1, <2>2 DEF StoreContract, Contracted
<1> HIDE DEF I
<1> QED BY <1>1, <1>2, <1>3, PTL DEF Spec


=============================================================================
