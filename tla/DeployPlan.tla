----------------------------- MODULE DeployPlan -----------------------------
(***************************************************************************)
(* Planning of a deployment: everything between the request and the first  *)
(* write (s3/planner.rs, s3/archive/directory.rs, s3/archive.rs,           *)
(* s3/archive/range_reader.rs, request.rs), and the layout of the source   *)
(* blocks of each archive, which follows after the first writes.           *)
(*                                                                         *)
(* The sources are read one after the other through ranged GETs, each of   *)
(* which may fail and be repeated, while somebody may put another object   *)
(* into the place of a source.  What is read is charged to the source      *)
(* budget.  Only sizes, offsets, names and versions are modelled.          *)
(*                                                                         *)
(* A request has                                                           *)
(*   raw       its transfer options     limits    of archive expansion     *)
(*   extract   ZIP archives or copies   keys      number of object keys    *)
(*   sources   for each source the objects its key holds one after another *)
(*   catalogs  Absent, or the binding [version, digest] of each source     *)
(*   exclude, include                   the keys the patterns match        *)
(*   prefix    length of the prefix     markers   the sources with markers *)
(*   faults    how many GETs and HEADs fail (a bound)                      *)
(* A copied object is [key, len, etag].                                    *)
(*                                                                         *)
(* Operators named ...Slip are not part of the model: each is the          *)
(* definition that follows it with one plausible mistake.                  *)
(***************************************************************************)
EXTENDS ZipDirectory, BlockPlan

CONSTANTS
  Requests,       \* the requests
  GetAttempts,    \* GET_OBJECT_MAX_ATTEMPTS
  MaxCopy,        \* S3_SINGLE_COPY_LIMIT
  MaxRatio,       \* MAX_COMPRESSION_RATIO
  MaxKey,         \* S3_OBJECT_KEY_MAX_BYTES
  MaxCatalog,     \* EMBEDDED_CATALOG_MAX_BYTES
  CatalogFactor   \* CATALOG_ALLOCATION_FACTOR

ASSUME PlanAssumption ==
  {GetAttempts, MaxCopy, MaxRatio, MaxKey, MaxCatalog, CatalogFactor} \subseteq Nat

\* What the decoded fields can be, and what is the case of every object: the
\* fields of a record are unsigned, a comment has a field of limited width for its
\* length, and the objects a key holds one after another have that one key.
Optional == Nat \cup {Absent}

IsRaw(raw) ==
  /\ raw.memory \in Nat
  /\ {raw.budget, raw.block, raw.gap, raw.gets, raw.window, raw.concurrency} \subseteq Optional

IsEntry(e) == {e.offset, e.size, e.packed} \subseteq Nat

IsArchive(zip) ==
  /\ zip.len \in Nat
  /\ \A at \in DOMAIN zip.ends : LET end == zip.ends[at] IN
       at \in Nat /\ end.comment \in 0 .. MaxComment /\ {end.start, end.size, end.count} \subseteq Optional
  /\ \A at \in DOMAIN zip.locators : zip.locators[at].at \in Nat
  /\ \A at \in DOMAIN zip.records : LET record == zip.records[at] IN
       {record.start, record.size, record.count} \subseteq Nat
  /\ zip.entries \in Seq(Range(zip.entries)) /\ \A e \in Range(zip.entries) : IsEntry(e)
  /\ zip.catalog.entries \in Seq(Range(zip.catalog.entries))

IsSource(objects, extract) ==
  /\ objects \in Seq(Range(objects)) /\ objects # <<>>
  /\ \A object \in Range(objects) :
       IF extract THEN IsArchive(object) ELSE object.key = objects[1].key

ASSUME RequestsAssumption ==
  \A r \in Requests :
    /\ IsRaw(r.raw)
    /\ r.extract \in BOOLEAN
    /\ r.sources \in Seq(Range(r.sources))
    /\ \A s \in DOMAIN r.sources : IsSource(r.sources[s], r.extract)

VARIABLES
  request,
  current,   \* which of its objects the key of each source holds
  pc,        \* where the planning stands
  why,       \* why the request was refused
  src,       \* the source being planned
  pin,       \* the object its HEAD has seen, 0 for none
  loaded,    \* the chunks or blocks that have been read: start -> object read
  scan,      \* the scan of the end records: its end, end record and bytes read
  info,      \* the directory, when it is known
  entries,   \* the entries of the directory
  charged,   \* permits held for the directory, the catalog, and its block at an offset
  attempt,   \* of the GET under way
  faults,    \* how many GETs and HEADs may still fail
  manifest,  \* key -> planned object
  archives,  \* the pinned object of each source that has been planned
  stores     \* the block stores made: archive, input, blocks, claims and window

reading == <<pin, loaded, scan, info, entries, charged, attempt>>
vars == <<request, current, pc, why, src, reading, faults, manifest, archives, stores>>

NoScan == [end |-> 0, eocd |-> Absent, bytes |-> 0]
NoInfo == [start |-> Absent]
NoCharge == [directory |-> 0, catalog |-> 0, block |-> 0, at |-> Absent]

Init ==
  /\ request \in Requests
  /\ current = [s \in DOMAIN request.sources |-> 1]
  /\ pc = "Parse" /\ why = "" /\ src = 1
  /\ pin = 0 /\ loaded = <<>> /\ scan = NoScan /\ info = NoInfo /\ entries = <<>>
  /\ charged = NoCharge /\ attempt = 1 /\ faults = request.faults
  /\ manifest = <<>> /\ archives = <<>> /\ stores = <<>>

-----------------------------------------------------------------------------
Options == Runtime(request.raw)
Sources == DOMAIN request.sources
Content(s, v) == request.sources[s][v]
Archive == Content(src, pin)
Length == Archive.len

Bound(s) == IF request.catalogs = Absent THEN Absent ELSE request.catalogs[s].digest

\* Whether the filters let a key through.
Included(key) == key \notin request.exclude \/ key \in request.include

Forgotten ==
  /\ pin' = 0 /\ loaded' = <<>> /\ scan' = NoScan /\ info' = NoInfo /\ entries' = <<>>
  /\ charged' = NoCharge /\ attempt' = 1

Refuse(reason) ==
  /\ pc' = "Refused" /\ why' = reason
  /\ Forgotten
  /\ UNCHANGED <<request, current, src, faults, manifest, archives, stores>>

-----------------------------------------------------------------------------
(* Decoding and first checks *)

CatalogsAccepted ==
  request.catalogs # Absent =>
    /\ Len(request.catalogs) = Len(request.sources)
    /\ \A s \in Sources : LET c == request.catalogs[s] IN
         \/ c.version = Absent /\ c.digest = Absent
         \/ c.version = 1 /\ c.digest \notin {Absent, "malformed"}

LimitsAccepted ==
  request.limits.entry \in 1 .. MaxPut /\ request.limits.ratio \in 1 .. MaxRatio

\* validate_request_lengths
LengthsOk == request.keys = Len(request.sources) /\ request.sources # <<>>

\* parse_request, and the first check of a deployment.
ParseRequest ==
  /\ pc = "Parse"
  /\ IF Accepted(request.raw) /\ CatalogsAccepted /\ LimitsAccepted /\ LengthsOk
     THEN pc' = "Source" /\ UNCHANGED <<request, current, why, src, reading, faults, manifest, archives, stores>>
     ELSE Refuse("Request")

-----------------------------------------------------------------------------
(* HEAD of a source *)

\* Whether the source has all been planned, and the next one begins.
NextSource ==
  /\ src' = src + 1 /\ Forgotten
  /\ pc' = IF src = Len(request.sources) THEN "Preflight" ELSE "Source"

\* A copied key that the filters leave out needs no HEAD.
Heads == pc = "Source" /\ (~request.extract => Included(Content(src, current[src]).key))

HeadFails == Heads /\ faults > 0 /\ Refuse("Head")

\* head_source: what is read from here on is what this answer describes.
HeadArchive ==
  /\ pc = "Source" /\ request.extract
  /\ LET zip == Content(src, current[src]) IN
     IF zip.len < EocdLen THEN Refuse("Short")
     ELSE /\ pin' = current[src]
          /\ scan' = [NoScan EXCEPT !.end = zip.len]
          /\ archives' = Append(archives, current[src])
          /\ pc' = "Scan"
          /\ UNCHANGED <<request, current, why, src, loaded, info, entries, charged, attempt, faults, manifest, stores>>

Planned(s, v, e, end, trust) ==
  [source |-> s, version |-> v, offset |-> e.offset, end |-> end,
   size |-> e.size, packed |-> e.packed, trusted |-> trust]

Copied(s, v, object) ==
  [source |-> s, version |-> v, offset |-> Absent, end |-> Absent,
   size |-> object.len, packed |-> Absent, trusted |-> Absent]

\* insert_manifest_object
InsertedSlip(planned) == manifest @@ planned
Inserted(planned) ==
  [key \in DOMAIN manifest \cup DOMAIN planned |->
     IF key \in DOMAIN planned THEN planned[key] ELSE manifest[key]]

\* source_object_metadata, for a key that the filters let through.
HeadObject ==
  /\ pc = "Source" /\ ~request.extract
  /\ LET object == Content(src, current[src]) IN
     manifest' = IF Included(object.key)
                 THEN Inserted([key \in {object.key} |-> Copied(src, current[src], object)])
                 ELSE manifest
  /\ NextSource
  /\ UNCHANGED <<request, current, why, faults, archives, stores>>

-----------------------------------------------------------------------------
(* Ranged GETs *)

ScanSize == Lesser(Greater(Options.block, 1), ScanChunk)

\* A directory that fits a chunk of the scan is read in those, out of what the
\* scan has left where possible; a longer one in chunks of block_bytes.
FitsScan == info.size <= ScanSize
ReadSize == IF FitsScan THEN ScanSize ELSE Greater(Options.block, 1)

LocatorAt == scan.eocd - LocatorLen
Locator == Archive.locators[LocatorAt]

CatalogEntry == entries[CHOOSE i \in EntriesAt(entries, CatalogKey) : TRUE]
CatalogSpan == [start |-> CatalogEntry.offset, end |-> SpanEnd(entries, CatalogEntry.offset, info)]
CatalogInput == Input(Length, <<CatalogSpan>>, Options.block, Options.gap)
\* The catalog is the only plan of its store and ends within the archive: its
\* blocks are the span cut up (Blocks, without anything to sort or to join).
CatalogBlocks == Tiles(CatalogInput, CatalogSpan)

\* The ranges the planning needs before its next step, from which it starts
\* with the first one it has not got.
Ranges ==
  LET size == IF pc = "Parser" THEN ReadSize ELSE ScanSize
      chunks(from, to) == {[start |-> c, end |-> ChunkEnd(Length, c, size)] : c \in Chunks(from, to, size)} IN
  CASE pc = "Scan"     -> chunks(scan.end - 1, scan.end)
    [] pc = "Locator"  -> IF LocatorAt < 0 THEN {} ELSE chunks(LocatorAt, scan.eocd)
    [] pc = "Record"   -> chunks(Locator.at, Locator.at + RecordLen)
    [] pc = "Parser"   -> chunks(info.start, Length)
    [] pc = "Catalog"  -> {CatalogBlocks[b] : b \in DOMAIN CatalogBlocks}
    [] OTHER           -> {}

Missing == {r \in Ranges : r.start \notin DOMAIN loaded}
Wanted == CHOOSE r \in Missing : \A q \in Missing : r.start <= q.start

Scanning == pc \in {"Scan", "Locator", "Record"}

\* load_block_for_offset charges the bytes of the scan before it reads them.
TooMuch == Scanning /\ scan.bytes + Wanted.end - Wanted.start > Options.budget

\* If-Match: S3 serves the pinned object only and answers 412 otherwise.
ServesSlip(pinned, there) == TRUE
Serves(pinned, there) == there = pinned

\* A block of the catalog is asked for with its permits in hand.
Asking == Missing # {} /\ ~TooMuch /\ (pc = "Catalog" => charged.at = Wanted.start)

GetRange ==
  /\ Asking /\ Serves(pin, current[src])
  /\ loaded' = [start \in DOMAIN loaded \cup {Wanted.start} |->
                  IF start = Wanted.start THEN current[src] ELSE loaded[start]]
  /\ scan' = IF Scanning THEN [scan EXCEPT !.bytes = @ + Wanted.end - Wanted.start] ELSE scan
  /\ attempt' = 1
  /\ UNCHANGED <<request, current, pc, why, src, pin, info, entries, charged, faults, manifest, archives, stores>>

\* A retryable error: a transient status, a timeout, a throttle, a body that is
\* short or of another range.
RetryGet ==
  /\ Asking /\ faults > 0 /\ attempt < GetAttempts
  /\ attempt' = attempt + 1 /\ faults' = faults - 1
  /\ UNCHANGED <<request, current, pc, why, src, pin, loaded, scan, info, entries, charged, manifest, archives, stores>>

\* A permanent error, which 412 is, or a retryable one at the last attempt.
GetFails ==
  /\ Asking
  /\ ~Serves(pin, current[src]) \/ faults > 0
  /\ Refuse("Get")

ScanTooLong == Missing # {} /\ TooMuch /\ Refuse("Budget")

-----------------------------------------------------------------------------
(* The central directory *)

\* What stands at an offset, in the object that the chunk was read from.
At(offset) == Content(src, loaded[AlignDown(offset, ScanSize)])
End == At(scan.eocd).ends[scan.eocd]

\* One round of the loop of locate_eocd, from the end of the archive down.
ScanForEnd ==
  /\ pc = "Scan" /\ Missing = {}
  /\ LET start == AlignDown(scan.end - 1, ScanSize)
         candidates == Candidates(Length, start, ChunkEnd(Length, start, ScanSize))
         found == {p \in candidates : p \in DOMAIN At(p).ends /\ IsBound(At(p), p)} IN
     IF found # {}
     THEN IF At(Max(found)).ends[Max(found)].split THEN Refuse("Directory")
          ELSE /\ scan' = [scan EXCEPT !.eocd = Max(found)]
               /\ pc' = "Locator"
               /\ UNCHANGED <<request, current, why, src, pin, loaded, info, entries, charged, attempt, faults, manifest, archives, stores>>
     ELSE IF start <= SearchStart(Length) \/ start = 0 THEN Refuse("EndRecord")
     ELSE /\ scan' = [scan EXCEPT !.end = start]
          /\ UNCHANGED <<request, current, pc, why, src, pin, loaded, info, entries, charged, attempt, faults, manifest, archives, stores>>

DirectoryIs(fields, boundary) ==
  LET d == Info(fields, End.comment) IN
  IF ~DirectoryOk(d, boundary) THEN Refuse("Directory")
  ELSE /\ info' = d /\ pc' = "Reserve"
       /\ UNCHANGED <<request, current, why, src, pin, loaded, scan, entries, charged, attempt, faults, manifest, archives, stores>>

\* read_directory_info, up to the record a ZIP64 locator leads to.
ReadEnd ==
  /\ pc = "Locator" /\ Missing = {}
  /\ IF LocatorAt >= 0 /\ LocatorAt \in DOMAIN At(LocatorAt).locators
     THEN IF Locator.split \/ Locator.at + RecordLen > Length THEN Refuse("Directory")
          ELSE /\ pc' = "Record"
               /\ UNCHANGED <<request, current, why, src, reading, faults, manifest, archives, stores>>
     ELSE IF Absent \in {End.count, End.size, End.start} THEN Refuse("Directory")
     ELSE DirectoryIs(End, scan.eocd)

ReadRecord ==
  /\ pc = "Record" /\ Missing = {}
  /\ LET at == Locator.at IN
     IF at \notin DOMAIN At(at).records THEN Refuse("Directory")
     ELSE LET r == At(at).records[at] IN
          IF r.length < RecordLen \/ at + r.length # LocatorAt \/ r.split \/ ~Consistent(End, r)
          THEN Refuse("Directory")
          ELSE DirectoryIs(r, at)

-----------------------------------------------------------------------------
(* The budget *)

Available == PermitTotal(Options.budget) - charged.directory - charged.catalog - charged.block

Headroom == IF Bound(src) = Absent THEN 0 ELSE Lesser(Length, Options.block)
DirectoryBytes == DirectoryEstimate(info, scan.bytes)

\* prepare_zip_directory_reader: the permit of the directory is waited for.
ReserveDirectory ==
  /\ pc = "Reserve"
  /\ IF DirectoryBytes > MaxWord \/ DirectoryBytes + Headroom > Options.budget
     THEN Refuse("Budget")
     ELSE /\ PermitCount(Options.budget, DirectoryBytes) <= Available
          /\ charged' = [charged EXCEPT !.directory = PermitCount(Options.budget, DirectoryBytes)]
          /\ loaded' = IF FitsScan THEN loaded ELSE <<>>
          /\ pc' = "Parser"
          /\ UNCHANGED <<request, current, why, src, pin, scan, info, entries, attempt, faults, manifest, archives, stores>>

\* The parser has read the directory; validate_archive_directory.
ParseDirectory ==
  /\ pc = "Parser" /\ Missing = {}
  /\ LET zip == Content(src, loaded[AlignDown(info.start, ReadSize)]) IN
     IF Len(zip.entries) # info.count \/ ~ArchiveOk(zip.entries, Archive, info) THEN Refuse("Directory")
     ELSE /\ entries' = zip.entries
          /\ pc' = IF Bound(src) = Absent THEN "Entries" ELSE "Charge"
          /\ UNCHANGED <<request, current, why, src, pin, loaded, scan, info, charged, attempt, faults, manifest, archives, stores>>

-----------------------------------------------------------------------------
(* The catalog *)

CatalogBytes == CatalogEntry.size * CatalogFactor
\* The most that reading the catalog holds at a time, next to its permit.
CatalogBlockBytes == Lesser(Options.block, CatalogSpan.end - CatalogSpan.start)

\* authenticated_catalog_entry, and the checks and permits of
\* load_authenticated_catalog before it reads the catalog.
CatalogFound ==
  /\ PathsOk(entries)
  /\ Cardinality(EntriesAt(entries, CatalogKey)) = 1 /\ EntriesAt(entries, CatalogV2Key) = {}

CatalogFits(free) ==
  /\ CatalogEntry.size <= MaxCatalog /\ CatalogEntry.packed <= MaxCatalog
  /\ ExpansionOk(CatalogEntry.size, CatalogEntry.packed, request.limits)
  /\ Chargeable(Options.budget, CatalogBytes)
  /\ PermitCount(Options.budget, CatalogBytes) <= free

LeavesRoomSlip(free) == DirectoryBytes + CatalogBytes + CatalogBlockBytes <= Options.budget
LeavesRoom(free) == PermitCount(Options.budget, CatalogBlockBytes) <= free

ReserveCatalog ==
  /\ pc = "Charge"
  /\ LET free == Available - PermitCount(Options.budget, CatalogBytes) IN
     IF ~CatalogFound \/ ~CatalogFits(Available) \/ ~LeavesRoom(free) THEN Refuse("Catalog")
     ELSE /\ charged' = [charged EXCEPT !.catalog = PermitCount(Options.budget, CatalogBytes)]
          /\ loaded' = <<>>
          /\ pc' = "Catalog"
          /\ UNCHANGED <<request, current, why, src, pin, scan, info, entries, attempt, faults, manifest, archives, stores>>

\* The store of the catalog has no scheduler: its one reader asks for a block when
\* it comes to it, and gives up the permits of the block behind it before that
\* (release_finished_blocks, before poll_fetch).
BlockRoomSlip == Available
BlockRoom == Available + charged.block

Coming == pc = "Catalog" /\ Missing # {} /\ charged.at # Wanted.start
BlockPermits == PermitCount(Options.budget, Wanted.end - Wanted.start)

\* reserve_fetch: the permits of the block are waited for.
ReserveBlock ==
  /\ Coming /\ BlockPermits <= BlockRoom
  /\ charged' = [charged EXCEPT !.block = BlockPermits, !.at = Wanted.start]
  /\ UNCHANGED <<request, current, pc, why, src, pin, loaded, scan, info, entries, attempt, faults, manifest, archives, stores>>

CatalogRead == Content(src, loaded[CatalogSpan.start]).catalog

AuthenticateCatalog ==
  /\ pc = "Catalog" /\ Missing = {}
  /\ IF \/ ~CatalogEntry.sound
        \/ CatalogRead.digest # Bound(src)
        \/ ~CatalogOk(CatalogRead, entries, request.limits)
     THEN Refuse("Catalog")
     ELSE /\ charged' = [charged EXCEPT !.catalog = 0, !.block = 0, !.at = Absent]
          /\ pc' = "Entries"
          /\ UNCHANGED <<request, current, why, src, pin, loaded, scan, info, entries, attempt, faults, manifest, archives, stores>>

-----------------------------------------------------------------------------
(* The manifest *)

\* The size the catalog gives a key, if there is a catalog and it lists the key.
TrustOf(key) ==
  IF Bound(src) = Absent \/ key \notin Listed(CatalogRead) THEN Absent
  ELSE LET c == CatalogRead.entries IN c[CHOOSE i \in DOMAIN c : c[i].path = key].size

Chosen == {i \in FileEntries(entries) : Included(KeyAt(entries, i))}

\* The loop of add_archive_entries_to_manifest.
AddEntries ==
  /\ pc = "Entries"
  /\ IF ~EntriesOk(entries, request.limits) THEN Refuse("Entries")
     ELSE /\ manifest' =
               Inserted([key \in {KeyAt(entries, i) : i \in Chosen} |->
                 LET e == entries[CHOOSE i \in Chosen : KeyAt(entries, i) = key] IN
                 Planned(src, pin, e, SpanEnd(entries, e.offset, info), TrustOf(key))])
          /\ NextSource
          /\ UNCHANGED <<request, current, why, faults, archives, stores>>

\* validate_deployment_preflight
PreflightOk ==
  \A key \in DOMAIN manifest :
    /\ request.prefix + Len(key) <= MaxKey
    /\ IF request.extract THEN ExpansionOk(manifest[key].size, manifest[key].packed, request.limits)
       ELSE manifest[key].size <= MaxCopy

Preflight ==
  /\ pc = "Preflight"
  /\ IF PreflightOk
     THEN /\ pc' = IF request.extract THEN "Stores" ELSE "Planned"
          /\ src' = 1
          /\ UNCHANGED <<request, current, why, reading, faults, manifest, archives, stores>>
     ELSE Refuse("Preflight")

-----------------------------------------------------------------------------
(* The block stores, one archive after the other, when the objects of the   *)
(* archives before it are being written                                     *)

PlannedFrom(s) == {key \in DOMAIN manifest : manifest[key].source = s}

\* collect_zip_entry_plans: the plans of an archive by offset.
PlansOf(keys) ==
  LET sorted == InOrder(keys, LAMBDA j, k : manifest[j].offset < manifest[k].offset) IN
  [n \in DOMAIN sorted |-> [start |-> manifest[sorted[n]].offset, end |-> manifest[sorted[n]].end]]

\* catalog_skips_zip_entry: what the destination holds already, as the catalog says.
Skippable(s) ==
  IF s \in request.markers THEN {} ELSE {key \in PlannedFrom(s) : manifest[key].trusted # Absent}

MakeStore ==
  /\ pc = "Stores" /\ src \in Sources
  /\ \E skipped \in SUBSET Skippable(src) :
       LET keys == PlannedFrom(src) \ skipped
           in == Input(Content(src, archives[src]).len, PlansOf(keys), Options.block, Options.gap)
           blocks == Blocks(in) IN
       IF keys # {} /\ ~Increasing(blocks) THEN Refuse("Blocks")
       ELSE /\ src' = src + 1
            /\ stores' = IF keys = {} THEN stores
                         ELSE Append(stores, [input |-> in, blocks |-> blocks,
                                claims |-> Claims(blocks, in.plans),
                                window |-> StoreWindow(Options, in.len, Cardinality(keys))])
            /\ UNCHANGED <<request, current, pc, why, reading, faults, manifest, archives>>

StoresMade ==
  /\ pc = "Stores" /\ src \notin Sources
  /\ pc' = "Planned"
  /\ UNCHANGED <<request, current, why, src, reading, faults, manifest, archives, stores>>

-----------------------------------------------------------------------------
(* The surroundings *)

\* Somebody puts the next object under the key of a source.
Overwrite ==
  /\ pc \notin {"Parse", "Planned", "Refused"}
  /\ \E s \in Sources :
       /\ current[s] < Len(request.sources[s])
       /\ current' = [current EXCEPT ![s] = @ + 1]
  /\ UNCHANGED <<request, pc, why, src, reading, faults, manifest, archives, stores>>

\* timeout_at around plan_deployment: while it waits.
TimesOut ==
  /\ Heads \/ Missing # {} \/ pc = "Reserve"
  /\ Refuse("Deadline")

Terminated == pc \in {"Planned", "Refused"} /\ UNCHANGED vars

Step ==
  \/ ParseRequest \/ HeadFails \/ HeadArchive \/ HeadObject
  \/ GetRange \/ RetryGet \/ GetFails \/ ScanTooLong
  \/ ScanForEnd \/ ReadEnd \/ ReadRecord \/ ReserveDirectory \/ ParseDirectory
  \/ ReserveCatalog \/ ReserveBlock \/ AuthenticateCatalog \/ AddEntries \/ Preflight
  \/ MakeStore \/ StoresMade \/ TimesOut

Next == Step \/ Overwrite \/ Terminated

Spec == Init /\ [][Next]_vars

-----------------------------------------------------------------------------
(* Properties *)

BoundEnds(zip) == {p \in DOMAIN zip.ends : IsBound(zip, p)}

\* locate_eocd finds the last end record that is bound, wherever the borders of
\* its chunks fall, and finds none only when there is none.
EndRecordFound ==
  /\ scan.eocd # Absent => scan.eocd = Max(BoundEnds(Archive))
  /\ why = "EndRecord" => BoundEnds(Content(src, archives[src])) = {}

\* Whatever is put into the place of a source meanwhile, the plan describes one
\* object: the one its HEAD has seen, which the ranges to come are asked of.
PlanDescribesPin ==
  request.extract => \A key \in DOMAIN manifest :
    LET p == manifest[key]
        zip == Content(p.source, archives[p.source]) IN
    /\ p.version = archives[p.source]
    /\ \E e \in Range(zip.entries) :
         KeyOf(e.path) = key /\ e.offset = p.offset /\ e.size = p.size /\ e.packed = p.packed

\* The keys a source offers: its files, filtered.
Offered(s) ==
  IF request.extract
  THEN {key \in Files(Content(s, archives[s]).entries) : Included(key)}
  ELSE {Content(s, 1).key} \ {key \in {Content(s, 1).key} : ~Included(key)}

\* Every key that some source offers is planned, from the last source that does.
LastSourceWins ==
  pc \in {"Preflight", "Stores", "Planned"} =>
    /\ DOMAIN manifest = UNION {Offered(s) : s \in Sources}
    /\ \A key \in DOMAIN manifest :
         manifest[key].source = Max({s \in Sources : key \in Offered(s)})

\* A source that is bound to a catalog is planned with it or not at all: the
\* catalog is the one of the binding, lists the files of the archive one for
\* one, and the size it trusts is the size of the archive.
TrustIsWhole ==
  request.extract => \A key \in DOMAIN manifest :
    LET p == manifest[key]
        zip == Content(p.source, archives[p.source]) IN
    Bound(p.source) # Absent =>
      /\ p.trusted = p.size
      /\ zip.catalog.digest = Bound(p.source)
      /\ Listed(zip.catalog) = Files(zip.entries)
      /\ Len(zip.catalog.entries) = Cardinality(FileEntries(zip.entries))

\* Planning waits for nobody: when it asks for permits they are there, although
\* each amount is rounded up by itself.  That goes for the directory and for every
\* block of the catalog, next to the permits held for the directory, the catalog
\* and the block that has not been given up; the check before the first block is
\* made once and for one block (comment at planner.rs:645).
PlanningNeverWaits ==
  /\ pc = "Reserve" /\ DirectoryBytes + Headroom <= Options.budget =>
       PermitCount(Options.budget, DirectoryBytes) <= Available
  /\ Coming => BlockPermits <= BlockRoom

\* The window of every store is within the budget and holds a block, and unless
\* the request gives it a block for every GET, or else the archive; and a block can
\* be granted by a budget that is otherwise free.
WindowsFit ==
  \A n \in DOMAIN stores : LET s == stores[n] IN
    /\ Options.block <= s.window /\ s.window <= Options.budget
    /\ request.raw.window = Absent => s.window >= Lesser(Options.block * Options.gets, s.input.len)
    /\ PermitCount(Options.budget, Options.block) <= PermitTotal(Options.budget)

\* What SourceBlockStore assumes of every store that is made (BlocksAssumption,
\* EntriesAssumption): its blocks are tight, cover the entries, are shared whole and
\* can be read in the order of the plans, each fits the window and the budget, and
\* the window fits as well.  And no store is refused: it is made when
\* objects of the archives before it may have been written already, and a plan
\* that cannot be carried out is refused before that.
StoreContract ==
  /\ why # "Blocks" /\ WindowsFit
  /\ pc = "Catalog" => CatalogBlocks = Blocks(CatalogInput)
  /\ \A n \in DOMAIN stores :
       LET s == stores[n] IN
       /\ Tight(s.input, s.blocks) /\ Covered(s.input, s.blocks, s.claims)
       /\ SharedIsWhole(s.input, s.blocks) /\ Readable(s.input, s.blocks)
       /\ \A b \in DOMAIN s.blocks :
            LET size == s.blocks[b].end - s.blocks[b].start IN
            /\ size <= s.window
            /\ PermitCount(Options.budget, size) <= PermitTotal(Options.budget)

=============================================================================
