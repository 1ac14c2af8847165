---------------------------- MODULE ZipDirectory ----------------------------
(***************************************************************************)
(* What a source ZIP says about itself: its end-of-central-directory       *)
(* records (s3/archive/directory.rs), the names and sizes of its entries   *)
(* and its embedded catalog (s3/planner.rs, request.rs).  Pure functions;  *)
(* DeployPlan reads the archives.                                          *)
(*                                                                         *)
(* An archive is                                                           *)
(*   len       its length                                                  *)
(*   ends      offset of each end-record signature -> the record there     *)
(*   locators  offset of each ZIP64 locator -> the locator                 *)
(*   records   offset of each ZIP64 end record -> the record               *)
(*   entries   the stored entries of its central directory                 *)
(*   catalog   the decoded content of its catalog entry                    *)
(* A field of all ones is Absent.  A path is the sequence of its parts.    *)
(***************************************************************************)
EXTENDS Integers, SequencesExt, RuntimeOptions

CONSTANTS
  SigLen,         \* length of a signature, 4
  EocdLen,        \* EOCD_LEN
  MaxComment,     \* MAX_EOCD_COMMENT_LEN
  LocatorLen,     \* ZIP64_LOCATOR_LEN
  RecordLen,      \* ZIP64_EOCD_MIN_LEN
  MinEntry,       \* MIN_CENTRAL_DIRECTORY_ENTRY_BYTES
  ScanChunk,      \* METADATA_SCAN_CHUNK_BYTES
  ParserBuffer,   \* MAX_PARSER_DIRECTORY_BUFFER_BYTES
  EntryMetadata,  \* ENTRY_METADATA_ESTIMATE_BYTES
  DirectoryFactor,\* DIRECTORY_ALLOCATION_FACTOR
  CatalogKey,     \* EMBEDDED_CATALOG_PATH
  CatalogV2Key,   \* RESERVED_CATALOG_V2_PATH
  MaxPut          \* S3_SINGLE_PUT_LIMIT

ASSUME ZipAssumption ==
  /\ {SigLen, EocdLen, LocatorLen, RecordLen, ScanChunk} \subseteq Nat \ {0}
  /\ {MaxComment, MinEntry, ParserBuffer, EntryMetadata, DirectoryFactor, MaxPut} \subseteq Nat
  /\ SigLen <= EocdLen

-----------------------------------------------------------------------------
(* The end records *)

AlignDown(offset, chunk) == offset - (offset % chunk)
ChunkEnd(len, start, chunk) == Lesser(len, start + chunk)

\* The aligned chunks that hold the bytes from .. to - 1.
Chunks(from, to, chunk) == {AlignDown(p, chunk) : p \in from .. to - 1}

SearchStart(len) == Less(len, EocdLen + MaxComment)

\* Where a signature may stand that the scan of one chunk looks at: the chunk
\* and so much of the one above it that no signature on the border is missed.
CandidatesSlip(len, start, end) ==
  Greater(start, SearchStart(len)) .. Lesser(Lesser(end, len) - SigLen, len - EocdLen)

Candidates(len, start, end) ==
  LET last == Lesser(len, Lesser(end, len - EocdLen + SigLen) + SigLen - 1) IN
  Greater(start, SearchStart(len)) .. Lesser(last - SigLen, len - EocdLen)

\* An end record is bound when its comment ends with the archive.
IsBound(zip, at) == at + EocdLen + zip.ends[at].comment = zip.len

\* compatible_u16, compatible_u32
Compatible(legacy, wide) == legacy = Absent \/ legacy = wide

Consistent(end, record) ==
  /\ Compatible(end.count, record.count)
  /\ Compatible(end.size, record.size)
  /\ Compatible(end.start, record.start)

Info(fields, comment) ==
  [start |-> fields.start, size |-> fields.size, count |-> fields.count, comment |-> comment]

\* validate_directory_info: the directory ends where its end record begins.
DirectoryOk(info, boundary) ==
  info.start + info.size = boundary /\ info.count * MinEntry <= info.size

DirectoryEstimate(info, loaded) ==
  loaded + Lesser(info.start, ParserBuffer) + info.size * DirectoryFactor
    + info.count * EntryMetadata + info.comment * 2

-----------------------------------------------------------------------------
(* Entries *)

\* normalize_archive_key: empty and "." parts are dropped, ".." is refused.
KeyOf(path) == SelectSeq(path, LAMBDA part : part \notin {"", "."})
Normal(path) == KeyOf(path) # <<>> /\ \A i \in DOMAIN path : path[i] # ".."

\* stored_zip_file_path: folders have no key, whatever they are called; the
\* root as a folder is allowed.
PathOk(e) ==
  e.utf8 /\ (Normal(e.path) \/ (e.folder /\ KeyOf(e.path) = <<>>))
PathsOk(entries) == \A i \in DOMAIN entries : PathOk(entries[i])

KeyAt(entries, i) == KeyOf(entries[i].path)
IsReserved(key) == key \in {CatalogKey, CatalogV2Key}

\* The entries that are files to deploy, and those that are a catalog.
FileEntries(entries) ==
  {i \in DOMAIN entries : ~entries[i].folder /\ ~IsReserved(KeyAt(entries, i))}
EntriesAt(entries, key) == {i \in DOMAIN entries : ~entries[i].folder /\ KeyAt(entries, i) = key}

\* validate_archive_expansion
ExpansionOk(size, packed, limits) ==
  /\ size <= MaxPut /\ size <= limits.entry
  /\ size = 0 \/ (packed > 0 /\ (size \div packed < limits.ratio
                               \/ (size \div packed = limits.ratio /\ size % packed = 0)))

\* validate_stored_file_entry
StoredOk(e, limits) ==
  e.method \in {"Stored", "Deflate"} /\ ExpansionOk(e.size, e.packed, limits)

\* The entries of an archive can be planned: valid, and each key once.
EntriesOk(entries, limits) ==
  /\ PathsOk(entries)
  /\ \A i \in FileEntries(entries) : StoredOk(entries[i], limits)
  /\ \A i, j \in FileEntries(entries) : i # j => KeyAt(entries, i) # KeyAt(entries, j)

Offsets(entries) == {entries[i].offset : i \in DOMAIN entries}

UniqueOffsetsSlip(entries) == TRUE
UniqueOffsets(entries) == \A i, j \in DOMAIN entries : i # j => entries[i].offset # entries[j].offset

SumOf(entries, field) == FoldLeft(LAMBDA n, e : n + e[field], 0, entries)

\* validate_archive_directory
ArchiveOk(entries, zip, info) ==
  /\ info.start <= zip.len
  /\ SumOf(entries, "packed") <= MaxWord
  /\ SumOf(entries, "size") <= MaxWord
  /\ \A o \in Offsets(entries) : o < info.start
  /\ UniqueOffsets(entries)

\* An entry's bytes end at the next local header or at the directory.
SpanEnd(entries, offset, info) ==
  Lesser(info.start, LET later == {o \in Offsets(entries) : o > offset} IN
                     IF later = {} THEN info.start ELSE Min(later))

-----------------------------------------------------------------------------
(* The catalog *)

\* validate_catalog_entries: canonical paths, no reserved or repeated one,
\* well-formed digests, and the files of the archive with their sizes.
CatalogFormed(catalog) ==
  /\ catalog.version = 1
  /\ \A i \in DOMAIN catalog.entries :
       LET c == catalog.entries[i] IN
       Normal(c.path) /\ KeyOf(c.path) = c.path /\ ~IsReserved(c.path) /\ c.md5 # "malformed"
  /\ \A i, j \in DOMAIN catalog.entries : i # j => catalog.entries[i].path # catalog.entries[j].path

Listed(catalog) == {catalog.entries[i].path : i \in DOMAIN catalog.entries}
Files(entries) == {KeyAt(entries, i) : i \in FileEntries(entries)}

SizesMatch(catalog, entries) ==
  \A c \in DOMAIN catalog.entries : \E i \in FileEntries(entries) :
    catalog.entries[c].path = KeyAt(entries, i) /\ catalog.entries[c].size = entries[i].size

\* The comparison of both sets by their number of members and one inclusion.
SameFilesSlip(catalog, entries) == Listed(catalog) \subseteq Files(entries)
SameFiles(catalog, entries) ==
  Cardinality(Listed(catalog)) = Cardinality(Files(entries)) /\ Listed(catalog) \subseteq Files(entries)

CatalogOk(catalog, entries, limits) ==
  /\ CatalogFormed(catalog) /\ EntriesOk(entries, limits)
  /\ SameFiles(catalog, entries) /\ SizesMatch(catalog, entries)

=============================================================================
