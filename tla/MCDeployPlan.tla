---------------------------- MODULE MCDeployPlan ----------------------------
(***************************************************************************)
(* Requests for DeployPlan, in families that each exercise one part of the *)
(* planning on many inputs.  The constants of the code are scaled down:    *)
(* 1 MiB is 4 bytes, a permit 2 bytes, a signature 2, an end record 3.     *)
(***************************************************************************)
EXTENDS DeployPlan

CatalogV1 == <<".shin", "catalog.v1.json">>
CatalogV2 == <<".shin", "catalog.v2.json">>

Retries == [attempts |-> 1, base |-> 1, cap |-> 2, slowBase |-> 0, slowCap |-> 2]

Raw == [memory |-> 20, budget |-> Absent, block |-> 4, gap |-> 1, gets |-> 1, window |-> Absent,
        concurrency |-> Absent, retry |-> Retries]

File(path, offset) ==
  [path |-> path, folder |-> FALSE, utf8 |-> TRUE, method |-> "Deflate", offset |-> offset,
   size |-> 2, packed |-> 1, sound |-> TRUE]

NoCatalog == [digest |-> "none", version |-> 1, entries |-> <<>>]

\* An archive of these entries whose directory starts at an offset.
ZipOf(list, start, catalog) ==
  LET n == Len(list) IN
  [len |-> start + n + EocdLen,
   ends |-> (start + n :> [comment |-> 0, split |-> FALSE, count |-> n, size |-> n, start |-> start]),
   locators |-> <<>>, records |-> <<>>, entries |-> list, catalog |-> catalog]

Request(raw, sources) ==
  [raw |-> raw, limits |-> [entry |-> 4, ratio |-> 2], extract |-> TRUE, keys |-> Len(sources),
   sources |-> sources, catalogs |-> Absent, exclude |-> {}, include |-> {}, prefix |-> 1,
   markers |-> {}, faults |-> 0]

-----------------------------------------------------------------------------
(* End records, true and false ones, against the borders of the chunks *)

Marked(f) ==
  [len |-> 9, ends |-> [p \in DOMAIN f |-> [comment |-> f[p], split |-> FALSE, count |-> 0, size |-> 0, start |-> p]],
   locators |-> <<>>, records |-> <<>>, entries |-> <<>>, catalog |-> NoCatalog]

Marks ==
  {p :> c : p \in 0 .. 6, c \in 0 .. MaxComment}
  \cup {(p :> c) @@ (q :> d) : p \in 0 .. 4, q \in 2 .. 6, c \in 0 .. MaxComment, d \in {0, 2, 3}}

EndRequests ==
  {Request([Raw EXCEPT !.block = b], <<<<Marked(f)>>>>) :
     b \in 1 .. 4, f \in {g \in Marks : \A p, q \in DOMAIN g : p < q => q >= p + SigLen}}

-----------------------------------------------------------------------------
(* ZIP64: an entry at 0, the directory at 4, its record at 6, locator at 9 *)

Wide(legacy, at, split, record) ==
  [len |-> 14, ends |-> (11 :> [comment |-> 0, split |-> FALSE, count |-> legacy, size |-> 2, start |-> legacy]),
   locators |-> IF at = Absent THEN <<>> ELSE (9 :> [at |-> at, split |-> split]),
   records |-> (6 :> record), entries |-> <<File(<<"a">>, 0)>>, catalog |-> NoCatalog]

WideRequests ==
  {Request(Raw, <<<<Wide(legacy, at, split, [length |-> n, split |-> other, count |-> 1, size |-> 2, start |-> start])>>>>) :
     legacy \in {Absent, 1}, at \in {Absent, 5, 6, 12}, split \in BOOLEAN, other \in BOOLEAN, n \in 2 .. 4, start \in {3, 4}}

-----------------------------------------------------------------------------
(* Spans: the local headers of up to five files, and which are transferred *)

Names == <<"d", "b", "c", "a", "e">>

SpanZip(offsets) ==
  LET at == SetToSortSeq(offsets, LAMBDA x, y : x < y) IN
  ZipOf([i \in DOMAIN at |-> File(<<Names[i]>>, at[i])], 9, NoCatalog)

SpanRequests ==
  {[Request([Raw EXCEPT !.block = b, !.gap = g], <<<<SpanZip(offsets)>>>>) EXCEPT !.exclude = x] :
     b \in 2 .. 4, g \in 0 .. 2, offsets \in {o \in SUBSET (0 .. 7) : Cardinality(o) \in 2 .. 5},
     x \in SUBSET {<<"b">>, <<"c">>}}
  \cup {Request(Raw, <<<<ZipOf(<<File(<<"a">>, 0), File(<<"b">>, o)>>, 7, NoCatalog)>>>>) : o \in {0, 7}}
  \cup {Request([Raw EXCEPT !.memory = m], <<<<SpanZip({0, 3})>>>>) : m \in 2 .. 12}

-----------------------------------------------------------------------------
(* Names, limits, and two sources *)

Pool ==
  {File(<<"a">>, 0), File(<<"", "b", ".">>, 0), File(<<"b">>, 0), File(<<"..", "b">>, 0), File(<<"a", "b", "c", "d">>, 0),
   [File(<<"f">>, 0) EXCEPT !.folder = TRUE], [File(<<"", ".">>, 0) EXCEPT !.folder = TRUE],
   [File(<<"a">>, 0) EXCEPT !.utf8 = FALSE], [File(<<"a">>, 0) EXCEPT !.method = "Bzip2"],
   [File(<<"a">>, 0) EXCEPT !.size = 5], [File(<<"a">>, 0) EXCEPT !.size = 3],
   [File(<<"b">>, 0) EXCEPT !.packed = 0, !.size = 0], File(CatalogV1, 0)}

Lists == {[i \in DOMAIN l |-> [l[i] EXCEPT !.offset = i - 1]] : l \in BoundedSeq(Pool, 2)}
Plain == {<<>>, <<File(<<"a">>, 0)>>, <<File(<<"b">>, 0), File(<<"a">>, 2)>>}

SourceRequests ==
  UNION {{[Request(Raw, IF first THEN <<<<ZipOf(l, 4, NoCatalog)>>, <<ZipOf(p, 4, NoCatalog)>>>>
                         ELSE <<<<ZipOf(p, 4, NoCatalog)>>, <<ZipOf(l, 4, NoCatalog)>>>>)
            EXCEPT !.exclude = x, !.include = {<<"a">>}] :
            first \in BOOLEAN, l \in Lists, p \in Plain, x \in {{}, {<<"a">>, <<"b">>}}}}

-----------------------------------------------------------------------------
(* Catalogs, overwritten sources and failing GETs *)

Entry(path, size) == [path |-> path, size |-> size, md5 |-> "good"]
TrueList == <<Entry(<<"a">>, 2), Entry(<<"b">>, 2)>>

CatalogLists ==
  {TrueList, <<Entry(<<"b">>, 2), Entry(<<"a">>, 2)>>, <<Entry(<<"a">>, 2)>>, <<Entry(<<"a">>, 2), Entry(<<"a">>, 2)>>,
   <<Entry(<<"a">>, 2), Entry(<<"b">>, 1)>>, <<Entry(<<"a">>, 2), Entry(<<".", "b">>, 2)>>,
   <<Entry(<<"a">>, 2), Entry(CatalogV1, 2)>>, <<Entry(<<"a">>, 2), [Entry(<<"b">>, 2) EXCEPT !.md5 = "malformed"]>>,
   TrueList \o <<Entry(<<"c">>, 2)>>}

\* Two files and the catalog, whose bytes are those from one offset to the next.
Cataloged(size, at, catalog) ==
  ZipOf(<<File(<<"a">>, 0), [File(CatalogV1, 1) EXCEPT !.size = size], File(<<"b">>, at)>>, 8, catalog)

Good == [digest |-> "good", version |-> 1, entries |-> TrueList]

Bind(version, digest) == [version |-> version, digest |-> digest]

CatalogRequests ==
  {[Request([Raw EXCEPT !.memory = m, !.block = b, !.gets = g], <<<<Cataloged(size, at, Good)>>>>)
      EXCEPT !.catalogs = <<Bind(1, "good")>>] :
     m \in 10 .. 17, b \in 2 .. 5, g \in 1 .. 2, size \in 0 .. 2, at \in {2, 3, 6}}
  \cup {[Request([Raw EXCEPT !.block = 7], <<<<Cataloged(2, 4, [digest |-> d, version |-> v, entries |-> l])>>>>)
           EXCEPT !.catalogs = <<Bind(1, "good")>>, !.markers = x] :
          d \in {"good", "bad"}, v \in 1 .. 2, l \in CatalogLists, x \in {{}, {1}}}
  \cup {[Request(Raw, <<<<Cataloged(2, 4, Good)>>>>) EXCEPT !.catalogs = c] :
          c \in {<<Bind(2, "good")>>, <<Bind(1, Absent)>>, <<Bind(Absent, Absent)>>, <<Bind(1, "malformed")>>, <<>>}}

ChangingRequests ==
  {[Request([Raw EXCEPT !.block = 3], <<<<Cataloged(2, 4, Good), ZipOf(<<File(<<"a">>, 3), File(<<"c">>, 0)>>, 9, Good)>>,
                     <<ZipOf(<<File(<<"a">>, 1)>>, 4, NoCatalog), ZipOf(<<File(<<"a">>, 0)>>, 4, NoCatalog)>>>>)
      EXCEPT !.catalogs = <<c, Bind(Absent, Absent)>>, !.faults = 2] :
     c \in {Bind(1, "good"), Bind(Absent, Absent)}}

-----------------------------------------------------------------------------
(* Options, lengths and copies *)

OptionRequests ==
  {Request([Raw EXCEPT !.memory = m, !.budget = u, !.block = b, !.gets = g, !.window = w],
           <<<<ZipOf(<<File(<<"a">>, 0)>>, l, NoCatalog)>>>>) :
     m \in {0, 1, 6, 10, 26, 27, 31}, u \in {Absent, 0, 1, 5}, b \in {Absent, 0, 1, 2, 5}, g \in {Absent, 0, 1, 2, 4},
     w \in {Absent, 0, 3, 9}, l \in {1, 9}}
  \cup {Request([Raw EXCEPT !.retry = r], <<<<ZipOf(<<File(<<"a">>, 0)>>, 1, NoCatalog)>>>>) :
          r \in {[Retries EXCEPT !.attempts = 0], [Retries EXCEPT !.base = 3], [Retries EXCEPT !.slowCap = 9]}}
  \cup {[Request(Raw, <<<<ZipOf(<<>>, 0, NoCatalog)>>>>) EXCEPT !.keys = k] : k \in 0 .. 2}
  \cup {Request(Raw, <<>>)}

Object(key, len) == [key |-> <<key>>, len |-> len, etag |-> "etag"]

CopyRequests ==
  {[Request(Raw, <<<<Object("a", 1), Object("a", 2)>>, <<Object(k, n)>>, <<Object("a", 3)>>>>)
      EXCEPT !.extract = FALSE, !.exclude = x, !.faults = 1, !.prefix = p] :
     k \in {"a", "b"}, n \in {0, 6, 7}, x \in {{}, {<<"a">>}}, p \in {0, 4}}

AllRequests ==
  EndRequests \cup WideRequests \cup SpanRequests \cup SourceRequests
  \cup CatalogRequests \cup ChangingRequests \cup OptionRequests \cup CopyRequests

=============================================================================
