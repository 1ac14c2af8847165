------------------------------ MODULE BlockPlan ------------------------------
(***************************************************************************)
(* Planning of the source blocks of one archive (plan_source_blocks,       *)
(* initial_claim_counts and block_indices_for_span of                      *)
(* s3/archive/block_store.rs): pure functions of the entries that the      *)
(* transfer is going to read.  DeployPlan gives them their input.          *)
(*                                                                         *)
(* The contract is what SourceBlockStore assumes of its blocks             *)
(* (BlocksAssumption, EntriesAssumption).                                  *)
(*                                                                         *)
(* Operators named ...Slip are not part of the model: each is the          *)
(* definition that follows it with one plausible mistake.                  *)
(***************************************************************************)
EXTENDS Integers, SequencesExt

\* An input: the length of the archive, the spans of its plans, block_bytes and
\* merge_gap_bytes.
Input(len, plans, block, gap) == [len |-> len, plans |-> plans, block |-> block, gap |-> gap]

-----------------------------------------------------------------------------
Least(a, b) == IF a <= b THEN a ELSE b
Greatest(a, b) == IF a <= b THEN b ELSE a

\* The bytes of plan i that the archive holds.
Clamped(in, i) ==
  [plan |-> i, start |-> Least(in.plans[i].start, in.len), end |-> Least(in.plans[i].end, in.len)]

Before(r, s) == r.start < s.start \/ (r.start = s.start /\ r.end < s.end)

\* A finite set in an order: at place n stands a member that fewer than n others
\* precede and that at least n do not follow.
InOrder(S, Precedes(_, _)) ==
  [n \in 1 .. Cardinality(S) |->
     CHOOSE x \in S : /\ Cardinality({y \in S : Precedes(y, x)}) < n
                      /\ n <= Cardinality({y \in S : ~Precedes(x, y)})]

Kept(in) == {r \in {Clamped(in, i) : i \in DOMAIN in.plans} : r.start < r.end}

Spans(in) ==
  LET order == InOrder(Kept(in), Before)
  IN [n \in DOMAIN order |-> [start |-> order[n].start, end |-> order[n].end]]

BlockSize(in) == Greatest(in.block, 1)

\* Whether a span is read together with the spans before it.
JoinsSlip(in, last, r) == Greatest(r.start - last.end, 0) <= in.gap

Joins(in, last, r) ==
  /\ Greatest(r.start - last.end, 0) <= in.gap
  /\ Greatest(last.end, r.end) - last.start <= BlockSize(in)

After(in, last, r) ==
  IF Joins(in, last, r) THEN [start |-> last.start, end |-> Greatest(last.end, r.end)] ELSE r

\* The last of the coalesced spans, when the loop has taken n spans.
Coalesced(in) ==
  LET spans == Spans(in)
      last[n \in DOMAIN spans] == IF n = 1 THEN spans[n] ELSE After(in, last[n - 1], spans[n])
  IN last

\* A span cut into blocks, of which only the last may be short.
Tiles(in, r) ==
  [i \in 1 .. (r.end - r.start + BlockSize(in) - 1) \div BlockSize(in) |->
     [start |-> r.start + (i - 1) * BlockSize(in),
      end   |-> Least(r.start + i * BlockSize(in), r.end)]]

\* The blocks of the coalesced spans that are complete: no span joins them any more.
Blocks(in) ==
  LET spans == Spans(in)
      last == Coalesced(in)
      laid[n \in 0 .. Len(spans)] ==
        IF n = 0 THEN <<>>
        ELSE IF n < Len(spans) /\ Joins(in, last[n], spans[n + 1]) THEN laid[n - 1]
        ELSE laid[n - 1] \o Tiles(in, last[n])
  IN laid[Len(spans)]

\* partition_point on the two bounds of a block, and the blocks of a span.
FirstAfter(blocks, start) == Cardinality({i \in DOMAIN blocks : blocks[i].end <= start})

LastBefore(blocks, end) == Cardinality({i \in DOMAIN blocks : blocks[i].start < end})

Indices(blocks, r) ==
  IF r.start >= r.end THEN {}
  ELSE FirstAfter(blocks, r.start) + 1 .. LastBefore(blocks, r.end)

Claims(blocks, plans) ==
  [b \in DOMAIN blocks |-> Cardinality({i \in DOMAIN plans : b \in Indices(blocks, plans[i])})]

\* The final test of plan_source_blocks.
Increasing(blocks) ==
  /\ \A b \in DOMAIN blocks : blocks[b].start < blocks[b].end
  /\ \A b \in DOMAIN blocks : b + 1 \in DOMAIN blocks => blocks[b].end <= blocks[b + 1].start

-----------------------------------------------------------------------------
(* The contract, in terms of bytes *)

Bytes(r) == r.start .. r.end - 1

\* The blocks that hold bytes of entry i.
Touched(in, blocks, i) ==
  {b \in DOMAIN blocks : Bytes(blocks[b]) \cap Bytes(in.plans[i]) # {}}

\* A block is no longer than block_bytes, so that a window of one block can hold
\* it, and starts and ends with a byte some entry needs.
Tight(in, blocks) ==
  \A b \in DOMAIN blocks :
    LET r == blocks[b]
        needed == UNION {Bytes(in.plans[i]) : i \in DOMAIN in.plans} IN
    /\ r.end - r.start <= BlockSize(in)
    /\ {r.start, r.end - 1} \subseteq needed
    /\ \A x \in Bytes(r) \ needed : \E y \in needed : x < y /\ y <= x + in.gap

\* The blocks an entry claims are those that hold its bytes, and together they
\* hold every byte of it that exists; the claims of a block count exactly the
\* readers that will release it.
Covered(in, blocks, claims) ==
  /\ \A i \in DOMAIN in.plans :
       /\ Touched(in, blocks, i) = Indices(blocks, in.plans[i])
       /\ \A x \in Bytes(in.plans[i]) : x < in.len =>
            \E b \in Touched(in, blocks, i) : x \in Bytes(blocks[b])
  /\ \A b \in DOMAIN blocks :
       /\ claims[b] = Cardinality({i \in DOMAIN in.plans : b \in Touched(in, blocks, i)})
       /\ claims[b] > 0

\* Two entries share a block only when neither has another one.
SharedIsWhole(in, blocks) ==
  \A i, j \in DOMAIN in.plans :
    i # j /\ Touched(in, blocks, i) \cap Touched(in, blocks, j) # {} =>
      /\ Touched(in, blocks, i) = Touched(in, blocks, j)
      /\ Cardinality(Touched(in, blocks, i)) = 1

\* The blocks lie one after another, every entry has a first and a last one, and an
\* entry that follows another in the order of the plans begins behind the blocks of
\* that one, or in its only block.
Readable(in, blocks) ==
  LET first(i) == FirstAfter(blocks, in.plans[i].start) + 1
      last(i)  == LastBefore(blocks, in.plans[i].end) IN
  /\ blocks # <<>> /\ \A b \in DOMAIN blocks : 0 <= blocks[b].start /\ blocks[b].start < blocks[b].end
  /\ \A a, b \in DOMAIN blocks : a < b => blocks[a].end <= blocks[b].start
  /\ \A i \in DOMAIN in.plans : {first(i), last(i)} \subseteq DOMAIN blocks /\ first(i) <= last(i)
  /\ \A i, j \in DOMAIN in.plans : i < j => last(i) < first(j) \/ first(i) = last(j)

=============================================================================
