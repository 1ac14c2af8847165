-------------------------- MODULE MarkerReplacement --------------------------
(***************************************************************************)
(* The streaming marker replacement of replace.rs as functions on          *)
(* sequences.  Input arrives in chunks; everything before the stable end,  *)
(* the last place where no longer pattern could still begin in what is yet *)
(* to come, is replaced and emitted, and the rest is carried over.         *)
(*                                                                         *)
(* Aho-Corasick is modelled by what its leftmost-longest search finds.     *)
(* Operators named ...Slip are not part of the model: each is the          *)
(* definition that follows it with one plausible mistake.                  *)
(***************************************************************************)
EXTENDS Integers, Sequences, FiniteSets

CONSTANTS
  Symbol,      \* bytes
  Replacement  \* [pattern -> its replacement]

Pattern == DOMAIN Replacement

\* Empty markers are dropped when the matcher is built.
ASSUME ReplacementAssumption ==
  /\ IsFiniteSet(Pattern) /\ Pattern \subseteq Seq(Symbol) \ {<<>>}
  /\ \A p \in Pattern : Replacement[p] \in Seq(Symbol)

MaxPattern ==
  IF Pattern = {} THEN 0
  ELSE CHOOSE n \in {Len(p) : p \in Pattern} : \A p \in Pattern : Len(p) <= n

\* The patterns that occur in s right after its first i symbols.
At(s, i) == {p \in Pattern : i + Len(p) <= Len(s) /\ SubSeq(s, i + 1, i + Len(p)) = p}

Longest(S) == CHOOSE p \in S : \A q \in S : Len(q) <= Len(p)

\* matcher.find from the cursor on: where the first match starts, or no match.
Starts(s, cursor) == {i \in cursor .. Len(s) - 1 : At(s, i) # {}}
Find(s, cursor) == CHOOSE i \in Starts(s, cursor) : \A j \in Starts(s, cursor) : i <= j

\* A pattern of the longest kind that begins here might not be complete yet.
StableEndSlip(s, eof) ==
  IF eof \/ MaxPattern = 0 THEN Len(s)
  ELSE IF Len(s) < MaxPattern - 2 THEN 0 ELSE Len(s) - (MaxPattern - 2)

StableEnd(s, eof) ==
  IF eof \/ MaxPattern = 0 THEN Len(s)
  ELSE IF Len(s) < MaxPattern - 1 THEN 0 ELSE Len(s) - (MaxPattern - 1)

\* The search goes on inside the match.
AfterSlip(start, p) == start + 1

After(start, p) == start + Len(p)

\* emit_stable from a cursor on: what is written of the pending input s, and where
\* the cursor ends, which a match may carry past the stable end.
EmittedFrom(s, eof) ==
  LET end == StableEnd(s, eof)
      from[cursor \in 0 .. Len(s)] ==
        IF cursor >= end THEN [out |-> <<>>, cursor |-> cursor]
        ELSE IF Starts(s, cursor) = {} \/ Find(s, cursor) >= end
        THEN [out |-> SubSeq(s, cursor + 1, end), cursor |-> end]
        ELSE LET start == Find(s, cursor)
                 found == Longest(At(s, start))
                 rest  == from[After(start, found)]
             IN [out |-> SubSeq(s, cursor + 1, start) \o Replacement[found] \o rest.out,
                 cursor |-> rest.cursor]
  IN from

Emitted(s, eof) == EmittedFrom(s, eof)[0]

Carry(s, eof) == SubSeq(s, Emitted(s, eof).cursor + 1, Len(s))

-----------------------------------------------------------------------------
\* The replacement of a whole content, read from left to right.
ReplacedFrom(s) ==
  LET from[i \in 0 .. Len(s)] ==
        IF i = Len(s) THEN <<>>
        ELSE IF At(s, i) = {} THEN <<s[i + 1]>> \o from[i + 1]
        ELSE LET p == Longest(At(s, i)) IN Replacement[p] \o from[i + Len(p)]
  IN from

Replaced(s) == ReplacedFrom(s)[0]

=============================================================================
