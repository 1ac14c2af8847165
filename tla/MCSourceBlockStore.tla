------------------------- MODULE MCSourceBlockStore -------------------------
(* Small archives for SourceBlockStore: one-byte blocks, two or three       *)
(* entries, one entry at most retried once.                                 *)
EXTENDS SourceBlockStore

\* Two and three one-byte blocks.
Start2 == [b \in 1 .. 2 |-> b - 1]
End2   == [b \in 1 .. 2 |-> b]
Start3 == [b \in 1 .. 3 |-> b - 1]
End3   == [b \in 1 .. 3 |-> b]

\* The first two of three entries share the block 1; the third is tiled into the
\* blocks 2 and 3.
MixFirst == <<1, 1, 2>>
MixLast  == <<1, 1, 3>>

\* One entry, tiled into all three blocks.
F1 == <<1>>
L3 == <<3>>

\* Every entry has a block of its own.
Own2 == [e \in 1 .. 2 |-> e]

\* How many bodies each entry may stream.
FirstTwice == [e \in 1 .. 2 |-> IF e = 1 THEN 2 ELSE 1]
ThirdTwice == [e \in 1 .. 3 |-> IF e = 3 THEN 2 ELSE 1]
Once1      == <<1>>

=============================================================================
