------------------------------ MODULE BlockPool ------------------------------
(***************************************************************************)
(* What the block store of an archive promises its readers: a pool of      *)
(* blocks that are fetched when somebody has a claim on them, as many at a *)
(* time as the budget holds, that stay until the last claim is released    *)
(* and not longer, and of which none goes away under a reader that copies  *)
(* from it.  SourceBlockStore implements it.                               *)
(***************************************************************************)
EXTENDS Naturals

CONSTANTS
  Block,   \* the blocks of the archive
  Reader,  \* those who read them
  Size(_), \* how many bytes a set of blocks takes
  Budget   \* how many bytes may be in memory

VARIABLES
  claims,   \* how often a block is still to be read
  held,     \* the blocks that occupy memory
  ready,    \* those of them that have arrived
  reading,  \* who copies from which block
  cancelled \* the transfer has failed

vars == <<claims, held, ready, reading, cancelled>>

Init ==
  /\ claims \in [Block -> Nat]
  /\ held = {} /\ ready = {} /\ reading = {} /\ cancelled = FALSE

\* A block that is claimed gets memory, if the budget has any left, ...
Fetch(b) ==
  /\ ~cancelled /\ b \notin held /\ claims[b] > 0
  /\ Size(held \cup {b}) <= Budget
  /\ held' = held \cup {b}
  /\ UNCHANGED <<claims, ready, reading, cancelled>>

\* ... and arrives there while it is still claimed ...
Arrive(b) ==
  /\ b \in held \ ready /\ claims[b] > 0
  /\ ready' = ready \cup {b}
  /\ UNCHANGED <<claims, held, reading, cancelled>>

\* ... or does not: its GET has failed or is given up.
GiveUp(b) ==
  /\ b \in held \ ready
  /\ held' = held \ {b}
  /\ UNCHANGED <<claims, ready, reading, cancelled>>

Claim(S) ==
  /\ ~cancelled
  /\ claims' = [b \in Block |-> claims[b] + (IF b \in S THEN 1 ELSE 0)]
  /\ UNCHANGED <<held, ready, reading, cancelled>>

Read(r, b) ==
  /\ ~cancelled /\ b \in ready
  /\ reading' = reading \cup {<<r, b>>}
  /\ UNCHANGED <<claims, held, ready, cancelled>>

\* A reader stops copying, and its claim remains, ...
Stop(r) ==
  /\ reading' = reading \ ({r} \X Block)
  /\ UNCHANGED <<claims, held, ready, cancelled>>

\* ... or gives its claims on some blocks back: those that have arrived leave with
\* their last claim, and nobody else copies from them.
Release(r, S) ==
  LET left == [b \in Block |-> IF b \in S THEN claims[b] - 1 ELSE claims[b]]
      gone == {b \in S \cap ready : left[b] = 0} IN
  /\ ~cancelled /\ \A b \in S : claims[b] > 0
  /\ claims' = left /\ held' = held \ gone /\ ready' = ready \ gone
  /\ reading' = reading \ ({r} \X Block)
  /\ \A x \in reading' : x[2] \notin gone
  /\ UNCHANGED cancelled

\* A transfer that has failed gives all memory back at once.
Cancel ==
  /\ ~cancelled /\ cancelled' = TRUE
  /\ held' = {} /\ ready' = {}
  /\ UNCHANGED <<claims, reading>>

\* After that nothing is fetched, and the readers end.
WindDown ==
  /\ cancelled
  /\ claims' \in [Block -> Nat] /\ reading' \subseteq reading
  /\ UNCHANGED <<held, ready, cancelled>>

Next ==
  \/ \E b \in Block : Fetch(b) \/ Arrive(b) \/ GiveUp(b)
  \/ \E S \in SUBSET Block : Claim(S)
  \/ \E r \in Reader, b \in Block : Read(r, b)
  \/ \E r \in Reader : Stop(r) \/ \E S \in SUBSET Block : Release(r, S)
  \/ Cancel \/ WindDown

Spec == Init /\ [][Next]_vars

=============================================================================
