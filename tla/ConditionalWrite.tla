-------------------------- MODULE ConditionalWrite --------------------------
(***************************************************************************)
(* What the transfer task of one destination object promises: the object   *)
(* is written by a compare-and-swap on what the listing saw, however many  *)
(* requests that takes, and the task reports once, and no success that has *)
(* not happened.  DestinationWrite implements it.                          *)
(***************************************************************************)
CONSTANTS
  Content,  \* what an object may hold
  Intended, \* what the task is to write
  Absent    \* of no object

VARIABLES
  tag,     \* what the destination key holds
  listed,  \* what the listing saw there
  guarded, \* the task replaces nothing but that
  shown,   \* the key has held the intended content since the listing
  written, \* the task has written the key
  told     \* what the task has reported

vars == <<tag, listed, guarded, shown, written, told>>

Success == {"Ok", "Skipped"}

Init ==
  /\ tag \in Content \cup {Absent} /\ listed = tag /\ guarded \in BOOLEAN
  /\ shown = (tag = Intended) /\ written = FALSE /\ told = "None"

\* The write takes effect, before the report or behind it, but not behind the
\* report that the object has been left alone.
Swap ==
  /\ told # "Skipped"
  /\ guarded => tag = listed
  /\ tag' = Intended /\ shown' = TRUE /\ written' = TRUE
  /\ UNCHANGED <<listed, guarded, told>>

\* Somebody else writes or deletes the object.
Others ==
  /\ tag' \in Content \cup {Absent}
  /\ shown' = (shown \/ tag' = Intended)
  /\ UNCHANGED <<listed, guarded, written, told>>

Report(v) ==
  /\ told = "None"
  /\ v \in Success => shown
  /\ v = "Skipped" => ~written
  /\ told' = v
  /\ UNCHANGED <<tag, listed, guarded, shown, written>>

Next == Swap \/ Others \/ \E v \in {"Ok", "Skipped", "Err", "Aborted"} : Report(v)

Spec == Init /\ [][Next]_vars

=============================================================================
