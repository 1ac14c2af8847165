---------------------------- MODULE ThrottleGate ----------------------------
(***************************************************************************)
(* What the shared throttle cooldown of s3/retry.rs promises its writers:  *)
(* a gate in front of S3 that every announced cooldown closes, that opens  *)
(* only with time, and that no writer passes while it is closed.           *)
(* RetryCoordinator implements it.                                         *)
(***************************************************************************)
EXTENDS Integers

CONSTANT Writer  \* the tasks that write to or delete from the destination

VARIABLES
  now,         \* the monotonic clock
  closedUntil, \* the instant at which the gate opens
  through      \* the writers that have passed and not come back

vars == <<now, closedUntil, through>>

Init == now = 0 /\ closedUntil = 0 /\ through = {}

\* A cooldown postpones the opening, by any time, and never advances it.
Announce ==
  /\ closedUntil' \in Nat /\ closedUntil' >= closedUntil
  /\ UNCHANGED <<now, through>>

Pass(w) ==
  /\ closedUntil <= now
  /\ through' = through \cup {w}
  /\ UNCHANGED <<now, closedUntil>>

Return(w) ==
  /\ through' = through \ {w}
  /\ UNCHANGED <<now, closedUntil>>

Tick == now' = now + 1 /\ UNCHANGED <<closedUntil, through>>

Next ==
  \/ Tick
  \/ Announce
  \/ \E w \in Writer : Pass(w) \/ Return(w)

Spec == Init /\ [][Next]_vars

=============================================================================
