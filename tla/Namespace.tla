------------------------------ MODULE Namespace ------------------------------
(***************************************************************************)
(* Destination namespaces (namespace.rs) and what an update that changes    *)
(* its namespace may clean up (lifecycle.rs).                              *)
(*                                                                         *)
(* A namespace is a bucket prefix closed by a slash, here the sequence of  *)
(* its bucket and its segments: <<b>> is the root of bucket b, <<b, s>>    *)
(* its prefix s/.  A key is such a sequence too, and ends in "" when its   *)
(* text ends in a slash.  The text "starts with" then is a prefix of       *)
(* sequences, and two buckets never overlap, as the code has it where it   *)
(* compares bucket names first.                                            *)
(*                                                                         *)
(* Operators named ...Slip are not part of the model: each is the          *)
(* definition that follows it with one plausible mistake.                  *)
(***************************************************************************)
EXTENDS SequencesExt

\* Where the code has no prefix to compare with (an Option that is None).
NoNs == <<>>

\* namespace_contains
Covers(parent, child) == IsPrefix(parent, child)

\* namespaces_overlap
Overlap(left, right) == Covers(left, right) \/ Covers(right, left)

\* namespace_relation
Relation(previous, current) ==
  IF previous = current THEN "Same"
  ELSE IF Covers(previous, current) THEN "PreviousContainsCurrent"
  ELSE IF Covers(current, previous) THEN "CurrentContainsPrevious"
  ELSE "Disjoint"

\* A key under the list prefix of a namespace (namespace_list_prefix), also the
\* test of key_is_excluded.
InNamespace(key, ns) == ns # NoNs /\ IsStrictPrefix(ns, key)

\* The key that is the namespace itself: its relative key is empty.
AtRoot(key, ns) == key = Append(ns, "")

\* owner_tag_overlaps_cleanup for a tag of another owner: the tag's namespace
\* meets the one to clean up, and is not inside the one that is spared.
CompetesSlip(owner, cleanup, excluded) ==
  /\ owner # NoNs
  /\ Covers(cleanup, owner)
  /\ ~ (excluded # NoNs /\ Covers(excluded, owner))

Competes(owner, cleanup, excluded) ==
  /\ owner # NoNs
  /\ Overlap(owner, cleanup)
  /\ ~ (excluded # NoNs /\ Covers(excluded, owner))

\* plan_destination_change_cleanup: what happens to the previous namespace of
\* an update whose owner has not changed.
CleanupOfPrevious(previous, current, authorized) ==
  LET relation == Relation(previous, current) IN
  IF previous = NoNs \/ relation = "Same" \/ ~authorized THEN "Retain"
  ELSE IF relation = "CurrentContainsPrevious" THEN "DeleteStaleWithinCurrent"
  ELSE "DeleteNamespace"

\* previous_namespace_is_within_current: the child that the stale pass of the
\* update protects.
ProtectedChildSlip(previous, current) == NoNs

ProtectedChild(previous, current) ==
  IF previous # NoNs /\ Relation(previous, current) = "CurrentContainsPrevious"
  THEN previous ELSE NoNs

\* The current namespace, when it lies in the one to delete.
SparedChildSlip(previous, current) == NoNs

SparedChild(previous, current) ==
  IF Relation(previous, current) = "PreviousContainsCurrent"
  THEN current ELSE NoNs

=============================================================================
