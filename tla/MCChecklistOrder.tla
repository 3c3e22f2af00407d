-------------------------- MODULE MCChecklistOrder --------------------------
(* Two checklists of one card and one of another for TLC. *)
EXTENDS ChecklistOrder, TLC

CONSTANTS k1, k2, k3
Three == {k1, k2, k3}
TwoCards == [k \in Three |-> IF k = k3 THEN "a" ELSE "b"]
Symmetry == Permutations(Items) \cup Permutations({k1, k2})
=============================================================================
