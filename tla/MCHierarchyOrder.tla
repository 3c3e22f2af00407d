-------------------------- MODULE MCHierarchyOrder --------------------------
(* Small boards for TLC: lists and processes can be exchanged for others.  *)
EXTENDS HierarchyOrder, TLC

Symmetry == Permutations(Items) \cup Permutations(Clients)
=============================================================================
