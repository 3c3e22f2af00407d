-------------------------- MODULE MCWorkspaceFiles --------------------------
(* One server and two creating processes for TLC. *)
EXTENDS WorkspaceFiles, TLC

Symmetry == Permutations(Creators)
=============================================================================
