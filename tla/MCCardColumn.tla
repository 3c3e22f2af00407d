---------------------------- MODULE MCCardColumn ----------------------------
(* Small columns of two boards for TLC. *)
EXTENDS CardColumn, TLC

CONSTANT k3
TwoBoards == [k \in Columns |-> IF k = k3 THEN "b2" ELSE "b1"]
Symmetry == Permutations(Cards) \cup Permutations(Columns \ {k3})

\* Bound: no state behind the second turn, whoever's, is expanded.
Beyond(n) == Cardinality({c \in Cards : row[c].version > n})
TwoTurns == Beyond(1) + Beyond(2) <= 2
=============================================================================
