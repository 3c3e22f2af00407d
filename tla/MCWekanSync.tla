---------------------------- MODULE MCWekanSync ----------------------------
(***************************************************************************)
(* Titles "a" and "b" fit; "long" is cut to "a".  Wena knows the colour    *)
(* "red" and not "odd".                                                    *)
(***************************************************************************)
EXTENDS WekanSync

ShortTitles == [t \in Titles |-> IF t = "long" THEN "a" ELSE t]

\* The documents that are anywhere at the same time: two lists, or a list and
\* a checklist.
Together == {{1, 2}, {1, 3}}
Anywhere == Present(file) \cup Present(rows) \cup Present(shadow)

\* A frame or two of work, few documents changed elsewhere.
CONSTANTS ChangesMax, ApartMax
FewChanges ==
  /\ \E S \in Together : Anywhere \subseteq S
  /\ Cardinality(edited) + Cardinality(apart) <= ChangesMax
  /\ Cardinality(apart) <= ApartMax
=============================================================================
