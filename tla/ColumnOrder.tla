----------------------------- MODULE ColumnOrder -----------------------------
(***************************************************************************)
(* What the cards of the board columns promise to a reader: every column   *)
(* (a list crossed with a swimlane) is a sequence of cards, a new card     *)
(* goes to its end, and a move takes a selection out of wherever its cards *)
(* are and puts it, in the order selected, before one card of a column.    *)
(* The cards moved, and only they, get their next version; no other card   *)
(* changes place with another.  Positions are not visible.                 *)
(***************************************************************************)
EXTENDS Naturals, Sequences, FiniteSets

CONSTANTS Cards, Columns

VARIABLES
  order,    \* the cards of every column, first to last
  version   \* the version of every card, 0 before it is created

vars == <<order, version>>

Members(s) == {s[i] : i \in DOMAIN s}
\* s lists the cards of S, each once.
Lists(s, S) == Members(s) = S /\ Len(s) = Cardinality(S)

Precedes(s, c, d) == \E i, j \in DOMAIN s : i < j /\ s[i] = c /\ s[j] = d
\* c is the card directly in front of d.
Adjoins(s, c, d) ==
  \E i \in DOMAIN s : i + 1 \in DOMAIN s /\ s[i] = c /\ s[i + 1] = d

\* sel is a block of s, in the order selected.
Together(s, sel) == \A i \in 1 .. Len(sel) - 1 : Adjoins(s, sel[i], sel[i + 1])
\* Two cards that are not in M stand in new as they stood in old.
SameOrder(new, old, M) ==
  \A c, d \in Members(new) \ M : Precedes(new, c, d) => Precedes(old, c, d)

Created == {c \in Cards : version[c] > 0}

Selections ==
  {sel \in UNION {[1 .. n -> Created] : n \in 1 .. Cardinality(Created)} :
     \A i, j \in DOMAIN sel : sel[i] = sel[j] => i = j}

NextVersions(S) ==
  [c \in Cards |-> IF c \in S THEN version[c] + 1 ELSE version[c]]

Init ==
  /\ order = [k \in Columns |-> <<>>]
  /\ version = [c \in Cards |-> 0]

Create(c) ==
  /\ c \notin Created
  /\ version' = NextVersions({c})
  /\ \E k \in Columns : order' = [order EXCEPT ![k] = Append(@, c)]

\* An edit of a card that is not about its place.
Touch(c) ==
  /\ c \in Created
  /\ version' = NextVersions({c})
  /\ UNCHANGED order

\* Wherever its cards are, the selection goes to one place of column k.
Move(sel) ==
  LET M == Members(sel)
  IN /\ version' = NextVersions(M)
     /\ order' \in [Columns -> Seq(Created)]
     /\ \E k \in Columns :
          /\ Together(order'[k], sel)
          /\ \A j \in Columns :
               /\ Lists(order'[j], (Members(order[j]) \ M)
                                     \cup (IF j = k THEN M ELSE {}))
               /\ SameOrder(order'[j], order[j], M)

Next ==
  \/ \E c \in Cards : Create(c) \/ Touch(c)
  \/ \E sel \in Selections : Move(sel)

Spec == Init /\ [][Next]_vars
=============================================================================
