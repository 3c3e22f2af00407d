--------------------------- MODULE MCCardContents ---------------------------
(* Two boards with a card and a label each for TLC. *)
EXTENDS CardContents, TLC

CONSTANTS a, b, c1, c2, k1, k2, k3, i1, i2, i3, l1, l2, p

LabelOf == [l \in {l1, l2} |-> IF l = l1 THEN a ELSE b]
MembersOf == [x \in {a, b} |-> IF x = a THEN {p} ELSE {}]
NameSet == {"", "x"}

\* A card on each board, and a checklist with an item on c1, which may have
\* people and a label: everything else is added by the mutations themselves.
Start ==
  /\ board = [x \in Boards |-> 1]
  /\ \E x \in BOOLEAN :
       card = [c \in Cards |-> [board |-> IF c = c1 THEN a ELSE b,
                                archived |-> x /\ c = c2, version |-> 1]]
  /\ checklist = [k \in Checklists |-> IF k = k1 THEN NewChecklist(c1) ELSE NoRow]
  /\ item = [i \in Items |-> IF i = i1 THEN NewItem(k1) ELSE NoRow]
  /\ \E row \in {NoRow} \cup [name : Names, version : {1}] :
       label = [l \in Labels |->
                  IF l = l1 THEN [name |-> "x", version |-> 1] ELSE row]
  /\ tags \in SUBSET [board : {a}, card : {c1}, label : {l1}]
  /\ people \in SUBSET [board : {a}, card : {c1}, field : Fields, actor : {p}]
  /\ Init

\* What is not stored at the start can be exchanged.
Symmetry == Permutations({k2, k3}) \cup Permutations({i2, i3})

Small == Start /\ [][Next]_vars

\* At most two changes of cards and two of boards.
TwoTurns ==
  /\ card[c1].version + card[c2].version <= 4
  /\ board[a] + board[b] <= 4
=============================================================================
