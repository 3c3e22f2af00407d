--------------------------- MODULE MCNativeCards ---------------------------
(* A process and four cards, one more than it can show, for TLC. *)
EXTENDS NativeCards

CONSTANTS c1, c2

\* A board as it was loaded: two cards of one column, the first place of which
\* a card has left, or none in front of the second.
Start ==
  /\ \E x \in {0, 1}, k \in {CHOOSE j \in Columns : TRUE} :
       row = [c \in Cards |->
                CASE c = c1 -> [column |-> k, pos |-> x,
                                archived |-> FALSE, version |-> 1]
                  [] c = c2 -> [column |-> k, pos |-> 2,
                                archived |-> FALSE, version |-> 1]
                  [] OTHER -> NoRow]
  /\ copy = [p \in Processes |-> BoardOf(row)]
  /\ panel = [p \in Processes |-> NoPanel]

Small == Start /\ [][NativeNext]_nativeVars

\* Few changes of rows; a state with one more is checked too.
Few == LET v(c) == IF row[c] = Gone THEN 2 ELSE row[c].version
       IN MapThenSumSet(v, Cards) <= 4
=============================================================================
