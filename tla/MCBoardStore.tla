---------------------------- MODULE MCBoardStore ----------------------------
(* Two small boards for TLC. *)
EXTENDS BoardStore, TLC

\* The first board has one list and one swimlane, the second all others, which
\* can be exchanged for each other.
CONSTANTS l1, n1
TwoBoardsLists == [l \in Lists |-> IF l = l1 THEN "b1" ELSE "b2"]
TwoBoardsLanes == [n \in Lanes |-> IF n = n1 THEN "b1" ELSE "b2"]
Symmetry ==
  Permutations(Cards) \cup Permutations(Lists \ {l1}) \cup Permutations(Lanes \ {n1})

Single(S, Row(_)) == Cardinality({x \in S : Stored(Row(x))}) <= 1

\* Bounds: a behaviour explores the swimlanes of the second board and its cards,
\* or the lists of both, or a list with a swimlane; rows it is not about keep
\* their first version.
SwimlanesOfOneBoard ==
  /\ \A b \in Boards : board[b] = 1
  /\ \A l \in Lists : list[l].version <= 1
  /\ lane[n1].version <= 1
  /\ \A c \in Cards : Stored(card[c]) => card[c].list # l1
  /\ LET Row(l) == list[l] IN Single(Lists \ {l1}, Row)

\* Few changes of lists, boards and cards; a state with one more is checked too.
ListsOfBothBoards ==
  /\ \A n \in Lanes : lane[n].version <= 1
  /\ LET Row(n) == lane[n] IN Single(Lanes \ {n1}, Row)
  /\ \A b \in Boards : board[b] <= 2
  /\ Cardinality({l \in Lists : list[l].version > 1}) <= 1
  /\ \A c \in Cards : card[c].version <= 2 /\ (Stored(card[c]) => card[c].at <= 1)

\* A swimlane and a list of the second board: the limit of the list is edited
\* while cards of it are hidden, and the swimlane comes back.
LimitUnderSwimlane ==
  /\ \A b \in Boards : board[b] = 1
  /\ list[l1].version <= 1 /\ lane[n1].version <= 1
  /\ LET Row(l) == list[l] IN Single(Lists \ {l1}, Row)
  /\ LET Row(n) == lane[n] IN Single(Lanes \ {n1}, Row)
  /\ \A l \in Lists : list[l].version <= 2
  /\ \A n \in Lanes : lane[n].version <= 2
  /\ \A c \in Cards :
       card[c].version <= 2 /\ (Stored(card[c]) => card[c].list # l1)

Bounded == SwimlanesOfOneBoard \/ ListsOfBothBoards \/ LimitUnderSwimlane
=============================================================================
