\* Two boards with a list and a swimlane each, and on the second a further list
\* or a further swimlane: limits, creations, batches of two cards, transfers,
\* archives and restores.
SPECIFICATION Spec
CONSTANTS
  l1 = l1
  n1 = n1
  Cards = {c1, c2}
  Lists = {l1, l2, l3}
  Lanes = {n1, n2, n3}
  ListBoard <- TwoBoardsLists
  LaneBoard <- TwoBoardsLanes
  MutateMax = 3
  Times = {1, 2}
  EditorMax = 1
SYMMETRY Symmetry
INVARIANTS TypeOK StampsTellHidden HardWip ParentsTogether
PROPERTIES LaneRestoreExact ChangesAreVersioned
\* Versions end at MutateMax + 1, where no mutation is accepted any more.
CHECK_DEADLOCK FALSE
CONSTRAINT Bounded
