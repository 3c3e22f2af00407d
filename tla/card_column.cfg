\* Three cards, two columns of one board and one of another.
SPECIFICATION Spec
CONSTANTS
  k3 = k3
  Cards = {c1, c2, c3}
  Columns = {k1, k2, k3}
  BoardOf <- TwoBoards
  Capacity = 3
  MutateMax = 2
SYMMETRY Symmetry
INVARIANTS TypeOK PositionsDistinct
PROPERTY KeepsPromise
\* Versions end at MutateMax + 1, where no move is accepted any more.
CHECK_DEADLOCK FALSE
CONSTRAINT TwoTurns
