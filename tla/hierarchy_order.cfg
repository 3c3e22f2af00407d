\* Four lists, a desktop process that can show three of them, and the forms of
\* the HTTP service for everybody else.
SPECIFICATION Spec
CONSTANTS
  Items = {i1, i2, i3, i4}
  Clients = {c1}
  Shift = 4
  Capacity = 3
  MutateMax = 1
SYMMETRY Symmetry
INVARIANTS TypeOK PositionsDistinct PositionsContiguous
PROPERTIES MovesLandExactly OwnChangesKeepCacheCurrent MovesNeedCurrentOrder
\* Versions end at MutateMax + 1, where no move is accepted any more.
CHECK_DEADLOCK FALSE
