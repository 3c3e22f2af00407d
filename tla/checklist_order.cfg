\* Four items, of which three fit on a card, and six positions: a checklist of
\* three may have no free block of three, or one that overlaps 0, 1, 2.
SPECIFICATION Spec
CONSTANTS
  Items = {i1, i2, i3, i4}
  k1 = k1
  k2 = k2
  k3 = k3
  Checklists <- Three
  CardOf <- TwoCards
  Capacity = 3
  PositionMax = 5
  MutateMax = 1
SYMMETRY Symmetry
INVARIANTS TypeOK PositionsDistinct
PROPERTIES UnversionedUntouched MovesLandExactly
\* Versions end at MutateMax + 1, where no mutation is accepted any more.
CHECK_DEADLOCK FALSE
