SPECIFICATION Small
CONSTANTS
  a = a
  b = b
  c1 = c1
  c2 = c2
  k1 = k1
  k2 = k2
  k3 = k3
  i1 = i1
  i2 = i2
  i3 = i3
  l1 = l1
  l2 = l2
  p = p
  Boards = {a, b}
  Cards = {c1, c2}
  Checklists = {k1, k2, k3}
  Items = {i1, i2, i3}
  Labels = {l1, l2}
  LabelBoard <- LabelOf
  Names <- NameSet
  Actors = {p}
  Members <- MembersOf
  ListCapacity = 2
  ItemCapacity = 2
  LabelCapacity = 1
  MutateMax = 2
SYMMETRY Symmetry
CONSTRAINT TwoTurns
INVARIANTS TypeOK ScopesAgree WithinCapacity MembersBelong
PROPERTY VersionsTell
\* Versions are bounded, so a board in use comes to a stop.
CHECK_DEADLOCK FALSE
