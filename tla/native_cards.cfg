SPECIFICATION Small
CONSTANTS
  c1 = c1
  c2 = c2
  Processes = {p}
  Cards = {c1, c2, c3, c4}
  Columns = {k1, k2}
  MaxCards = 3
  MutateMax = 2
CONSTRAINT Few
INVARIANT NativeTypeOK
PROPERTIES OwnChangesKeepCopyCurrent SavesWhatWasShown
\* Versions are bounded, so a board in use comes to a stop.
CHECK_DEADLOCK FALSE
