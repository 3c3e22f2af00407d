\* SQLite refuses nothing: WeKan only removes a list that Wena shows.
SPECIFICATION Spec
CONSTANTS
  Lists = {1, 2}
  Checklists = {3}
  Titles = {"a", "b", "long"}
  Cut <- ShortTitles
  Colors = {"red", "odd"}
  Palette = {"red"}
  Sorts = {5}
  MaxPosition = 1
  None = None
  Gone = Gone
  MayFail = FALSE
  ChangesMax = 3
  ApartMax = 1
CONSTRAINT FewChanges
INVARIANT EditsAreWritten
