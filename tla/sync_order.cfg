\* One list of WeKan's and one that the user of Wena adds after it.
SPECIFICATION Spec
CONSTANTS
  Lists = {1, 2}
  Checklists = {3}
  Titles = {"a", "b", "long"}
  Cut <- ShortTitles
  Colors = {"red", "odd"}
  Palette = {"red"}
  Sorts = {5}
  MaxPosition = 1
  None = None
  Gone = Gone
  MayFail = FALSE
  ChangesMax = 3
  ApartMax = 1
CONSTRAINT FewChanges
INVARIANT OrderSurvives
