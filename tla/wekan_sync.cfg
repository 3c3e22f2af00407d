\* Two lists and a checklist, the checklist beside the first.
SPECIFICATION Spec
CONSTANTS
  Lists = {1, 2}
  Checklists = {3}
  Titles = {"a", "b", "long"}
  Cut <- ShortTitles
  Colors = {"red", "odd"}
  Palette = {"red"}
  Sorts = {5}
  MaxPosition = 1
  None = None
  Gone = Gone
  MayFail = TRUE
  ChangesMax = 2
  ApartMax = 1
CONSTRAINT FewChanges
INVARIANTS TypeOK ReopenShowsTheSame
PROPERTIES OwnEditsOnly TitlesReachFile
