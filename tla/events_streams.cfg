SPECIFICATION Spec
CONSTANTS
  Panes = {p1}
  UIs = {u1, u2}
  Readers = {r1}
  Titles = {"a", "b"}
  InitialTitle = "a"
  Filters <- MCFilters
  Sizes = {1, 4}
  MaxRing = 2
  MaxBytes = 3
  MaxBacklog = 2
  MaxEvents = 4
  MaxRuns = 2
  None = None
INVARIANT StreamSound
INVARIANT UiSound
INVARIANT LastWord
INVARIANT PaneStory
SYMMETRY MCSymmetry
CHECK_DEADLOCK FALSE
