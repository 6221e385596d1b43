SPECIFICATION Spec
CONSTANTS
  Names = {a, b}
  Panes = {p1, p2}
  MaxChanges = 3
  MaxFaults = 1
  MaxDeaths = 2
  MaxRenames = 1
  MaxEvents = 3
  None = None
INVARIANT SavedMarksTrue
INVARIANT OneWriter
INVARIANT NeverEmptyOverRemains
INVARIANT ForgottenIsGone
PROPERTY NeverOlder
PROPERTY ChangesReachDisk
CHECK_DEADLOCK FALSE
