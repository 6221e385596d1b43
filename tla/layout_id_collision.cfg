SPECIFICATION Spec
CONSTANTS
  Clients = {1, 2}
  MaxPanes = 3
  Arrangements = {"tiled", "scrolling"}
  Inputs = {"open", "take"}
  MaxInputs = 6
CHECK_DEADLOCK FALSE
PROPERTY KilledOnlyWhenAsked
