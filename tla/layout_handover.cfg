SPECIFICATION FairSpec
CONSTANTS
  Clients = {1, 2}
  MaxPanes = 1
  Arrangements = {"tiled", "scrolling"}
  Inputs = {"edit", "close", "exit", "take", "leave"}
  MaxInputs = 4
CHECK_DEADLOCK FALSE
INVARIANT DocsAgreeWhenQuiet
PROPERTY SettlesUnlessGhost
