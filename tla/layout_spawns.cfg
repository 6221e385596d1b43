SPECIFICATION FairSpec
CONSTANTS
  Clients = {1, 2}
  MaxPanes = 3
  Arrangements = {"tiled", "scrolling"}
  Inputs = {"open", "close", "take", "exit", "fail"}
  MaxInputs = 4
CHECK_DEADLOCK FALSE
INVARIANT TypeOK
INVARIANT LivePanesPlaced
PROPERTY FlightResolves
