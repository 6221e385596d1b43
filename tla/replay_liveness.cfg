SPECIFICATION FairSpec
CONSTANTS
  MaxPanes = 2
  Opened = 2
  Versions = 2
  Chunks = 2
  max_backlog = 3
  SEED_SEND_WINDOW = 2
  SEED_CATCH_UP_LIMIT = 2
  RESYNC_START_BACKLOG = 1
  Inputs = {"output", "resize", "control", "wedge"}
  Flood = {1}
  MaxInputs = 2
CHECK_DEADLOCK FALSE
PROPERTY BaselineFinishes
PROPERTY CatchesUp
PROPERTY WedgedRemovedAfterAttach
