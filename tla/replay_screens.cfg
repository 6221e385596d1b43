SPECIFICATION Spec
CONSTANTS
  MaxPanes = 3
  Opened = 2
  Versions = 4
  Chunks = 2
  max_backlog = 3
  SEED_SEND_WINDOW = 2
  SEED_CATCH_UP_LIMIT = 2
  RESYNC_START_BACKLOG = 1
  Inputs = {"output", "resize", "control", "spawn", "exit"}
  Flood = {}
  MaxInputs = 4
CHECK_DEADLOCK FALSE
INVARIANT TypeOK
INVARIANT TranscriptIntact
INVARIANT ControlsInOrder
INVARIANT CurrentWhenQuiet
