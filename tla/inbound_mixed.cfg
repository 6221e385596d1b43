SPECIFICATION Spec
CONSTANTS
  Capacity = 3
  MediaCapacity = 1
  MaxInterleaved = 2
  MaxFrames = 3
  NoKey = NoKey
  NoFrame = NoFrame
  Frames <- MCMixedFrames
INVARIANT QueueSound
INVARIANT HandOverSound
PROPERTY StreamsKept
CHECK_DEADLOCK FALSE
