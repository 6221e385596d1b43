SPECIFICATION Spec
CONSTANTS
  Capacity = 3
  MediaCapacity = 0
  MaxInterleaved = 2
  MaxFrames = 3
  NoKey = NoKey
  NoFrame = NoFrame
  Frames <- MCOutputFrames
PROPERTY EverythingDrained
PROPERTY ReaderStops
PROPERTY EndReported
CHECK_DEADLOCK FALSE
