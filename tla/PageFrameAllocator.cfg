CONSTANTS
  MemoryMaps <- MCMaps
  NFrames = 5
  ByteBits = 1
  PageBytes = 2
  BitmapStruct = 1
  CounterMod = 6
SPECIFICATION Spec
INVARIANTS Conservation CountersExact FirmwareFramesSafe
PROPERTY PoolSpec
CHECK_DEADLOCK FALSE
