CONSTANTS
  Width = 4
  Height = 3
  Bytes <- MCBytes
  Strays <- MCStrays
  IdtFrame = 18
  FirmwareConfig = 101
  KeyCodes <- MCKeys
  MaxPresses = 2
  MaxMoves = 2
  Jog = 42
SPECIFICATION SystemSpec
INVARIANTS AdjacentBytes StreamPhase ShiftFollowsKey 
PROPERTIES PointerSpec KeepsListening BytesAreRead ConfigKept
CHECK_DEADLOCK FALSE
