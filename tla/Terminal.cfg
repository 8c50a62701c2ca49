SPECIFICATION TerminalSpec
CONSTANTS
  Chars <- MCLetter
  Commands <- MCCommand
  MaxLines = 6
  Columns = 4
  ClearAt = 2
  MaxTyped = 2
  MaxFiles = 1
  MaxKeys = 3
INVARIANTS  TypedOnly
PROPERTY ScreenIsCleared
CHECK_DEADLOCK FALSE
