SPECIFICATION Spec
CHECK_DEADLOCK FALSE
CONSTANTS
  Apps <- MCApps
  Icons <- MCIcons
  ShellApps <- MCShell
  KeylessApps <- MCKeyless
  Terminal = "terminal"
  Width <- MCWidth
  Heights <- MCHeights
  MouseStates <- MCMouseStates
  NWindows = 4
INVARIANTS WindowsFit KeysBound DragFollowsPointer FocusedIsOpen AppOwnsWindow CloseWins
PROPERTY FramesEnd
