SPECIFICATION Spec
CONSTANTS
  Fields = 3
  Lowest = 9
  Highest = 10
  TopBar <- MCTopBar
INVARIANTS NeverBehind ShowsTime
