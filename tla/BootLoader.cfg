SPECIFICATION ConsoleSpec
CONSTANTS
  Images <- MCImages
  ConfigTables <- MCTables
  PageSize = 2
  NPages = 5
  MaxDescriptors = 3
  MaxFailures = 2
INVARIANTS KernelIsWhole HandsOver MapFits
PROPERTY LoaderEnds
CHECK_DEADLOCK FALSE
