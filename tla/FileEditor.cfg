SPECIFICATION Spec
CONSTANTS
  Paths <- MCPaths
  Keys <- MCKeys
  BufferSize = 3
  MaxFiles = 2
  StackTexts <- MCStackTexts
INVARIANTS EditedFileOpens BufferMatchesIndex
PROPERTY SelectIsServed
