SPECIFICATION PagingSpec
CONSTANTS
  PageFrames <- MCFrames
  Indexes <- MCIndexes
  Virtual <- MCVirtual
  Physical <- MCPhysical
  NotPresent = NotPresent
  Unmapped = Unmapped
  pml4 = 1
  Leftovers <- MCLeftovers
PROPERTY SpaceSpec
