\* A file opened twice, or closed before it is deleted, among others.
CONSTANTS
  NProcs = 1
  MaxCalls = 2
  MaxOffset = 3
  NRanks = 1
  Programs <- IoPrograms
SPECIFICATION FairSpec
CHECK_DEADLOCK FALSE
INVARIANT OffsetTrackerExists
