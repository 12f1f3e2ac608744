\* One process with all its calls in main.
CONSTANTS
  NProcs = 1
  MaxCalls = 0
  MaxOffset = 3
  NRanks = 1
  Programs <- IoPrograms
SPECIFICATION FairSpec
CHECK_DEADLOCK FALSE
INVARIANT DurationsOfOwnRegions
