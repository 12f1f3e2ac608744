\* A set starts with a root event that another process leaves later.
CONSTANTS
  NProcs = 2
  MaxOps = 2
  MaxOffset = 7
  NRanks = 1
  Resolution = 1
  Leftover = 0
  Programs <- DurationPrograms
  Inputs <- DurationInputs
SPECIFICATION FairExperiment
CHECK_DEADLOCK FALSE
INVARIANT StatsAssertionHolds
