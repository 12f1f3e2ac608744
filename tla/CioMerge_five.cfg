\* Five processes, three synchronisations.
CONSTANTS
  NProcs = 5
  Events <- MCEvents
  Traces <- FiveTraces
SPECIFICATION FairSpec
CHECK_DEADLOCK FALSE
INVARIANT ConcurrentPairsFound
