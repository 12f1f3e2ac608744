\* Four processes, so that the recursion branches, and messages that are received late.
CONSTANTS
  NProcs = 4
  MaxSyncs = 3
  Events <- MCEvents
  Traces <- EagerAndPlain
SPECIFICATION FairSpec
CHECK_DEADLOCK FALSE
INVARIANT OrderedNeverFails
INVARIANT MergedIsConcurrent
INVARIANT ConcurrentPairsFound
PROPERTY Terminates
