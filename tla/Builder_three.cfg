\* Three processes, every sequence of up to two MPI operations, messages received late.
CONSTANTS
  NProcs = 3
  MaxOps = 2
  MaxOffset = 3
  NRanks = 2
  Programs <- SyncPrograms
SPECIFICATION FairSpec
CHECK_DEADLOCK FALSE
INVARIANT MatchedAsExecuted
INVARIANT OrderedAcyclic
