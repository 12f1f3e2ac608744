\* Two processes: every sequence of up to three MPI operations, and every pair of I/O traces.
CONSTANTS
  NProcs = 2
  MaxOps = 3
  MaxCalls = 1
  MaxOffset = 3
  NRanks = 3
  Programs <- MCPrograms
SPECIFICATION FairSpec
CHECK_DEADLOCK FALSE
INVARIANT MappingRight
INVARIANT MatchedAsExecuted
INVARIANT ProgramOrderChained
INVARIANT OffsetsRight
INVARIANT SoundTracesSucceed
PROPERTY Completes
