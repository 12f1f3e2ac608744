\* One process, every sequence of up to three calls on five handles.
CONSTANTS
  NProcs = 1
  MaxCalls = 3
  MaxOffset = 3
  NRanks = 1
  Programs <- IoPrograms
SPECIFICATION FairSpec
CHECK_DEADLOCK FALSE
INVARIANT TypeOK
INVARIANT FlatDurationsRight
INVARIANT TimesRight
INVARIANT OffsetsRight
INVARIANT SoundTracesSucceed
