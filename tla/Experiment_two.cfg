\* Two processes on one file: from a trace to the report of the scripts.
CONSTANTS
  NProcs = 2
  MaxOps = 2
  MaxOffset = 7
  NRanks = 1
  Resolution = 2
  Leftover = 2
  Programs <- MCPrograms
  Inputs <- MCInputs
SPECIFICATION FairExperiment
CHECK_DEADLOCK FALSE
INVARIANT SegmentsFound
INVARIANT Chronological
INVARIANT OneOpenSet
INVARIANT HandedOver
INVARIANT SoundExperimentsFinish
INVARIANT ConflictsFound
INVARIANT ConflictsReal
PROPERTY ExperimentEnds
