\* Four processes, two independent synchronisations, every choice of sets without I/O.
CONSTANTS
  NProcs = 4
  Events <- MCEvents
  Traces <- TwoPairs
SPECIFICATION FairSpec
CHECK_DEADLOCK FALSE
INVARIANT SetDurationPositive
