\* Three processes, every order of up to three synchronisations, every descriptor order;
\* for up to two of them, every choice of sets without I/O.
CONSTANTS
  NProcs = 3
  MaxSyncs = 3
  MaxQuiet = 2
  Events <- MCEvents
  Traces <- MCTraces
SPECIFICATION FairSpec
CHECK_DEADLOCK FALSE
INVARIANT TypeOK
INVARIANT ViewsConsistent
INVARIANT OrderedNeverFails
INVARIANT MergedIsConcurrent
INVARIANT EveryEventReported
PROPERTY ExploresCuts
