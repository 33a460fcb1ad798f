SPECIFICATION FairSpec
CONSTANTS
  Targets <- FlipTargets
  Faults <- NoFaults
  MaxDeaths = 1
  MaxGap = 0
INVARIANTS
  LossIsReported
  MarkersAreThreads
PROPERTIES
  EntryKnowsTheGap
  ThreadsEnd
  RoundsEnd
