SPECIFICATION Spec
CONSTANTS
  Workers = 2
  MaxCrashes = 2
  MaxSignals = 2
  ForkFails = TRUE
INVARIANTS
  StopReachesAll
PROPERTY
  StopEnds
CHECK_DEADLOCK FALSE
