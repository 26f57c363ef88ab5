CONSTANTS
  MaxFailures = 2
  MaxPublications = 3
  MaxLag = 3
SPECIFICATION Spec
INVARIANTS
  StopSilences
  FailsSafe
PROPERTY
  FaultHomeward
CHECK_DEADLOCK FALSE
