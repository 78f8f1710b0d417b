CONSTANTS
  Modes = {"event"}
  Wishes <- MCWishes
  InitialDevices <- MCInitialDevices
  MaxMoves = 0
  MaxRetries = 0
SPECIFICATION Spec
INVARIANTS
  DependenciesAreResolved
CHECK_DEADLOCK FALSE
