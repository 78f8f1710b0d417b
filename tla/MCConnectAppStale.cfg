CONSTANTS
  Modes = {"polling"}
  Wishes <- MCWishes
  InitialDevices <- MCInitialDevices
  MaxMoves = 2
  MaxRetries = 1
SPECIFICATION Spec
INVARIANTS
  DisconnectIsUnscheduled
CHECK_DEADLOCK FALSE
