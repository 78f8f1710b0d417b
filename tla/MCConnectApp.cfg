CONSTANTS
  Modes = {"event", "polling"}
  Wishes <- MCWishes
  InitialDevices <- MCInitialDevices
  MaxMoves = 2
  MaxRetries = 1
SPECIFICATION FairSpec
INVARIANTS
  OpenedIsEarned
  OpenedHasDevice
PROPERTIES
  EndStays
  Settles
CHECK_DEADLOCK FALSE
