SPECIFICATION Spec
CONSTANTS
  InitialBackoff = 1
  MaxBackoff = 3
  MaxUpdates = 3
  MaxFaults = 4
INVARIANTS NothingReceivedIsLost BackoffFollowsFailures
PROPERTY Recovers
CHECK_DEADLOCK FALSE
