SPECIFICATION FairSpec
CONSTANTS
  Calls = {c1, c2, c3}
  Capacity = 1
  MaxRestarts = 1
  RestartOnFailure = TRUE
  MaxFaults = 2
INVARIANTS
  CallsAreAccountedFor
PROPERTIES
  EveryCallEnds
  ImplementsAtMostOnce
CHECK_DEADLOCK FALSE
