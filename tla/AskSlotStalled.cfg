SPECIFICATION FairSpec
CONSTANTS
  Asks = {a1}
  Visitors = {}
  Sessions = {s1}
  RestUsers = {}
  MaxDeltas = 1
  MaxRounds = 1
  MayStall = TRUE
  StoreMayFail = FALSE
  SessionOf <- MCSessionOf
PROPERTIES
  SlotFreed
CHECK_DEADLOCK FALSE
