SPECIFICATION MCSpec
CONSTANTS
  Asks = {a1, a2}
  Visitors = {a2}
  Sessions = {s1}
  RestUsers = {u1}
  MaxDeltas = 2
  MaxRounds = 3
  MayStall = TRUE
  StoreMayFail = FALSE
  SessionOf <- MCSessionOf
INVARIANTS
  DoneImpliesOkRow
  NoTurnLost
  RowsPerAsk
  RowsKeepTheText
  SlotMatchesHandler
PROPERTIES
  ConnectedAskEnds
CHECK_DEADLOCK FALSE
