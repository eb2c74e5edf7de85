SPECIFICATION MCSpec
CONSTANTS
  r1 = r1
  r2 = r2
  j1 = j1
  j2 = j2
  j3 = j3
  Jobs = {j1, j2, j3}
  Refs = {r1, r2}
  RefOf <- MCRefOf
  CloneOf <- MCOneClone
  DirOf <- MCOwnDir
  NoLock = NoLock
  Earlier <- MCEarlier
  MaxPushes = 2
  MayEvict = TRUE
INVARIANTS
  OneFlight
  RecordedNotAhead
PROPERTIES
  NeverBack
  PendingEnds
  OwnRefIfApart
CHECK_DEADLOCK FALSE
