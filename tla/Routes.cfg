SPECIFICATION Spec
CONSTANTS
  s1 = s1
  s2 = s2
  Slots <- MCSlots
  Histories <- MCHistories
  Files <- MCFiles
  Bodies <- MCBodies
  Width = 16
  MaxCrashes = 1
  MaxFailures = 2
  TTL = 1
  MaxClock = 2
  MaxGrants = 4
  MaxFaults = 1
  MaxInstances = 4
INVARIANTS EveryFileIsAccepted CodesAreOneTime TurnsKeepSignIn
PROPERTY AcceptedIfApart
CHECK_DEADLOCK FALSE
