SPECIFICATION FairSpec
CONSTANTS
  MaxRuns = 2
  MaxDaemons = 3
  MaxRestarts = 1
  Window = 0
  MaxClock = 1
  Overlap = FALSE
  WritesFail = FALSE
INVARIANTS
  OneInstall
  AnnouncedIsOwn
PROPERTIES
  StopStops
  CommandsSettle
CHECK_DEADLOCK FALSE
