SPECIFICATION Spec
CONSTANTS
  Blank = Blank
  Malformed = Malformed
  Histories <- MCHistories
  Repo <- MCRepo
  Checkouts <- MCCheckouts
  Permits = 2
  ChannelSize = 1
  MaxFaults = 1
INVARIANTS AnsweredOnce ReadsAreTrue GitIsTrue ScannedIsFound
PROPERTIES RequestsAnswered
CHECK_DEADLOCK FALSE
