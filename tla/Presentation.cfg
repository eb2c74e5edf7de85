SPECIFICATION FairSpec
CONSTANTS
  MaxQuestions = 2
  CallsOf <- MCCallsOf
INVARIANTS
  AnswersAreTruthful
  PlacedSurvivesReload
PROPERTY
  AskEnds
CHECK_DEADLOCK FALSE
