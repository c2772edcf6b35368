CONSTANTS
  MaxQueries = 3
  MaxWait = 2
  ShrinkMin = 1
  TotalLimit = 1
  MaxFails = 2
  MaxResends = 1
  MaxCancels = 1
SPECIFICATION FairSpec
INVARIANTS AnswersFindTheirQuery NothingSkipped NothingLost
PROPERTIES ExecutedInOrder EveryQueryFinished
CHECK_DEADLOCK FALSE
