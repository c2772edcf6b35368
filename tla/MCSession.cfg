SPECIFICATION FairSpec
CONSTANTS
  q1 = q1
  q2 = q2
  Queries <- MCQueries
  After <- MCAfter
  MaxUp = 2
  MaxDown = 2
  MaxTroubles = 2
INVARIANTS OnePlace UnknownIsAsked ExecutedOnce NoWaitFailed
PROPERTIES EveryQueryReturned
CHECK_DEADLOCK FALSE
