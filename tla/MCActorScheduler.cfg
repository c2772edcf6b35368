SPECIFICATION FairSpec
CONSTANTS
  s1 = s1
  s2 = s2
  c1 = c1
  a1 = a1
  a2 = a2
  Queues = {s1, s2}
  Threads = {s1, s2, c1}
  Values <- Items
  Actors = {a1, a2}
  Home <- HomeOfActors
  AlwaysWait = {a2}
  MaxEvents = 4
  MaxMoves = 1
  MaxStops = 1
INVARIANTS
  NoLostWakeUp
  NothingLostOrDoubled
  RunsAtHome
  MigrationIsOnItsWay
  SenderOrder
CHECK_DEADLOCK FALSE
PROPERTIES
  QueuesAreFifo
  EveryEventHandled
