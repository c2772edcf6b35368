SPECIFICATION Spec
CONSTANTS
  Clients = {c1, c2}
  FirstSeqNo = 1
  LastSeqNo = 3
  MaxForce = 1
  MaxOther = 1
  MaxCalls = 4
INVARIANTS
  AnsweredIsSynced
  NothingForgotten
PROPERTIES
  EveryRequestServed
CHECK_DEADLOCK FALSE
