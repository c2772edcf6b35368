SPECIFICATION EitherSpec
CONSTANTS
  a = a
  b = b
  Threads = {t1, t2}
  Keys <- MCKeys
  KeyGroups <- MCKeyGroups
  Vals = {v1, v2}
  Erased = Erased
  MaxSeqNo = 6
  MaxCrashes = 1
  Pts = {1, 2}
  MaxId = 6
  MaxInits = 1
  CompactMin = 1
  Wrap = 32
SYMMETRY
  Symmetry
INVARIANTS
  RestartIsSnapshot
  NoEventRejected
  ArrayInv
PROPERTY
  SavesWhatIsFinished
CHECK_DEADLOCK FALSE
