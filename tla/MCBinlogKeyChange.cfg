SPECIFICATION Spec
CONSTANTS
  Vals = {v1}
  Empty = Empty
  Keys = {k1}
  NoKey = NoKey
  NoFile = NoFile
  MaxId = 2
  MaxOps = 3
  MaxCrashes = 0
  MaxChanges = 1
  MaxTotal = 6
  FlushAt = 1
  ReindexMin = 2
  ReindexRate = 2
  CompactMin = 1
  Tails = {"short", "zeros", "junk"}
  OddSizes = {"junk"}
  OpenFails <- Always
INVARIANTS
  KeyAccepted
CHECK_DEADLOCK FALSE
