SPECIFICATION Spec
CONSTANTS
  Vals = {v1, v2}
  Empty = Empty
  Keys = {k1, k2}
  NoKey = NoKey
  NoFile = NoFile
  MaxId = 3
  MaxOps = 5
  MaxCrashes = 2
  MaxChanges = 1
  MaxTotal = 5
  FlushAt = 1
  ReindexMin = 2
  ReindexRate = 2
  CompactMin = 1
  Tails = {"short", "zeros", "junk"}
  OddSizes = {"junk"}
  OpenFails <- PlainOnly
SYMMETRY Symmetry
INVARIANTS
  LogMatches
  KeyAccepted
  NeverFatal
PROPERTY
  IsDurableMap
CHECK_DEADLOCK FALSE
