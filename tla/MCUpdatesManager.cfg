SPECIFICATION FairSpec
CONSTANTS
  FirstPts = 1
  Ends <- TwoEnds
  MaxPts = 100
  FarBehind = 20
  Drop = 40
  ForcedDiff = 2
  MaxSeq = 2
  MaxTroubles = 1
INVARIANTS
  PtsIsApplied
  DifferenceAlone
  GapIsWatched
  SeqInOrder
PROPERTIES
  GapIsFilled
  SeqGapIsFilled
CHECK_DEADLOCK FALSE
