SPECIFICATION FairLoaderSpec
CONSTANTS
  FirstSeqNo = 1
  LastSeqNo = 6
  Data = {"data", "error"}
  NoData = NoData
  CompactMin = 1
  PartSize = 2
  MinExpected = 4
  MaxActive = 8
  MaxPartCount = 6
  Transfers <- SmallTransfers
  Offsets = {0, 3}
  Limits = {0, 3}
  MaxTroubles = 2
INVARIANTS
  NeverAborts
  SavedIsWritten
  WithinLimits
  WindowInv
PROPERTIES
  RunsInOrder
  EveryTransferEnds
CHECK_DEADLOCK FALSE
