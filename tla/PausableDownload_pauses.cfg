SPECIFICATION FairSpec
CONSTANTS
  Length = 3
  MaxBlock = 2
  MaxPauses = 2
  MaxFaults = 1
CHECK_DEADLOCK FALSE
INVARIANTS
  TypeOK
  OfferedInOrder
  SuccessIsComplete
PROPERTIES
  PauseIsKept
  DownloadEnds
