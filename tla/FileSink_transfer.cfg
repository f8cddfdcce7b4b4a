SPECIFICATION FairSpec
CONSTANTS
  Length = 9
  ChunkSize = 2
  IoDepth = 2
  MaxFaults = 2
CHECK_DEADLOCK FALSE
INVARIANTS
  TypeOK
  EveryByteHasOnePlace
  SuccessIsTheWholeFile
  DrainedWhenAnswered
PROPERTIES
  PauseEndsUnlessForgotten
  FinishIsAnswered
