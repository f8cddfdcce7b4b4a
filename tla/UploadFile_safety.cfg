CONSTANTS
  w1 = w1
  w2 = w2
  NumParts = 2
  Workers = {w1, w2}
  EnableCheckpoint = TRUE
  CleanupOnNoSuchUpload = FALSE
  TornReads = TRUE
  MaxVersion = 2
  MaxRuns = 3
  MaxFaults = 2
SPECIFICATION Spec
CHECK_DEADLOCK FALSE
INVARIANTS
  TypeOK
  CheckpointSound
  CompleteNeedsEveryPartUnlessAborted
  
PROPERTIES FirstErrorReturned 
