CONSTANTS
  w1 = w1
  w2 = w2
  NumParts = 2
  Workers = {w1, w2}
  EnableCheckpoint = TRUE
  CleanupOnNoSuchUpload = TRUE
  TornReads = FALSE
  MaxVersion = 2
  MaxRuns = 4
  MaxFaults = 2
SPECIFICATION Spec
CHECK_DEADLOCK FALSE
SYMMETRY WorkerSymmetry
INVARIANTS
  
  FailuresPaidByFaults
