CONSTANTS
  w1 = w1
  w2 = w2
  ObjectSize = 3
  PartSizes = {2, 3}
  Enables = {"on", "off"}
  Workers = {w1, w2}
  WritesFail = TRUE
  WithCrc = {1}
  MaxVersion = 2
  MaxRuns = 3
  MaxFaults = 2
SPECIFICATION Spec
CHECK_DEADLOCK FALSE
SYMMETRY WorkerSymmetry
INVARIANTS
  TypeOK
  CheckpointIsOnDisk
  FailuresPaid
 
