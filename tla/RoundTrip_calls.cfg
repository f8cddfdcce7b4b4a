\* The callers stop when each has its answer.
SPECIFICATION Spec
CONSTANTS
  Callers = {c1, c2}
  Kinds = {"put", "complete", "append", "get"}
  Offset = 1
  Size = 2
  LengthOf <- Lengths
  MaxConnections = 2
  MaxRetry = 2
  MaxFaults = 2
INVARIANTS TypeOK PoolAddsUp FileStartsWithOneVersion
PROPERTIES ImplementsRemoteCall
CHECK_DEADLOCK FALSE
