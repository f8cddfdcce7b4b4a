SPECIFICATION FairSpec
CONSTANTS
  Generations = 2
  MaxAttempts = 3
CHECK_DEADLOCK FALSE
INVARIANTS
  TypeOK
  NobodyInsideAtCleanup
  CleanupWaitsUnlessRetryErred
PROPERTY
  ImplementsOneShotCall
