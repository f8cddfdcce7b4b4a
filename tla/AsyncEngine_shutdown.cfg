CONSTANTS
  w1 = w1
  w2 = w2
  r1 = r1
  r2 = r2
  r3 = r3
  r4 = r4
  a = a
  b = b
  Engine = Engine
  Workers = {w1, w2}
  Requests = {r1, r2}
  Sessions = {a, b}
  NumProfiles = 2
  SessionOf <- SecondIsB
  ProfileOf <- OneProfileEach
  WorkersOf <- Spilling
  MaxConnections = 1
  MaxRequests = 2
  Delayed = {r2}
  Timed = {r1}
  MayClose = {a, Engine}
  IdleTimes = FALSE
  MaxFaults = 1
SPECIFICATION Spec
CHECK_DEADLOCK FALSE
INVARIANTS
  EveryRequestHasOneHome
  StoppedWorkerOwnsNothing
  ClosedIsQuiet
