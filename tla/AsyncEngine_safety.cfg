CONSTANTS
  w1 = w1
  w2 = w2
  r1 = r1
  r2 = r2
  r3 = r3
  r4 = r4
  a = a
  b = b
  Engine = Engine
  Workers = {w1, w2}
  Requests = {r1, r2, r3}
  Sessions = {a, b}
  NumProfiles = 2
  SessionOf <- SecondIsB
  ProfileOf <- OneProfileEach
  WorkersOf <- Spilling
  MaxConnections = 2
  MaxRequests = 3
  Delayed = {r3}
  Timed = {}
  MayClose = {}
  IdleTimes = TRUE
  MaxFaults = 0
SPECIFICATION Spec
CHECK_DEADLOCK FALSE
INVARIANTS
  TypeOK
  CreditsPayForConnections
  NoLostWakeup
  PressureIsOwned
