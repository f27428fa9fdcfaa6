CONSTANTS
  r1 = r1  r2 = r2  r3 = r3
  j1 = j1  j2 = j2  j3 = j3  j4 = j4  j5 = j5
  NoJti = NoJti
  Requests = {r1, r2}
  Jtis = {j1, j2}
  MaxDevices = 1
  Ops <- AllOps
  SlowLogins = TRUE
  Faults = TRUE
  Crashes = TRUE
SPECIFICATION LockFairSpec
INVARIANTS LoginMutex
PROPERTIES  ImplementsTokenLife
CHECK_DEADLOCK FALSE
