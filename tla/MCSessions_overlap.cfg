CONSTANTS
  r1 = r1  r2 = r2  r3 = r3
  j1 = j1  j2 = j2  j3 = j3  j4 = j4  j5 = j5
  NoJti = NoJti
  Requests = {r1, r2}
  Jtis = {j1, j2, j3}
  MaxDevices = 2
  Ops <- AllOps
  SlowLogins = TRUE
  Faults = FALSE
  Crashes = TRUE
SPECIFICATION OverlapSpec
SYMMETRY JtiRequestSymmetry
INVARIANTS LostOnlyByOverlap RotatedOnce
PROPERTIES RevokeIsComplete
CHECK_DEADLOCK FALSE
