CONSTANTS
  r1 = r1  r2 = r2  r3 = r3
  NoVersion = NoVersion
  Requests = {r1, r2, r3}
  MaxVersion = 2
  Ops = {"guard", "revoke", "admin"}
  Faults = TRUE
  Crashes = TRUE
SPECIFICATION FairSpec
PROPERTIES RevocationsStick RevocationsPrevail
CHECK_DEADLOCK FALSE
