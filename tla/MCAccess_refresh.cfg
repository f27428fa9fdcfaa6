CONSTANTS
  c1 = c1  c2 = c2  l1 = l1  l2 = l2  h1 = h1  h2 = h2
  p1 = p1  p2 = p2  k1 = k1  t1 = t1  t2 = t2
  Callers = {c1, c2}
  MaxHits = 2
  Window = 2
  CountBound = 5
  RedisFaults = {"exists", "incr", "expire", "set"}
  CallersDie = TRUE
  Logins = {l1, l2}
  MaxFailed = 3
  MaxLogins = 3
  LockoutFaults = {"reset", "revoke"}
  Handlers = {h1, h2}
  Passwords = {p1, p2}
  Codes = {k1}
  Tokens = {t1}
  NoSecret = NoSecret
  MaxTokenVersion = 2
  RecoveryFaults = {}
SPECIFICATION AccessSpec
INVARIANTS OldPasswordOpensNothing
CHECK_DEADLOCK FALSE
