CONSTANTS
  c1 = c1  c2 = c2  d1 = d1  d2 = d2  k1 = k1  k2 = k2
  Calls = {c1, c2}
  Rows = {d1, d2}
  Keys = {k1, k2}
  Missing = Missing
  n1 = n1  n2 = n2  u1 = u1  u2 = u2  b1 = b1  b2 = b2  b3 = b3  e1 = e1  e2 = e2
  Creations = {n1, n2}
  Owners = {u1, u2}
  Businesses = {b1, b2, b3}
  Emails = {e1, e2}
  Nothing = Nothing
  r1 = r1  r2 = r2
  Uploaders = {r1, r2}
  ImageBound = 3
  VersionBound = 2
  v1 = v1  v2 = v2  v3 = v3  s1 = s1  s2 = s2
  Visitors = {v1, v2, v3}
  States = {s1, s2}
  NoState = NoState
  OAuthFaults = {"set", "del"}
SPECIFICATION CatalogueSpec
INVARIANTS IndexErrorExplained LinkIsLive OneBusinessEach NoDangling NoLeak DuplicateExplained StateOnce RemovedIsInactive
PROPERTIES RemovedForGood
CHECK_DEADLOCK FALSE
