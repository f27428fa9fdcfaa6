CONSTANTS
  c1 = c1  c2 = c2  owner = owner  p1 = p1
  r1 = r1  r2 = r2  b1 = b1  b2 = b2  b3 = b3
  NoBooking = NoBooking
  Requests = {r1, r2}
  Creators = {r1}
  Bookings = {b1, b2}
  Customers = {c1}
  Owner = owner
  Providers = {p1}
  Times = {1}
  Scheduled <- OneScheduled
  MaxItems = 1
  BootTime = 0
  MaxClock = 0
  Ops <- Endpoints
  PatchStatuses <- AllPatches
  Disruptions = {"business"}
  Scopes = {"records","slots"}
SPECIFICATION ScopedSpec
SYMMETRY BookingSymmetry
INVARIANTS StampsWitnessStatus OnlyRevivedClash
PROPERTIES RemovalIsFinal
CHECK_DEADLOCK FALSE
