CONSTANTS
  p1 = p1  p2 = p2  s1 = s1  s2 = s2  s3 = s3  b1 = b1  b2 = b2
  Staff = {p1, p2}
  Shift <- Shifts
  Services = {s1, s2, s3}
  Catalogue <- Offers
  Bookings = {b1, b2}
  Carts <- SomeCarts
  DayLength = 6
  HalfHour = 2
  Horizon = 7
  Offsets = {0, 1}
  ChartDays = 2
  Soon = 3
SYMMETRY Twins
SPECIFICATION AgendaSpec
INVARIANTS AvailableIsFree  DutyAgrees RevenueReconciles
