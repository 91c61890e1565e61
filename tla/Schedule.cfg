SPECIFICATION Spec
CONSTANTS
  t1 = t1
  Teams = {t1}
  SomeTeam = t1
  Bookings = {b1, b2}
  Requests = {r1, r2}
  Starts = {1, 2}
  Lengths = {1}
  Windows <- MCWindows
  BulkStatuses = {}
  DayLength = 6
  WorkStart = 1
  WorkEnd = 3
  Buffer = 1
  NoBooking = NoBooking
SYMMETRY Symmetry
INVARIANTS
  TypeOK
  NoOverlap
  BufferKept
  CheckedSlotHolds
CHECK_DEADLOCK FALSE
