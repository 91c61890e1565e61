SPECIFICATION Spec
CONSTANTS
  b1 = b1
  b2 = b2
  Bookings = {b1}
  Sessions = {s1, s2}
  Handlers = {h1}
  Staff = {p1}
  SlotOf <- MCSameSlot
  HighRisk = {}
  ManualStatuses = {}
  IntentAtCreation = TRUE
  NoSession = NoSession
  NoBooking = NoBooking
SYMMETRY Perms
INVARIANTS
  TypeOK
  PaidBackedByCharge
  ConfirmedDepositPaid
  OneOpenSession
PROPERTIES
  PaidIsFinal
CHECK_DEADLOCK FALSE
