SPECIFICATION FairSpec
CONSTANTS
  b1 = b1
  b2 = b2
  Bookings = {b1, b2}
  Sessions = {s1}
  Handlers = {}
  Staff = {p1}
  SlotOf <- MCSameSlot
  HighRisk = {b2}
  ManualStatuses = {"PLANNED"}
  IntentAtCreation = FALSE
  NoSession = NoSession
  NoBooking = NoBooking
INVARIANTS
  SlotExclusive
PROPERTIES
  PaymentReflected
  ExpiryFreesSlot
CHECK_DEADLOCK FALSE
