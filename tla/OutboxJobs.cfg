SPECIFICATION Spec
CONSTANTS
  w1 = w1
  w2 = w2
  r1 = r1
  f1 = f1
  Messages = {1}
  Direct = {1}
  Jobs = {w1, w2, f1}
  KindOf <- MCKindOf
  Admins = {a1, a2}
  MaxAttempts = 3
  Ceiling = 4
  StreakLimit = 1
  MaxRetries = 3
  BatchSize = 1
  MaxReplays = 2
  MaxFaults = 1
  NoMessage = NoMessage
INVARIANTS
  TypeOK
  SentWasAccepted
  NothingStranded
  DeadWasTried
CHECK_DEADLOCK FALSE
