SPECIFICATION Spec
CONSTANTS
  w1 = w1
  w2 = w2
  r1 = r1
  f1 = f1
  Messages = {1}
  Direct = {}
  Jobs = {w1, w2, r1}
  KindOf <- MCKindOf
  Admins = {a1}
  MaxAttempts = 3
  Ceiling = 4
  StreakLimit = 1
  MaxRetries = 3
  BatchSize = 1
  MaxReplays = 1
  MaxFaults = 0
  NoMessage = NoMessage
INVARIANT ReplayedComesDue
CHECK_DEADLOCK FALSE
