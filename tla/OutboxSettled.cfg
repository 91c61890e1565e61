SPECIFICATION FairSpec
CONSTANTS
  w1 = w1
  w2 = w2
  r1 = r1
  f1 = f1
  Messages = {1, 2}
  Direct = {2}
  Jobs = {w1, r1, f1}
  KindOf <- MCKindOf
  Admins = {}
  MaxAttempts = 2
  Ceiling = 3
  StreakLimit = 1
  MaxRetries = 2
  BatchSize = 1
  MaxReplays = 0
  MaxFaults = 1
  NoMessage = NoMessage
PROPERTIES
  EverySettled
CHECK_DEADLOCK FALSE
