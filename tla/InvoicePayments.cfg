SPECIFICATION Spec
CONSTANTS
  i1 = i1
  s1 = s1
  Intents = {i1}
  Slots = {s1, s2, s3}
  SomeIntent = i1
  SomeSlot = s1
  Requests = {r1, r2}
  Total = 2
  ManualAmounts = {1}
  MaxManual = 1
  ChargeNames = {TRUE, FALSE}
SYMMETRY Symmetry
INVARIANTS
  TypeOK
  CountedOnce
  StatusFollows
  InOrderAgrees
CHECK_DEADLOCK FALSE
