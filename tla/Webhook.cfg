SPECIFICATION FairSpec
CONSTANTS
  o1 = o1
  Events = {e1, e2}
  Deliveries = {d1, d2}
  Objects = {o1}
  ObjectOf <- MCObjectOf
  Payloads = {p1, p2}
  MaxFaults = 2
  NoEvent = NoEvent
  NoPayload = NoPayload
INVARIANTS
  TypeOK
  LedgerComplete
  FailedIsRetried
PROPERTIES
  PromiseKept
  EveryEventAnswered
