\* Four requests of one client at a time.
CONSTANTS
  r1 = r1
  r2 = r2
  r3 = r3
  r4 = r4
  Requests = {r1, r2, r3, r4}
  maxAttempts = 3
  MaxResent = 2
SPECIFICATION FairSpec
INVARIANTS
  TypeOK
  LimitHolds
PROPERTIES
  RefusalEnds
