\* Two logins at a time.
CONSTANTS
  r1 = r1
  r2 = r2
  Requests = {r1, r2}
  MaxLoginAttempts = 2
  MaxLost = 2
SPECIFICATION FairSpec
INVARIANTS
  TypeOK
  AnsweredOnce
  GuessesBounded
PROPERTIES
  EndsOrPanicked
