\* Two workers, batches of one: the event that can never be delivered is older.
CONSTANTS
  w1 = w1
  w2 = w2
  Workers = {w1, w2}
  Entries = {1, 2}
  Poison = {1}
  BatchSize = 1
  MaxRetries = 3
SPECIFICATION FairSpec
INVARIANTS
  TypeOK
  NothingLost
  GivenUpAfterMaxRetries
  CopiesBounded
PROPERTIES
  ImplementsDelivery
\* All entries can be settled.
CHECK_DEADLOCK FALSE
