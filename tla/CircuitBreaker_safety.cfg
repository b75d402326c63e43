\* Four callers; fewer probes than callers, so that the half-open limit bites.
CONSTANTS
  c1 = c1
  c2 = c2
  c3 = c3
  c4 = c4
  Callers = {c1, c2, c3, c4}
  Cancellable = {c1, c2, c3, c4}
  MaxRequests = 2
  FailureThreshold = 3
  SuccessThreshold = 2
  Interval = 2
  Timeout = 2
  CounterSize = 5
SPECIFICATION FairSpec
INVARIANTS
  TypeOK
  ThresholdsPending
  ProbeBudget
  RacyReadsLoseNothing
PROPERTIES
  OpenHolds
  ExpiredCountsNeverTrip
  ImplementsAbstract
  OpenIsTriedAgain
  HalfOpenEnds
