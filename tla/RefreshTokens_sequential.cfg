\* One request at a time, no failure.
CONSTANTS
  r1 = r1
  r2 = r2
  Requests = {r1}
  MaxTime = 4
  Faults = FALSE
  Watched = "revoke"
SPECIFICATION Spec
INVARIANTS
  SessionsEnd
PROPERTIES
  ImplementsSessions
\* The last second can end with nothing left to do.
CHECK_DEADLOCK FALSE
