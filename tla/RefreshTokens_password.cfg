\* A change of password, one request at a time.
CONSTANTS
  r1 = r1
  r2 = r2
  Requests = {r1}
  MaxTime = 3
  Faults = FALSE
  Watched = "password"
SPECIFICATION Spec
INVARIANTS
  SessionsEnd
\* The last second can end with nothing left to do.
CHECK_DEADLOCK FALSE
