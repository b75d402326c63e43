\* Two refreshes of one token at a time.
CONSTANTS
  r1 = r1
  r2 = r2
  Requests = {r1, r2}
  MaxTime = 3
  Faults = FALSE
  Watched = "nothing"
SPECIFICATION Spec
INVARIANTS
  ReplacementsRecorded
\* The last second can end with nothing left to do.
CHECK_DEADLOCK FALSE
