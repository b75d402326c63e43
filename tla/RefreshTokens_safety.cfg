\* Two requests at a time, any statement that writes may fail.
CONSTANTS
  r1 = r1
  r2 = r2
  Requests = {r1, r2}
  MaxTime = 3
  Faults = TRUE
  Watched = "nothing"
SPECIFICATION Spec
SYMMETRY RequestSymmetry
INVARIANTS
  TypeOK
  ChainsForward
  ChainsKeepSession
PROPERTIES
  RevokedForever
\* The last second can end with nothing left to do.
CHECK_DEADLOCK FALSE
