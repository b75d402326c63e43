\* Two requests of the user at a time; statements, mails and answers may fail.
CONSTANTS
  Requests = {r1, r2}
  Secrets = {s1}
  Codes = {c1, c2, c3}
  Batches = {b1, b2, b3}
  None = None
  Faults = TRUE
SPECIFICATION Spec
SYMMETRY Symmetric
INVARIANTS
  TypeOK
  SpentOnce
  LiveBounded
  BatchesBounded
  SoundAlone
\* No draw may be left for the requests that generate one.
CHECK_DEADLOCK FALSE
