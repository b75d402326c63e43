\* Two requests at a time; a token more than can be live.
CONSTANTS
  r1 = r1
  r2 = r2
  t1 = t1
  t2 = t2
  t3 = t3
  Requests = {r1, r2}
  Tokens = {t1, t2, t3}
  NoToken = NoToken
  MaxUnmarked = 1
SPECIFICATION Spec
SYMMETRY Symmetry
INVARIANTS
  TypeOK
  UsesBounded
  LiveBounded
