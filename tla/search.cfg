SPECIFICATION Spec
CONSTANTS
  w1 = w1
  w2 = w2
  r1 = r1
  r2 = r2
  Wrappers = {w1, w2}
  Requests = {r1, r2}
  Targets <- MCTargets
  NoRequest = NoRequest
  MaxDrops = 1
INVARIANTS StatusMatchesResults ResultsFit NoSurplusResults
PROPERTY SearchAnswered
CHECK_DEADLOCK FALSE
