SPECIFICATION Spec
CONSTANTS
  Requests = {r1, r2, r3}
  None = None
SYMMETRY RequestSymmetry
INVARIANTS LatestContinuable
CHECK_DEADLOCK FALSE
