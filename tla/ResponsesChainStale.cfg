SPECIFICATION Spec
CONSTANTS
  Requests = {r1, r2, r3}
  None = None
SYMMETRY RequestSymmetry
INVARIANTS StaleIs404
CHECK_DEADLOCK FALSE
