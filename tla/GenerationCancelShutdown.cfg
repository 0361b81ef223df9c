SPECIFICATION Spec
CONSTANTS
  Requests = {r1, r2}
  None = None
SYMMETRY RequestSymmetry
INVARIANTS ShutdownFlagged
CHECK_DEADLOCK FALSE
