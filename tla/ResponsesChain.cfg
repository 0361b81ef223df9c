SPECIFICATION Spec
CONSTANTS
  Requests = {r1, r2, r3, r4}
  None = None
SYMMETRY RequestSymmetry
INVARIANTS TypeOK ChainMatchesSession LinearHistory IndexedTurns
PROPERTIES OnlyLatestExtends
CHECK_DEADLOCK FALSE
