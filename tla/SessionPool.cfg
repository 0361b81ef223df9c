SPECIFICATION Spec
CONSTANTS
  Requests = {r1, r2, r3, r4}
  ChatIds = {c}
  MaxSessions = 2
  DeviceFaults = TRUE
SYMMETRY PoolSymmetry
INVARIANTS TypeOK ReservationKept LeaseExclusive NeverServesDiscarded IndexSound NobodyStuck
PROPERTY PromiseKept
CHECK_DEADLOCK FALSE
