SPECIFICATION FairSpec
CONSTANTS
  Requests = {r1, r2, r3}
  None = None
INVARIANTS TypeOK CancelIsolated CancelPending ActiveIsCurrent
PROPERTIES CancelStops ShutdownStopsPlain
CHECK_DEADLOCK FALSE
