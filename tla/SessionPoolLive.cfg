SPECIFICATION FairSpec
CONSTANTS
  Requests = {r1, r2, r3}
  ChatIds = {c}
  MaxSessions = 2
  DeviceFaults = FALSE
INVARIANT SlotBound
PROPERTIES EveryoneServed
CHECK_DEADLOCK FALSE
