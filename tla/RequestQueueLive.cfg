SPECIFICATION FairSpec
CONSTANTS
  Requests = {r1, r2, r3}
  SessionLimit = 0
  MaxQueued = 2
PROPERTIES EveryoneAnswered
CHECK_DEADLOCK FALSE
