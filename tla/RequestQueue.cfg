SPECIFICATION Spec
CONSTANTS
  Requests = {r1, r2, r3, r4, r5}
  SessionLimit = 2
  MaxQueued = 2
SYMMETRY WorkerSymmetry
INVARIANTS TypeOK AdmissionsBounded WaitersExact 
PROPERTIES PromiseKept
CHECK_DEADLOCK FALSE
