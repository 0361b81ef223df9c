SPECIFICATION Spec
CONSTANTS
  r1 = r1
  r2 = r2
  tA = tA
  tF = tF
  tN = tN
  x = x
  Nobody = Nobody
  Runs <- MCRuns
  Tensors <- MCTensors
  Excluded <- MCExcluded
  Fp8 <- MCFp8
  Nvfp4 <- MCNvfp4
  Profiles = {"copy"}
  MaxSourceChanges = 0
  MaxFaults = 0
INVARIANT FailurePublishesNothing
CHECK_DEADLOCK FALSE
