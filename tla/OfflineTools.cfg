SPECIFICATION ToolsSpec
CONSTANTS
  r1 = r1
  r2 = r2
  tA = tA
  tF = tF
  tN = tN
  x = x
  Nobody = Nobody
  Runs <- MCRuns
  Tensors <- MCTensors
  Excluded <- MCExcluded
  Fp8 <- MCFp8
  Nvfp4 <- MCNvfp4
  Profiles = {"plan", "copy", "hybrid"}
  MaxSourceChanges = 1
  MaxFaults = 1
  MaxEdits = 2
  ShardSizes = {1, 2}
  PlanKinds = {"copied", "attention", "experts", "head", "complete", "assistant"}
  Layers = 1
  Builds = {"a", "b"}
  MaxKills = 1
  MaxRepairs = 2
  MaxTroubles = 3
  l1 = l1
  l2 = l2
  b1 = b1
  b2 = b2
  Locks <- MCLocks
  Blobs <- MCBlobs
  EntriesOf <- MCEntriesOf
  Size = 2
  MaxFetchFaults = 1
  MaxContext = 4
  Contexts = {2, 3, 4}
  Short = 2
  Long = 3
  ProductLimit = 3
  FirstRejection = 4
  Gap = 1
  FreshRuns = 2
  Warmups = 1
  Retained = 1
  MaxUpsets = 2
  p1 = p1
  p2 = p2
  e1 = e1
  e2 = e2
  Attempts <- MCAttempts
  Examples <- MCExamples
  Cells = 2
  MaxMishaps = 1
  Asked = 3
  MaxTrials = 3
  MaxStrangers = 2
  MaxCompiles = 3
  MaxRevisions = 1
  MaxReports = 2
SYMMETRY ToolSymmetry
INVARIANTS ToolsTypeOK PublishedIsWhole LockBindsOutput VerdictSound CompiledPlanExact EvidenceBound ReleaseExact PackagesSound CacheSound AcceptedIsMeasured DiagnosticBound EvaluationsExact ReportsHonest
PROPERTY PromiseKept
CHECK_DEADLOCK FALSE
