SPECIFICATION FairSpec
CONSTANTS
  v1 = v1
  p1 = p1
  p2 = p2
  Runs = {v1, p1, p2}
  PolicyRuns = {p1, p2}
  Capacity = 2
  Chunks = 2
  MaxCrashes = 2
INVARIANTS EvalInv GpuExclusive
PROPERTIES LifecycleIsKept JobEnds
CHECK_DEADLOCK FALSE
