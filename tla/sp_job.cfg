SPECIFICATION MCFairSpec
CONSTANTS
  NSPE = 2
  NSegment = 2
  NBucket = 1
  Jobs <- MCJobs
  MaxRetry = 1
  MaxPending = 0
  Hundred = 100
  Procs = {c1, c2}
  FusePaths = {p1, p2}
  MaxHandles = 2
  MaxFiles = 2
  MaxOffset = 1
INVARIANTS JobConsistent HandlesShared
PROPERTIES ImplementsSphereJob JobEnds
CHECK_DEADLOCK FALSE
