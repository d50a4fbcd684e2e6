\* Two sweeps race over stores of four and five markers; no call fails.
SPECIFICATION Spec
CONSTANTS
  p1 = p1  p2 = p2  k1 = k1  k2 = k2  d1 = d1  d2 = d2
  Pollers = {p1, p2}
  Keys = {k1, k2}
  NoKey = NoKey
  Deployments = {}
  DeployKey <- NoDeployKey
  DeployTime <- NoDeployTime
  Skew = 0
  NoDep = NoDep
  ForeignMarkers <- NoMarkers
  InitialStores <- SweptStores
  FirstId = 6
  SyncPageSize = 2
  Limit = 2
  MaxPages = 3
  Retention = 2
  PruneEvery = 2
  PruneRetry = 1
  PruneJitter = 2
  Faults = FALSE
  StartTime = 7
  MaxNow = 9
  MaxId = 5
SYMMETRY Perms
INVARIANTS AnchorKept
PROPERTIES SweepComplete
CHECK_DEADLOCK FALSE
