\* Two pollers mirror and sweep at once; no call fails.
SPECIFICATION FairSpec
CONSTANTS
  p1 = p1  p2 = p2  k1 = k1  k2 = k2  d1 = d1  d2 = d2
  Pollers = {p1, p2}
  Keys = {k1, k2}
  NoKey = NoKey
  Deployments = {d1, d2}
  DeployKey <- MCDeployKey
  DeployTime <- MCDeployTime
  Skew = 0
  NoDep = NoDep
  ForeignMarkers <- NoMarkers
  InitialStores <- EmptyStore
  FirstId = 1
  SyncPageSize = 2
  Limit = 1
  MaxPages = 3
  Retention = 2
  PruneEvery = 2
  PruneRetry = 1
  PruneJitter = 2
  Faults = FALSE
  StartTime = 5
  MaxNow = 6
  MaxId = 6
INVARIANTS DuplicatesBounded
PROPERTIES EveryDeploymentMarked
CHECK_DEADLOCK FALSE
