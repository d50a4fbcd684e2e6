\* Two pollers that mirror and sweep at once; calls fail, pollers restart.
SPECIFICATION Spec
CONSTANTS
  p1 = p1  p2 = p2  k1 = k1  k2 = k2  d1 = d1  d2 = d2
  Pollers = {p1, p2}
  Keys = {k1, k2}
  NoKey = NoKey
  Deployments = {d1, d2}
  DeployKey <- MCDeployKey
  DeployTime <- MCDeployTime
  Skew = 0
  NoDep = NoDep
  ForeignMarkers <- ActionMarker
  InitialStores <- EmptyStore
  FirstId = 1
  SyncPageSize = 2
  Limit = 1
  MaxPages = 3
  Retention = 2
  PruneEvery = 2
  PruneRetry = 1
  PruneJitter = 1
  Faults = TRUE
  StartTime = 5
  MaxNow = 6
  MaxId = 4
SYMMETRY Perms
INVARIANTS TypeOK AnchorKept
PROPERTIES OnlySupersededRemoved
CHECK_DEADLOCK FALSE
