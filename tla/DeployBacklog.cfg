\* One poller, no faults, two one-row pages per sweep.
SPECIFICATION Spec
CONSTANTS
  p1 = p1  p2 = p2  k1 = k1  k2 = k2  d1 = d1  d2 = d2
  Pollers = {p1}
  Keys = {k1, k2}
  NoKey = NoKey
  Deployments = {}
  DeployKey <- NoDeployKey
  DeployTime <- NoDeployTime
  Skew = 0
  NoDep = NoDep
  ForeignMarkers <- NoMarkers
  InitialStores <- AnchorsFirst
  FirstId = 4
  SyncPageSize = 2
  Limit = 1
  MaxPages = 2
  Retention = 2
  PruneEvery = 2
  PruneRetry = 1
  PruneJitter = 2
  Faults = FALSE
  StartTime = 8
  MaxNow = 8
  MaxId = 4

PROPERTIES BacklogDrains
CHECK_DEADLOCK FALSE
