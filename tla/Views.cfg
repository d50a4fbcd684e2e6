SPECIFICATION ViewsSpec
CONSTANTS
  ib = ib
  is = is
  h1 = h1
  s1 = s1
  s2 = s2
  k1 = k1
  None = None
  Waiting = Waiting
  Tabs = {"t"}
  Replicas = {"r1", "r2"}
  Services <- MCServices
  InitialLists <- MCInitialLists
  MaxCalls = 3
  MaxSaves = 1
  Issues = {ib, is}
  Source <- MCSource
  Hashes <- MCHashes
  SessionOf <- MCSessionOf
  StackOf <- MCStackOf
  BrowserLists <- MCBrowserLists
  ServerLists <- MCServerLists
  Ranges = {"r1", "r2"}
  DrawerMoves = 2
  Names = {"u"}
  MaxActs = 2
  MaxEvents = 5
  MaxRounds = 1
  MaxRuns = 2
  MapEnvs = {1}
  NodeCounts = {0, 1, 3}
  Many = 1
  MaxLayoutNodes = 2
  MapMoves = 2
  CardIds <- MCIds
  CardAnswers <- MCCardAnswers
  Filters <- MCFilters
  Areas <- MCAreas
  CardSizes = {"sm", "lg"}
  TTL = 1
  TabEnvs = {1, 2}
  OwnLogs = {2}
  Namespaces = {1}
  Cards <- MCCards
  Groups <- MCGroups
  Targets <- MCTargets
  TopK = 1
  TabMoves = 2
  Configured = {"mimir", "grafana"}
  AlertAnswers <- MCAlertAnswers
  AlertEnvs = {1, 2, 3}
  Several = {3}
  Deploys <- MCDeploys
  InstanceCap = 2
  AlertMoves = 3
  Stored <- MCStored
  Buckets <- MCBuckets
  EnvOf <- MCEnvOf
  LineLimit = 4
  ListLimit = 3
  SeekTo = 2
  Speeds = {1, 2}
  ReplayMoves = 4
INVARIANTS
  ViewsTypeOK
  BoardShowsStored
  OccurrencesAreAsked
  EventsOnce
  ViewsAreTrue
  OfThePage
PROPERTIES
  CardsKept
  RotationComesRound
  WaitingEnds
CHECK_DEADLOCK FALSE
