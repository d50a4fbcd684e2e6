SPECIFICATION PagesSpec
CONSTANTS
  Services = {"a", "b"}
  Envs = {"p"}
  Hooks = {"services", "health"}
  Lists <- MCLists
  Caps <- MCCaps
  TabParams = {"profiling"}
  MaxNow = 1
  MaxMoves = 2
  Kinds <- MCKinds
  Answers <- MCAnswers
  NsPicks <- MCNsPicks
  EnvPicks <- MCEnvPicks
  Queries = {"q"}
  Score <- MCScore
  Prefix <- MCPrefix
  EnvRank <- MCEnvRank
  PageSize = 3
  MaxPage = 4
  Rows <- MCTableRows
  Searches = {"a", "b"}
  TableSize = 1
  None = None
INVARIANTS
  PagesTypeOK
  PageIsCurrent
  OwnServiceOnly
  RowsInOrder
  EmptyIsTrue
PROPERTIES
  ControlsShowRows
CHECK_DEADLOCK FALSE
