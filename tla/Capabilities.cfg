\* Two requests; two span metrics candidates, one data source.
SPECIFICATION FairSpec
CONSTANTS
  Requests = {q1, q2}
  Last = 2
  Sources = {tempo}
  Lists = {}
  TTL = 2
  NegativeTTL = 1
INVARIANTS TypeOK OneDetection
PROPERTIES UndisturbedIsRight Recovers
CHECK_DEADLOCK FALSE
