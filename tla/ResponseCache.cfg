\* Two requests for a coalesced and a plain key; the cache holds one of them.
SPECIFICATION FairSpec
CONSTANTS
  Requests = {q1, q2}
  Keys = {k1, m1}
  PlainKeys = {m1}
  TTL = 1
  MaxSize = 1
  Failures = TRUE
  MaxNow = 3
INVARIANTS TypeOK SizeBounded OneComputation
PROPERTIES FreshKept NoStepBack EveryRequestAnswered
CHECK_DEADLOCK FALSE
