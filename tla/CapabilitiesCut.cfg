\* One request; one span metrics candidate, one data source, one list.
SPECIFICATION Spec
CONSTANTS
  Requests = {q1}
  Last = 1
  Sources = {tempo}
  Lists = {services}
  TTL = 2
  NegativeTTL = 1
PROPERTIES NeverCutShort
CHECK_DEADLOCK FALSE
