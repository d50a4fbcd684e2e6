\* Three requests, replicas whose clocks differ by a millisecond.
SPECIFICATION Spec
CONSTANTS
  q1 = q1  q2 = q2  q3 = q3  f1 = f1  f2 = f2  ola = ola
  Requests = {q1, q2, q3}
  Fps = {f1}
  Assignees = {ola}
  NoOne = NoOne
  Reads = {"states"}
  Actions <- MCActions
  InitialLogs <- EmptyLog
  FirstId = 1
  Limit = 6
  MaxPages = 3
  Skew = 1
  Faults = FALSE
  StartTime = 2
  MaxNow = 3
SYMMETRY Perms
INVARIANTS NextReadSeesIt
CHECK_DEADLOCK FALSE
