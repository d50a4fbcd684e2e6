\* Three requests, replicas whose clocks agree; the log may pass one page.
SPECIFICATION Spec
CONSTANTS
  q1 = q1  q2 = q2  q3 = q3  f1 = f1  f2 = f2  ola = ola
  Requests = {q1, q2, q3}
  Fps = {f1, f2}
  Assignees = {ola}
  NoOne = NoOne
  Reads = {"states"}
  Actions <- StatusActions
  InitialLogs <- ShortAndLong
  FirstId = 5
  Limit = 3
  MaxPages = 3
  Skew = 0
  Faults = FALSE
  StartTime = 4
  MaxNow = 5
SYMMETRY Perms
INVARIANTS NextReadSeesIt
CHECK_DEADLOCK FALSE
