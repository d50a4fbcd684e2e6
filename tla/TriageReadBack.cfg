\* One action whose read-back may fail.
SPECIFICATION Spec
CONSTANTS
  q1 = q1  q2 = q2  q3 = q3  f1 = f1  f2 = f2  ola = ola
  Requests = {q1}
  Fps = {f1}
  Assignees = {ola}
  NoOne = NoOne
  Reads = {"states"}
  Actions <- OneAction
  InitialLogs <- EmptyLog
  FirstId = 1
  Limit = 6
  MaxPages = 3
  Skew = 0
  Faults = TRUE
  StartTime = 1
  MaxNow = 1
INVARIANTS ReplyShowsAction
CHECK_DEADLOCK FALSE
