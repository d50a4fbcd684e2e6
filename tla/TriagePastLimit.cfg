\* One read of a log that is longer than one page.
SPECIFICATION Spec
CONSTANTS
  q1 = q1  q2 = q2  q3 = q3  f1 = f1  f2 = f2  ola = ola
  Requests = {q1}
  Fps = {f1, f2}
  Assignees = {ola}
  NoOne = NoOne
  Reads = {"states"}
  Actions <- MCActions
  InitialLogs <- OldResolve
  FirstId = 5
  Limit = 3
  MaxPages = 3
  Skew = 0
  Faults = FALSE
  StartTime = 5
  MaxNow = 5
INVARIANTS OlderEventsReachFold
CHECK_DEADLOCK FALSE
