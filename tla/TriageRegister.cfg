\* Two requests of any kind at once; the log stays below one page.
SPECIFICATION Spec
CONSTANTS
  q1 = q1  q2 = q2  q3 = q3  f1 = f1  f2 = f2  ola = ola
  Requests = {q1, q2}
  Fps = {f1, f2}
  Assignees = {ola}
  NoOne = NoOne
  Reads = {"states", "history"}
  Actions <- MCActions
  InitialLogs <- MCLogs
  FirstId = 3
  Limit = 6
  MaxPages = 3
  Skew = 1
  Faults = TRUE
  StartTime = 2
  MaxNow = 3
SYMMETRY Perms
INVARIANTS TypeOK
PROPERTIES ImplementsRegister
CHECK_DEADLOCK FALSE
