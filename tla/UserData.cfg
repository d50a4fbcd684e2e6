SPECIFICATION UserSpec
CONSTANTS
  a1 = a1
  a2 = a2
  b1 = b1
  k1 = k1
  k2 = k2
  ib = ib
  is = is
  Waiting = Waiting
  Tabs <- MCTabs
  browser <- MCbrowser
  Keys = {k1, k2}
  Starts <- MCStarts
  MaxToggles = 2
  MaxOpens = 2
  None = None
  Kinds <- MCKinds
  EnvNames = {1, 2}
  Values = {"u"}
  Secrets <- MCSecrets
  Labels <- MCLabels
  Hosts = {"h"}
  Sources <- MCSources
  Detected <- MCDetected
  Stored <- MCStored
  MaxEdits = 3
  Lists <- MCLists
  Server <- MCServer
  PageSize = 1
  InitialMutes <- MCInitialMutes
  MaxSteps = 2
SYMMETRY MCSymmetry
INVARIANTS
  UserDataTypeOK
  TabsAgree
  UntouchedStay
  TableKeepsUp
PROPERTIES
  EditsAreKept
CHECK_DEADLOCK FALSE
