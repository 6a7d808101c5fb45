SPECIFICATION Spec
CONSTANTS
  MaxAttempts = 2
  MaxPages = 3
  Projects = {p1}
  PagesOf <- PagesTwo
  Repos = {a}
  Activity <- ActivityOne
  Top = 2
  Labels = {"team", "bots"}
  Signs <- SignsNone
  Workers = {admin, host}
  JobsOf <- JobsSetup
  MaxSnapshots = 2
  MaxFiles = 2
  None = None
  p1 = p1
  a = a
  b = b
  admin = admin
  host = host
INVARIANTS TypeOK IssuesComplete QualityHonest
PROPERTIES ConfirmedFrozen RequestsEnd
CHECK_DEADLOCK FALSE
