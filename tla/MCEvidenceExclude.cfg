SPECIFICATION Spec
CONSTANTS
  MaxAttempts = 2
  MaxPages = 3
  Projects = {p1}
  PagesOf <- PagesTwo
  Repos = {a, b}
  Activity <- ActivityTwo
  Top = 2
  Labels = {"team", "bots"}
  Signs <- SignsNone
  Workers = {admin}
  JobsOf <- JobsExclude
  MaxSnapshots = 1
  MaxFiles = 2
  None = None
  p1 = p1
  a = a
  b = b
  admin = admin
  host = host

PROPERTY FiguresOfPayload
CHECK_DEADLOCK FALSE
