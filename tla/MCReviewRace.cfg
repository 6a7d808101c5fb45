SPECIFICATION Spec
CONSTANTS
  Practices = {p1}
  Scores = {2, 4}
  Scorings <- ScoringsOne
  Workers = {admin, peer}
  JobsOf <- JobsRace
  MaxScorings = 2
  MaxVersions = 1
  None = None
  p1 = p1
  p2 = p2
  admin = admin
  peer = peer
INVARIANT ReportsApproved
CHECK_DEADLOCK FALSE
