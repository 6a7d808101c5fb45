SPECIFICATION Spec
CONSTANTS
  Practices = {p1, p2}
  Scores = {2, 4}
  Scorings <- ScoringsSome
  Workers = {admin, peer}
  JobsOf <- JobsReview
  MaxScorings = 2
  MaxVersions = 2
  None = None
  p1 = p1
  p2 = p2
  admin = admin
  peer = peer
INVARIANTS TypeOK ExportsMatch ReadyComplete ReportsApproved
PROPERTIES FinalsKept ImplementsShelf
CHECK_DEADLOCK FALSE
