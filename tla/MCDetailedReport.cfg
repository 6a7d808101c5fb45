SPECIFICATION Spec
CONSTANTS
  Stages = {"methodology", "domains", "narrative"}
  Methodology = "methodology"
  Texts = {t1, t2}
  Workers = {author, peer}
  JobsOf <- JobsOfTwo
  MaxVersions = 1
  None = None
  author = author
  peer = peer
  t1 = t1
  t2 = t2
INVARIANTS TypeOK FailureFlagged
PROPERTIES EditsKept
CHECK_DEADLOCK FALSE
