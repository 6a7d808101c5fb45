SPECIFICATION Spec
CONSTANTS
  Practices = {1, 2}
  DomainOf <- DomainOf2
  Workers = {host}
  JobsOf <- JobsReview
  HostKeys = {k1, k2, k3}
  Contributions = {r1}
  Analyses <- AnalysesSmall
  OpenClusters = {}
  MockScoring = TRUE
  Scorings <- ScoringsLive
  SeedTexts = {TRUE}
  MaxTurns = 3
  MaxProbes = 2
  MinSufficient = 1
  MinConfidence = 50
  NoClarification = NoClarification
  k1 = k1
  k2 = k2
  k3 = k3
  r1 = r1
  host = host
  peer = peer
INVARIANT Scorable
CHECK_DEADLOCK FALSE
