SPECIFICATION Spec
CONSTANTS
  Practices = {1, 2}
  DomainOf <- DomainOf2
  Workers = {host, peer}
  JobsOf <- JobsRetry
  HostKeys = {k1, k2}
  Contributions = {r1}
  Analyses <- AnalysesSmall
  OpenClusters = {{1, 2}}
  MockScoring = FALSE
  Scorings <- ScoringsLive
  SeedTexts = {TRUE}
  MaxTurns = 2
  MaxProbes = 2
  MinSufficient = 1
  MinConfidence = 50
  NoClarification = NoClarification
  k1 = k1
  k2 = k2
  k3 = k3
  r1 = r1
  host = host
  peer = peer
INVARIANTS KeyOnce CountBacked
CHECK_DEADLOCK FALSE
