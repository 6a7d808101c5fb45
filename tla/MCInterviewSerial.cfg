SPECIFICATION Spec
CONSTANTS
  Practices = {1, 2, 3}
  DomainOf <- DomainOf3
  Workers = {host}
  JobsOf <- JobsSerial
  HostKeys = {k1, k2, k3}
  Contributions = {r1}
  Analyses <- AnalysesFull
  OpenClusters = {{2, 3}}
  MockScoring = FALSE
  Scorings <- ScoringsLive
  SeedTexts = {TRUE}
  MaxTurns = 3
  MaxProbes = 2
  MinSufficient = 1
  MinConfidence = 50
  NoClarification = NoClarification
  k1 = k1
  k2 = k2
  k3 = k3
  r1 = r1
  host = host
  peer = peer
PROPERTIES InsufficientSticky NeverReasks FollowUpsLimited
CHECK_DEADLOCK FALSE
