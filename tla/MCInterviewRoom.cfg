SPECIFICATION Spec
CONSTANTS
  Practices = {1, 2}
  DomainOf <- DomainOf2
  Workers = {host, peer}
  JobsOf <- JobsRoom
  HostKeys = {k1, k2, k3}
  Contributions = {r1}
  Analyses <- AnalysesSmall
  OpenClusters = {{1, 2}}
  MockScoring = FALSE
  Scorings <- ScoringsLive
  SeedTexts = {TRUE, FALSE}
  MaxTurns = 2
  MaxProbes = 2
  MinSufficient = 1
  MinConfidence = 50
  NoClarification = NoClarification
  k1 = k1
  k2 = k2
  k3 = k3
  r1 = r1
  host = host
  peer = peer
INVARIANTS TypeOK CountExact PendingMatchesOutcome QuestionRecorded
PROPERTY ImplementsTranscript
CHECK_DEADLOCK FALSE
