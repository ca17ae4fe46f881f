SPECIFICATION FairSpec
CONSTANTS
  a1 = a1
  a2 = a2
  a3 = a3
  a4 = a4
  Alert = {a1, a2, a3, a4}
  NoAlert = NoAlert
  Candidate <- MCCandidate
  Centrality = {0, 10}
  MinGroupConfidence = 30
  SingletonConfidence = 20
  MultiSignalBoost = 8
  MaxMultiSignalBoost = 25
INVARIANTS
  TypeOK
  ForestIsPartition
  FindIsShallow
  ConfidenceIsEarned
PROPERTIES
  ImplementsClustering
  Terminates
