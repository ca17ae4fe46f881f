CONSTANTS
  PrivateIps = {"10.0.0.1", "10.0.0.9"}
  AssetRegistry <- MCAssetRegistry
  Window = 60
  TechniqueNumber <- MCTechniqueNumber
  WhitelistIps = {"10.0.0.9"}
  WhitelistHostnames = {}
  CentralityBoosts = {0, 50}
  StartsWith <- MCStartsWith
  Overlay <- MCOverlay
  Bundle <- MCBundle
  Parent <- MCParent
  RawAlerts <- MCRawAlerts
  Contexts <- MCContexts
  MaxBatch = 5
  Step = 2000
  MaxNow = 6000
SPECIFICATION Spec
INVARIANTS
  RankingRespectsTiers
  MissionOnlyRaises
  ReportKeepsMarking
