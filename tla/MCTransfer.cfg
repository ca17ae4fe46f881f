CONSTANTS
  PrivateIps = {"10.0.0.1"}
  AssetRegistry <- MCNone
  Window = 60
  TechniqueNumber <- MCNone
  WhitelistIps = {}
  WhitelistHostnames = {}
  CentralityBoosts = {0}
  StartsWith = {}
  Overlay <- MCNone
  Bundle = {}
  Parent <- MCNone
  ProtectSources = TRUE
  BlockedSources = {"HUMINT"}
  RedactAddresses = FALSE
  RedactHostnames = TRUE
  RawAlerts <- MCRawAlerts
  Partners <- MCPartners
  Keys = {k1, k2}
  Flushers = {f1, f2}
  NoKey = NoKey
  AllowHighToLow = TRUE
  AllowOpen = FALSE
  RequireSanitisation = TRUE
  Domains = {"OPEN", "LOW", "HIGH"}
  ThreatSize = 2
  MaxExports = 2
SYMMETRY Symmetry
SPECIFICATION Spec
INVARIANTS
  ReleasedOnceWithinMarking
  ImportedAsSealed
