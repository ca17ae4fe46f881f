SPECIFICATION Spec
CONSTANTS
  w1 = w1
  w2 = w2
  r1 = r1
  r2 = r2
  MaxAlerts = 2
  MaxAudit = 3
  Runners = {r1, r2}
  Files <- MCFiles
  Workers = {w1, w2}
  Configs <- MCConfigs
  Submissions <- MCSubmissions
  Group <- MCGroup
  GroupTier <- MCGroupTier
  Unscorable <- MCUnscorable
  NewRoles = {"analyst"}
  Verdicts = {"TRUE_POSITIVE"}
  RunLimit = 2
  MaxThreats = 2
  MaxRequests = 2
  MaxFaults = 1
CHECK_DEADLOCK FALSE
INVARIANTS
  EvidenceIsStored
  AuditedBeforeStored
  ReportsAccounted
  CountsAddUp
  MigratedIsComplete
SYMMETRY MCSymmetry
