SPECIFICATION FairSpec
CONSTANTS
  c1 = c1
  c2 = c2
  Callers = {c1, c2}
  Observables <- MCObservables
  Enabled = {"reputation"}
  MaxSize = 1
  FailureThreshold = 2
INVARIANTS
  CacheNearlyBounded
  OutageOpensCircuit
PROPERTIES
  OpenCircuitIsProbed
