SPECIFICATION FairSpec
CONSTANTS
  tip1 = tip1
  tip2 = tip2
  siem = siem
  taxii21 = taxii21
  e1 = e1
  bad = bad
  broken = broken
  beat = beat
  Connectors <- MCConnectors
  SourceId <- MCSourceId
  Feed <- MCFeed
  Event = {e1, bad, broken, beat}
  Heartbeat = {beat}
  Malformed = {bad}
  Unenrichable = {broken}
  PoolSize = 2
  MaxSize = 1
  TTL = 1
  MaxTime = 2
  MaxBatches = 2
CHECK_DEADLOCK FALSE
INVARIANTS
  TypeOK
  OncePerWindow
  WindowIsFixed
  CacheBounded
  EveryAlertAccounted
PROPERTIES
  BatchEnds
