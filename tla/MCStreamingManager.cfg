SPECIFICATION ManagerFairSpec
CONSTANTS
  w1 = w1
  Worker = {w1}
  NoWorker = NoWorker
  MaxMessages = 4
  Poison = {2}
  MaxLen = 3
  BatchSize = 2
  PendingCount = 2
  MaxRetries = 1
  MaxQueueDepth = 1
  MaxFaults = 1
  FlushSize = 2
  CallbackRaises = TRUE
INVARIANTS
  ManagerTypeOK
  EveryAlertInOnePlace
  BatchIsBounded
PROPERTIES
  EveryMessageIsRead
  AccumulatedIsFlushed
