SPECIFICATION Spec
CONSTANTS
  w1 = w1
  w2 = w2
  Worker = {w1, w2}
  NoWorker = NoWorker
  MaxMessages = 3
  Poison = {2}
  MaxLen = 2
  BatchSize = 2
  PendingCount = 2
  MaxRetries = 1
  MaxQueueDepth = 1
  MaxFaults = 2
SYMMETRY Symmetry
INVARIANTS
  TypeOK
  NothingForgotten
  AckedIsSettled
  RetriesExact
  OneHolder
  DepthIsInFlight
PROPERTIES
  ImplementsAtLeastOnce
