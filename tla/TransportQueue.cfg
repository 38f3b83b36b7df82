CONSTANTS
  a = a
  Calls = {a, h}
  HistoricalCalls = {h}
  Size <- MCThree
  Uuid <- MCShared
  Flushers = {}
  PanicFlushers = {p}
  Closers = {s, t}
  MaxQueueSize = 3
  FlushAt = 3
  MaxBatchSize = 3
  MaxCaptureAttempts = 2
  Filtered <- MCFiltered
  CaptureV1 = TRUE
  NoOne = NoOne
SPECIFICATION Spec
INVARIANTS
  TypeOK
  SlotAccounting
  Placed
  QueueBounded
  NothingStranded
  PanicFirst
  JoinedWorker
  ReportedOnce
PROPERTIES
  OutcomeFinal
  ImplementsLedger
