CONSTANTS
  a = a
  Calls = {a, b}
  HistoricalCalls = {}
  Size <- MCSize
  Uuid <- MCUuid
  Flushers = {}
  PanicFlushers = {}
  Closers = {s}
  MaxQueueSize = 2
  FlushAt = 2
  MaxBatchSize = 2
  MaxCaptureAttempts = 2
  Filtered <- MCFiltered
  CaptureV1 = FALSE
  NoOne = NoOne
SPECIFICATION Spec
INVARIANTS
  PendingSettles
