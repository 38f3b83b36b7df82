CONSTANTS
  a = a
  Calls = {a, h}
  HistoricalCalls = {h}
  Size <- MCSize
  Uuid <- MCUuid
  Flushers = {f}
  PanicFlushers = {}
  Closers = {s}
  MaxQueueSize = 2
  FlushAt = 2
  MaxBatchSize = 2
  MaxCaptureAttempts = 2
  Filtered <- MCFiltered
  CaptureV1 = FALSE
  NoOne = NoOne
SPECIFICATION FairSpec
INVARIANTS
  FlushAttempted
PROPERTIES
  CallersReturn
  EventsSettle
