CONSTANTS
  c1 = c1
  e1 = e1
  e2 = e2
  e3 = e3
  ua = ua
  ub = ub
  Calls = {c1}
  Events = {e1, e2, e3}
  Uuids = {ua, ub}
  UuidOf <- SharedUuid
  Asks <- OfAnyKind
  Statuses <- FewStatuses
  Headers <- FewHeaders
  Errors = {"timeout", "refused"}
  MaxCaptureAttempts = 3
  FlagRetries = 1
  InitialBackoff = 3
  MaxBackoff = 10
  WordMax = 100
SPECIFICATION FairSpec
PROPERTIES
  FailedRequestReported
