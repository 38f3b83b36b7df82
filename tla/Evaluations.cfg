CONSTANTS
  u1 = u1
  u2 = u2
  u3 = u3
  s1 = s1
  s2 = s2
  s3 = s3
  Keys <- TwoKeys
  Answers <- TwoAnswers
  Filters <- OneFilter
  NoFilter = NoFilter
  Ids = {u1, u2, u3}
  NoId = NoId
  Groups <- OneGroup
  Arguments <- OneFullCall
  Snapshots = {s1, s2, s3}
  Readers = {r1, r2}
  MaxRetries = 1
  MaxIds = 2
  MaxReads = 3
SPECIFICATION Spec
INVARIANTS
  TypeOK
  AccessedStays
  OncePerReset
PROPERTIES
  NothingLost
  FailureShown
  SkippedIsSent
SYMMETRY
  Symmetry
