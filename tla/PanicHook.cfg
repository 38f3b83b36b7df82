CONSTANTS
  i1 = i1
  i2 = i2
  t1 = t1
  t2 = t2
  w = w
  Inits = {i1, i2}
  Profile <- OneCaptures
  Threads = {t1, t2}
  Worker = w
  MaxPanics = 1
  MaxChannel = 2
SPECIFICATION FairSpec
INVARIANTS
  CapturedOnce
PROPERTIES
  PanicProceeds
