CONSTANTS
  Tasks = {t, u}
  Loaders = {l}
  Owner = Owner
  None = None
  MaxVersion = 3
  MaxFailures = 2
SPECIFICATION Spec
INVARIANTS
  TypeOK
  OneTaskPolls
  StopJoins
PROPERTIES
  CatchesUp
