CONSTANTS
  Updaters = {u, v}
  Clearers = {x}
  Evaluators = {e}
  MaxUpdates = 3
  Nobody = Nobody
SPECIFICATION Spec
INVARIANTS
  TypeOK
  UpdateAtomic
  ReadsAdvance
