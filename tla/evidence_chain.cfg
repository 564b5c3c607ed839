SPECIFICATION Spec
CONSTANTS
  NoKey = NoKey
  EnvKey = NoKey
  MaxEntries = 6
  MaxFailures = 2
  MaxStarts = 3
  MaxKeys = 2
INVARIANTS
  CachedAgrees
  LossesBounded
  LossShows
  IssuedVerifies
CHECK_DEADLOCK FALSE
