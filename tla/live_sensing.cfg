SPECIFICATION Spec
CONSTANTS
  i1 = i1
  b1 = b1
  s1 = s1
  Caller = {"loop", "request"}
  Intersection = {i1}
  Bus = {b1}
  Simulated = {s1}
  NoValue = NoValue
  Untimed = Untimed
  Lags <- AnyLag
  Ttl = 1
  Backoff = 1
  Window = 1
  StaleFix = 1
  PruneAge = 1
  Every = 1
  Configured = {"flow"}
  MinSamples = 2
  Highway = {}
  LoopSpeed = {4}
  MaxRequests = 1
INVARIANTS
  SuppressedAfterError
  MinorityCannotMove
PROPERTIES
  EvidenceBounded
  SettlementRecurs
  RaceHeals
