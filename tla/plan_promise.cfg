SPECIFICATION FairSpec
CONSTANTS
  i1 = i1
  i2 = i2
  i3 = i3
  n1 = n1
  n2 = n2
  Intersection = {i1, i2}
  Incident = {n1, n2}
  Kind <- OneKind
  PlanBound = 2
  Proposals <- Nested
  Headroom = 2
  MaxConcurrent = 3
  MaxPlans = 1
  RevertWindow = 0
  AlertedSettle = 1
  AdvisoryExpiry = 0

PROPERTIES
  KeepsPromise
  BookingReleased
  AdvisoryLapses
  DuplicateOnlyByReopening
CHECK_DEADLOCK FALSE
