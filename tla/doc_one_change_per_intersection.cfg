SPECIFICATION Spec
CONSTANTS
  i1 = i1
  i2 = i2
  i3 = i3
  n1 = n1
  n2 = n2
  Intersection = {i1, i2, i3}
  Incident = {n1}
  Kind <- OneKind
  PlanBound = 3
  Proposals <- Single
  Headroom = 3
  MaxConcurrent = 2
  MaxPlans = 3
  RevertWindow = 0
  AlertedSettle = 1
  AdvisoryExpiry = 0
INVARIANT
  OneChangePerIntersection

CHECK_DEADLOCK FALSE
