SPECIFICATION Spec
CONSTANTS
  i1 = i1
  i2 = i2
  i3 = i3
  p1 = p1
  p2 = p2
  p3 = p3
  p4 = p4
  t1 = t1
  t2 = t2
  Thread = {"op"}
  Ticker = {"tick"}
  Plan = {p1, p2, p3, p4}
  Intersection = {i1, i2, i3}
  TargetsOf <- Mixed
  StartMode = "live"
  NextModes = {"shadow", "advisory", "live"}
  Headroom = 1
  MaxConcurrent = 2
INVARIANTS
  NothingLeaks
  WatchedCanBeRolledBack
CHECK_DEADLOCK FALSE
