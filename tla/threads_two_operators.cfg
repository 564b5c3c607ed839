SPECIFICATION Spec
CONSTANTS
  i1 = i1
  i2 = i2
  i3 = i3
  p1 = p1
  p2 = p2
  p3 = p3
  p4 = p4
  t1 = t1
  t2 = t2
  Thread = {t1, t2}
  Ticker = {}
  Plan = {p1, p2, p3}
  Intersection = {i1, i2, i3}
  TargetsOf <- Three
  StartMode = "live"
  NextModes = {}
  Headroom = 2
  MaxConcurrent = 1
SYMMETRY Threads
INVARIANTS
  ExecutedIsReversible
  OverrunBounded
CHECK_DEADLOCK FALSE
