SPECIFICATION Spec
CONSTANTS
  o = o
  a = a
  b = b
  c = c
  ghost = ghost
  Intersection = {a, b, c}
  Origin = o
  Adjacent <- Roads
  Through = {a, c}
  Monitored = {a, c, o}
  MaxHops = 2
  MaxNeighbours = 2
  Certainty = {520, 920}
  Accuracy = {880}
  Feed = {"camera"}
  Source = {"camera"}
  Answer <- Answers
  Threshold = 700
  Cameras <- Ids
  At <- Looks
  PerSweep = 2
  Levels = {0, 1000}
INVARIANTS
  NearestServed
  ModelLiftBounded
PROPERTY
  EveryCameraSwept
