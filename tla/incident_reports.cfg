SPECIFICATION Spec
SYMMETRY Interchangeable
CONSTANTS
  q1 = q1
  q2 = q2
  d1 = d1
  d2 = d2
  Place = {i1}
  Kind = {collision}
  Collision = collision
  Citizen = {u1}
  Request = {q1, q2}
  Moderator = {m1}
  Detector = {tick}
  Tick = tick
  Dispatch = {d1, d2}
  DedupeBound = 1
  MaxIncidents = 2
  MaxReports = 2
  MaxRestarts = 1
INVARIANTS
  ShownAsDecided
  StandingIsBacked
  DetectorsNeverDuplicate
CHECK_DEADLOCK FALSE
