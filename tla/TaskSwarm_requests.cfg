SPECIFICATION FairSpec
CONSTANTS
  r1 = r1
  r2 = r2
  s1 = s1
  s2 = s2
  Request = {r1, r2}
  Sensor = {s1, s2}
  Worker = {w1}
  Local = Local
  Needs <- Overlapping
  MaxInbox = 1
  MaxFaults = 1
INVARIANTS
  CollectsAll
PROPERTIES
  RequestEnds
