\* The mind: one sensor, a buffer of two, one verdict of every kind.
\* The pipeline: up to three peers with one of four capabilities each.
\* The exchange: two nodes that list each other and one heard of over the DHT, two faults.
SPECIFICATION NodeSpec
CONSTANTS
  Sensor = {s1}
  Verdicts <- FourVerdicts
  Ready = 2
  MaxPending = 1
  HistoryCap = 4
  Recent = 3
  CriticalMin = 2
  HighMin = 3
  AnomalyMin = 3
  HighClear = 2
  AnomalyClear = 2
  Peer = {p1, p2, p3}
  Local = Local
  PeerCaps <- FourCaps
  Node = {n1, n2}
  Far = {x}
  Heard = {"capability"}
  NoNode = NoNode
  Worker = {n1, n2, x}
  MaxFaults = 2
CHECK_DEADLOCK FALSE
INVARIANTS
  NodeTypeOK
  ReportedAsItWent
PROPERTIES
  NoFlapping
  MindFollows
  Introduced
