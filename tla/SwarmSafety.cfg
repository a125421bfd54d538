\* The bucket: three peers for two places.
\* The DHT: two nodes, the seed refreshes without end, two faults (a datagram lost or doubled, a node
\* that leaves), or one fault and lookups.
\* Health: two workers, one task, one crash, loss or delisting.
SPECIFICATION SwarmSpec
CONSTANTS
  Id = {p1, p2, p3}
  Nobody = Nobody
  K = 2
  MaxAge = 1
  MaxTime = 3
  DhtNode = {n1, n2}
  Seed = n1
  StaleRounds = 4
  DhtFaults = 2
  Lookups = {}
  LookingUp = {n1}
  Refreshing = {n1}
  Node = {w1, w2}
  Task = {t1}
  NoNode = NoNode
  MaxRetries = 2
  SlowRounds = 1
  TimeoutRounds = 2
  FlapThreshold = 2
  FlapWindow = 3
  Verdicts = {TRUE, FALSE}
  MaxFaults = 1
SYMMETRY Alike
CHECK_DEADLOCK FALSE
INVARIANTS
  OldestFirst
  LastKHeard
  RejoinNeedsHandshake
  CompletedStaysCompleted
PROPERTIES
  AnsweringPeersStay
