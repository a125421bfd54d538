\* The mesh: four devices in a kite, one message, one fault.
\* The DHT: two nodes bootstrap from a seed, nothing is lost.
\* The monitor: one worker, one task, two faults, a handshake that answers anything.
\* The recorder: two events, one of them critical, two starts, a stop, one join that
\* times out, one failed write.
\* The synchronisation: two stores, two readings, one row to a payload, a lost payload.
SPECIFICATION ServicesSpec
CONSTANTS
  a = a  b = b  c = c  d = d
  All = All
  NoNode = NoNode
  Node = {a, b, c, d}
  InRange <- Kite
  MsgId = {m1}
  Announcing = {m1}
  MaxHops = 2
  MaxFaults = 1
  DhtNode = {n1, n2, n3}
  Seed = n1
  StaleRounds = 3
  Lookups = {}
  Refreshing = {n1}
  Worker = {n1}
  Task = {t1}
  MaxRetries = 3
  SlowRounds = 2
  TimeoutRounds = 3
  FlapThreshold = 2
  FlapWindow = 3
  Verdicts = {TRUE, FALSE}
  MaxHealthFaults = 2
  Event = {e1, e2}
  Critical = {e1}
  MaxStarts = 2
  MaxStops = 1
  MaxSlow = 1
  MaxWriteErrors = 1
  Store = {s1, s2}
  Reading = {r1, r2}
  Unique = {u1, u2, u3, u4}
  Batch = 1
  MaxLosses = 1
CHECK_DEADLOCK FALSE
INVARIANTS
  ServicesTypeOK
  CriticalSurvivesStop
  SyncedIsElsewhere
PROPERTIES
  ReachesInRange
  Acquainted
  PeersTracked
