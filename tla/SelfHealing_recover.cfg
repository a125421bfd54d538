SPECIFICATION ReachableSpec
CONSTANTS
  Node = {n1}
  Task = {t1}
  NoNode = NoNode
  MaxRetries = 3
  SlowRounds = 2
  TimeoutRounds = 3
  FlapThreshold = 2
  FlapWindow = 3
  Verdicts = {FALSE}
  MaxFaults = 2
PROPERTIES
  ReconnectedRecovers
