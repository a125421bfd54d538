SPECIFICATION ExchangeSpec
CONSTANTS
  Node = {n1, n2}
  Far = {x}
  Heard = {"address", "capability"}
  NoNode = NoNode
  Worker = {n1, n2, x}
  MaxFaults = 0
INVARIANT SnapshotsSafe
