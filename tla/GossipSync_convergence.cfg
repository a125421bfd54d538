SPECIFICATION FairSpec
CONSTANTS
  Node = {n1, n2, n3}
  Producer = {n1}
  NoNode = NoNode
  MaxReading = 1
  Limit = 1
  MaxFaults = 0
PROPERTIES
  Convergence
