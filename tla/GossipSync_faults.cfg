SPECIFICATION FairSpec
CONSTANTS
  Node = {n1, n2, n3}
  Producer = {n1}
  NoNode = NoNode
  MaxReading = 2
  Limit = 2
  MaxFaults = 1
INVARIANTS
  OnlyFallbackForwards
  NothingLostWithoutFaults
PROPERTIES
  RefinesReplicas
  EventuallyCopied
