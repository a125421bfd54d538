SPECIFICATION BucketSpec
CONSTANTS
  Id = {p1, p2, p3}
  Nobody = Nobody
  K = 2
  MaxAge = 1
  MaxTime = 3
SYMMETRY IdSymmetry
CHECK_DEADLOCK FALSE
PROPERTY EvictsOnlyStale
