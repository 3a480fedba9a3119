SPECIFICATION FairSpec
CONSTANTS
  p1 = p1
  p2 = p2
  v1 = v1
  v2 = v2
  Absent = Absent
  Paths = {p1, p2}
  Contents = {v1, v2}
  MaxQueue = 2
  Debounce = 1
  MaxBatch = 2
INVARIANT TypeOK
INVARIANT NothingHidden
PROPERTY EmptyMeansEnded
PROPERTY BatchEnds
