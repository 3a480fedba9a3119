SPECIFICATION Spec
CONSTANTS
  p1 = p1
  v1 = v1
  v2 = v2
  r1 = r1
  Absent = Absent
  Paths = {p1}
  Contents = {v1, v2}
  MaxQueue = 2
  WatchedPairs = {r1}
PROPERTY ChangesReachDaemon
\* Nothing has to happen in the directory.
CHECK_DEADLOCK FALSE
