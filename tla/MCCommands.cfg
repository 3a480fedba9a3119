SPECIFICATION Spec
CONSTANTS
  i1 = i1
  a1 = a1
  a2 = a2
  s1 = s1
  c1 = c1
  v1 = v1
  n1 = n1
  n2 = n2
  p1 = p1
  p2 = p2
  Missing = Missing
  Empty = Empty
  Garbage = Garbage
  Mixtures <- MCMixtures
  NoNode = NoNode
  NoCode = NoCode
  Nodes = {n1, n2}
  Ids = {p1, p2}
  Inits = {i1}
  Adds = {a1, a2}
  Starts = {s1}
  Connects = {c1}
  Serves = {v1}
  Codes <- MCCodes
  MyName <- MCMyName
  MySecret <- MCMySecret
  ExternalNode = FALSE
SYMMETRY MCSymmetry
INVARIANT TypeOK
INVARIANT FileServes
INVARIANT SerialUpdatesKept
PROPERTY CodeReadBack
PROPERTY BytesAreRegroupedBits
\* Every command runs once.
CHECK_DEADLOCK FALSE
