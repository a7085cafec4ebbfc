SPECIFICATION Spec
CONSTANTS
  i1 = i1
  i2 = i2
  p1 = p1
  p2 = p2
  c1 = c1
  c2 = c2
  NoFile = NoFile
  Indexers = {i1, i2}
  Paths = {p1, p2}
  Contents = {c1, c2}
  MaxGen = 4
  Workloads <- MCWorkloads
INVARIANT ReadsAreExact
PROPERTIES SnapshotStable SyncMatchesScan
SYMMETRY Symmetry
CHECK_DEADLOCK FALSE
