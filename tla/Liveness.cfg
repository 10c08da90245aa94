SPECIFICATION FairSpec
CONSTANTS
  a = a
  b = b
  p = p
  q = q
  Workspaces = {1, 2, 3}
  Projects = {p, q}
  Backends = {a, b}
  NoBackend = NoBackend
  ProjectOf <- LastInItsOwn
  RootOf <- RootEach
  InitialConfig <- LastOnItsOwn
  RefusedSeqs = {2}
  BatchSize = 2
  MaxBurst = 1
  MaxSeq = 2
  MaxAdmin = 0
  MaxFaults = 0
  MaxLate = 0
  Reachable = {a}
PROPERTIES ReachableBackendDrains
CHECK_DEADLOCK FALSE
