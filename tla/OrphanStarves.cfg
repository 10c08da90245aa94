SPECIFICATION FairSpec
CONSTANTS
  a = a
  b = b
  p = p
  q = q
  Workspaces = {1, 2}
  Projects = {p, q}
  Backends = {a}
  NoBackend = NoBackend
  ProjectOf <- LastInItsOwn
  RootOf <- RootEach
  InitialConfig <- OneEnrolled
  RefusedSeqs = {}
  BatchSize = 2
  MaxBurst = 1
  MaxSeq = 2
  MaxAdmin = 2
  MaxFaults = 1
  MaxLate = 0
  Reachable = {a}
PROPERTY OrphanHoldsUpNobody
CHECK_DEADLOCK FALSE
