SPECIFICATION Spec
CONSTANTS
  a = a
  b = b
  p = p
  q = q
  Workspaces = {1}
  Projects = {p}
  Backends = {a, b}
  NoBackend = NoBackend
  ProjectOf <- OneProject
  RootOf <- RootEach
  InitialConfig <- OneEnrolled
  RefusedSeqs = {}
  BatchSize = 2
  MaxBurst = 1
  MaxSeq = 3
  MaxAdmin = 1
  MaxFaults = 0
  MaxLate = 0
  Reachable = {a}
INVARIANT OnlyRefusedQuarantined
CHECK_DEADLOCK FALSE
