SPECIFICATION Spec
CONSTANTS
  a = a
  b = b
  p = p
  q = q
  Workspaces = {1}
  Projects = {p}
  Backends = {a, b}
  NoBackend = NoBackend
  ProjectOf <- OneProject
  RootOf <- RootEach
  InitialConfig <- OneEnrolled
  RefusedSeqs = {}
  BatchSize = 2
  MaxBurst = 1
  MaxSeq = 2
  MaxAdmin = 1
  MaxFaults = 1
  MaxLate = 0
  Reachable = {a}
INVARIANT RegistrationRemembered
CHECK_DEADLOCK FALSE
