SPECIFICATION Spec
CONSTANTS
  a = a
  b = b
  p = p
  q = q
  Workspaces = {1, 2}
  Projects = {p}
  Backends = {a, b}
  NoBackend = NoBackend
  ProjectOf <- OneProject
  RootOf <- Reenrolled
  InitialConfig <- OneEnrolled
  RefusedSeqs = {2}
  BatchSize = 2
  MaxBurst = 2
  MaxSeq = 3
  MaxAdmin = 2
  MaxFaults = 1
  MaxLate = 1
  Reachable = {a}
INVARIANTS NoSilentlyStaleEvent
PROPERTY ImplementsOutbox
CHECK_DEADLOCK FALSE
