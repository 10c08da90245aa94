SPECIFICATION Spec
CONSTANTS
  a = a
  b = b
  p = p
  q = q
  Workspaces = {1}
  Projects = {p}
  Backends = {a}
  NoBackend = NoBackend
  ProjectOf <- OneProject
  RootOf <- RootEach
  InitialConfig <- OneEnrolled
  RefusedSeqs = {}
  BatchSize = 2
  MaxBurst = 1
  MaxSeq = 2
  MaxAdmin = 0
  MaxFaults = 0
  MaxLate = 0
  Reachable = {a}
PROPERTY PauseStopsTransmission
CHECK_DEADLOCK FALSE
