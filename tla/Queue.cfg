SPECIFICATION Spec
CONSTANTS
  a = a
  b = b
  p = p
  q = q
  Workspaces = {1, 2}
  Projects = {p}
  Backends = {a}
  NoBackend = NoBackend
  ProjectOf <- OneProject
  RootOf <- Reenrolled
  InitialConfig <- OneEnrolled
  RefusedSeqs = {3}
  BatchSize = 2
  MaxBurst = 2
  MaxSeq = 3
  MaxAdmin = 2
  MaxFaults = 1
  MaxLate = 1
  Reachable = {a}
INVARIANTS TypeOK AckedWasAccepted CursorCoversNoPending BootNeverConflicts RegistrationRemembered OnlyRefusedQuarantined
CHECK_DEADLOCK FALSE
