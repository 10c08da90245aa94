CONSTANTS
  Ports = {1, 2, 3}
  Releases = {1, 2}
  Attempts = 2
  RestartLimit = 1
  Overlap = FALSE
  MaxSpawns = 5
  MaxEvents = 9
SPECIFICATION Spec
INVARIANTS
  OneBackend
  EnsuredHasFunctions
  ExportedAtRest
  OneSupervisor
PROPERTY SupervisedBackendReturns
CHECK_DEADLOCK FALSE
