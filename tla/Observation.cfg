CONSTANTS
  Dirs = {1, 2, 3, 4}
  Parent <- TwoRepos
  Repos = {1, 3}
  Ignored = {4}
  MaxDirs = 3
  Files = {1, 2}
  DirOf <- InSubdirectory
  Contents = {0, 2}
  Surface <- BodyThenSurface
  Readers = {1, 3}
  ChunkSize = 1
  MaxOps = 3
  MaxReads = 2
  MaxFaults = 1
  MaxMoves = 1
  MaxEvents = 3
SPECIFICATION Spec
INVARIANTS
  DescriptorBudget
  QuietMeansObserved
  ActiveIsWhole
  BackendCatchesUp
  ReadEvidenceAgrees
CHECK_DEADLOCK FALSE
