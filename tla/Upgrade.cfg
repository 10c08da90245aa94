SPECIFICATION Spec
CONSTANTS
  MaxImage = 3
  Attempts = 2
  MaxFaults = 2
  Overlap = FALSE
INVARIANTS ReplacedImageKept
PROPERTIES FailedUpdateUndone UpdatedServiceRuns
