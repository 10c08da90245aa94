SPECIFICATION FairSpec
CONSTANTS
  Own = {"a"}
  Shared = "s"
  MaxTokens = 2
  MaxFaults = 2
  Overlap = FALSE
  LostReply = FALSE
  Unread = FALSE
INVARIANTS MovedProjectReachable
PROPERTIES SharedDeviceKept MoveCompletes
