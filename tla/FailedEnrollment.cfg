SPECIFICATION Spec
CONSTANTS
  Own = {"a"}
  Shared = "s"
  MaxTokens = 3
  MaxFaults = 2
  Overlap = FALSE
  LostReply = FALSE
  Unread = FALSE
PROPERTY RollbackRevokes
