SPECIFICATION Spec
CONSTANTS
  Own = {"a"}
  Shared = "s"
  MaxTokens = 2
  MaxFaults = 1
  Overlap = FALSE
  LostReply = FALSE
  Unread = TRUE
PROPERTIES ResetOnlyRejected
