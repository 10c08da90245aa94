CONSTANTS
  Order <- TeamFirst
  Local = "l"
  Home = "l"
  Callers = {1, 2}
  Opens = {"first", "second"}
  Links = 2
  MaxFaults = 2
  MaxGestures = 2
SPECIFICATION MCSpec
INVARIANT RejectedOrUnread
CHECK_DEADLOCK FALSE
PROPERTIES HealedBackendShown DashboardRecovers LatestLinkOpens
