CONSTANTS
  Sessions = {s1}
  Claude = {s1}
  Order <- UrgentFirst
  Required = {"stale", "drift"}
  Hooks = {h1, h2}
  BriefBudget = 3
  LineBudget = 2
  HookBudget = 1
  FetchBudget = 2
  Window = 1
  DefaultFocus = 1
  MaxFocus = 2
  MaxRevisions = 2
  MaxFocusCalls = 1
  MaxFaults = 0
SPECIFICATION Spec
PROPERTY ClaimIsWaitedFor
