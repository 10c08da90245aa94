CONSTANTS
  Sessions = {s1}
  Claude = {s1}
  Order <- UrgentFirst
  Required = {"stale", "drift"}
  Hooks = {h1, h2}
  BriefBudget = 3
  LineBudget = 2
  HookBudget = 1
  FetchBudget = 2
  Window = 1
  DefaultFocus = 1
  MaxFocus = 1
  MaxRevisions = 2
  MaxFocusCalls = 1
  MaxFaults = 1
SPECIFICATION Spec
INVARIANTS
  ShownOnce
  NothingRetiredUnread
PROPERTY CorrectionArrives
