CONSTANTS
  Sessions = {c1, c2, bg}
  Claude = {}
  Background = {bg}
  Keys = {k1, k2}
  Methods = {"begin_work", "update_intent", "report_event"}
  Texts = {t1}
  HookEvents = {"UserPromptSubmit", "SessionEnd"}
  Workspace = "workspace"
  Live = 1
  Window = 2
  ToolAt = {2}
  MaxEvents = 4
SPECIFICATION Spec
INVARIANTS
  RetriesAgree
  NoLostUpdate
  NeverMistaken
  MessageSharedOnce
SYMMETRY Alike
CHECK_DEADLOCK FALSE
