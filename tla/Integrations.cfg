SPECIFICATION MCSpec
CONSTANTS
  p1 = p1
  p2 = p2
  Events = {"start"}
  Retired = "failure"
  RootOrder <- MCRoots
  Profiles <- MCProfiles
  Superseded = {"portable"}
  MaxPaths = 2
  MaxEvents = 6
SYMMETRY MCSymmetry
INVARIANTS OneOwnerPerFile OwnLeftoversAdopted
PROPERTIES LiveBindingKept MemberHooksKept
CHECK_DEADLOCK FALSE
