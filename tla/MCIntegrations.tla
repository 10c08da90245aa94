--------------------------- MODULE MCIntegrations ---------------------------
(***************************************************************************)
(* All operations are explored together for short histories, and longer     *)
(* ones in parts: the setups, edits and removals of one repository while    *)
(* executables and profiles stay as they are, the bindings of Codex in both *)
(* repositories, and one binding of Claude Code whose executable goes to    *)
(* and fro between cuts and launches.                                       *)
(***************************************************************************)
EXTENDS Integrations, TLC

CONSTANTS p1, p2   \* two profiles, interchangeable

VARIABLE part

MCRoots == <<"r1", "r2">>
MCProfiles == {p1, p2, "portable"}
MCSymmetry == Permutations({p1, p2})

\* Events of a history in each part.
Lengths == [all |-> 3, first |-> 4, codex |-> 4, claude |-> 6]

\* Only in "all" and "first" has an older build left a hook behind.
MCInit ==
  /\ Init /\ part \in DOMAIN Lengths
  /\ part \in {"codex", "claude"} => hooks = [f \in Files |-> EmptyFile]

InFirst == op'.r \in {"none", "r1"} /\ \A f \in Files : f[2] = "r2" => hooks'[f] = hooks[f]

\* No edits, and of the vendors only this one.
Only(v) == op'.v \in {"none", v} /\ (op = NoOp => hooks' = hooks)

MCNext ==
  /\ Next
  /\ events' <= Lengths[part]
  /\ part = "first" => InFirst /\ exe' = exe /\ profile' = profile
  /\ part = "codex" => Only("codex")
  /\ part = "claude" => Only("claude") /\ InFirst /\ profile' = profile
  /\ UNCHANGED part

mcvars == <<vars, part>>

MCSpec == MCInit /\ [][MCNext]_mcvars
=============================================================================
