------------------------------ MODULE HookFile ------------------------------
(***************************************************************************)
(* The hook configuration of a coding agent as Overgent edits it           *)
(* (internal/hookconfig, internal/cursorsetup): what Install, Inspect,     *)
(* Rebind and Remove make of a document that also holds the member's own   *)
(* hooks.                                                                   *)
(*                                                                          *)
(* An event has groups, a group has handlers. A handler is the member's,    *)
(* with the fields Overgent's decoder knows or with others as well, or one  *)
(* of Overgent's: the command it runs (the executable and the profile) and  *)
(* whether its other fields are the ones Overgent writes.                   *)
(***************************************************************************)
EXTENDS Naturals, FiniteSets

CONSTANTS
  Events,   \* events Overgent installs a hook for
  Retired   \* an event an older build installed one for (PostToolUseFailure)

ASSUME HookFileAssumption == Retired \notin Events

Theirs == [cmd |-> [profile |-> "member", exe |-> 0], tuned |-> TRUE]
Rich == [cmd |-> [profile |-> "member", exe |-> 0], tuned |-> FALSE]   \* with fields of its own
Expected(cmd) == [cmd |-> cmd, tuned |-> TRUE]

EmptyFile == [hooks |-> [e \in Events \cup {Retired} |-> {}], allow |-> FALSE]

Managed(g) == g \ {Theirs, Rich}
ManagedIn(groups) == UNION {Managed(g) : g \in groups}
MembersOf(file, e) == {g \in file.hooks[e] : Theirs \in g \/ Rich \in g}

\* handler, group: what is decoded and encoded again has the fields of these
\* structures and no other.
Decoded(g) == {IF h = Rich THEN Theirs ELSE h : h \in g}
Encoded(groups) == {Decoded(g) : g \in groups}

\* The file with other groups at each of its events.
WithHooks(file, groups) == [file EXCEPT !.hooks = [e \in DOMAIN file.hooks |-> groups[e]]]

\* managed: the commands of Overgent's handlers at the events of today.
Commands(file) == {h.cmd : h \in UNION {ManagedIn(file.hooks[e]) : e \in Events}}

Complete(file, cmd) == \A e \in Events : \E g \in file.hooks[e] : Expected(cmd) \in g

Inspect(file, cmd) ==
  LET found == Commands(file)
  IN IF found = {} THEN "not_configured"
     ELSE IF Cardinality(found) > 1 THEN "conflict"
     ELSE IF found # {cmd} THEN "other_profile"
     ELSE IF Complete(file, cmd) THEN "current"
     ELSE "partial"

\* Mutant: a handler of another command does not stop an install.
CanInstallBeside(file, cmd, events) == TRUE

\* Install refuses a file with a handler of another command; for Codex it also
\* looks at the retired event. At an event it stops at the first handler of its
\* own, and Rebind and Install put no second one there.
CanInstall(file, cmd, events) ==
  \A e \in events : \A h \in ManagedIn(file.hooks[e]) : h.cmd = cmd

\* A handler of its own gets its fields back, a missing one a group of its own,
\* and groups with one of the retired event go. An event with nothing to change
\* keeps its bytes.
Install(file, cmd, events) ==
  LET own(e) == {h \in ManagedIn(file.hooks[e]) : h.cmd = cmd}
      repaired(g) == {IF h \in Managed(g) /\ h.cmd = cmd THEN Expected(cmd) ELSE h : h \in g}
      groups == [e \in DOMAIN file.hooks |->
        IF e \notin events THEN file.hooks[e]
        ELSE IF e = Retired THEN Encoded({g \in file.hooks[e] : Managed(g) = {}})
        ELSE IF own(e) = {} THEN Encoded(file.hooks[e]) \cup {{Expected(cmd)}}
        ELSE IF own(e) = {Expected(cmd)} THEN file.hooks[e]
        ELSE Encoded({repaired(g) : g \in file.hooks[e]})]
  IN WithHooks(file, groups)

\* Mutant: the group a handler of Overgent's is in goes with it.
RebindDropsGroups(file, cmd) ==
  LET groups == [e \in DOMAIN file.hooks |->
                   Encoded({g \in file.hooks[e] : Managed(g) = {}}) \cup
                   (IF e \in Events THEN {{Expected(cmd)}} ELSE {})]
  IN WithHooks(file, groups)

\* removeManaged: every handler of Overgent's goes, whoever installed it; the
\* member's stay, in the groups they were in.
RemoveManaged(file) ==
  LET groups == [e \in DOMAIN file.hooks |-> Encoded({g \ Managed(g) : g \in file.hooks[e]} \ {{}})]
  IN WithHooks(file, groups)

\* Rebind, and install of Cursor.
Rebind(file, cmd) ==
  LET bare == RemoveManaged(file)
      groups == [e \in DOMAIN bare.hooks |-> bare.hooks[e] \cup (IF e \in Events THEN {{Expected(cmd)}} ELSE {})]
  IN WithHooks(bare, groups)

\* Remove: a group with a handler of Overgent's goes as a whole.
Remove(file) ==
  LET groups == [e \in DOMAIN file.hooks |->
                   IF e \in Events THEN Encoded({g \in file.hooks[e] : Managed(g) = {}}) ELSE file.hooks[e]]
  IN WithHooks(file, groups)

AllowTools(file) == [file EXCEPT !.allow = TRUE]
DisallowTools(file) == [file EXCEPT !.allow = FALSE]

\* inspect of Cursor goes by the profile of a command, and refuses a handler of
\* this very command whose other fields changed.
CursorInspect(file, cmd) ==
  LET profiles == {c.profile : c \in Commands(file)}
      drifted == \E e \in Events : \E h \in ManagedIn(file.hooks[e]) : h.cmd = cmd /\ ~h.tuned
  IN IF drifted THEN "drifted"
     ELSE IF profiles = {} THEN "not_configured"
     ELSE IF Cardinality(profiles) > 1 THEN "conflict"
     ELSE IF profiles # {cmd.profile} THEN "other_profile"
     ELSE IF Complete(file, cmd) THEN "current"
     ELSE "partial"

=============================================================================
