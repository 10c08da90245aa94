---------------------------- MODULE Integrations ----------------------------
(***************************************************************************)
(* The bindings of coding agents to Overgent: an MCP entry and a hook file  *)
(* for Codex and Claude Code, a hook file for Cursor, each naming the       *)
(* executable and the profile it runs (internal/codexsetup, claudesetup,    *)
(* cursorsetup); set up, reconnected and removed by a member, repaired at   *)
(* every launch (internal/adapterrepair), by several profiles of one        *)
(* machine whose executables move and whose enrollments come and go.        *)
(*                                                                          *)
(* The files are written one after the other; each write may fail and the   *)
(* process may end between two of them. Two operations do not overlap.      *)
(***************************************************************************)
EXTENDS HookFile, Integers, Sequences

CONSTANTS
  RootOrder,   \* the registered repositories, in the order of the configuration
  Profiles,    \* Overgent profiles of this machine
  Superseded,  \* those that name no directory: the portable form, former names
  MaxPaths,    \* bound: places the executable of a profile may be at
  MaxEvents    \* bound: operations, changes by members and failures together

Roots == {RootOrder[i] : i \in DOMAIN RootOrder}

ASSUME IntegrationsAssumption ==
  /\ RootOrder \in Seq(Roots)
  /\ Superseded \subseteq Profiles /\ "none" \notin Profiles
  /\ MaxPaths \in Nat /\ MaxEvents \in Nat

VARIABLES
  entry,     \* the MCP entry of Codex and Claude Code in every repository
  hooks,     \* the hook files
  trusted,   \* the command Codex's trust tables name, if there are any
  exe,       \* where the executable of a profile is now, by number
  gone,      \* commands whose executable is gone
  profile,   \* a profile's directory: "absent", "bare" or "enrolled"
  op,        \* the operation in progress
  launch,    \* the repair pass of a launch, and how far it is
  events     \* what is bounded by MaxEvents

vars == <<entry, hooks, trusted, exe, gone, profile, op, launch, events>>

Vendors == <<"codex", "claude", "cursor">>
None == [profile |-> "none", exe |-> 0]

Cmd(p) == [profile |-> p, exe |-> exe[p]]

\* hookDetails: the hooks of Codex are the user's, the others a repository's.
Files == {<<"codex", "user">>} \cup ({"claude", "cursor"} \X Roots)
FileOf(v, r) == IF v = "codex" THEN <<"codex", "user">> ELSE <<v, r>>

\* The events Install looks at.
EventsOf(v) == IF v = "codex" THEN Events \cup {Retired} ELSE Events

NoOp == [pc |-> "idle", kind |-> "none", p |-> "none", v |-> "none", r |-> "none", entry |-> None]
NoLaunch == [p |-> "none", at |-> 0, clean |-> TRUE]
Steps == Len(RootOrder) * Len(Vendors)

\* An older build may have left hooks of Codex behind, at an event of its own.
Init ==
  /\ entry = [v \in {"codex", "claude"} |-> [r \in Roots |-> None]]
  /\ \E left \in {{}} \cup {{{Expected([profile |-> p, exe |-> 1])}} : p \in Profiles} :
       hooks = [f \in Files |-> IF f = <<"codex", "user">> THEN [EmptyFile EXCEPT !.hooks[Retired] = left] ELSE EmptyFile]
  /\ trusted = {}
  /\ exe = [p \in Profiles |-> 1] /\ gone = {}
  /\ profile = [p \in Profiles |-> "enrolled"]
  /\ op = NoOp /\ launch = NoLaunch /\ events = 0

Event == events < MaxEvents /\ events' = events + 1

\* Nothing is in progress; what the last launch established no longer counts.
Launched == launch.at = Steps
Quiet == op = NoOp /\ (launch.p = "none" \/ Launched)
Begin == Quiet /\ launch' = NoLaunch

-----------------------------------------------------------------------------
\* The world around the bindings.

\* An application is moved or copied, to a new path or to one it was at before
\* (two installations of one profile, started in turn); the old path stays or is
\* gone.
MoveExecutable(p) ==
  /\ Begin /\ Event
  /\ p \notin Superseded
  /\ \E n \in (1..MaxPaths) \ {exe[p]} :
       /\ exe' = [exe EXCEPT ![p] = n]
       /\ \E left \in {{}, {Cmd(p)}} : gone' = (gone \cup left) \ {[profile |-> p, exe |-> n]}
  /\ UNCHANGED <<entry, hooks, trusted, profile, op>>

ChangeProfile(p, s) ==
  /\ Begin /\ Event
  /\ p \notin Superseded /\ profile[p] # s
  /\ profile' = [profile EXCEPT ![p] = s]
  /\ UNCHANGED <<entry, hooks, trusted, exe, gone, op>>

\* A member edits a hook file: a hook of their own, plain or with fields of its
\* own, in a group of its own or in one of Overgent's, or another timeout for
\* Overgent's.
EditHooks(f, e) ==
  /\ Begin /\ Event
  /\ LET groups == hooks[f].hooks[e]
         detuned(g) == {IF h \in Managed(g) THEN [h EXCEPT !.tuned = FALSE] ELSE h : h \in g}
         edited == {groups \cup {{h}} : h \in {Theirs, Rich}}
                   \cup (IF f[1] = "cursor" THEN {} ELSE {{g \cup {h} : g \in groups} : h \in {Theirs, Rich}})
                   \cup {{detuned(g) : g \in groups}}
     IN \E new \in edited \ {groups} : hooks' = [hooks EXCEPT ![f].hooks[e] = new]
  /\ UNCHANGED <<entry, trusted, exe, gone, profile, op>>

-----------------------------------------------------------------------------
\* Status and the question whether anything still uses a binding.

\* classifyServer: an entry of Overgent's that is not this profile's, or not at
\* this path.
Foreign(v, r, c) == entry[v][r] \notin {None, c}

EntryState(v, r, c) ==
  CASE Foreign(v, r, c) -> "other_profile"
    [] entry[v][r] = None -> "not_configured"
    [] OTHER -> "current"

\* Status of Codex and Claude Code combines the two layers.
Status(v, r, c) ==
  LET b == EntryState(v, r, c)
      h == Inspect(hooks[FileOf(v, r)], c)
  IN IF h = "conflict" THEN "error"
     ELSE IF b = "current" /\ h = "current" THEN "current"
     ELSE IF b = "other_profile" /\ h \in {"other_profile", "not_configured"} THEN "other_profile"
     ELSE IF b # "other_profile" /\ h = "other_profile" THEN "other_profile"
     ELSE IF b = "current" \/ h \in {"partial", "current"} THEN "partial"
     ELSE "not_configured"

\* Whom an other_profile status names: the entry's owner before the hooks'.
Previous(v, r, c) ==
  IF EntryState(v, r, c) = "other_profile" THEN entry[v][r]
  ELSE CHOOSE d \in Commands(hooks[FileOf(v, r)]) : TRUE

\* Mutant: a profile that exists does not keep its bindings without a device.
AbandonedUnlessRunning(p, c) == c.profile # "none"

\* Mutant: a profile's own binding at another path counts as somebody's.
AbandonedByOthers(p, c) ==
  c.profile \in Superseded \/ profile[c.profile] # "enrolled" \/ c \in gone

Abandoned(p, c) ==
  \/ c.profile \in Superseded
  \/ c.profile = p
  \/ profile[c.profile] # "enrolled"
  \/ c \in gone

\* adopt: a leftover, not another profile's property.
Adopts(p, v, r) ==
  /\ Status(v, r, Cmd(p)) = "other_profile"
  /\ Abandoned(p, Previous(v, r, Cmd(p)))

Do(pc, kind, p, v, r) ==
  op' = [pc |-> pc, kind |-> kind, p |-> p, v |-> v, r |-> r, entry |-> entry[v][r]]
Go(pc) == op' = [op EXCEPT !.pc = pc]
Done == op' = NoOp
Me == Cmd(op.p)
File == FileOf(op.v, op.r)

\* The server entry of one repository is replaced, nothing else in the document.
WriteEntry(v, r, c) == entry' = [entry EXCEPT ![v][r] = c]

-----------------------------------------------------------------------------
\* Setup of Codex and of Claude Code.

SetupAdopts(p, v, r) ==
  /\ Begin /\ Event
  /\ Adopts(p, v, r)
  /\ Do("entry", "setup", p, v, r)
  /\ UNCHANGED <<entry, hooks, trusted, exe, gone, profile>>

\* The entry is written if there is none; another profile's is refused.
SetupEntry(p, v, r) ==
  /\ Begin /\ Event
  /\ ~Adopts(p, v, r)
  /\ entry[v][r] \in {None, Cmd(p)}
  /\ WriteEntry(v, r, Cmd(p))
  /\ Do("install", "setup", p, v, r)
  /\ UNCHANGED <<hooks, trusted, exe, gone, profile>>

\* A refused or failed Install ends the setup and leaves the entry.
SetupHooks ==
  /\ op.pc = "install"
  /\ \/ /\ CanInstall(hooks[File], Me, EventsOf(op.v))
        /\ hooks' = [hooks EXCEPT ![File] = Install(@, Me, EventsOf(op.v))]
        /\ Go(IF op.v = "codex" THEN "trust" ELSE "allow")
        /\ UNCHANGED events
     \/ /\ IF CanInstall(hooks[File], Me, EventsOf(op.v)) THEN Event ELSE UNCHANGED events
        /\ Done /\ UNCHANGED hooks
  /\ UNCHANGED <<entry, trusted, exe, gone, profile, launch>>

SetupTools ==
  /\ op.pc = "allow"
  /\ \/ hooks' = [hooks EXCEPT ![File] = AllowTools(@)] /\ UNCHANGED events
     \/ UNCHANGED hooks /\ Event
  /\ Done
  /\ UNCHANGED <<entry, trusted, exe, gone, profile, launch>>

\* ensureHookTrust never fails a setup. Codex is not found or does not answer:
\* the member is left to review the hooks.
TrustUnasked ==
  /\ op.pc = "trust"
  /\ Done
  /\ UNCHANGED <<entry, hooks, trusted, exe, gone, profile, launch, events>>

\* The hooks of this very command among those Codex resolves.
Resolves == Me \in Commands(hooks[File])

\* Codex lists them: there are none, all are trusted, or some are pending.
TrustAsked ==
  /\ op.pc = "trust"
  /\ IF Resolves /\ Me \notin trusted THEN Go("pending") ELSE Done
  /\ UNCHANGED <<entry, hooks, trusted, exe, gone, profile, launch, events>>

\* Codex records the trust itself.
TrustWritten ==
  /\ op.pc = "pending"
  /\ trusted' = {Me}
  /\ Done
  /\ UNCHANGED <<entry, hooks, exe, gone, profile, launch, events>>

\* Codex refuses the write, which is why the tables are appended, and a table
\* that is there already, for an earlier command, is left as it is.
TrustAppended ==
  /\ op.pc = "pending"
  /\ trusted' = IF trusted = {} THEN {Me} ELSE trusted
  /\ Done
  /\ UNCHANGED <<entry, hooks, exe, gone, profile, launch, events>>

-----------------------------------------------------------------------------
\* rebind: for a reconnect, for a setup that adopts and for a repair.

Reconnect(p, v, r) ==
  /\ Begin /\ Event
  /\ Inspect(hooks[FileOf(v, r)], Cmd(p)) # "conflict"
  /\ Do("entry", "reconnect", p, v, r)
  /\ UNCHANGED <<entry, hooks, trusted, exe, gone, profile>>

\* In a repair nothing is created.
WritesEntry == entry[op.v][op.r] # Me /\ (entry[op.v][op.r] # None \/ op.kind # "repair")
WritesHooks == op.kind # "repair" \/ Inspect(hooks[File], Me) # "not_configured"

RebindEntry ==
  /\ op.pc = "entry"
  /\ IF WritesEntry THEN WriteEntry(op.v, op.r, Me) ELSE UNCHANGED entry
  /\ Go("hooks")
  /\ UNCHANGED <<hooks, trusted, exe, gone, profile, launch, events>>

RebindHooks ==
  /\ op.pc = "hooks"
  /\ hooks' = IF WritesHooks THEN [hooks EXCEPT ![File] = Rebind(@, Me)] ELSE hooks
  /\ IF op.v = "codex" THEN Go("trust") ELSE Done
  /\ UNCHANGED <<entry, trusted, exe, gone, profile, launch, events>>

\* capture and restore: the entry as it was when the operation began.
Restore == WriteEntry(op.v, op.r, op.entry)

\* A write fails: the entry is put back, or that fails too.
RebindFails ==
  /\ op.pc \in {"entry", "hooks"}
  /\ Event
  /\ Restore \/ UNCHANGED entry
  /\ Done
  /\ launch' = [launch EXCEPT !.clean = FALSE]
  /\ UNCHANGED <<hooks, trusted, exe, gone, profile>>

-----------------------------------------------------------------------------
\* Removal.

\* Codex: this repository's entry, if it is this profile's.
RemoveCodex(p, r) ==
  /\ Begin /\ Event
  /\ entry["codex"][r] = Cmd(p)
  /\ WriteEntry("codex", r, None)
  /\ UNCHANGED <<hooks, trusted, exe, gone, profile, op>>

\* removeAllAgentBindings: "torn down once, after the last project binding is
\* gone".
Unbound(p) == \A r \in Roots : entry["codex"][r] # Cmd(p)

\* The hooks all repositories share.
RemoveHooks(p) ==
  /\ Begin /\ Event
  /\ Unbound(p)
  /\ Inspect(hooks[FileOf("codex", "user")], Cmd(p)) = "current"
  /\ hooks' = [hooks EXCEPT ![FileOf("codex", "user")] = Remove(@)]
  /\ UNCHANGED <<entry, trusted, exe, gone, profile, op>>

RemoveClaude(p, r) ==
  /\ Begin /\ Event
  /\ entry["claude"][r] \in {None, Cmd(p)}
  /\ WriteEntry("claude", r, None)
  /\ Do("unhook", "remove", p, "claude", r)
  /\ UNCHANGED <<hooks, trusted, exe, gone, profile>>

\* The hooks go if they are this profile's and complete.
Unhook ==
  /\ op.pc = "unhook"
  /\ hooks' = IF Inspect(hooks[File], Me) = "current" THEN [hooks EXCEPT ![File] = Remove(@)] ELSE hooks
  /\ Go("disallow")
  /\ UNCHANGED <<entry, trusted, exe, gone, profile, launch, events>>

Disallow ==
  /\ op.pc = "disallow"
  /\ hooks' = [hooks EXCEPT ![File] = DisallowTools(@)]
  /\ Done
  /\ UNCHANGED <<entry, trusted, exe, gone, profile, launch, events>>

RemoveFails ==
  /\ op.pc \in {"unhook", "disallow"}
  /\ Event
  /\ Done
  /\ UNCHANGED <<entry, hooks, trusted, exe, gone, profile, launch>>

-----------------------------------------------------------------------------
\* Cursor: one file, one write.

CursorState(p, r) == CursorInspect(hooks[<<"cursor", r>>], Cmd(p))

CursorAdopts(p, r) ==
  /\ CursorState(p, r) = "other_profile"
  /\ \E q \in {c.profile : c \in Commands(hooks[<<"cursor", r>>])} :
       LET own == {c \in Commands(hooks[<<"cursor", r>>]) : c.profile = q}
       IN Abandoned(p, IF Cardinality(own) = 1 THEN CHOOSE c \in own : TRUE ELSE [profile |-> q, exe |-> 0])

CursorWrite(r, file) ==
  /\ hooks' = [hooks EXCEPT ![<<"cursor", r>>] = file]
  /\ UNCHANGED <<entry, trusted, exe, gone, profile, op>>

\* Setup, and Rebind, which also takes what another profile still uses.
CursorSetup(p, r, reconnect) ==
  /\ Begin /\ Event
  /\ CursorState(p, r) \in {"not_configured", "partial", "current", "other_profile"}
  /\ CursorState(p, r) = "other_profile" => reconnect \/ CursorAdopts(p, r)
  /\ CursorWrite(r, Rebind(hooks[<<"cursor", r>>], Cmd(p)))

\* A file with nothing of Overgent's is not written.
CursorRemove(p, r) ==
  /\ Begin /\ Event
  /\ CursorState(p, r) \notin {"drifted", "conflict"}
  /\ LET file == hooks[<<"cursor", r>>]
     IN CursorWrite(r, IF Commands(file) = {} THEN file ELSE RemoveManaged(file))

-----------------------------------------------------------------------------
\* A linked worktree, unlike the enrolled checkout, is given to one vendor.

\* A status that is an error is no claim.
ConfiguredAt(p, v, r) ==
  IF v = "cursor" THEN CursorState(p, r) = "current" ELSE Status(v, r, Cmd(p)) = "current"

ConnectAgentWorktree(p, v, r) ==
  /\ r # RootOrder[1]
  /\ IF v = "cursor" THEN CursorSetup(p, r, FALSE) ELSE SetupAdopts(p, v, r) \/ SetupEntry(p, v, r)
  /\ \A o \in {"codex", "claude", "cursor"} \ {v} : ~ConfiguredAt(p, o, r)

-----------------------------------------------------------------------------
\* The repair pass of a launch: every vendor in every registered repository.

Launch(p) ==
  /\ Quiet
  /\ p \notin Superseded /\ profile[p] # "absent"
  /\ Event
  /\ launch' = [p |-> p, at |-> 0, clean |-> TRUE]
  /\ UNCHANGED <<entry, hooks, trusted, exe, gone, profile, op>>

RootAt == RootOrder[(launch.at \div Len(Vendors)) + 1]
VendorAt == Vendors[(launch.at % Len(Vendors)) + 1]

\* repair: Status, then Repair of what another profile left.
Repair ==
  /\ op = NoOp /\ launch.p # "none" /\ launch.at < Steps
  /\ launch' = [launch EXCEPT !.at = @ + 1]
  /\ IF VendorAt = "cursor"
       THEN /\ hooks' = IF CursorAdopts(launch.p, RootAt)
                          THEN [hooks EXCEPT ![<<"cursor", RootAt>>] = Rebind(@, Cmd(launch.p))] ELSE hooks
            /\ UNCHANGED op
       ELSE /\ IF Adopts(launch.p, VendorAt, RootAt)
                 THEN Do("entry", "repair", launch.p, VendorAt, RootAt) ELSE UNCHANGED op
            /\ UNCHANGED hooks
  /\ UNCHANGED <<entry, trusted, exe, gone, profile, events>>

\* The process ends between two writes.
Crash ==
  /\ op # NoOp
  /\ Event
  /\ Done /\ launch' = NoLaunch
  /\ UNCHANGED <<entry, hooks, trusted, exe, gone, profile>>

OpStep ==
  \/ SetupHooks \/ SetupTools \/ TrustUnasked \/ TrustAsked \/ TrustWritten \/ TrustAppended
  \/ RebindEntry \/ RebindHooks \/ RebindFails
  \/ Unhook \/ Disallow \/ RemoveFails \/ Crash

Next ==
  \/ OpStep \/ Repair
  \/ \E p \in Profiles :
       \/ MoveExecutable(p) \/ Launch(p) \/ RemoveHooks(p)
       \/ \E s \in {"absent", "bare", "enrolled"} : ChangeProfile(p, s)
       \/ \E r \in Roots :
            \/ RemoveCodex(p, r) \/ RemoveClaude(p, r) \/ CursorRemove(p, r)
            \/ \E again \in BOOLEAN : CursorSetup(p, r, again)
            \/ \E v \in {"codex", "claude"} : SetupAdopts(p, v, r) \/ SetupEntry(p, v, r) \/ Reconnect(p, v, r)
            \/ \E v \in {"codex", "claude", "cursor"} : ConnectAgentWorktree(p, v, r)
  \/ \E f \in Files, e \in Events : EditHooks(f, e)

Spec == Init /\ [][Next]_vars

-----------------------------------------------------------------------------
\* "conflicting managed Overgent activity hooks" is an error every operation
\* stops at: no sequence of setups, reconnects, failures and edits by a member
\* leaves the hooks of two owners in one file.
OneOwnerPerFile == \A f \in Files : Cardinality(Commands(hooks[f])) <= 1

Live(c) == c # None /\ c.profile \notin Superseded /\ profile[c.profile] = "enrolled" /\ c \notin gone

Sweeping == launch.p # "none" /\ launch.at < Steps

\* The profile a setup or a repair works for, and what is not its to take.
Actor == IF Sweeping THEN launch.p ELSE op.p
Others(c) == Live(c) /\ c.profile # Actor

\* What the operation found beside the hooks: an entry nobody uses any more, or
\* the actor's own at another path.
BesideLeftover == op.entry \notin {None, Cmd(Actor)} /\ ~Others(op.entry)

\* "Anything a live profile depends on still falls through to the explicit
\* refusal": a setup or a repair of one profile never takes the entry of another
\* profile that is in use, and never its hooks, except in the one file whose
\* hooks stand beside a leftover entry. There adopt asks about the entry alone
\* and rebind takes both.
LiveBindingKept ==
  [][Sweeping \/ op.kind \in {"setup", "repair"} =>
       /\ \A v \in {"codex", "claude"}, r \in Roots : Others(entry[v][r]) => entry'[v][r] = entry[v][r]
       /\ \A f \in Files : \A c \in Commands(hooks[f]) :
            Others(c) => \/ hooks'[f] = hooks[f]
                         \/ f = File /\ BesideLeftover]_vars

\* What the comment says without the exception. The code violates it: a setup
\* that Install refuses leaves its entry beside the hooks of a live profile, and
\* once that entry is at a former path the next launch adopts it, with the hooks.
LiveHooksKept ==
  [][Sweeping \/ op.kind \in {"setup", "repair"} =>
       \A f \in Files : \A c \in Commands(hooks[f]) : Others(c) => hooks'[f] = hooks[f]]_vars

\* A removal of hooks by Remove of hookconfig.
Withdraws(f) ==
  op.kind = "remove" \/ (f[1] = "codex" /\ Commands(hooks[f]) # {} /\ Commands(hooks'[f]) = {})

\* "preserving all unrelated settings and hooks": a hook of the member's own is
\* there after every step of Overgent's, though perhaps without the fields the
\* decoder does not know; after a removal this is so of hooks in a group that has
\* nothing of Overgent's in it.
MemberHooksKept ==
  [][\A f \in Files, e \in Events : \A g \in MembersOf(hooks[f], e) :
       (Withdraws(f) => Managed(g) = {}) => MembersOf(hooks'[f], e) # {}]_vars

\* "Unrelated hook groups and handlers are preserved byte-semantically". The
\* code violates it: fields of a member's handler that the structures handler
\* and group do not have are lost when its event is encoded again, and a removal
\* takes a member's handler that shares a group with one of Overgent's.
UnrelatedHooksKept ==
  [][\A f \in Files, e \in Events : \A g \in hooks[f].hooks[e] :
       g \ Managed(g) # {} => \E k \in hooks'[f].hooks[e] : g \ Managed(g) \subseteq k]_vars

\* "This package answers it instead, on every launch": after a pass in which no
\* write failed, nothing of Codex and of Claude Code names this profile at a path
\* its executable is no longer at, whatever was cut short before and whichever of
\* its paths it was started from last, with two exceptions: an entry is left where
\* the hooks beside it are at the right path already, because that status is
\* "partial" and adopt is for "other_profile"; and nothing is said of hooks beside
\* the entry of another profile, whose adoption goes by the entry.
OwnLeftoversAdopted ==
  (Launched /\ launch.clean /\ op = NoOp) =>
    \A v \in {"codex", "claude"}, r \in Roots :
      LET me == Cmd(launch.p)
          there == Commands(hooks[FileOf(v, r)])
      IN /\ entry[v][r].profile = launch.p => entry[v][r] = me \/ me \in there
         /\ entry[v][r].profile \in {"none", launch.p} => \A c \in there : c.profile = launch.p => c = me

\* "Run repairs every vendor across every registered repository": the same for
\* every entry and every hook. The code violates it: the first repository's
\* repair moves the hooks that all entries of Codex share, so that the entries of
\* the other repositories are "partial" and stay; and the hooks of Cursor go by
\* the profile alone.
EveryLeftoverAdopted ==
  (Launched /\ launch.clean /\ op = NoOp) =>
    /\ \A v \in {"codex", "claude"}, r \in Roots : entry[v][r].profile = launch.p => entry[v][r] = Cmd(launch.p)
    /\ \A f \in Files : \A c \in Commands(hooks[f]) : c.profile = launch.p => c = Cmd(launch.p)

=============================================================================
