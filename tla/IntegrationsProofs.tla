------------------------- MODULE IntegrationsProofs -------------------------
(***************************************************************************)
(* What holds of the bindings of coding agents for every number of          *)
(* repositories, profiles, events, moves and failures: one owner per hook   *)
(* file; no entry of a live profile taken, and its hooks only beside a      *)
(* leftover entry; no rewriting that loses a hook of a member's; and what a *)
(* launch leaves of the profile's own bindings at another path.             *)
(***************************************************************************)
EXTENDS Integrations, TLAPS, FiniteSetTheorems

-----------------------------------------------------------------------------
\* Hook files.

\* Commands of Overgent's: a profile, and where its executable was.
CommandsOf == [profile : Profiles, exe : Nat \ {0}]
Handlers == [cmd : CommandsOf, tuned : BOOLEAN] \cup {Theirs, Rich}
Groups == SUBSET SUBSET Handlers
HookFiles == [hooks : [Events \cup {Retired} -> Groups], allow : BOOLEAN]

\* A command of a file is that of a handler that is not the member's.
LEMMA InCommands ==
  ASSUME NEW file, NEW c
  PROVE  c \in Commands(file) <=> \E e \in Events : \E g \in file.hooks[e] : \E h \in g : h \notin {Theirs, Rich} /\ h.cmd = c
BY DEF Commands, ManagedIn, Managed

LEMMA CommandsTyped ==
  ASSUME NEW file \in HookFiles
  PROVE  Commands(file) \subseteq CommandsOf
<1> SUFFICES ASSUME NEW c \in Commands(file) PROVE c \in CommandsOf
  OBVIOUS
<1>1. PICK e \in Events : \E g \in file.hooks[e] : \E h \in g : h \notin {Theirs, Rich} /\ h.cmd = c
  BY InCommands
<1>2. PICK g \in file.hooks[e] : \E h \in g : h \notin {Theirs, Rich} /\ h.cmd = c
  BY <1>1
<1>3. PICK h \in g : h \notin {Theirs, Rich} /\ h.cmd = c
  BY <1>2
<1>4. g \in SUBSET Handlers
  BY DEF HookFiles, Groups
<1> QED
  BY <1>3, <1>4 DEF Handlers

\* Overgent's handler of a command is none of the member's.
LEMMA ExpectedTyped ==
  ASSUME NEW cmd \in CommandsOf
  PROVE  Expected(cmd) \in Handlers /\ Expected(cmd) \notin {Theirs, Rich} /\ Expected(cmd).cmd = cmd
<1>1. cmd.exe # 0
  BY DEF CommandsOf
<1>2. Expected(cmd) \in Handlers /\ Expected(cmd).cmd = cmd
  BY DEF Expected, Handlers
<1>3. Theirs.cmd.exe = 0 /\ Rich.cmd.exe = 0
  BY DEF Theirs, Rich
<1> QED
  BY <1>1, <1>2, <1>3

\* A file with other groups.
LEMMA WithHooksTyped ==
  ASSUME NEW file \in HookFiles, NEW groups \in [Events \cup {Retired} -> Groups]
  PROVE  /\ WithHooks(file, groups) \in HookFiles
         /\ \A e \in Events \cup {Retired} : WithHooks(file, groups).hooks[e] = groups[e]
<1>1. DOMAIN file.hooks = Events \cup {Retired}
  BY DEF HookFiles
<1>2. PICK new \in [Events \cup {Retired} -> Groups] : new = [e \in DOMAIN file.hooks |-> groups[e]]
  BY <1>1
<1>3. WithHooks(file, groups) = [file EXCEPT !.hooks = new]
  BY <1>2 DEF WithHooks
<1>4. [file EXCEPT !.hooks = new] \in HookFiles /\ [file EXCEPT !.hooks = new].hooks = new
  BY DEF HookFiles
<1> QED
  BY <1>1, <1>2, <1>3, <1>4

\* What becomes of a file: the commands it may hold, and the member's hooks.
Tended(file, new) ==
  /\ new \in HookFiles
  /\ \A e \in Events : MembersOf(file, e) # {} => MembersOf(new, e) # {}


\* A group encoded again has Overgent's handlers as they were and the member's.
LEMMA DecodedGroup ==
  ASSUME NEW g \in SUBSET Handlers
  PROVE  /\ Decoded(g) \in SUBSET Handlers
         /\ \A h \in Decoded(g) : h \notin {Theirs, Rich} => h \in g
         /\ Theirs \in g \/ Rich \in g => Theirs \in Decoded(g)
BY DEF Decoded, Handlers

LEMMA EncodedGroups ==
  ASSUME NEW groups \in Groups
  PROVE  /\ Encoded(groups) \in Groups
         /\ \A k \in Encoded(groups) : \A h \in k : h \notin {Theirs, Rich} => \E g \in groups : h \in g
         /\ \A g \in groups : Theirs \in g \/ Rich \in g => \E k \in Encoded(groups) : Theirs \in k
<1>1. \A g \in groups : g \in SUBSET Handlers
  BY DEF Groups
<1>2. Encoded(groups) \in Groups
  BY <1>1, DecodedGroup DEF Groups, Encoded
<1>3. ASSUME NEW k \in Encoded(groups), NEW h \in k, h \notin {Theirs, Rich} PROVE \E g \in groups : h \in g
  BY <1>1, <1>3, DecodedGroup DEF Encoded
<1>4. ASSUME NEW g \in groups, Theirs \in g \/ Rich \in g PROVE \E k \in Encoded(groups) : Theirs \in k
  BY <1>1, <1>4, DecodedGroup DEF Encoded
<1> QED
  BY <1>2, <1>3, <1>4

\* removeManaged.
LEMMA RemoveManagedFile ==
  ASSUME NEW file \in HookFiles
  PROVE  Tended(file, RemoveManaged(file)) /\ Commands(RemoveManaged(file)) = {}
<1> DEFINE bare(e) == {g \ Managed(g) : g \in file.hooks[e]} \ {{}}
           groups == [e \in DOMAIN file.hooks |-> Encoded({g \ Managed(g) : g \in file.hooks[e]} \ {{}})]
<1>1. DOMAIN file.hooks = Events \cup {Retired} /\ \A e \in Events \cup {Retired} : file.hooks[e] \in Groups
  BY DEF HookFiles
<1>2. \A e \in Events \cup {Retired} : bare(e) \in Groups
  BY <1>1 DEF Groups
<1>3. groups = [e \in Events \cup {Retired} |-> Encoded(bare(e))]
  BY <1>1
<1>4. \A e \in Events : \A g \in bare(e) : \A h \in g : h \in {Theirs, Rich}
  BY DEF Managed
<1>5. ASSUME NEW e \in Events, NEW g \in file.hooks[e], Theirs \in g \/ Rich \in g
      PROVE  g \ Managed(g) \in bare(e) /\ (Theirs \in g \ Managed(g) \/ Rich \in g \ Managed(g))
  BY <1>5 DEF Managed
<1>6. RemoveManaged(file) = WithHooks(file, groups)
  BY DEF RemoveManaged
<1> HIDE DEF groups, bare
<1>7. groups \in [Events \cup {Retired} -> Groups]
  BY <1>2, <1>3, EncodedGroups
<1>8. RemoveManaged(file) \in HookFiles /\ \A e \in Events : RemoveManaged(file).hooks[e] = Encoded(bare(e))
  BY <1>3, <1>6, <1>7, WithHooksTyped
<1>9. Commands(RemoveManaged(file)) = {}
  <2> SUFFICES ASSUME NEW c \in Commands(RemoveManaged(file)) PROVE FALSE
    OBVIOUS
  <2>1. PICK e \in Events : \E g \in RemoveManaged(file).hooks[e] : \E h \in g : h \notin {Theirs, Rich} /\ h.cmd = c
    BY InCommands
  <2>2. PICK g \in RemoveManaged(file).hooks[e] : \E h \in g : h \notin {Theirs, Rich} /\ h.cmd = c
    BY <2>1
  <2>3. g \in Encoded(bare(e)) /\ bare(e) \in Groups
    BY <1>2, <1>8, <2>2
  <2> QED
    BY <1>4, <2>2, <2>3, EncodedGroups
<1>10. ASSUME NEW e \in Events, MembersOf(file, e) # {} PROVE MembersOf(RemoveManaged(file), e) # {}
  <2>1. PICK g \in file.hooks[e] : Theirs \in g \/ Rich \in g
    BY <1>10 DEF MembersOf
  <2>2. \E k \in Encoded(bare(e)) : Theirs \in k
    BY <1>2, <1>5, <2>1, EncodedGroups
  <2> QED
    BY <1>8, <2>2 DEF MembersOf
<1> QED
  BY <1>8, <1>9, <1>10 DEF Tended

\* Rebind.
LEMMA RebindFile ==
  ASSUME NEW file \in HookFiles, NEW cmd \in CommandsOf
  PROVE  /\ Tended(file, Rebind(file, cmd)) /\ Commands(Rebind(file, cmd)) \subseteq {cmd}
         /\ Commands(file) # {} => cmd \in Commands(Rebind(file, cmd))
<1>0. PICK bare \in HookFiles : bare = RemoveManaged(file)
  BY RemoveManagedFile DEF Tended
<1>1. Tended(file, bare) /\ Commands(bare) = {}
  BY <1>0, RemoveManagedFile
<1> DEFINE new == {{Expected(cmd)}}
           groups == [e \in DOMAIN bare.hooks |-> bare.hooks[e] \cup (IF e \in Events THEN new ELSE {})]
<1>2. DOMAIN bare.hooks = Events \cup {Retired} /\ \A e \in Events \cup {Retired} : bare.hooks[e] \in Groups
  BY DEF HookFiles
<1>3. new \in Groups
  BY ExpectedTyped DEF Groups
<1>4. groups \in [Events \cup {Retired} -> Groups]
  <2> HIDE DEF new
  <2> SUFFICES ASSUME NEW e \in Events \cup {Retired} PROVE bare.hooks[e] \cup (IF e \in Events THEN new ELSE {}) \in Groups
    BY <1>2
  <2> QED
    BY <1>2, <1>3 DEF Groups
<1>5. Rebind(file, cmd) = WithHooks(bare, groups)
  BY <1>0 DEF Rebind
<1>6. \A e \in Events : Rebind(file, cmd).hooks[e] = bare.hooks[e] \cup new
  <2> SUFFICES ASSUME NEW e \in Events PROVE Rebind(file, cmd).hooks[e] = bare.hooks[e] \cup new
    OBVIOUS
  <2>1. groups[e] = bare.hooks[e] \cup new
    BY <1>2
  <2> HIDE DEF groups
  <2>2. WithHooks(bare, groups).hooks[e] = groups[e]
    BY <1>4, WithHooksTyped
  <2> QED
    BY <1>5, <2>1, <2>2
<1>7. Rebind(file, cmd) \in HookFiles
  <2> HIDE DEF groups
  <2> QED
    BY <1>4, <1>5, WithHooksTyped
<1> HIDE DEF groups
<1>8. Commands(Rebind(file, cmd)) \subseteq {cmd}
  <2> SUFFICES ASSUME NEW c \in Commands(Rebind(file, cmd)) PROVE c = cmd
    OBVIOUS
  <2>1. PICK e \in Events : \E g \in Rebind(file, cmd).hooks[e] : \E h \in g : h \notin {Theirs, Rich} /\ h.cmd = c
    BY InCommands
  <2>2. PICK g \in Rebind(file, cmd).hooks[e] : \E h \in g : h \notin {Theirs, Rich} /\ h.cmd = c
    BY <2>1
  <2>3. g \notin bare.hooks[e]
    <3> SUFFICES ASSUME g \in bare.hooks[e] PROVE FALSE
      OBVIOUS
    <3>1. c \in Commands(bare)
      BY <2>2, InCommands
    <3> QED
      BY <1>1, <3>1
  <2>4. g = {Expected(cmd)}
    BY <1>6, <2>2, <2>3
  <2> QED
    BY <2>2, <2>4, ExpectedTyped
<1>9. ASSUME NEW e \in Events, MembersOf(file, e) # {} PROVE MembersOf(Rebind(file, cmd), e) # {}
  <2>1. MembersOf(bare, e) # {}
    BY <1>1, <1>9 DEF Tended
  <2> QED
    BY <1>6, <2>1 DEF MembersOf
<1>10. ASSUME Commands(file) # {} PROVE cmd \in Commands(Rebind(file, cmd))
  <2>1. PICK c : c \in Commands(file)
    BY <1>10
  <2>2. PICK e \in Events : \E g \in file.hooks[e] : \E h \in g : h \notin {Theirs, Rich} /\ h.cmd = c
    BY <2>1, InCommands
  <2>3. {Expected(cmd)} \in Rebind(file, cmd).hooks[e]
    BY <1>6
  <2> QED
    BY <2>3, ExpectedTyped, InCommands
<1> QED
  BY <1>7, <1>8, <1>9, <1>10 DEF Tended

\* Remove: what is left has no handler of Overgent's, and a member's hook in a
\* group with none is left.
LEMMA RemoveFile ==
  ASSUME NEW file \in HookFiles
  PROVE  /\ Remove(file) \in HookFiles /\ Commands(Remove(file)) = {}
         /\ \A e \in Events : \A g \in MembersOf(file, e) : Managed(g) = {} => MembersOf(Remove(file), e) # {}
<1> DEFINE bare(e) == {g \in file.hooks[e] : Managed(g) = {}}
           groups == [e \in DOMAIN file.hooks |->
                        IF e \in Events THEN Encoded({g \in file.hooks[e] : Managed(g) = {}}) ELSE file.hooks[e]]
<1>1. DOMAIN file.hooks = Events \cup {Retired} /\ \A e \in Events \cup {Retired} : file.hooks[e] \in Groups
  BY DEF HookFiles
<1>2. \A e \in Events \cup {Retired} : bare(e) \in Groups
  BY <1>1 DEF Groups
<1>3. groups = [e \in Events \cup {Retired} |-> IF e \in Events THEN Encoded(bare(e)) ELSE file.hooks[e]]
  BY <1>1
<1>4. \A e \in Events : \A g \in bare(e) : \A h \in g : h \in {Theirs, Rich}
  BY DEF Managed
<1>5. \A e \in Events : \A g \in MembersOf(file, e) : Managed(g) = {} => g \in bare(e)
  BY DEF MembersOf
<1>6. Remove(file) = WithHooks(file, groups)
  BY DEF Remove
<1> HIDE DEF groups, bare
<1>7. groups \in [Events \cup {Retired} -> Groups]
  BY <1>1, <1>2, <1>3, EncodedGroups
<1>8. Remove(file) \in HookFiles /\ \A e \in Events : Remove(file).hooks[e] = Encoded(bare(e))
  BY <1>3, <1>6, <1>7, WithHooksTyped
<1>9. Commands(Remove(file)) = {}
  <2> SUFFICES ASSUME NEW c \in Commands(Remove(file)) PROVE FALSE
    OBVIOUS
  <2>1. PICK e \in Events : \E g \in Remove(file).hooks[e] : \E h \in g : h \notin {Theirs, Rich} /\ h.cmd = c
    BY InCommands
  <2>2. PICK g \in Remove(file).hooks[e] : \E h \in g : h \notin {Theirs, Rich} /\ h.cmd = c
    BY <2>1
  <2>3. g \in Encoded(bare(e)) /\ bare(e) \in Groups
    BY <1>2, <1>8, <2>2
  <2> QED
    BY <1>4, <2>2, <2>3, EncodedGroups
<1>10. ASSUME NEW e \in Events, NEW g \in MembersOf(file, e), Managed(g) = {} PROVE MembersOf(Remove(file), e) # {}
  <2>1. g \in bare(e) /\ (Theirs \in g \/ Rich \in g)
    BY <1>5, <1>10 DEF MembersOf
  <2>2. \E k \in Encoded(bare(e)) : Theirs \in k
    BY <1>2, <2>1, EncodedGroups
  <2> QED
    BY <1>8, <2>2 DEF MembersOf
<1> QED
  BY <1>8, <1>9, <1>10

\* The allow list is beside the hooks.
LEMMA ToolsFile ==
  ASSUME NEW file \in HookFiles
  PROVE  /\ Tended(file, AllowTools(file)) /\ Commands(AllowTools(file)) = Commands(file)
         /\ Tended(file, DisallowTools(file)) /\ Commands(DisallowTools(file)) = Commands(file)
<1>1. /\ AllowTools(file) \in HookFiles /\ AllowTools(file).hooks = file.hooks
      /\ DisallowTools(file) \in HookFiles /\ DisallowTools(file).hooks = file.hooks
  BY DEF HookFiles, AllowTools, DisallowTools
<1> QED
  BY <1>1 DEF Tended, Commands, MembersOf

\* Install.
LEMMA InstallFile ==
  ASSUME NEW file \in HookFiles, NEW cmd \in CommandsOf, NEW looked \in {Events, Events \cup {Retired}},
         CanInstall(file, cmd, looked)
  PROVE  Tended(file, Install(file, cmd, looked)) /\ Commands(Install(file, cmd, looked)) \subseteq {cmd}
<1> DEFINE own(e) == {h \in ManagedIn(file.hooks[e]) : h.cmd = cmd}
           repaired(g) == {IF h \in Managed(g) /\ h.cmd = cmd THEN Expected(cmd) ELSE h : h \in g}
           fixed(e) == {repaired(g) : g \in file.hooks[e]}
           clear(e) == {g \in file.hooks[e] : Managed(g) = {}}
           added == {{Expected(cmd)}}
           groups == [e \in DOMAIN file.hooks |->
             IF e \notin looked THEN file.hooks[e]
             ELSE IF e = Retired THEN Encoded(clear(e))
             ELSE IF own(e) = {} THEN Encoded(file.hooks[e]) \cup added
             ELSE IF own(e) = {Expected(cmd)} THEN file.hooks[e]
             ELSE Encoded(fixed(e))]
           new == Install(file, cmd, looked)
<1>1. DOMAIN file.hooks = Events \cup {Retired} /\ \A e \in Events \cup {Retired} : file.hooks[e] \in Groups
  BY DEF HookFiles
<1>2. \A g \in SUBSET Handlers : repaired(g) \in SUBSET Handlers
  BY ExpectedTyped
<1>3. \A e \in Events \cup {Retired} : fixed(e) \in Groups /\ clear(e) \in Groups
  <2> HIDE DEF repaired
  <2> QED
    BY <1>1, <1>2 DEF Groups
<1>4. added \in Groups
  BY ExpectedTyped DEF Groups
<1>5. new = WithHooks(file, groups)
  BY DEF Install
<1>6. \A e \in Events : \A g \in file.hooks[e] : \A h \in g : h \notin {Theirs, Rich} => h.cmd = cmd
  BY DEF CanInstall, ManagedIn, Managed
<1>7. ASSUME NEW e \in Events, NEW g \in fixed(e), NEW h \in g, h \notin {Theirs, Rich} PROVE h.cmd = cmd
  <2>1. PICK k \in file.hooks[e] : g = repaired(k)
    OBVIOUS
  <2>2. h = Expected(cmd) \/ h \in k
    BY <2>1
  <2> QED
    BY <1>6, <1>7, <2>2, ExpectedTyped
<1>8. ASSUME NEW e \in Events, NEW g \in file.hooks[e], Theirs \in g \/ Rich \in g
      PROVE  \E k \in fixed(e) : Theirs \in k \/ Rich \in k
  <2>1. Theirs \in repaired(g) \/ Rich \in repaired(g)
    BY <1>8 DEF Managed
  <2> QED
    BY <2>1
<1> HIDE DEF own, repaired, fixed, clear, added
<1>9. groups \in [Events \cup {Retired} -> Groups]
  <2> SUFFICES ASSUME NEW e \in Events \cup {Retired} PROVE groups[e] \in Groups
    BY <1>1
  <2>1. /\ file.hooks[e] \in Groups /\ Encoded(clear(e)) \in Groups
        /\ Encoded(file.hooks[e]) \in Groups /\ Encoded(fixed(e)) \in Groups
    BY <1>1, <1>3, EncodedGroups
  <2>2. Encoded(file.hooks[e]) \cup added \in Groups
    BY <1>4, <2>1 DEF Groups
  <2> QED
    BY <1>1, <2>1, <2>2
<1>10. \A e \in Events : groups[e] \in {Encoded(file.hooks[e]) \cup added, file.hooks[e], Encoded(fixed(e))}
  BY <1>1, HookFileAssumption
<1> HIDE DEF groups, new
<1>11. new \in HookFiles /\ \A e \in Events : new.hooks[e] \in {Encoded(file.hooks[e]) \cup added, file.hooks[e], Encoded(fixed(e))}
  <2>1. new \in HookFiles /\ \A e \in Events : new.hooks[e] = groups[e]
    BY <1>5, <1>9, WithHooksTyped
  <2> QED
    BY <1>10, <2>1
<1>12. Commands(new) \subseteq {cmd}
  <2> SUFFICES ASSUME NEW c \in Commands(new) PROVE c = cmd
    OBVIOUS
  <2>1. PICK e \in Events : \E g \in new.hooks[e] : \E h \in g : h \notin {Theirs, Rich} /\ h.cmd = c
    BY InCommands
  <2>2. PICK g \in new.hooks[e] : \E h \in g : h \notin {Theirs, Rich} /\ h.cmd = c
    BY <2>1
  <2>3. PICK h \in g : h \notin {Theirs, Rich} /\ h.cmd = c
    BY <2>2
  <2>4. file.hooks[e] \in Groups /\ fixed(e) \in Groups
    BY <1>1, <1>3
  <2>5. CASE g \in file.hooks[e]
    BY <1>6, <2>3, <2>5
  <2>6. CASE g \in added
    BY <2>3, <2>6, ExpectedTyped DEF added
  <2>7. CASE g \in Encoded(file.hooks[e])
    BY <1>6, <2>3, <2>4, <2>7, EncodedGroups
  <2>8. CASE g \in Encoded(fixed(e))
    BY <1>7, <2>3, <2>4, <2>8, EncodedGroups
  <2> QED
    BY <1>11, <2>2, <2>5, <2>6, <2>7, <2>8
<1>13. ASSUME NEW e \in Events, MembersOf(file, e) # {} PROVE MembersOf(new, e) # {}
  <2>1. PICK g \in file.hooks[e] : Theirs \in g \/ Rich \in g
    BY <1>13 DEF MembersOf
  <2>2. file.hooks[e] \in Groups /\ fixed(e) \in Groups
    BY <1>1, <1>3
  <2>3. (\E k \in Encoded(file.hooks[e]) : Theirs \in k) /\ (\E k \in Encoded(fixed(e)) : Theirs \in k)
    BY <1>8, <2>1, <2>2, EncodedGroups
  <2>4. \E k \in new.hooks[e] : Theirs \in k \/ Rich \in k
    BY <1>11, <2>1, <2>3
  <2> QED
    BY <2>4 DEF MembersOf
<1> QED
  BY <1>11, <1>12, <1>13 DEF Tended, new

\* A member's edit of the groups of one event.
Detuned(g) == {IF h \in Managed(g) THEN [h EXCEPT !.tuned = FALSE] ELSE h : h \in g}
Edited(file, e, new) ==
  LET groups == file.hooks[e] IN
  \/ \E h \in {Theirs, Rich} : new \in {groups \cup {{h}}, {g \cup {h} : g \in groups}}
  \/ new = {Detuned(g) : g \in groups}

\* An edit of the timeout changes no command and none of the member's hooks.
LEMMA DetunedGroup ==
  ASSUME NEW g \in SUBSET Handlers
  PROVE  /\ Detuned(g) \in SUBSET Handlers
         /\ \A h \in Detuned(g) : h \notin {Theirs, Rich} => \E j \in g : j \notin {Theirs, Rich} /\ j.cmd = h.cmd
         /\ \A h \in {Theirs, Rich} : h \in g => h \in Detuned(g)
<1>1. ASSUME NEW h \in Managed(g)
      PROVE  [h EXCEPT !.tuned = FALSE] \in Handlers /\ [h EXCEPT !.tuned = FALSE].cmd = h.cmd
  <2>1. h \in [cmd : CommandsOf, tuned : BOOLEAN]
    BY DEF Handlers, Managed
  <2>2. [h EXCEPT !.tuned = FALSE] \in [cmd : CommandsOf, tuned : BOOLEAN] /\ [h EXCEPT !.tuned = FALSE].cmd = h.cmd
    BY <2>1
  <2> QED
    BY <2>2 DEF Handlers
<1>2. Managed(g) = g \ {Theirs, Rich}
  BY DEF Managed
<1>3. \A h \in Detuned(g) : \E j \in g : h = IF j \in Managed(g) THEN [j EXCEPT !.tuned = FALSE] ELSE j
  BY DEF Detuned
<1>4. \A h \in {Theirs, Rich} : h \in g => h \in Detuned(g)
  BY <1>2 DEF Detuned
<1>5. ASSUME NEW h \in Detuned(g)
      PROVE  h \in Handlers /\ (h \notin {Theirs, Rich} => \E j \in g : j \notin {Theirs, Rich} /\ j.cmd = h.cmd)
  <2>1. PICK j \in g : h = IF j \in Managed(g) THEN [j EXCEPT !.tuned = FALSE] ELSE j
    BY <1>3
  <2>2. CASE j \in Managed(g)
    BY <1>1, <1>2, <2>1, <2>2
  <2>3. CASE j \notin Managed(g)
    BY <1>2, <2>1, <2>3
  <2> QED
    BY <2>2, <2>3
<1> QED
  BY <1>4, <1>5

LEMMA EditFile ==
  ASSUME NEW file \in HookFiles, NEW e \in Events, NEW new, Edited(file, e, new)
  PROVE  /\ Tended(file, [file EXCEPT !.hooks[e] = new])
         /\ Commands([file EXCEPT !.hooks[e] = new]) \subseteq Commands(file)
<1> DEFINE groups == file.hooks[e]
           after == [file EXCEPT !.hooks[e] = new]
           Sound == /\ new \in Groups
                    /\ \A g \in new : \A h \in g :
                         h \notin {Theirs, Rich} => \E k \in groups : \E j \in k : j \notin {Theirs, Rich} /\ j.cmd = h.cmd
                    /\ \A g \in groups : Theirs \in g \/ Rich \in g => \E k \in new : Theirs \in k \/ Rich \in k
<1>1. groups \in Groups /\ Theirs \in Handlers /\ Rich \in Handlers
  BY DEF HookFiles, Handlers
<1>2. \A g \in groups : g \in SUBSET Handlers
  BY <1>1 DEF Groups
<1>3. Sound
  <2>1. ASSUME NEW m \in {Theirs, Rich}, new = groups \cup {{m}} PROVE Sound
    BY <1>1, <2>1 DEF Groups
  <2>2. ASSUME NEW m \in {Theirs, Rich}, new = {g \cup {m} : g \in groups} PROVE Sound
    <3>1. new \in Groups
      BY <1>1, <2>2 DEF Groups
    <3>2. \A g \in new : \E k \in groups : g = k \cup {m}
      BY <2>2
    <3>3. \A k \in groups : k \cup {m} \in new
      BY <2>2
    <3>4. ASSUME NEW g \in new, NEW h \in g, h \notin {Theirs, Rich}
          PROVE  \E k \in groups : \E j \in k : j \notin {Theirs, Rich} /\ j.cmd = h.cmd
      <4>1. PICK k \in groups : g = k \cup {m}
        BY <3>2
      <4>2. h \in k
        BY <2>2, <3>4, <4>1
      <4> QED
        BY <3>4, <4>2
    <3>5. ASSUME NEW g \in groups, Theirs \in g \/ Rich \in g PROVE \E k \in new : Theirs \in k \/ Rich \in k
      BY <3>3, <3>5
    <3> QED
      BY <3>1, <3>4, <3>5
  <2>3. ASSUME new = {Detuned(g) : g \in groups} PROVE Sound
    <3>1. new \in Groups
      BY <1>2, <2>3, DetunedGroup DEF Groups
    <3>2. \A g \in new : \E k \in groups : g = Detuned(k)
      BY <2>3
    <3>3. \A k \in groups : Detuned(k) \in new
      BY <2>3
    <3> QED
      BY <1>2, <3>1, <3>2, <3>3, DetunedGroup
  <2> QED
    BY <2>1, <2>2, <2>3 DEF Edited
<1>4. after \in HookFiles /\ after.hooks[e] = new /\ \A d \in Events : d # e => after.hooks[d] = file.hooks[d]
  <2>1. PICK u \in [Events \cup {Retired} -> Groups] : u = [file.hooks EXCEPT ![e] = new]
    BY <1>3 DEF HookFiles
  <2>2. after = [file EXCEPT !.hooks = u]
    BY <2>1 DEF HookFiles
  <2>3. [file EXCEPT !.hooks = u] \in HookFiles /\ [file EXCEPT !.hooks = u].hooks = u
    BY DEF HookFiles
  <2>4. u[e] = new /\ \A d \in Events : d # e => u[d] = file.hooks[d]
    BY <2>1 DEF HookFiles
  <2> QED
    BY <2>2, <2>3, <2>4
<1> HIDE DEF after
<1>5. Commands(after) \subseteq Commands(file)
  <2> SUFFICES ASSUME NEW c \in Commands(after) PROVE c \in Commands(file)
    OBVIOUS
  <2>1. PICK d \in Events : \E g \in after.hooks[d] : \E h \in g : h \notin {Theirs, Rich} /\ h.cmd = c
    BY InCommands
  <2>2. PICK g \in after.hooks[d] : \E h \in g : h \notin {Theirs, Rich} /\ h.cmd = c
    BY <2>1
  <2>3. PICK h \in g : h \notin {Theirs, Rich} /\ h.cmd = c
    BY <2>2
  <2>4. \E k \in file.hooks[d] : \E j \in k : j \notin {Theirs, Rich} /\ j.cmd = c
    BY <1>3, <1>4, <2>2, <2>3
  <2> QED
    BY <2>4, InCommands
<1>6. ASSUME NEW d \in Events, MembersOf(file, d) # {} PROVE MembersOf(after, d) # {}
  <2>1. PICK g \in file.hooks[d] : Theirs \in g \/ Rich \in g
    BY <1>6 DEF MembersOf
  <2>2. \E k \in after.hooks[d] : Theirs \in k \/ Rich \in k
    BY <1>3, <1>4, <2>1
  <2> QED
    BY <2>2 DEF MembersOf
<1> QED
  BY <1>4, <1>5, <1>6 DEF Tended, after

-----------------------------------------------------------------------------
\* The inductive invariant.

Pcs == {"idle", "install", "allow", "trust", "pending", "entry", "hooks", "unhook", "disallow"}
Kinds == {"none", "setup", "reconnect", "repair", "remove"}
Entries == CommandsOf \cup {None}
Ops == [pc : Pcs, kind : Kinds, p : Profiles \cup {"none"}, v : {"codex", "claude", "none"}, r : Roots \cup {"none"}, entry : Entries]
Launches == [p : Profiles \cup {"none"}, at : Nat, clean : BOOLEAN]

IntegrationsTyped ==
  /\ entry \in [{"codex", "claude"} -> [Roots -> Entries]]
  /\ hooks \in [Files -> HookFiles]
  /\ exe \in [Profiles -> Nat \ {0}] /\ gone \subseteq CommandsOf
  /\ op \in Ops /\ launch \in Launches

\* A file has one owner.
Owned == \A f \in Files : \A c, d \in Commands(hooks[f]) : c = d

\* What an operation in progress has done.
OpOK ==
  /\ op.pc = "idle" => op = NoOp
  /\ op.pc # "idle" => op.p \in Profiles /\ op.v \in {"codex", "claude"} /\ op.r \in Roots
  /\ op.pc \in {"install", "allow"} => op.kind = "setup"
  /\ op.pc \in {"entry", "hooks", "trust", "pending"} => op.kind \in {"setup", "reconnect", "repair"}
  /\ op.pc \in {"unhook", "disallow"} => op.kind = "remove"

\* What it has written so far. Nothing else writes until it is done.
Halfway ==
  /\ op.pc = "allow" => Commands(hooks[File]) \subseteq {Me}
  /\ op.pc = "install" => entry[op.v][op.r] = Me
  /\ op.pc = "entry" => entry[op.v][op.r] = op.entry
  /\ op.pc = "hooks" => entry[op.v][op.r] \in {Me, None}

\* The pass of a launch does nothing but repair.
PassOK ==
  /\ launch.at <= Steps
  /\ launch.p = "none" => launch.at = 0
  /\ launch.p # "none" /\ op.pc # "idle" => op.kind = "repair" /\ op.p = launch.p
  /\ op.kind = "repair" => launch.p # "none"

\* A binding in use that is not the profile's own.
OthersOf(p, c) == Live(c) /\ c.profile # p

\* What a setup or a repair takes over is nobody's.
Leftover ==
  op.kind \in {"setup", "repair"} /\ op.pc \in {"entry", "hooks"} =>
    /\ ~OthersOf(op.p, op.entry)
    /\ op.entry \in {None, Me} => \A c \in Commands(hooks[File]) : ~OthersOf(op.p, c)

\* What of the profile's own a binding names at another path is an entry beside
\* hooks that are at the right one.
Adopted(p, v, r) ==
  /\ entry[v][r].profile = p => entry[v][r] = Cmd(p) \/ Cmd(p) \in Commands(hooks[FileOf(v, r)])
  /\ entry[v][r].profile \in {"none", p} => \A c \in Commands(hooks[FileOf(v, r)]) : c.profile = p => c = Cmd(p)

\* The pass has come past Codex, or past Claude Code, in the i-th repository.
Due(v, i) == IF v = "codex" THEN 3 * i - 2 ELSE 3 * i - 1
Repairing(v, r) == op.pc \in {"entry", "hooks"} /\ op.v = v /\ op.r = r
Progress ==
  launch.p # "none" /\ launch.clean = TRUE =>
    \A v \in {"codex", "claude"}, i \in 1..Len(RootOrder) :
      Due(v, i) <= launch.at => Adopted(launch.p, v, RootOrder[i]) \/ Repairing(v, RootOrder[i])

-----------------------------------------------------------------------------
\* What the steps do to the hook files.

LEMMA CmdTyped ==
  ASSUME IntegrationsTyped, NEW p \in Profiles
  PROVE  Cmd(p) \in CommandsOf /\ Cmd(p).profile = p /\ Cmd(p).exe = exe[p]
BY DEF IntegrationsTyped, Cmd, CommandsOf

LEMMA FilesOf ==
  ASSUME NEW v \in {"codex", "claude"}, NEW r \in Roots
  PROVE  /\ FileOf(v, r) \in Files /\ <<"cursor", r>> \in Files /\ <<"claude", r>> \in Files
         /\ FileOf(v, r)[1] = v /\ (v = "claude" => FileOf(v, r) = <<"claude", r>>)
BY DEF FileOf, Files

\* A new command in a file is the one it now belongs to.
Taken(f, c) == Commands(hooks'[f]) \subseteq {c}

HookStep ==
  /\ hooks' \in [Files -> HookFiles]
  /\ \A f \in Files : \A c \in Commands(hooks'[f]) : c \in Commands(hooks[f]) \/ Taken(f, c)

MemberStep ==
  \A f \in Files, e \in Events : \A g \in MembersOf(hooks[f], e) :
    (Withdraws(f) => Managed(g) = {}) => MembersOf(hooks'[f], e) # {}

LEMMA FileSet ==
  ASSUME IntegrationsTyped, NEW f \in Files, NEW new \in HookFiles, hooks' = [hooks EXCEPT ![f] = new]
  PROVE  hooks' \in [Files -> HookFiles] /\ hooks'[f] = new /\ \A g \in Files : g # f => hooks'[g] = hooks[g]
BY DEF IntegrationsTyped

LEMMA HooksSame ==
  ASSUME IntegrationsTyped, hooks' = hooks
  PROVE  HookStep /\ MemberStep
BY DEF IntegrationsTyped, HookStep, MemberStep

LEMMA PutFile ==
  ASSUME IntegrationsTyped, NEW f \in Files, NEW new, hooks' = [hooks EXCEPT ![f] = new], Tended(hooks[f], new)
  PROVE  /\ MemberStep /\ new = hooks'[f]
         /\ (\A c \in Commands(new) : c \in Commands(hooks[f]) \/ Taken(f, c)) => HookStep
<1>0. new \in HookFiles
  BY DEF Tended
<1>1. hooks' \in [Files -> HookFiles] /\ hooks'[f] = new /\ \A g \in Files : g # f => hooks'[g] = hooks[g]
  BY <1>0, FileSet
<1>2. ASSUME NEW g \in Files, NEW e \in Events, MembersOf(hooks[g], e) # {} PROVE MembersOf(hooks'[g], e) # {}
  BY <1>1, <1>2 DEF Tended
<1>3. MemberStep
  BY <1>2 DEF MemberStep
<1> QED
  BY <1>1, <1>3 DEF HookStep

\* Fewer commands, or one that the file now belongs to.
LEMMA PutFewer ==
  ASSUME IntegrationsTyped, NEW f \in Files, NEW new, hooks' = [hooks EXCEPT ![f] = new], Tended(hooks[f], new),
         Commands(new) \subseteq Commands(hooks[f])
  PROVE  HookStep /\ MemberStep
BY PutFile

LEMMA PutOwn ==
  ASSUME IntegrationsTyped, NEW f \in Files, NEW new, NEW p \in Profiles, hooks' = [hooks EXCEPT ![f] = new], Tended(hooks[f], new),
         Commands(new) \subseteq {Cmd(p)}
  PROVE  HookStep /\ MemberStep
<1>1. MemberStep /\ new = hooks'[f]
  BY PutFile
<1>2. \A c \in Commands(new) : Taken(f, c)
  BY <1>1 DEF Taken
<1> QED
  BY <1>1, <1>2, PutFile

\* Where the pass of a launch is.
LEMMA PassAt ==
  ASSUME NEW n \in Nat, n < Steps
  PROVE  /\ (n \div 3) + 1 \in 1..Len(RootOrder) /\ (n % 3) \in {0, 1, 2} /\ n = 3 * (n \div 3) + (n % 3)
         /\ Len(Vendors) = 3 /\ Steps = 3 * Len(RootOrder) /\ Len(RootOrder) \in Nat
<1>1. Len(Vendors) = 3
  BY DEF Vendors
<1>2. Len(RootOrder) \in Nat
  BY IntegrationsAssumption
<1>3. Steps = 3 * Len(RootOrder)
  BY <1>1, <1>2 DEF Steps
<1> QED
  BY <1>1, <1>2, <1>3

LEMMA RootAtTyped ==
  ASSUME IntegrationsTyped, launch.at < Steps
  PROVE  RootAt \in Roots /\ VendorAt \in {"codex", "claude", "cursor"}
<1>1. launch.at \in Nat
  BY DEF IntegrationsTyped, Launches
<1>2. (launch.at \div 3) + 1 \in 1..Len(RootOrder) /\ launch.at % 3 \in {0, 1, 2} /\ Len(Vendors) = 3
  BY <1>1, PassAt
<1>3. RootAt = RootOrder[(launch.at \div 3) + 1] /\ VendorAt = Vendors[(launch.at % 3) + 1]
  BY <1>2 DEF RootAt, VendorAt
<1>4. PICK i \in 1..Len(RootOrder) : i = (launch.at \div 3) + 1
  BY <1>2
<1>5. RootOrder[i] \in Roots
  BY IntegrationsAssumption DEF Roots
<1>6. PICK j \in {1, 2, 3} : j = (launch.at % 3) + 1
  BY <1>2
<1>7. Vendors[j] \in {"codex", "claude", "cursor"}
  BY DEF Vendors
<1> QED
  BY <1>3, <1>4, <1>5, <1>6, <1>7

\* Remove takes the groups of Overgent's and nothing of the member's alone.
LEMMA PutRemoved ==
  ASSUME IntegrationsTyped, NEW f \in Files, hooks' = [hooks EXCEPT ![f] = Remove(@)], f[1] = "codex" \/ op.kind = "remove"
  PROVE  HookStep /\ MemberStep
<1>0. hooks[f] \in HookFiles
  BY DEF IntegrationsTyped
<1>1. /\ Remove(hooks[f]) \in HookFiles /\ Commands(Remove(hooks[f])) = {}
      /\ \A e \in Events : \A g \in MembersOf(hooks[f], e) : Managed(g) = {} => MembersOf(Remove(hooks[f]), e) # {}
  BY <1>0, RemoveFile
<1>2. PICK new \in HookFiles : new = Remove(hooks[f])
  BY <1>1
<1>3. hooks' \in [Files -> HookFiles] /\ hooks'[f] = new /\ \A g \in Files : g # f => hooks'[g] = hooks[g]
  <2>1. hooks' = [hooks EXCEPT ![f] = new]
    BY <1>2
  <2> QED
    BY <2>1, FileSet
<1>4. HookStep
  BY <1>1, <1>2, <1>3 DEF HookStep
<1>5. ASSUME NEW k \in Files, NEW e \in Events, NEW g \in MembersOf(hooks[k], e), Withdraws(k) => Managed(g) = {}
      PROVE  MembersOf(hooks'[k], e) # {}
  <2>1. CASE k # f
    BY <1>3, <1>5, <2>1
  <2>2. CASE k = f /\ Managed(g) = {}
    BY <1>1, <1>2, <1>3, <2>2
  <2>3. CASE k = f /\ Managed(g) # {}
    <3>1. ~Withdraws(f)
      BY <1>5, <2>3
    <3>2. Commands(hooks'[f]) = {}
      BY <1>1, <1>2, <1>3
    <3>3. Commands(hooks[f]) = {} /\ f[1] = "codex" /\ op.kind # "remove"
      BY <3>1, <3>2 DEF Withdraws
    <3>4. PICK h \in g : h \notin {Theirs, Rich}
      BY <2>3 DEF Managed
    <3>5. h.cmd \in Commands(hooks[f])
      BY <2>3, <3>4, InCommands DEF MembersOf
    <3> QED
      BY <3>3, <3>5
  <2> QED
    BY <2>1, <2>2, <2>3
<1> QED
  BY <1>4, <1>5 DEF MemberStep

\* The operation in progress.
LEMMA InProgress ==
  ASSUME IntegrationsTyped, OpOK, op.pc # "idle"
  PROVE  /\ op.p \in Profiles /\ op.v \in {"codex", "claude"} /\ op.r \in Roots
         /\ File \in Files /\ hooks[File] \in HookFiles /\ Me \in CommandsOf /\ Me = Cmd(op.p) /\ Me.profile = op.p
         /\ File[1] = op.v /\ (op.v = "claude" => File = <<"claude", op.r>>)
<1>1. op.p \in Profiles /\ op.v \in {"codex", "claude"} /\ op.r \in Roots
  BY DEF OpOK
<1>2. File \in Files /\ File[1] = op.v /\ (op.v = "claude" => File = <<"claude", op.r>>)
  BY <1>1, FilesOf DEF File
<1>3. Me \in CommandsOf /\ Me = Cmd(op.p) /\ Me.profile = op.p
  BY <1>1, CmdTyped DEF Me
<1> QED
  BY <1>1, <1>2, <1>3 DEF IntegrationsTyped

\* Steps that write a hook file: those of an operation ...
LEMMA OpHooks ==
  ASSUME IntegrationsTyped, OpOK, SetupHooks \/ SetupTools \/ RebindHooks \/ Unhook \/ Disallow
  PROVE  HookStep /\ MemberStep
<1>0. op.pc # "idle"
  BY DEF SetupHooks, SetupTools, RebindHooks, Unhook, Disallow
<1>00. /\ op.p \in Profiles /\ op.v \in {"codex", "claude"} /\ op.r \in Roots
       /\ File \in Files /\ hooks[File] \in HookFiles /\ Me \in CommandsOf /\ Me = Cmd(op.p)
       /\ File[1] = op.v /\ (op.v = "claude" => File = <<"claude", op.r>>)
  BY <1>0, InProgress
<1>1. CASE hooks' = hooks
  BY <1>1, HooksSame
<1>2. CASE op.pc = "install" /\ CanInstall(hooks[File], Me, EventsOf(op.v)) /\ hooks' = [hooks EXCEPT ![File] = Install(@, Me, EventsOf(op.v))]
  <2>1. EventsOf(op.v) \in {Events, Events \cup {Retired}}
    BY DEF EventsOf
  <2>2. PICK new : new = Install(hooks[File], Me, EventsOf(op.v))
    OBVIOUS
  <2>3. Tended(hooks[File], new) /\ Commands(new) \subseteq {Cmd(op.p)}
    BY <1>00, <1>2, <2>1, <2>2, InstallFile
  <2>4. hooks' = [hooks EXCEPT ![File] = new]
    BY <1>2, <2>2
  <2> QED
    BY <1>00, <1>2, <2>3, <2>4, PutOwn
<1>3. CASE op.pc = "hooks" /\ hooks' = [hooks EXCEPT ![File] = Rebind(@, Me)]
  <2>2. PICK new : new = Rebind(hooks[File], Me)
    OBVIOUS
  <2>3. Tended(hooks[File], new) /\ Commands(new) \subseteq {Cmd(op.p)}
    BY <1>00, <2>2, RebindFile
  <2>4. hooks' = [hooks EXCEPT ![File] = new]
    BY <1>3, <2>2
  <2> QED
    BY <1>00, <1>3, <2>3, <2>4, PutOwn
<1>4. CASE hooks' = [hooks EXCEPT ![File] = AllowTools(@)] \/ hooks' = [hooks EXCEPT ![File] = DisallowTools(@)]
  <2>1. PICK new \in {AllowTools(hooks[File]), DisallowTools(hooks[File])} : hooks' = [hooks EXCEPT ![File] = new]
    BY <1>4
  <2>2. Tended(hooks[File], new) /\ Commands(new) \subseteq Commands(hooks[File])
    BY <1>00, <2>1, ToolsFile
  <2> QED
    BY <1>00, <2>1, <2>2, PutFewer
<1>5. CASE op.pc = "unhook" /\ hooks' = [hooks EXCEPT ![File] = Remove(@)]
  BY <1>00, <1>5, PutRemoved DEF OpOK
<1>6. CASE SetupHooks
  BY <1>1, <1>2, <1>6 DEF SetupHooks
<1>7. CASE SetupTools
  BY <1>1, <1>4, <1>7 DEF SetupTools
<1>8. CASE RebindHooks
  BY <1>1, <1>3, <1>8 DEF RebindHooks
<1>9. CASE Unhook
  BY <1>1, <1>5, <1>9 DEF Unhook
<1>10. CASE Disallow
  BY <1>4, <1>10 DEF Disallow
<1> QED
  BY <1>6, <1>7, <1>8, <1>9, <1>10

\* ... of a whole call ...
LEMMA CallHooks ==
  ASSUME IntegrationsTyped, NEW p \in Profiles, NEW r \in Roots,
         CursorRemove(p, r) \/ \E again \in BOOLEAN : CursorSetup(p, r, again)
  PROVE  HookStep /\ MemberStep
<1>0. <<"cursor", r>> \in Files /\ <<"cursor", r>>[1] = "cursor"
  BY DEF Files
<1>1. hooks[<<"cursor", r>>] \in HookFiles /\ Cmd(p) \in CommandsOf
  BY <1>0, CmdTyped DEF IntegrationsTyped
<1>2. PICK f \in Files : f = <<"cursor", r>> /\ f[1] = "cursor"
  BY <1>0
<1>4. CASE CursorRemove(p, r)
  <2>1. PICK new \in {hooks[f], RemoveManaged(hooks[f])} : hooks' = [hooks EXCEPT ![f] = new]
    BY <1>2, <1>4 DEF CursorRemove, CursorWrite
  <2>2. Tended(hooks[f], RemoveManaged(hooks[f])) /\ Commands(RemoveManaged(hooks[f])) = {}
    BY <1>1, <1>2, RemoveManagedFile
  <2>3. Tended(hooks[f], hooks[f])
    BY <1>1, <1>2 DEF Tended
  <2> QED
    BY <2>1, <2>2, <2>3, PutFewer
<1>5. CASE \E again \in BOOLEAN : CursorSetup(p, r, again)
  <2>1. hooks' = [hooks EXCEPT ![f] = Rebind(hooks[f], Cmd(p))]
    BY <1>2, <1>5 DEF CursorSetup, CursorWrite
  <2>2. Tended(hooks[f], Rebind(hooks[f], Cmd(p))) /\ Commands(Rebind(hooks[f], Cmd(p))) \subseteq {Cmd(p)}
    BY <1>1, <1>2, RebindFile
  <2> QED
    BY <1>2, <2>1, <2>2, PutOwn
<1> QED
  BY <1>4, <1>5

\* ... of a launch, and of a member.
LEMMA RepairHooks ==
  ASSUME IntegrationsTyped, Repair
  PROVE  HookStep /\ MemberStep
<1>1. launch.p \in Profiles /\ RootAt \in Roots
  BY RootAtTyped DEF Repair, IntegrationsTyped, Launches
<1>0. PICK r \in Roots : r = RootAt
  BY <1>1
<1>00. <<"cursor", r>> \in Files /\ <<"cursor", r>>[1] = "cursor"
  BY DEF Files
<1>2. PICK f \in Files : f = <<"cursor", r>> /\ f[1] = "cursor"
  BY <1>00
<1>3. hooks[f] \in HookFiles /\ Cmd(launch.p) \in CommandsOf
  BY <1>1, CmdTyped DEF IntegrationsTyped
<1>4. hooks' = hooks \/ hooks' = [hooks EXCEPT ![f] = Rebind(hooks[f], Cmd(launch.p))]
  BY <1>0, <1>2 DEF Repair
<1>5. Tended(hooks[f], Rebind(hooks[f], Cmd(launch.p))) /\ Commands(Rebind(hooks[f], Cmd(launch.p))) \subseteq {Cmd(launch.p)}
  BY <1>3, RebindFile
<1> QED
  BY <1>1, <1>2, <1>4, <1>5, PutOwn, HooksSame

LEMMA EditedHooks ==
  ASSUME IntegrationsTyped, NEW f \in Files, NEW e \in Events, EditHooks(f, e)
  PROVE  HookStep /\ MemberStep /\ \A g \in Files : Commands(hooks'[g]) \subseteq Commands(hooks[g])
<1>1. PICK new : Edited(hooks[f], e, new) /\ hooks' = [hooks EXCEPT ![f].hooks[e] = new]
  BY DEF EditHooks, Edited, Detuned
<1>2. PICK file : file = [hooks[f] EXCEPT !.hooks[e] = new]
  OBVIOUS
<1>3. hooks' = [hooks EXCEPT ![f] = file]
  BY <1>1, <1>2
<1>4. hooks[f] \in HookFiles
  BY DEF IntegrationsTyped
<1>5. Tended(hooks[f], file) /\ Commands(file) \subseteq Commands(hooks[f])
  BY <1>1, <1>2, <1>4, EditFile
<1>6. HookStep /\ MemberStep
  BY <1>3, <1>5, PutFewer
<1>7. file \in HookFiles
  BY <1>5 DEF Tended
<1> QED
  BY <1>3, <1>5, <1>6, <1>7, FileSet

\* Steps that write no hook file.
Elsewhere ==
  \/ TrustUnasked \/ TrustAsked \/ TrustWritten \/ TrustAppended \/ RebindEntry \/ RebindFails \/ RemoveFails \/ Crash
  \/ \E p \in Profiles :
       \/ MoveExecutable(p) \/ Launch(p)
       \/ \E s \in {"absent", "bare", "enrolled"} : ChangeProfile(p, s)
       \/ \E r \in Roots : RemoveCodex(p, r) \/ RemoveClaude(p, r)
       \/ \E r \in Roots, v \in {"codex", "claude"} : SetupAdopts(p, v, r) \/ SetupEntry(p, v, r) \/ Reconnect(p, v, r)

\* The steps, by what they write.
LEMMA Steppings ==
  ASSUME Next
  PROVE  \/ Elsewhere \/ Repair
         \/ SetupHooks \/ SetupTools \/ RebindHooks \/ Unhook \/ Disallow
         \/ \E p \in Profiles : RemoveHooks(p)
         \/ \E p \in Profiles, r \in Roots : CursorRemove(p, r) \/ \E again \in BOOLEAN : CursorSetup(p, r, again)
         \/ \E f \in Files, e \in Events : EditHooks(f, e)
<1>1. CASE \E p \in Profiles, r \in Roots, v \in {"codex", "claude", "cursor"} : ConnectAgentWorktree(p, v, r)
  <2>1. PICK p \in Profiles, r \in Roots, v \in {"codex", "claude", "cursor"} : ConnectAgentWorktree(p, v, r)
    BY <1>1
  <2>2. CASE v = "cursor"
    BY <2>1, <2>2 DEF ConnectAgentWorktree
  <2>3. CASE v \in {"codex", "claude"}
    <3>1. SetupAdopts(p, v, r) \/ SetupEntry(p, v, r)
      BY <2>1, <2>3 DEF ConnectAgentWorktree
    <3> QED
      BY <2>3, <3>1 DEF Elsewhere
  <2> QED
    BY <2>2, <2>3
<1>2. CASE OpStep
  BY <1>2 DEF OpStep, Elsewhere
<1>3. CASE \E p \in Profiles, r \in Roots, v \in {"codex", "claude"} : SetupAdopts(p, v, r) \/ SetupEntry(p, v, r) \/ Reconnect(p, v, r)
  BY <1>3 DEF Elsewhere
<1>4. CASE \E p \in Profiles : MoveExecutable(p) \/ Launch(p) \/ \E s \in {"absent", "bare", "enrolled"} : ChangeProfile(p, s)
  BY <1>4 DEF Elsewhere
<1>5. CASE \E p \in Profiles, r \in Roots : RemoveCodex(p, r) \/ RemoveClaude(p, r)
  BY <1>5 DEF Elsewhere
<1> QED
  BY <1>1, <1>2, <1>3, <1>4, <1>5 DEF Next

LEMMA HookSteps ==
  ASSUME IntegrationsTyped, OpOK, Next
  PROVE  HookStep /\ MemberStep
<1>1. CASE Elsewhere
  <2>1. hooks' = hooks
    BY <1>1 DEF Elsewhere, TrustUnasked, TrustAsked, TrustWritten, TrustAppended, RebindEntry, RebindFails, RemoveFails, Crash,
                MoveExecutable, Launch, ChangeProfile, RemoveCodex, RemoveClaude, SetupAdopts, SetupEntry, Reconnect
  <2> QED
    BY <2>1, HooksSame
<1>2. CASE SetupHooks \/ SetupTools \/ RebindHooks \/ Unhook \/ Disallow
  BY <1>2, OpHooks
<1>3. CASE \E p \in Profiles : RemoveHooks(p)
  <2>1. <<"codex", "user">> \in Files /\ <<"codex", "user">>[1] = "codex"
    BY DEF Files
  <2>2. hooks' = [hooks EXCEPT ![<<"codex", "user">>] = Remove(@)]
    BY <1>3 DEF RemoveHooks, FileOf
  <2> QED
    BY <2>1, <2>2, PutRemoved
<1>4. CASE \E p \in Profiles, r \in Roots : CursorRemove(p, r) \/ \E again \in BOOLEAN : CursorSetup(p, r, again)
  BY <1>4, CallHooks
<1>5. CASE Repair
  BY <1>5, RepairHooks
<1>6. CASE \E f \in Files, e \in Events : EditHooks(f, e)
  BY <1>6, EditedHooks
<1> QED
  BY <1>1, <1>2, <1>3, <1>4, <1>5, <1>6, Steppings

-----------------------------------------------------------------------------
\* Status, and what is adopted.

\* The one owner of a file, as Inspect finds it.
LEMMA OneOwner ==
  ASSUME Owned, NEW f \in Files
  PROVE  /\ Cardinality(Commands(hooks[f])) <= 1
         /\ \A c \in Commands(hooks[f]) : Commands(hooks[f]) = {c}
<1>1. \A c, d \in Commands(hooks[f]) : c = d
  BY DEF Owned
<1>2. CASE Commands(hooks[f]) = {}
  BY <1>2, FS_EmptySet
<1>3. CASE Commands(hooks[f]) # {}
  <2>1. PICK c : c \in Commands(hooks[f])
    BY <1>3
  <2>2. Commands(hooks[f]) = {c}
    BY <1>1, <2>1
  <2>3. Cardinality({c}) = 1
    BY FS_Singleton
  <2> QED
    BY <2>2, <2>3
<1> QED
  BY <1>2, <1>3

LEMMA InspectOwned ==
  ASSUME Owned, NEW f \in Files, NEW cmd
  PROVE  /\ Commands(hooks[f]) = {} <=> Inspect(hooks[f], cmd) = "not_configured"
         /\ Commands(hooks[f]) \notin {{}, {cmd}} <=> Inspect(hooks[f], cmd) = "other_profile"
         /\ Inspect(hooks[f], cmd) # "conflict"
<1>1. PICK found : found = Commands(hooks[f])
  OBVIOUS
<1>2. ~(Cardinality(found) > 1)
  <2>1. Cardinality(found) <= 1
    BY <1>1, OneOwner
  <2>2. Cardinality(found) \in {0, 1}
    <3>1. CASE found = {}
      BY <3>1, FS_EmptySet
    <3>2. CASE found # {}
      <4>1. PICK c \in found : found = {c}
        BY <1>1, <3>2, OneOwner
      <4> QED
        BY <4>1, FS_Singleton
    <3> QED
      BY <3>1, <3>2
  <2> QED
    BY <2>2
<1>3. Inspect(hooks[f], cmd) = IF found = {} THEN "not_configured" ELSE IF found # {cmd} THEN "other_profile"
                               ELSE IF Complete(hooks[f], cmd) THEN "current" ELSE "partial"
  BY <1>1, <1>2 DEF Inspect
<1> QED
  BY <1>1, <1>3

\* An abandoned binding is nobody's.
LEMMA AbandonedNobody ==
  ASSUME NEW p, NEW c, Abandoned(p, c)
  PROVE  ~OthersOf(p, c)
BY DEF Abandoned, OthersOf, Live

\* What an adoption takes.
LEMMA AdoptsNobody ==
  ASSUME IntegrationsTyped, Owned, NEW p \in Profiles, NEW v \in {"codex", "claude"}, NEW r \in Roots, Adopts(p, v, r)
  PROVE  /\ ~OthersOf(p, entry[v][r])
         /\ entry[v][r] \in {None, Cmd(p)} => \A c \in Commands(hooks[FileOf(v, r)]) : ~OthersOf(p, c)
<1>1. Status(v, r, Cmd(p)) = "other_profile" /\ Abandoned(p, Previous(v, r, Cmd(p)))
  BY DEF Adopts
<1>2. FileOf(v, r) \in Files
  BY FilesOf
<1>3. CASE entry[v][r] \notin {None, Cmd(p)}
  <2>1. Previous(v, r, Cmd(p)) = entry[v][r]
    BY <1>3 DEF Previous, EntryState, Foreign
  <2> QED
    BY <1>1, <1>3, <2>1, AbandonedNobody
<1>4. CASE entry[v][r] \in {None, Cmd(p)}
  <2>1. EntryState(v, r, Cmd(p)) # "other_profile"
    BY <1>4 DEF EntryState, Foreign
  <2>2. Inspect(hooks[FileOf(v, r)], Cmd(p)) = "other_profile"
    BY <1>1, <2>1 DEF Status
  <2>3. PICK c : c \in Commands(hooks[FileOf(v, r)])
    BY <1>2, <2>2, InspectOwned
  <2>4. Commands(hooks[FileOf(v, r)]) = {c}
    BY <1>2, <2>3, OneOwner
  <2>5. Previous(v, r, Cmd(p)) = c
    <3>1. Previous(v, r, Cmd(p)) = CHOOSE d \in Commands(hooks[FileOf(v, r)]) : TRUE
      BY <2>1 DEF Previous
    <3> QED
      BY <2>4, <3>1
  <2>6. ~OthersOf(p, c)
    BY <1>1, <2>5, AbandonedNobody
  <2>7. ~OthersOf(p, entry[v][r])
    BY <1>4, CmdTyped DEF OthersOf, Live
  <2> QED
    BY <2>4, <2>6, <2>7
<1> QED
  BY <1>3, <1>4

\* What no adoption is needed for.
LEMMA NothingToAdopt ==
  ASSUME IntegrationsTyped, Owned, NEW p \in Profiles, NEW v \in {"codex", "claude"}, NEW r \in Roots, ~Adopts(p, v, r)
  PROVE  Adopted(p, v, r)
<1> DEFINE f == FileOf(v, r)
           e == entry[v][r]
           c == Cmd(p)
<1>0. f \in Files /\ c \in CommandsOf /\ c.profile = p /\ e \in Entries /\ p # "none"
  BY FilesOf, CmdTyped, IntegrationsAssumption DEF IntegrationsTyped
<1>1. \A d : d.profile = p => Abandoned(p, d)
  BY DEF Abandoned
<1>2. ASSUME e \notin {None, c}, e.profile = p PROVE Commands(hooks[f]) = {c}
  <2>1. Foreign(v, r, c) /\ EntryState(v, r, c) = "other_profile"
    BY <1>2 DEF Foreign, EntryState
  <2>2. Abandoned(p, Previous(v, r, c))
    BY <1>1, <1>2, <2>1 DEF Previous
  <2> SUFFICES ASSUME Commands(hooks[f]) # {c} PROVE FALSE
    OBVIOUS
  <2>3. Inspect(hooks[f], c) \in {"not_configured", "other_profile"}
    BY <1>0, InspectOwned
  <2>4. Status(v, r, c) = "other_profile"
    BY <1>0, <2>1, <2>3 DEF Status
  <2> QED
    BY <2>2, <2>4 DEF Adopts
<1>3. ASSUME NEW d \in Commands(hooks[f]), d.profile = p, d # c, e \in {None, c} PROVE FALSE
  <2>1. Commands(hooks[f]) = {d}
    BY <1>0, OneOwner
  <2>2. Inspect(hooks[f], c) = "other_profile"
    BY <1>0, <1>3, <2>1, InspectOwned
  <2>3. EntryState(v, r, c) # "other_profile"
    BY <1>3 DEF EntryState, Foreign
  <2>4. Status(v, r, c) = "other_profile"
    BY <1>0, <2>2, <2>3 DEF Status
  <2>5. Previous(v, r, c) = d
    <3>1. Previous(v, r, c) = CHOOSE x \in Commands(hooks[f]) : TRUE
      BY <1>0, <2>3 DEF Previous
    <3> QED
      BY <2>1, <3>1
  <2> QED
    BY <1>1, <1>3, <2>4, <2>5 DEF Adopts
<1>4. e.profile = p => e = c \/ c \in Commands(hooks[f])
  <2>1. e.profile = p => e # None
    BY <1>0 DEF None
  <2> QED
    BY <1>2, <2>1
<1>5. ASSUME NEW d \in Commands(hooks[f]), d.profile = p, e.profile \in {"none", p} PROVE d = c
  <2>1. CASE e \in {None, c}
    BY <1>3, <1>5, <2>1
  <2>2. CASE e \notin {None, c}
    <3>1. e.profile = p
      BY <1>0, <1>5, <2>2, IntegrationsAssumption DEF Entries, CommandsOf
    <3> QED
      BY <1>2, <1>5, <2>2, <3>1
  <2> QED
    BY <2>1, <2>2
<1> QED
  BY <1>4, <1>5 DEF Adopted

-----------------------------------------------------------------------------
\* What the steps do to the operation in progress.

IntInv == IntegrationsTyped /\ Owned /\ OpOK /\ Halfway /\ PassOK /\ Leftover /\ Progress

LEMMA Nothing ==
  /\ NoOp \in Ops /\ NoOp.pc = "idle" /\ NoOp.kind = "none" /\ NoOp.entry = None
  /\ NoLaunch \in Launches /\ NoLaunch.p = "none" /\ NoLaunch.at = 0
BY DEF NoOp, NoLaunch, Ops, Launches, Pcs, Kinds, Entries

Went(c) ==
  /\ op' \in Ops /\ op'.pc = c /\ op'.kind = op.kind /\ op'.p = op.p /\ op'.v = op.v /\ op'.r = op.r /\ op'.entry = op.entry

Began(c, kind, p, v, r) ==
  /\ op' \in Ops /\ op'.pc = c /\ op'.kind = kind /\ op'.p = p /\ op'.v = v /\ op'.r = r /\ op'.entry = entry[v][r]

LEMMA GoTyped ==
  ASSUME IntegrationsTyped, NEW c \in Pcs, Go(c)
  PROVE  Went(c)
BY DEF IntegrationsTyped, Ops, Go, Went

LEMMA DoTyped ==
  ASSUME IntegrationsTyped, NEW c \in Pcs, NEW kind \in Kinds, NEW p \in Profiles, NEW v \in {"codex", "claude"}, NEW r \in Roots,
         Do(c, kind, p, v, r)
  PROVE  Began(c, kind, p, v, r)
<1>1. PICK e \in Entries : e = entry[v][r]
  BY DEF IntegrationsTyped
<1> QED
  BY <1>1 DEF Do, Began, Ops

LEMMA EntrySet ==
  ASSUME IntegrationsTyped, NEW v \in {"codex", "claude"}, NEW r \in Roots, NEW e \in Entries, WriteEntry(v, r, e)
  PROVE  /\ entry' \in [{"codex", "claude"} -> [Roots -> Entries]] /\ entry'[v][r] = e
         /\ \A u \in {"codex", "claude"}, q \in Roots : <<u, q>> # <<v, r>> => entry'[u][q] = entry[u][q]
<1>1. PICK m \in [Roots -> Entries] : m = [entry[v] EXCEPT ![r] = e]
  BY DEF IntegrationsTyped
<1>2. entry' = [entry EXCEPT ![v] = m]
  BY <1>1 DEF WriteEntry, IntegrationsTyped
<1>3. entry' \in [{"codex", "claude"} -> [Roots -> Entries]] /\ entry'[v] = m /\ \A u \in {"codex", "claude"} : u # v => entry'[u] = entry[u]
  BY <1>2 DEF IntegrationsTyped
<1>4. m[r] = e /\ \A q \in Roots : q # r => m[q] = entry[v][q]
  BY <1>1 DEF IntegrationsTyped
<1> QED
  BY <1>3, <1>4

\* A step of the operation in progress; what else it leaves alone.
Alone == exe' = exe /\ gone' = gone /\ profile' = profile

LEMMA OpMoves ==
  ASSUME IntegrationsTyped, OpOK
  PROVE  /\ SetupHooks => /\ op.pc = "install" /\ Alone /\ launch' = launch /\ entry' = entry
                          /\ \/ op' = NoOp \/ Went("trust")
                             \/ /\ Went("allow") /\ CanInstall(hooks[File], Me, EventsOf(op.v))
                                /\ hooks' = [hooks EXCEPT ![File] = Install(@, Me, EventsOf(op.v))]
         /\ SetupTools => op.pc = "allow" /\ Alone /\ launch' = launch /\ entry' = entry /\ op' = NoOp
         /\ TrustUnasked \/ TrustAsked \/ TrustWritten \/ TrustAppended
              => /\ op.pc \in {"trust", "pending"} /\ Alone /\ launch' = launch /\ entry' = entry /\ hooks' = hooks
                 /\ op' = NoOp \/ Went("pending")
         /\ RebindEntry => /\ op.pc = "entry" /\ Alone /\ launch' = launch /\ hooks' = hooks /\ Went("hooks")
                           /\ IF WritesEntry THEN WriteEntry(op.v, op.r, Me) ELSE entry' = entry
         /\ RebindHooks => /\ op.pc = "hooks" /\ Alone /\ launch' = launch /\ entry' = entry /\ (op' = NoOp \/ Went("trust"))
                           /\ hooks' = IF WritesHooks THEN [hooks EXCEPT ![File] = Rebind(@, Me)] ELSE hooks
         /\ RebindFails => /\ op.pc \in {"entry", "hooks"} /\ Alone /\ hooks' = hooks /\ op' = NoOp
                           /\ launch' = [launch EXCEPT !.clean = FALSE]
                           /\ WriteEntry(op.v, op.r, op.entry) \/ entry' = entry
         /\ Unhook => op.pc = "unhook" /\ Alone /\ launch' = launch /\ entry' = entry /\ Went("disallow")
         /\ Disallow => op.pc = "disallow" /\ Alone /\ launch' = launch /\ entry' = entry /\ op' = NoOp
         /\ RemoveFails => op.pc \in {"unhook", "disallow"} /\ Alone /\ launch' = launch /\ entry' = entry /\ hooks' = hooks /\ op' = NoOp
         /\ Crash => Alone /\ launch' = NoLaunch /\ entry' = entry /\ hooks' = hooks /\ op' = NoOp
<1> USE DEF Alone, Done
<1>0. \A c \in {"trust", "allow", "pending", "hooks", "disallow"} : Go(c) => Went(c)
  BY GoTyped DEF Pcs
<1>1. ASSUME SetupHooks
      PROVE  /\ op.pc = "install" /\ Alone /\ launch' = launch /\ entry' = entry
             /\ \/ op' = NoOp \/ Went("trust")
                \/ /\ Went("allow") /\ CanInstall(hooks[File], Me, EventsOf(op.v))
                   /\ hooks' = [hooks EXCEPT ![File] = Install(@, Me, EventsOf(op.v))]
  <2>1. CASE Go(IF op.v = "codex" THEN "trust" ELSE "allow")
    <3>1. Go("trust") \/ Go("allow")
      BY <2>1
    <3> QED
      BY <1>0, <1>1, <2>1, <3>1 DEF SetupHooks
  <2> QED
    BY <1>1, <2>1 DEF SetupHooks
<1>2. RebindEntry => op.pc = "entry" /\ Alone /\ launch' = launch /\ hooks' = hooks /\ Went("hooks")
  BY <1>0 DEF RebindEntry
<1>3. RebindEntry => IF WritesEntry THEN WriteEntry(op.v, op.r, Me) ELSE entry' = entry
  BY DEF RebindEntry
<1>4. RebindHooks => /\ op.pc = "hooks" /\ Alone /\ launch' = launch /\ entry' = entry /\ (op' = NoOp \/ Went("trust"))
                     /\ hooks' = IF WritesHooks THEN [hooks EXCEPT ![File] = Rebind(@, Me)] ELSE hooks
  BY <1>0 DEF RebindHooks
<1>5. TrustUnasked \/ TrustAsked \/ TrustWritten \/ TrustAppended
        => /\ op.pc \in {"trust", "pending"} /\ Alone /\ launch' = launch /\ entry' = entry /\ hooks' = hooks
           /\ op' = NoOp \/ Went("pending")
  BY <1>0 DEF TrustUnasked, TrustAsked, TrustWritten, TrustAppended
<1>6. RebindFails => /\ op.pc \in {"entry", "hooks"} /\ Alone /\ hooks' = hooks /\ op' = NoOp
                     /\ launch' = [launch EXCEPT !.clean = FALSE]
                     /\ WriteEntry(op.v, op.r, op.entry) \/ entry' = entry
  BY DEF RebindFails, Restore
<1>7. Unhook => op.pc = "unhook" /\ Alone /\ launch' = launch /\ entry' = entry /\ Went("disallow")
  BY <1>0 DEF Unhook
<1>8. /\ SetupTools => op.pc = "allow" /\ Alone /\ launch' = launch /\ entry' = entry /\ op' = NoOp
      /\ Disallow => op.pc = "disallow" /\ Alone /\ launch' = launch /\ entry' = entry /\ op' = NoOp
      /\ RemoveFails => op.pc \in {"unhook", "disallow"} /\ Alone /\ launch' = launch /\ entry' = entry /\ hooks' = hooks /\ op' = NoOp
      /\ Crash => Alone /\ launch' = NoLaunch /\ entry' = entry /\ hooks' = hooks /\ op' = NoOp
  BY DEF SetupTools, Disallow, RemoveFails, Crash
<1> HIDE DEF Alone, Done
<1> QED
  BY <1>1, <1>2, <1>3, <1>4, <1>5, <1>6, <1>7, <1>8

LEMMA OwnedStep ==
  ASSUME Owned, HookStep
  PROVE  Owned'
<1> SUFFICES ASSUME NEW f \in Files, NEW c \in Commands(hooks'[f]), NEW d \in Commands(hooks'[f]) PROVE c = d
  BY DEF Owned, Files, Commands
<1>1. c \in Commands(hooks[f]) \/ Taken(f, c)
  BY DEF HookStep
<1>2. d \in Commands(hooks[f]) \/ Taken(f, d)
  BY DEF HookStep
<1> QED
  BY <1>1, <1>2 DEF Taken, Owned

-----------------------------------------------------------------------------
\* The invariant is kept.

\* A call that is over within one step, and a process that ends.
Call ==
  /\ op' = NoOp /\ launch' = NoLaunch
  /\ exe' \in [Profiles -> Nat \ {0}] /\ gone' \subseteq CommandsOf
  /\ entry' \in [{"codex", "claude"} -> [Roots -> Entries]]

LEMMA CallKeeps ==
  ASSUME IntInv, HookStep, Call
  PROVE  IntInv'
<1>0. IntegrationsTyped /\ Owned /\ Halfway
  BY DEF IntInv
<1>1. op' = NoOp /\ op'.pc = "idle" /\ op'.kind = "none" /\ op' \in Ops
  BY Nothing DEF Call
<1>2. launch' = NoLaunch /\ launch'.p = "none" /\ launch'.at = 0 /\ launch' \in Launches
  BY Nothing DEF Call
<1>3. IntegrationsTyped'
  BY <1>1, <1>2 DEF IntegrationsTyped, Call, HookStep, Files
<1>4. Owned'
  BY <1>0, OwnedStep
<1>5. OpOK' /\ Halfway' /\ Leftover'
  BY <1>1 DEF OpOK, Halfway, Leftover
<1>6. 0 <= Steps
  <2>1. Len(RootOrder) \in Nat /\ Len(Vendors) = 3
    BY IntegrationsAssumption DEF Vendors
  <2> QED
    BY <2>1 DEF Steps
<1>7. PassOK' /\ Progress'
  BY <1>1, <1>2, <1>6 DEF PassOK, Progress, Steps
<1> QED
  BY <1>3, <1>4, <1>5, <1>7 DEF IntInv

LEMMA Calls ==
  ASSUME IntegrationsTyped, OpOK,
         \/ Crash
         \/ \E p \in Profiles :
              \/ MoveExecutable(p) \/ RemoveHooks(p)
              \/ \E s \in {"absent", "bare", "enrolled"} : ChangeProfile(p, s)
              \/ \E r \in Roots : \/ RemoveCodex(p, r) \/ CursorRemove(p, r)
                                  \/ \E again \in BOOLEAN : CursorSetup(p, r, again)
         \/ \E f \in Files, e \in Events : EditHooks(f, e)
  PROVE  Call
<1>0. /\ entry \in [{"codex", "claude"} -> [Roots -> Entries]] /\ exe \in [Profiles -> Nat \ {0}] /\ gone \subseteq CommandsOf
  BY DEF IntegrationsTyped
<1>1. ASSUME op' = NoOp, launch' = NoLaunch, entry' = entry, exe' = exe, gone' = gone PROVE Call
  BY <1>0, <1>1 DEF Call
<1>2. CASE Crash
  BY <1>1, <1>2, OpMoves DEF Alone
<1>3. ASSUME NEW p \in Profiles, MoveExecutable(p) PROVE Call
  <2>1. exe' \in [Profiles -> Nat \ {0}]
    BY <1>0, <1>3 DEF MoveExecutable
  <2>2. gone' \subseteq CommandsOf
    BY <1>0, <1>3, CmdTyped DEF MoveExecutable
  <2>3. op' = NoOp /\ launch' = NoLaunch /\ entry' = entry
    BY <1>3 DEF MoveExecutable, Begin, Quiet
  <2> QED
    BY <1>0, <2>1, <2>2, <2>3 DEF Call
<1>4. ASSUME NEW p \in Profiles, NEW r \in Roots, RemoveCodex(p, r) PROVE Call
  <2>1. WriteEntry("codex", r, None) /\ None \in Entries
    BY <1>4 DEF RemoveCodex, Entries
  <2>2. /\ entry' \in [{"codex", "claude"} -> [Roots -> Entries]] /\ entry'["codex"][r] = None
        /\ \A u \in {"codex", "claude"}, q \in Roots : <<u, q>> # <<"codex", r>> => entry'[u][q] = entry[u][q]
    BY <2>1, EntrySet
  <2>3. op' = NoOp /\ launch' = NoLaunch /\ exe' = exe /\ gone' = gone /\ hooks' = hooks
    BY <1>4 DEF RemoveCodex, Begin, Quiet
  <2> QED
    BY <1>0, <2>2, <2>3 DEF Call
<1>5. ASSUME NEW p \in Profiles, RemoveHooks(p) \/ \E s \in {"absent", "bare", "enrolled"} : ChangeProfile(p, s) PROVE Call
  BY <1>1, <1>5 DEF RemoveHooks, ChangeProfile, Begin, Quiet
<1>6. ASSUME NEW p \in Profiles, NEW r \in Roots, CursorRemove(p, r) \/ \E again \in BOOLEAN : CursorSetup(p, r, again) PROVE Call
  BY <1>1, <1>6 DEF CursorRemove, CursorSetup, CursorWrite, Begin, Quiet
<1>7. ASSUME NEW f \in Files, NEW e \in Events, EditHooks(f, e) PROVE Call
  BY <1>1, <1>7 DEF EditHooks, Begin, Quiet
<1> QED
  BY <1>2, <1>3, <1>4, <1>5, <1>6, <1>7

\* An operation that begins.
Beginning(c, kind, p, v, r) ==
  /\ launch' = NoLaunch /\ Alone /\ hooks' = hooks
  /\ entry' \in [{"codex", "claude"} -> [Roots -> Entries]]
  /\ p \in Profiles /\ v \in {"codex", "claude"} /\ r \in Roots
  /\ Began(c, kind, p, v, r)
  /\ \/ c = "entry" /\ kind = "reconnect" /\ entry' = entry
     \/ c = "entry" /\ kind = "setup" /\ entry' = entry /\ Adopts(p, v, r)
     \/ c = "install" /\ kind = "setup" /\ entry'[v][r] = Cmd(p)
     \/ c = "unhook" /\ kind = "remove"

LEMMA BeginningKeeps ==
  ASSUME IntInv, HookStep, NEW c, NEW kind, NEW p, NEW v, NEW r, Beginning(c, kind, p, v, r)
  PROVE  IntInv'
<1>0. IntegrationsTyped /\ Owned /\ Halfway
  BY DEF IntInv
<1>1. /\ op' \in Ops /\ op'.pc = c /\ op'.kind = kind /\ op'.p = p /\ op'.v = v /\ op'.r = r /\ op'.entry = entry[v][r]
  BY DEF Beginning, Began
<1>2. launch' = NoLaunch /\ launch'.p = "none" /\ launch'.at = 0 /\ launch' \in Launches
  BY Nothing DEF Beginning
<1>3. p \in Profiles /\ v \in {"codex", "claude"} /\ r \in Roots /\ Alone /\ hooks' = hooks
  BY DEF Beginning
<1>4. \/ c = "entry" /\ kind = "reconnect" /\ entry' = entry
      \/ c = "entry" /\ kind = "setup" /\ entry' = entry /\ Adopts(p, v, r)
      \/ c = "install" /\ kind = "setup" /\ entry'[v][r] = Cmd(p)
      \/ c = "unhook" /\ kind = "remove"
  BY DEF Beginning
<1>5. IntegrationsTyped'
  BY <1>0, <1>1, <1>2, <1>3 DEF IntegrationsTyped, Beginning, Alone, Files
<1>6. Owned'
  BY <1>0, OwnedStep
<1>7. OpOK'
  BY <1>1, <1>3, <1>4 DEF OpOK
<1>8. Me' = Cmd(p) /\ File' = FileOf(v, r) /\ \A d : OthersOf(op.p, d)' <=> OthersOf(p, d)
  <2>1. Me' = Cmd(p) /\ File' = FileOf(v, r)
    BY <1>1, <1>3 DEF Me, File, Cmd, FileOf, Alone
  <2>2. \A d : OthersOf(op.p, d)' <=> OthersOf(p, d)
    BY <1>1, <1>3 DEF OthersOf, Live, Alone
  <2> QED
    BY <2>1, <2>2
<1>9. Halfway'
  BY <1>1, <1>4, <1>8 DEF Halfway
<1>10. Leftover'
  <2> SUFFICES ASSUME op'.kind \in {"setup", "repair"}, op'.pc \in {"entry", "hooks"}
               PROVE  /\ ~OthersOf(op.p, op.entry)'
                      /\ op'.entry \in {None, Me'} => \A d \in Commands(hooks'[File']) : ~OthersOf(op.p, d)'
    BY DEF Leftover
  <2>1. Adopts(p, v, r)
    BY <1>1, <1>4
  <2>2. /\ ~OthersOf(p, entry[v][r])
        /\ entry[v][r] \in {None, Cmd(p)} => \A d \in Commands(hooks[FileOf(v, r)]) : ~OthersOf(p, d)
    BY <1>0, <1>3, <2>1, AdoptsNobody
  <2>3. ~OthersOf(op.p, op.entry)'
    BY <1>1, <1>3, <2>2 DEF OthersOf, Live, Alone
  <2> QED
    BY <1>1, <1>3, <1>8, <2>2, <2>3
<1>11. 0 <= Steps
  <2>1. Len(RootOrder) \in Nat /\ Len(Vendors) = 3
    BY IntegrationsAssumption DEF Vendors
  <2> QED
    BY <2>1 DEF Steps
<1>12. PassOK' /\ Progress'
  BY <1>1, <1>2, <1>4, <1>11 DEF PassOK, Progress, Steps
<1> QED
  BY <1>5, <1>6, <1>7, <1>9, <1>10, <1>12 DEF IntInv

LEMMA Beginnings ==
  ASSUME IntegrationsTyped, NEW p \in Profiles, NEW v \in {"codex", "claude"}, NEW r \in Roots
  PROVE  /\ SetupAdopts(p, v, r) => Beginning("entry", "setup", p, v, r)
         /\ Reconnect(p, v, r) => Beginning("entry", "reconnect", p, v, r)
         /\ SetupEntry(p, v, r) => Beginning("install", "setup", p, v, r)
         /\ RemoveClaude(p, r) => Beginning("unhook", "remove", p, "claude", r)
<1>0. entry \in [{"codex", "claude"} -> [Roots -> Entries]] /\ Cmd(p) \in Entries /\ None \in Entries
  BY CmdTyped DEF IntegrationsTyped, Entries
<1>1. \A u \in {"codex", "claude"}, c \in {"entry", "install", "unhook"}, k \in {"setup", "reconnect", "remove"} :
        Do(c, k, p, u, r) => Began(c, k, p, u, r)
  BY DoTyped DEF Pcs, Kinds
<1>3. ASSUME NEW u \in {"codex", "claude"}, NEW e \in {None, Cmd(p)}, WriteEntry(u, r, e)
      PROVE  entry' \in [{"codex", "claude"} -> [Roots -> Entries]] /\ entry'[u][r] = e
  BY <1>0, <1>3, EntrySet
<1>4. ASSUME SetupAdopts(p, v, r) PROVE Beginning("entry", "setup", p, v, r)
  BY <1>0, <1>1, <1>4 DEF SetupAdopts, Begin, Beginning, Alone
<1>5. ASSUME Reconnect(p, v, r) PROVE Beginning("entry", "reconnect", p, v, r)
  BY <1>0, <1>1, <1>5 DEF Reconnect, Begin, Beginning, Alone
<1>6. ASSUME SetupEntry(p, v, r) PROVE Beginning("install", "setup", p, v, r)
  BY <1>1, <1>3, <1>6 DEF SetupEntry, Begin, Beginning, Alone
<1>7. ASSUME RemoveClaude(p, r) PROVE Beginning("unhook", "remove", p, "claude", r)
  BY <1>1, <1>3, <1>7 DEF RemoveClaude, Begin, Beginning, Alone
<1> QED
  BY <1>4, <1>5, <1>6, <1>7

\* A launch begins its pass.
LEMMA LaunchKeeps ==
  ASSUME IntInv, HookStep, NEW p \in Profiles, Launch(p)
  PROVE  IntInv'
<1>0. IntegrationsTyped /\ Owned /\ OpOK /\ Halfway /\ "none" \notin Profiles
  BY IntegrationsAssumption DEF IntInv
<1>1. op = NoOp /\ op' = op /\ op'.pc = "idle" /\ op'.kind = "none" /\ hooks' = hooks /\ entry' = entry /\ Alone
  BY Nothing DEF Launch, Quiet, Alone
<1>2. launch' \in Launches /\ launch'.p = p /\ launch'.at = 0
  BY DEF Launch, Launches
<1>3. IntegrationsTyped'
  BY <1>0, <1>1, <1>2 DEF IntegrationsTyped, Alone, Files
<1>4. Owned'
  BY <1>0, OwnedStep
<1>5. OpOK' /\ Halfway' /\ Leftover'
  BY <1>1 DEF OpOK, Halfway, Leftover
<1>6. 0 <= Steps /\ Len(RootOrder) \in Nat
  <2>1. Len(RootOrder) \in Nat /\ Len(Vendors) = 3
    BY IntegrationsAssumption DEF Vendors
  <2> QED
    BY <2>1 DEF Steps
<1>7. PassOK'
  BY <1>0, <1>1, <1>2, <1>6 DEF PassOK, Steps
<1>8. Progress'
  BY <1>2, <1>6 DEF Progress, Due
<1> QED
  BY <1>3, <1>4, <1>5, <1>7, <1>8 DEF IntInv

\* What is adopted stays adopted while the pass works elsewhere, or moves the
\* hooks that repositories share to the profile's command.
LEMMA AdoptedKept ==
  ASSUME Alone, NEW p, NEW v, NEW r, Adopted(p, v, r), entry'[v][r] = entry[v][r],
         \/ hooks'[FileOf(v, r)] = hooks[FileOf(v, r)]
         \/ /\ Commands(hooks'[FileOf(v, r)]) \subseteq {Cmd(p)}
            /\ Commands(hooks[FileOf(v, r)]) # {} => Cmd(p) \in Commands(hooks'[FileOf(v, r)])
  PROVE  Adopted(p, v, r)'
<1>1. PICK f : f = FileOf(v, r)
  OBVIOUS
<1>2. Cmd(p)' = Cmd(p) /\ f = FileOf(v, r)'
  BY <1>1 DEF Alone, Cmd, FileOf
<1>3. /\ Cmd(p) \in Commands(hooks[f]) => Cmd(p) \in Commands(hooks'[f])
      /\ \A c \in Commands(hooks'[f]) : c \in Commands(hooks[f]) \/ c = Cmd(p)
  BY <1>1
<1> QED
  BY <1>1, <1>2, <1>3 DEF Adopted

LEMMA PassedKept ==
  ASSUME Alone, NEW v, NEW r, Adopted(launch.p, v, r), launch'.p = launch.p, entry'[v][r] = entry[v][r],
         \/ hooks'[FileOf(v, r)] = hooks[FileOf(v, r)]
         \/ /\ Commands(hooks'[FileOf(v, r)]) \subseteq {Cmd(launch.p)}
            /\ Commands(hooks[FileOf(v, r)]) # {} => Cmd(launch.p) \in Commands(hooks'[FileOf(v, r)])
  PROVE  Adopted(launch.p, v, r)'
<1>1. PICK q : q = launch.p
  OBVIOUS
<1>2. Adopted(q, v, r)
  BY <1>1
<1>3. Adopted(q, v, r)'
  BY <1>1, <1>2, AdoptedKept
<1>4. q = launch'.p
  BY <1>1
<1> QED
  BY <1>3, <1>4 DEF Adopted, Cmd

\* The step at which the pass comes past a vendor in the i-th repository.
LEMMA DueAt ==
  ASSUME IntegrationsTyped, launch.at < Steps, NEW u \in {"codex", "claude"}, NEW i \in 1..Len(RootOrder), Due(u, i) = launch.at + 1
  PROVE  VendorAt = u /\ RootAt = RootOrder[i]
<1>1. launch.at \in Nat /\ Len(RootOrder) \in Nat
  BY IntegrationsAssumption DEF IntegrationsTyped, Launches
<1>2. Len(Vendors) = 3 /\ Vendors[1] = "codex" /\ Vendors[2] = "claude"
  BY DEF Vendors
<1>3. CASE u = "codex"
  <2>1. i \in Nat /\ launch.at = 3 * (i - 1)
    BY <1>1, <1>3 DEF Due
  <2>2. launch.at \div 3 = i - 1 /\ launch.at % 3 = 0
    BY <1>1, <2>1
  <2>3. (launch.at \div 3) + 1 = i /\ (launch.at % 3) + 1 = 1
    BY <2>1, <2>2
  <2> QED
    BY <1>2, <1>3, <2>3 DEF VendorAt, RootAt
<1>4. CASE u = "claude"
  <2>1. i \in Nat /\ launch.at = 3 * (i - 1) + 1
    BY <1>1, <1>4 DEF Due
  <2>2. launch.at \div 3 = i - 1 /\ launch.at % 3 = 1
    BY <1>1, <2>1
  <2>3. (launch.at \div 3) + 1 = i /\ (launch.at % 3) + 1 = 2
    BY <2>1, <2>2
  <2> QED
    BY <1>2, <1>4, <2>3 DEF VendorAt, RootAt
<1> QED
  BY <1>3, <1>4

\* One step of the pass.
LEMMA RepairKeeps ==
  ASSUME IntInv, HookStep, Repair
  PROVE  IntInv'
<1>0. IntegrationsTyped /\ Owned /\ OpOK /\ Halfway /\ PassOK /\ Progress
  BY DEF IntInv
<1>1. op = NoOp /\ op.pc = "idle" /\ op.kind = "none" /\ entry' = entry /\ Alone /\ launch.p # "none" /\ launch.at < Steps
  BY Nothing DEF Repair, Alone
<1>2. /\ launch.p \in Profiles /\ launch.at \in Nat /\ Steps \in Nat /\ Len(RootOrder) \in Nat
      /\ launch' \in Launches /\ launch'.p = launch.p /\ launch'.at = launch.at + 1 /\ launch'.clean = launch.clean
  <2>1. launch.p \in Profiles /\ launch.at \in Nat
    BY <1>0, <1>1 DEF IntegrationsTyped, Launches
  <2>2. Len(RootOrder) \in Nat /\ Len(Vendors) = 3
    BY IntegrationsAssumption DEF Vendors
  <2>3. launch' = [launch EXCEPT !.at = @ + 1]
    BY DEF Repair
  <2>4. launch' \in Launches /\ launch'.p = launch.p /\ launch'.at = launch.at + 1 /\ launch'.clean = launch.clean
    BY <1>0, <2>3 DEF IntegrationsTyped, Launches
  <2> QED
    BY <2>1, <2>2, <2>4 DEF Steps
<1>3. RootAt \in Roots /\ VendorAt \in {"codex", "claude", "cursor"}
  BY <1>0, <1>1, RootAtTyped
<1> DEFINE p == launch.p
           v == VendorAt
           r == RootAt
<1>30. \A u \in {"codex", "claude"}, q \in Roots : hooks'[FileOf(u, q)] = hooks[FileOf(u, q)]
  <2> SUFFICES ASSUME NEW u \in {"codex", "claude"}, NEW q \in Roots PROVE hooks'[FileOf(u, q)] = hooks[FileOf(u, q)]
    OBVIOUS
  <2>1. PICK f \in Files : f = FileOf(u, q) /\ f[1] = u
    BY FilesOf
  <2>2. f # <<"cursor", RootAt>>
    BY <2>1
  <2>3. hooks' = hooks \/ \E new : hooks' = [hooks EXCEPT ![<<"cursor", RootAt>>] = new]
    BY DEF Repair
  <2> QED
    BY <1>0, <2>1, <2>2, <2>3 DEF IntegrationsTyped
<1>4. \/ op' = NoOp /\ (v # "cursor" => ~Adopts(p, v, r))
      \/ v \in {"codex", "claude"} /\ hooks' = hooks /\ Adopts(p, v, r) /\ Began("entry", "repair", p, v, r)
  <2>1. CASE v \in {"codex", "claude"} /\ Adopts(p, v, r)
    <3>1. Do("entry", "repair", p, v, r) /\ hooks' = hooks
      BY <2>1 DEF Repair
    <3>2. Began("entry", "repair", p, v, r)
      BY <1>0, <1>2, <1>3, <2>1, <3>1, DoTyped DEF Pcs, Kinds
    <3> QED
      BY <2>1, <3>1, <3>2
  <2>2. CASE v \in {"codex", "claude"} /\ ~Adopts(p, v, r)
    BY <1>1, <2>2 DEF Repair
  <2>3. CASE v = "cursor"
    BY <1>1, <2>3 DEF Repair
  <2> QED
    BY <1>3, <2>1, <2>2, <2>3
<1>5. CASE op' = NoOp /\ (v # "cursor" => ~Adopts(p, v, r))
  <2>1. op'.pc = "idle" /\ op'.kind = "none" /\ op' \in Ops
    BY <1>5, Nothing
  <2>2. IntegrationsTyped'
    BY <1>0, <1>1, <1>2, <2>1 DEF IntegrationsTyped, HookStep, Alone, Files
  <2>3. OpOK' /\ Halfway' /\ Leftover'
    BY <1>5, <2>1 DEF OpOK, Halfway, Leftover
  <2>4. PassOK'
    BY <1>1, <1>2, <2>1 DEF PassOK, Steps
  <2>8. Progress'
    <3> SUFFICES ASSUME launch.clean = TRUE, NEW u \in {"codex", "claude"}, NEW i \in 1..Len(RootOrder), Due(u, i) <= launch.at + 1
                 PROVE  Adopted(launch.p, u, RootOrder[i])'
      BY <1>2 DEF Progress
    <3>1. RootOrder[i] \in Roots /\ Due(u, i) \in Int
      BY <1>2 DEF Roots, Due
    <3>2. Adopted(p, u, RootOrder[i])
      <4>1. CASE Due(u, i) = launch.at + 1
        <5>1. v = u /\ r = RootOrder[i]
          BY <1>0, <1>1, <4>1, DueAt
        <5>2. ~Adopts(p, u, RootOrder[i])
          BY <1>5, <5>1
        <5> QED
          BY <1>0, <1>2, <3>1, <5>2, NothingToAdopt
      <4>2. CASE Due(u, i) <= launch.at
        <5>1. ~Repairing(u, RootOrder[i])
          BY <1>1 DEF Repairing
        <5> QED
          BY <1>0, <1>1, <4>2, <5>1 DEF Progress
      <4> QED
        BY <1>2, <3>1, <4>1, <4>2
    <3> QED
      BY <1>1, <1>2, <1>30, <3>1, <3>2, PassedKept
  <2>9. Owned'
    BY <1>0, OwnedStep
  <2> QED
    BY <2>2, <2>3, <2>4, <2>8, <2>9 DEF IntInv
<1>6. CASE v \in {"codex", "claude"} /\ hooks' = hooks /\ Adopts(p, v, r) /\ Began("entry", "repair", p, v, r)
  <2>1. /\ op' \in Ops /\ op'.pc = "entry" /\ op'.kind = "repair" /\ op'.p = p /\ op'.v = v /\ op'.r = r /\ op'.entry = entry[v][r]
    BY <1>6 DEF Began
  <2> HIDE DEF v, r, p
  <2>00. r \in Roots /\ p \in Profiles /\ p = launch.p
    BY <1>2, <1>3 DEF r, p
  <2>2. IntegrationsTyped'
    BY <1>0, <1>1, <1>2, <2>1 DEF IntegrationsTyped, HookStep, Alone, Files
  <2>3. OpOK'
    BY <1>6, <2>00, <2>1 DEF OpOK
  <2>30. Halfway'
    BY <1>1, <2>1 DEF Halfway
  <2>31. Me' = Cmd(p) /\ File' = FileOf(v, r) /\ \A d : OthersOf(op.p, d)' <=> OthersOf(p, d)
    <3>1. Me' = Cmd(p) /\ File' = FileOf(v, r)
      BY <1>1, <2>1 DEF Me, File, Cmd, FileOf, Alone
    <3>2. \A d : OthersOf(op.p, d)' <=> OthersOf(p, d)
      BY <1>1, <2>1 DEF OthersOf, Live, Alone
    <3> QED
      BY <3>1, <3>2
  <2>32. Leftover'
    <3>2. /\ ~OthersOf(p, entry[v][r])
          /\ entry[v][r] \in {None, Cmd(p)} => \A d \in Commands(hooks[FileOf(v, r)]) : ~OthersOf(p, d)
      BY <1>0, <1>6, <2>00, AdoptsNobody
    <3>3. ~OthersOf(op.p, op.entry)'
      BY <1>1, <2>1, <3>2 DEF OthersOf, Live, Alone
    <3> QED
      BY <1>6, <2>1, <2>31, <3>2, <3>3 DEF Leftover
  <2>4. PassOK'
    BY <1>1, <1>2, <2>00, <2>1 DEF PassOK, Steps
  <2>8. Progress'
    <3> SUFFICES ASSUME launch.clean = TRUE, NEW u \in {"codex", "claude"}, NEW i \in 1..Len(RootOrder), Due(u, i) <= launch.at + 1
                 PROVE  Adopted(launch.p, u, RootOrder[i])' \/ Repairing(u, RootOrder[i])'
      BY <1>2 DEF Progress
    <3>1. RootOrder[i] \in Roots /\ Due(u, i) \in Int
      BY <1>2 DEF Roots, Due
    <3>2. CASE Due(u, i) = launch.at + 1
      <4>1. v = u /\ r = RootOrder[i]
        BY <1>0, <1>1, <3>2, DueAt DEF v, r
      <4> QED
        BY <2>1, <4>1 DEF Repairing
    <3>3. CASE Due(u, i) <= launch.at
      <4>1. ~Repairing(u, RootOrder[i])
        BY <1>1 DEF Repairing
      <4>2. Adopted(launch.p, u, RootOrder[i])
        BY <1>0, <1>1, <3>3, <4>1 DEF Progress
      <4>3. Adopted(launch.p, u, RootOrder[i])'
        BY <1>1, <1>2, <1>30, <3>1, <4>2, PassedKept
      <4> QED
        BY <4>3
    <3>4. Due(u, i) = launch.at + 1 \/ Due(u, i) <= launch.at
      BY <1>2, <3>1
    <3> QED
      BY <3>2, <3>3, <3>4
  <2>9. Owned'
    BY <1>0, OwnedStep
  <2> QED
    BY <2>2, <2>3, <2>30, <2>32, <2>4, <2>8, <2>9 DEF IntInv
<1> QED
  BY <1>4, <1>5, <1>6

\* A step of the operation in progress.
Moved ==
  \/ op' = NoOp
  \/ op.pc = "install" /\ (Went("allow") \/ Went("trust"))
  \/ op.pc = "entry" /\ Went("hooks")
  \/ op.pc = "hooks" /\ Went("trust")
  \/ op.pc \in {"trust", "pending"} /\ Went("pending")
  \/ op.pc = "unhook" /\ Went("disallow")

LEMMA OpKeeps ==
  ASSUME IntInv, HookStep, op.pc # "idle", Alone, Moved, launch' \in Launches, launch'.p = launch.p, launch'.at = launch.at,
         entry' \in [{"codex", "claude"} -> [Roots -> Entries]],
         op'.pc \in {"allow", "hooks"} => Halfway' /\ Leftover', Progress'
  PROVE  IntInv'
<1>0. IntegrationsTyped /\ Owned /\ OpOK /\ Halfway /\ PassOK
  BY DEF IntInv
<1>1. NoOp \in Ops /\ NoOp.pc = "idle" /\ NoOp.kind = "none"
  BY Nothing
<1>2. /\ op' \in Ops
      /\ op' = NoOp \/ (op'.kind = op.kind /\ op'.p = op.p /\ op'.v = op.v /\ op'.r = op.r /\ op'.entry = op.entry)
      /\ op' = NoOp \/ op'.pc \in {"allow", "trust", "hooks", "pending", "disallow"}
      /\ op'.pc = "hooks" => op.pc = "entry"
  BY <1>1 DEF Moved, Went
<1>3. OpOK'
  <2>1. op.p \in Profiles /\ op.v \in {"codex", "claude"} /\ op.r \in Roots
    BY <1>0 DEF OpOK
  <2>2. /\ op'.pc = "allow" => op.kind = "setup"
        /\ op'.pc \in {"hooks", "trust", "pending"} => op.kind \in {"setup", "reconnect", "repair"}
        /\ op'.pc = "disallow" => op.kind = "remove"
    BY <1>0, <1>1 DEF OpOK, Moved, Went
  <2> QED
    BY <1>1, <1>2, <2>1, <2>2 DEF OpOK
<1>4. IntegrationsTyped'
  BY <1>0, <1>2 DEF IntegrationsTyped, HookStep, Alone, Files
<1>5. Owned'
  BY <1>0, OwnedStep
<1>6. Halfway' /\ Leftover'
  <2>1. op'.pc \in {"idle", "allow", "trust", "hooks", "pending", "disallow"}
    BY <1>1, <1>2
  <2> QED
    BY <2>1 DEF Halfway, Leftover
<1>7. PassOK'
  <2>1. launch.p # "none" => op.kind = "repair" /\ op.p = launch.p
    BY <1>0 DEF PassOK
  <2> QED
    BY <1>0, <1>1, <1>2, <2>1 DEF PassOK, Steps
<1> QED
  BY <1>3, <1>4, <1>5, <1>6, <1>7 DEF IntInv

\* Outside the pass of a launch there is nothing to keep of it.
LEMMA OutsidePass ==
  ASSUME IntInv, op.pc # "idle", op.kind # "repair", launch'.p = launch.p
  PROVE  Progress'
BY DEF IntInv, PassOK, Progress

\* Setup and removal.
LEMMA SetupKeeps ==
  ASSUME IntInv, HookStep, SetupHooks \/ SetupTools \/ Unhook \/ Disallow \/ RemoveFails
  PROVE  IntInv'
<1>0. IntegrationsTyped /\ OpOK
  BY DEF IntInv
<1>1. NoOp.pc = "idle"
  BY Nothing
<1>2. /\ Alone /\ launch' = launch /\ entry' = entry /\ op.pc \in {"install", "allow", "unhook", "disallow"} /\ Moved
      /\ op'.pc = "allow" => /\ Went("allow") /\ op.pc = "install" /\ CanInstall(hooks[File], Me, EventsOf(op.v))
                             /\ hooks' = [hooks EXCEPT ![File] = Install(@, Me, EventsOf(op.v))]
  <2>1. CASE SetupHooks
    <3>1. /\ op.pc = "install" /\ Alone /\ launch' = launch /\ entry' = entry
          /\ \/ op' = NoOp \/ Went("trust")
             \/ /\ Went("allow") /\ CanInstall(hooks[File], Me, EventsOf(op.v))
                /\ hooks' = [hooks EXCEPT ![File] = Install(@, Me, EventsOf(op.v))]
      BY <1>0, <2>1, OpMoves
    <3>2. Went("trust") => op'.pc = "trust"
      BY DEF Went
    <3> QED
      BY <1>1, <3>1, <3>2 DEF Moved
  <2>2. CASE SetupTools \/ Unhook \/ Disallow \/ RemoveFails
    <3>1. /\ Alone /\ launch' = launch /\ entry' = entry
          /\ \/ op.pc \in {"allow", "unhook", "disallow"} /\ op' = NoOp
             \/ op.pc = "unhook" /\ Went("disallow")
      BY <1>0, <2>2, OpMoves
    <3>2. Went("disallow") => op'.pc = "disallow"
      BY DEF Went
    <3> QED
      BY <1>1, <3>1, <3>2 DEF Moved
  <2> QED
    BY <2>1, <2>2
<1>3. op.pc # "idle" /\ op.kind # "repair" /\ launch' \in Launches /\ entry' \in [{"codex", "claude"} -> [Roots -> Entries]]
  BY <1>0, <1>2 DEF OpOK, IntegrationsTyped
<1>4. op'.pc \notin {"entry", "hooks"}
  BY <1>1, <1>2 DEF Moved, Went
<1>5. Progress'
  BY <1>2, <1>3, OutsidePass
<1>6. ASSUME op'.pc = "allow" PROVE Halfway' /\ Leftover'
  <2>1. /\ op.p \in Profiles /\ File \in Files /\ hooks[File] \in HookFiles /\ Me \in CommandsOf
    BY <1>0, <1>3, InProgress
  <2>2. EventsOf(op.v) \in {Events, Events \cup {Retired}}
    BY DEF EventsOf
  <2>3. PICK new : new = Install(hooks[File], Me, EventsOf(op.v))
    OBVIOUS
  <2>40. Tended(hooks[File], new) /\ Commands(new) \subseteq {Me}
    BY <1>2, <1>6, <2>1, <2>2, <2>3, InstallFile
  <2>4. Commands(new) \subseteq {Me} /\ new \in HookFiles
    BY <2>40 DEF Tended
  <2>5. hooks' = [hooks EXCEPT ![File] = new]
    BY <1>2, <1>6, <2>3
  <2>6. hooks'[File] = new
    BY <1>0, <2>1, <2>4, <2>5, FileSet
  <2>7. Me' = Me /\ File' = File
    BY <1>2, <1>6 DEF Me, File, FileOf, Cmd, Alone, Went
  <2> QED
    BY <1>6, <2>4, <2>6, <2>7 DEF Halfway, Leftover
<1> QED
  BY <1>2, <1>3, <1>4, <1>5, <1>6, OpKeeps

\* The rebinding of an entry: what it takes is nobody's.
LEMMA RebindEntryKeeps ==
  ASSUME IntInv, HookStep, RebindEntry
  PROVE  IntInv'
<1>0. IntegrationsTyped /\ OpOK /\ Halfway /\ Leftover /\ Progress
  BY DEF IntInv
<1>1. /\ op.pc = "entry" /\ Alone /\ launch' = launch /\ hooks' = hooks /\ Went("hooks")
      /\ IF WritesEntry THEN WriteEntry(op.v, op.r, Me) ELSE entry' = entry
  BY <1>0, OpMoves
<1>2. /\ op.p \in Profiles /\ op.v \in {"codex", "claude"} /\ op.r \in Roots /\ Me = Cmd(op.p) /\ Me \in Entries
  BY <1>0, <1>1, InProgress DEF Entries
<1>3. /\ entry' \in [{"codex", "claude"} -> [Roots -> Entries]] /\ entry'[op.v][op.r] \in {Me, None}
      /\ \A u \in {"codex", "claude"}, q \in Roots : u # op.v \/ q # op.r => entry'[u][q] = entry[u][q]
  <2>1. CASE WritesEntry
    <3>1. WriteEntry(op.v, op.r, Me)
      BY <1>1, <2>1
    <3>2. /\ entry' \in [{"codex", "claude"} -> [Roots -> Entries]] /\ entry'[op.v][op.r] = Me
          /\ \A u \in {"codex", "claude"}, q \in Roots : <<u, q>> # <<op.v, op.r>> => entry'[u][q] = entry[u][q]
      BY <1>0, <1>2, <3>1, EntrySet
    <3> QED
      BY <3>2
  <2>2. CASE ~WritesEntry
    <3>1. entry' = entry /\ entry[op.v][op.r] \in {Me, None}
      BY <1>1, <2>2 DEF WritesEntry
    <3> QED
      BY <1>0, <3>1 DEF IntegrationsTyped
  <2> QED
    BY <2>1, <2>2
<1>4. op'.pc = "hooks" /\ op'.kind = op.kind /\ op'.p = op.p /\ op'.v = op.v /\ op'.r = op.r /\ op'.entry = op.entry
  BY <1>1 DEF Went
<1>5. Me' = Me /\ File' = File /\ (\A d : OthersOf(op.p, d)' <=> OthersOf(op.p, d)) /\ (OthersOf(op.p, op.entry)' <=> OthersOf(op.p, op.entry))
  <2>1. Me' = Me /\ File' = File
    BY <1>1, <1>4 DEF Me, File, Cmd, FileOf, Alone
  <2>2. \A d : OthersOf(op.p, d)' <=> OthersOf(op.p, d)
    BY <1>1, <1>4 DEF OthersOf, Live, Alone
  <2>3. OthersOf(op.p, op.entry)' <=> OthersOf(op.p, op.entry)
    BY <1>1, <1>4 DEF OthersOf, Live, Alone
  <2> QED
    BY <2>1, <2>2, <2>3
<1>6. Halfway' /\ Leftover'
  <2>1. Halfway'
    BY <1>3, <1>4, <1>5 DEF Halfway
  <2>2. Leftover'
    BY <1>0, <1>1, <1>4, <1>5 DEF Leftover
  <2> QED
    BY <2>1, <2>2
<1>7. Progress'
  <2> SUFFICES ASSUME launch.p # "none", launch.clean = TRUE, NEW u \in {"codex", "claude"}, NEW i \in 1..Len(RootOrder),
                      Due(u, i) <= launch.at, ~Repairing(u, RootOrder[i])'
               PROVE  Adopted(launch.p, u, RootOrder[i])'
    BY <1>1 DEF Progress
  <2>1. RootOrder[i] \in Roots
    BY DEF Roots
  <2>2. op.v # u \/ op.r # RootOrder[i]
    BY <1>4 DEF Repairing
  <2>3. Adopted(launch.p, u, RootOrder[i])
    BY <1>0, <2>2 DEF Progress, Repairing
  <2>4. entry'[u][RootOrder[i]] = entry[u][RootOrder[i]]
    BY <1>3, <2>1, <2>2
  <2> QED
    BY <1>1, <2>3, <2>4, PassedKept
<1>8. Moved /\ launch' \in Launches
  BY <1>0, <1>1 DEF Moved, IntegrationsTyped
<1> QED
  BY <1>1, <1>3, <1>6, <1>7, <1>8, OpKeeps

\* The rebinding of the hooks: nothing of the profile's own is left behind.
LEMMA RebindHooksKeeps ==
  ASSUME IntInv, HookStep, RebindHooks
  PROVE  IntInv'
<1>0. IntegrationsTyped /\ OpOK /\ Halfway /\ Progress /\ PassOK /\ Owned /\ "none" \notin Profiles
  BY IntegrationsAssumption DEF IntInv
<1>1. /\ op.pc = "hooks" /\ Alone /\ launch' = launch /\ entry' = entry /\ (op' = NoOp \/ Went("trust"))
      /\ hooks' = IF WritesHooks THEN [hooks EXCEPT ![File] = Rebind(@, Me)] ELSE hooks
  BY <1>0, OpMoves
<1>2. /\ op.p \in Profiles /\ op.v \in {"codex", "claude"} /\ op.r \in Roots /\ Me = Cmd(op.p) /\ Me \in CommandsOf
      /\ File \in Files /\ hooks[File] \in HookFiles /\ (op.v = "claude" => File = <<"claude", op.r>>)
  BY <1>0, <1>1, InProgress
<1>3. /\ entry' \in [{"codex", "claude"} -> [Roots -> Entries]]
      /\ op'.pc \notin {"allow", "entry", "hooks"} /\ Moved /\ launch' \in Launches
  BY <1>0, <1>1, Nothing DEF IntegrationsTyped, Moved, Went
<1>4. ASSUME op.kind = "repair"
      PROVE  /\ Commands(hooks'[File]) \subseteq {Me} /\ (Commands(hooks[File]) # {} => Me \in Commands(hooks'[File]))
             /\ \A f \in Files : f # File => hooks'[f] = hooks[f]
  <2>1. CASE WritesHooks
    <3>1. PICK new : new = Rebind(hooks[File], Me)
      OBVIOUS
    <3>2. Tended(hooks[File], new) /\ Commands(new) \subseteq {Me} /\ (Commands(hooks[File]) # {} => Me \in Commands(new))
      BY <1>2, <3>1, RebindFile
    <3>3. new \in HookFiles
      BY <3>2 DEF Tended
    <3>4. hooks' = [hooks EXCEPT ![File] = new]
      BY <1>1, <2>1, <3>1
    <3>5. hooks'[File] = new /\ \A f \in Files : f # File => hooks'[f] = hooks[f]
      BY <1>0, <1>2, <3>3, <3>4, FileSet
    <3> QED
      BY <3>2, <3>5
  <2>2. CASE ~WritesHooks
    <3>1. Inspect(hooks[File], Me) = "not_configured" /\ hooks' = hooks
      BY <1>1, <2>2 DEF WritesHooks
    <3>2. Commands(hooks[File]) = {}
      BY <1>0, <1>2, <3>1, InspectOwned
    <3> QED
      BY <3>1, <3>2
  <2> QED
    BY <2>1, <2>2
<1>5. Progress'
  <2> SUFFICES ASSUME launch.p # "none", launch.clean = TRUE, NEW u \in {"codex", "claude"}, NEW i \in 1..Len(RootOrder), Due(u, i) <= launch.at
               PROVE  Adopted(launch.p, u, RootOrder[i])'
    BY <1>1 DEF Progress
  <2>0. op.kind = "repair" /\ op.p = launch.p /\ Me = Cmd(launch.p)
    BY <1>0, <1>1, <1>2 DEF PassOK
  <2>1. RootOrder[i] \in Roots
    BY DEF Roots
  <2>2. CASE op.v # u \/ op.r # RootOrder[i]
    <3>1. Adopted(launch.p, u, RootOrder[i])
      BY <1>0, <2>2 DEF Progress, Repairing
    <3>2. PICK f \in Files : f = FileOf(u, RootOrder[i])
      BY <2>1, FilesOf
    <3>3. \/ hooks'[f] = hooks[f]
          \/ /\ Commands(hooks'[f]) \subseteq {Cmd(launch.p)}
             /\ Commands(hooks[f]) # {} => Cmd(launch.p) \in Commands(hooks'[f])
      BY <1>4, <2>0
    <3> QED
      BY <1>1, <3>1, <3>2, <3>3, PassedKept
  <2>3. CASE op.v = u /\ op.r = RootOrder[i]
    <3>1. File = FileOf(u, RootOrder[i]) /\ Commands(hooks'[File]) \subseteq {Me}
      BY <1>4, <2>0, <2>3 DEF File
    <3>2. entry'[u][RootOrder[i]] \in {Me, None}
      BY <1>0, <1>1, <2>3 DEF Halfway
    <3>3. Cmd(launch.p)' = Me /\ FileOf(u, RootOrder[i])' = File
      BY <1>1, <1>2, <2>0, <3>1 DEF Cmd, Alone, FileOf
    <3>4. launch'.p = launch.p /\ None.profile # launch.p
      BY <1>0, <1>1, <1>2, <2>0 DEF None
    <3> QED
      BY <3>1, <3>2, <3>3, <3>4 DEF Adopted
  <2> QED
    BY <2>2, <2>3
<1> QED
  BY <1>1, <1>3, <1>5, OpKeeps

\* A write that fails, and the trust of Codex.
LEMMA RebindFailsKeeps ==
  ASSUME IntInv, HookStep, RebindFails
  PROVE  IntInv'
<1>0. IntegrationsTyped /\ OpOK
  BY DEF IntInv
<1>1. /\ op.pc \in {"entry", "hooks"} /\ Alone /\ hooks' = hooks /\ op' = NoOp
      /\ launch' = [launch EXCEPT !.clean = FALSE]
      /\ WriteEntry(op.v, op.r, op.entry) \/ entry' = entry
  BY <1>0, OpMoves
<1>2. op.v \in {"codex", "claude"} /\ op.r \in Roots /\ op.entry \in Entries
  BY <1>0, <1>1 DEF OpOK, IntegrationsTyped, Ops
<1>3. entry' \in [{"codex", "claude"} -> [Roots -> Entries]]
  BY <1>0, <1>1, <1>2, EntrySet DEF IntegrationsTyped
<1>4. launch' \in Launches /\ launch'.p = launch.p /\ launch'.at = launch.at /\ launch'.clean = FALSE
  BY <1>0, <1>1 DEF IntegrationsTyped, Launches
<1>5. Progress'
  BY <1>4 DEF Progress
<1>6. op'.pc = "idle" /\ Moved
  BY <1>1, Nothing DEF Moved
<1> QED
  BY <1>1, <1>3, <1>4, <1>5, <1>6, OpKeeps

LEMMA TrustKeeps ==
  ASSUME IntInv, HookStep, TrustUnasked \/ TrustAsked \/ TrustWritten \/ TrustAppended
  PROVE  IntInv'
<1>0. IntegrationsTyped /\ OpOK /\ Progress
  BY DEF IntInv
<1>1. /\ op.pc \in {"trust", "pending"} /\ Alone /\ launch' = launch /\ entry' = entry /\ hooks' = hooks
      /\ op' = NoOp \/ Went("pending")
  BY <1>0, OpMoves
<1>2. /\ entry' \in [{"codex", "claude"} -> [Roots -> Entries]]
      /\ op'.pc \notin {"allow", "entry", "hooks"} /\ Moved /\ launch' \in Launches
  BY <1>0, <1>1, Nothing DEF IntegrationsTyped, Moved, Went
<1>3. Progress'
  <2> SUFFICES ASSUME launch.p # "none", launch.clean = TRUE, NEW u \in {"codex", "claude"}, NEW i \in 1..Len(RootOrder), Due(u, i) <= launch.at
               PROVE  Adopted(launch.p, u, RootOrder[i])'
    BY <1>1 DEF Progress
  <2>1. Adopted(launch.p, u, RootOrder[i])
    BY <1>0, <1>1 DEF Progress, Repairing
  <2> QED
    BY <1>1, <2>1, PassedKept
<1> QED
  BY <1>1, <1>2, <1>3, OpKeeps

LEMMA Inductive ==
  ASSUME IntInv, [Next]_vars
  PROVE  IntInv'
<1>0. IntegrationsTyped /\ OpOK
  BY DEF IntInv
<1>1. CASE Next
  <2>0. HookStep
    BY <1>0, <1>1, HookSteps
  <2>1. CASE SetupHooks \/ SetupTools \/ Unhook \/ Disallow \/ RemoveFails
    BY <2>0, <2>1, SetupKeeps
  <2>2. CASE RebindHooks
    BY <2>0, <2>2, RebindHooksKeeps
  <2>3. CASE RebindEntry
    BY <2>0, <2>3, RebindEntryKeeps
  <2>4. CASE RebindFails
    BY <2>0, <2>4, RebindFailsKeeps
  <2>5. CASE TrustUnasked \/ TrustAsked \/ TrustWritten \/ TrustAppended
    BY <2>0, <2>5, TrustKeeps
  <2>6. CASE Repair
    BY <2>0, <2>6, RepairKeeps
  <2>7. CASE \/ Crash
             \/ \E p \in Profiles :
                  \/ MoveExecutable(p) \/ RemoveHooks(p)
                  \/ \E s \in {"absent", "bare", "enrolled"} : ChangeProfile(p, s)
                  \/ \E r \in Roots : \/ RemoveCodex(p, r) \/ CursorRemove(p, r)
                                      \/ \E again \in BOOLEAN : CursorSetup(p, r, again)
             \/ \E f \in Files, e \in Events : EditHooks(f, e)
    <3>1. Call
      BY <1>0, <2>7, Calls
    <3> QED
      BY <2>0, <3>1, CallKeeps
  <2>8. CASE \E p \in Profiles : Launch(p)
    BY <2>0, <2>8, LaunchKeeps
  <2>9. ASSUME NEW p \in Profiles, NEW r \in Roots, NEW v \in {"codex", "claude"},
               SetupAdopts(p, v, r) \/ SetupEntry(p, v, r) \/ Reconnect(p, v, r)
        PROVE  IntInv'
    <3>1. \E c, kind : Beginning(c, kind, p, v, r)
      BY <1>0, <2>9, Beginnings
    <3> QED
      BY <2>0, <3>1, BeginningKeeps
  <2>10. ASSUME NEW p \in Profiles, NEW r \in Roots, RemoveClaude(p, r) PROVE IntInv'
    <3>1. \E v : v \in {"codex", "claude"}
      OBVIOUS
    <3>2. Beginning("unhook", "remove", p, "claude", r)
      BY <1>0, <2>10, <3>1, Beginnings
    <3> QED
      BY <2>0, <3>2, BeginningKeeps
  <2>11. CASE Elsewhere
    BY <2>3, <2>4, <2>5, <2>1, <2>7, <2>8, <2>9, <2>10, <2>11 DEF Elsewhere
  <2> QED
    BY <1>1, <2>1, <2>2, <2>6, <2>7, <2>11, Steppings
<1>2. CASE UNCHANGED vars
  <2>1. entry' = entry /\ hooks' = hooks /\ exe' = exe /\ gone' = gone /\ profile' = profile /\ op' = op /\ launch' = launch
    BY <1>2 DEF vars
  <2>2. IntegrationsTyped' /\ Owned' /\ OpOK' /\ PassOK'
    BY <2>1 DEF IntInv, IntegrationsTyped, Owned, OpOK, PassOK, Files, Steps
  <2>3. Halfway' /\ Leftover'
    BY <2>1 DEF IntInv, Halfway, Leftover, File, FileOf, Me, Cmd, OthersOf, Live
  <2>4. Progress'
    BY <2>1 DEF IntInv, Progress, Adopted, Repairing, Cmd, FileOf
  <2> QED
    BY <2>2, <2>3, <2>4 DEF IntInv
<1> QED
  BY <1>1, <1>2

\* What an older build left of Codex is at an event of its own.
LEMMA InitFiles ==
  ASSUME Init
  PROVE  hooks \in [Files -> HookFiles] /\ \A f \in Files : Commands(hooks[f]) = {}
<1>1. PICK left \in {{}} \cup {{{Expected([profile |-> p, exe |-> 1])}} : p \in Profiles} :
        hooks = [f \in Files |-> IF f = <<"codex", "user">> THEN [EmptyFile EXCEPT !.hooks[Retired] = left] ELSE EmptyFile]
  BY DEF Init
<1>2. left \in Groups
  <2>1. \A p \in Profiles : [profile |-> p, exe |-> 1] \in CommandsOf
    BY DEF CommandsOf
  <2>2. \A p \in Profiles : Expected([profile |-> p, exe |-> 1]) \in Handlers
    BY <2>1, ExpectedTyped
  <2>3. \A h \in Handlers : {{h}} \in Groups
    BY DEF Groups
  <2>4. ASSUME left # {} PROVE \E h \in Handlers : left = {{h}}
    BY <2>2, <2>4
  <2>5. {} \in Groups
    BY DEF Groups
  <2> QED
    BY <2>3, <2>4, <2>5
<1>3. EmptyFile \in HookFiles /\ \A e \in Events : EmptyFile.hooks[e] = {}
  BY DEF EmptyFile, HookFiles, Groups
<1>4. PICK bare \in HookFiles : bare = EmptyFile
  BY <1>3
<1>5. PICK some : some = [bare EXCEPT !.hooks[Retired] = left]
  OBVIOUS
<1>6. some \in HookFiles /\ \A e \in Events : some.hooks[e] = bare.hooks[e]
  <2>1. PICK u \in [Events \cup {Retired} -> Groups] : u = [bare.hooks EXCEPT ![Retired] = left]
    BY <1>2 DEF HookFiles
  <2>2. some = [bare EXCEPT !.hooks = u]
    BY <1>5, <2>1 DEF HookFiles
  <2>3. [bare EXCEPT !.hooks = u] \in HookFiles /\ [bare EXCEPT !.hooks = u].hooks = u
    BY DEF HookFiles
  <2>4. \A e \in Events : u[e] = bare.hooks[e]
    BY <2>1, HookFileAssumption DEF HookFiles
  <2> QED
    BY <2>2, <2>3, <2>4
<1>7. \A f \in Files : hooks[f] \in {some, bare}
  BY <1>1, <1>4, <1>5
<1>8. hooks \in [Files -> HookFiles]
  <2>1. DOMAIN hooks = Files /\ hooks = [f \in Files |-> hooks[f]]
    BY <1>1
  <2> QED
    BY <1>6, <1>7, <2>1
<1>9. ASSUME NEW f \in Files, NEW c \in Commands(hooks[f]) PROVE FALSE
  <2>1. PICK e \in Events : \E g \in hooks[f].hooks[e] : \E h \in g : h \notin {Theirs, Rich} /\ h.cmd = c
    BY <1>9, InCommands
  <2> QED
    BY <1>3, <1>4, <1>6, <1>7, <2>1
<1> QED
  BY <1>8, <1>9

LEMMA Initially ==
  ASSUME Init
  PROVE  IntInv
<1>0. hooks \in [Files -> HookFiles] /\ \A f \in Files : Commands(hooks[f]) = {}
  BY InitFiles
<1>1. /\ op = NoOp /\ op \in Ops /\ op.pc = "idle" /\ op.kind = "none"
      /\ launch = NoLaunch /\ launch \in Launches /\ launch.p = "none" /\ launch.at = 0
  BY Nothing DEF Init
<1>2. /\ entry \in [{"codex", "claude"} -> [Roots -> Entries]] /\ \A v \in {"codex", "claude"}, r \in Roots : entry[v][r] = None
      /\ exe \in [Profiles -> Nat \ {0}] /\ gone \subseteq CommandsOf
  BY DEF Init, Entries
<1>4. 0 <= Steps
  <2>1. Len(RootOrder) \in Nat /\ Len(Vendors) = 3
    BY IntegrationsAssumption DEF Vendors
  <2> QED
    BY <2>1 DEF Steps
<1>5. IntegrationsTyped /\ Owned /\ OpOK
  BY <1>0, <1>1, <1>2 DEF IntegrationsTyped, Owned, OpOK
<1>6. Halfway /\ Leftover /\ PassOK /\ Progress
  BY <1>1, <1>4 DEF Halfway, Leftover, PassOK, Progress
<1> QED
  BY <1>5, <1>6 DEF IntInv

LEMMA Invariant == Spec => []IntInv
BY Initially, Inductive, PTL DEF Spec

-----------------------------------------------------------------------------
\* The theorems.

\* No sequence of setups, reconnects, repairs, removals, failures, crashes and
\* edits leaves the hooks of two owners in one file: the "conflicting managed
\* Overgent activity hooks" that every operation of hookconfig stops at.
THEOREM OneOwnerAlways == Spec => []OneOwnerPerFile
<1>1. IntInv => OneOwnerPerFile
  BY OneOwner DEF IntInv, OneOwnerPerFile
<1> QED
  BY <1>1, Invariant, PTL

\* Every write of a hook file keeps the hooks of the member's own, if not their
\* unknown fields; a removal keeps those in groups without a hook of Overgent's:
\* "preserving all unrelated settings and hooks".
THEOREM MembersKept == Spec => MemberHooksKept
<1>1. IntInv /\ [Next]_vars => [MemberStep]_vars
  BY HookSteps DEF IntInv
<1> QED
  BY <1>1, Invariant, PTL DEF Spec, MemberHooksKept, MemberStep

\* A launch whose every write succeeded has adopted what the profile left of
\* Codex and of Claude Code at another of its paths, in every registered
\* repository, but for an entry whose hooks are at the right path already and
\* hooks beside the entry of another profile.
THEOREM LeftoversAdopted == Spec => []OwnLeftoversAdopted
<1>1. IntInv => OwnLeftoversAdopted
  <2> SUFFICES ASSUME IntInv, Launched, launch.clean, op = NoOp, NEW v \in {"codex", "claude"}, NEW r \in Roots
               PROVE  Adopted(launch.p, v, r)
    BY DEF OwnLeftoversAdopted, Adopted
  <2>0. launch.at = Steps /\ launch.clean = TRUE /\ op.pc = "idle" /\ PassOK /\ Progress
    BY Nothing DEF IntInv, Launched, IntegrationsTyped, Launches
  <2>1. Len(RootOrder) \in Nat /\ Len(Vendors) = 3
    BY IntegrationsAssumption DEF Vendors
  <2>2. Steps = 3 * Len(RootOrder)
    BY <2>1 DEF Steps
  <2>3. PICK i \in 1..Len(RootOrder) : r = RootOrder[i]
    BY IntegrationsAssumption DEF Roots
  <2>4. launch.p # "none"
    BY <2>0, <2>1, <2>2 DEF PassOK
  <2>5. Due(v, i) <= launch.at
    BY <2>0, <2>1, <2>2 DEF Due
  <2>6. ~Repairing(v, r)
    BY <2>0 DEF Repairing
  <2> QED
    BY <2>0, <2>3, <2>4, <2>5, <2>6 DEF Progress
<1> QED
  BY <1>1, Invariant, PTL

\* A hook file of Cursor that a launch rebinds is nobody's.
LEMMA CursorNobody ==
  ASSUME Owned, NEW p, NEW r \in Roots, CursorAdopts(p, r), NEW c \in Commands(hooks[<<"cursor", r>>])
  PROVE  ~OthersOf(p, c)
<1>0. <<"cursor", r>> \in Files
  BY DEF Files
<1>1. Commands(hooks[<<"cursor", r>>]) = {c}
  BY <1>0, OneOwner
<1>2. PICK q \in {d.profile : d \in Commands(hooks[<<"cursor", r>>])} :
        LET own == {d \in Commands(hooks[<<"cursor", r>>]) : d.profile = q}
        IN Abandoned(p, IF Cardinality(own) = 1 THEN CHOOSE d \in own : TRUE ELSE [profile |-> q, exe |-> 0])
  BY DEF CursorAdopts
<1>3. PICK own : own = {d \in Commands(hooks[<<"cursor", r>>]) : d.profile = q}
  OBVIOUS
<1>4. own = {c}
  BY <1>1, <1>2, <1>3
<1>5. Cardinality(own) = 1 /\ (CHOOSE d \in own : TRUE) = c
  BY <1>4, FS_Singleton
<1>6. Abandoned(p, IF Cardinality(own) = 1 THEN CHOOSE d \in own : TRUE ELSE [profile |-> q, exe |-> 0])
  BY <1>2, <1>3
<1>7. Abandoned(p, c)
  BY <1>5, <1>6
<1> QED
  BY <1>7, AbandonedNobody

\* What a setup or a repair of p leaves alone.
Kept(p) ==
  /\ \A v \in {"codex", "claude"}, r \in Roots : OthersOf(p, entry[v][r]) => entry'[v][r] = entry[v][r]
  /\ \A f \in Files : \A c \in Commands(hooks[f]) :
       OthersOf(p, c) => \/ hooks'[f] = hooks[f]
                         \/ f = File /\ op.entry \notin {None, Cmd(p)} /\ ~OthersOf(p, op.entry)

LEMMA OpKept ==
  ASSUME IntInv, OpStep, op.kind \in {"setup", "repair"}
  PROVE  Kept(op.p)
<1>0. IntegrationsTyped /\ OpOK /\ Halfway /\ Leftover
  BY DEF IntInv
<1>1. op.pc # "idle"
  BY <1>0, Nothing DEF OpOK
<1>2. /\ op.p \in Profiles /\ op.v \in {"codex", "claude"} /\ op.r \in Roots /\ File \in Files /\ Me = Cmd(op.p) /\ Me.profile = op.p
  BY <1>0, <1>1, InProgress
<1>3. ~OthersOf(op.p, Me) /\ ~OthersOf(op.p, None)
  BY <1>2 DEF OthersOf, Live
<1>4. ASSUME entry' = entry, \A f \in Files : f # File => hooks'[f] = hooks[f],
             \/ hooks' = hooks
             \/ \A c \in Commands(hooks[File]) : ~OthersOf(op.p, c)
             \/ op.entry \notin {None, Me} /\ ~OthersOf(op.p, op.entry)
      PROVE  Kept(op.p)
  BY <1>2, <1>4 DEF Kept
<1>5. ASSUME entry' = entry, hooks' = hooks PROVE Kept(op.p)
  BY <1>4, <1>5
<1>6. ASSUME NEW new, hooks' = [hooks EXCEPT ![File] = new] PROVE \A f \in Files : f # File => hooks'[f] = hooks[f]
  BY <1>0, <1>6 DEF IntegrationsTyped
<1>7. CASE SetupHooks
  <2>1. /\ entry' = entry
        /\ \/ hooks' = hooks
           \/ /\ CanInstall(hooks[File], Me, EventsOf(op.v))
              /\ hooks' = [hooks EXCEPT ![File] = Install(@, Me, EventsOf(op.v))]
    BY <1>7 DEF SetupHooks
  <2>2. CASE hooks' = hooks
    BY <1>5, <2>1, <2>2
  <2>3. CASE /\ CanInstall(hooks[File], Me, EventsOf(op.v))
             /\ hooks' = [hooks EXCEPT ![File] = Install(@, Me, EventsOf(op.v))]
    <3>1. \A c \in Commands(hooks[File]) : c = Me
      <4>1. Events \subseteq EventsOf(op.v)
        BY DEF EventsOf
      <4> QED
        BY <2>3, <4>1 DEF CanInstall, Commands
    <3>2. \A f \in Files : f # File => hooks'[f] = hooks[f]
      BY <1>6, <2>3
    <3> QED
      BY <1>3, <1>4, <2>1, <3>1, <3>2
  <2> QED
    BY <2>1, <2>2, <2>3
<1>8. CASE SetupTools
  <2>1. op.pc = "allow" /\ entry' = entry /\ (hooks' = hooks \/ hooks' = [hooks EXCEPT ![File] = AllowTools(@)])
    BY <1>8 DEF SetupTools
  <2>2. \A c \in Commands(hooks[File]) : c = Me
    BY <1>0, <2>1 DEF Halfway
  <2>3. \A f \in Files : f # File => hooks'[f] = hooks[f]
    BY <1>6, <2>1
  <2> QED
    BY <1>3, <1>4, <2>1, <2>2, <2>3
<1>9. CASE TrustUnasked \/ TrustAsked \/ TrustWritten \/ TrustAppended \/ Crash
  <2>1. entry' = entry /\ hooks' = hooks
    BY <1>9 DEF TrustUnasked, TrustAsked, TrustWritten, TrustAppended, Crash
  <2> QED
    BY <1>5, <2>1
<1>10. CASE RebindHooks
  <2>1. op.pc = "hooks" /\ entry' = entry /\ (hooks' = hooks \/ hooks' = [hooks EXCEPT ![File] = Rebind(@, Me)])
    BY <1>10 DEF RebindHooks
  <2>2. ~OthersOf(op.p, op.entry) /\ (op.entry \in {None, Me} => \A c \in Commands(hooks[File]) : ~OthersOf(op.p, c))
    BY <1>0, <2>1 DEF Leftover
  <2>3. \A f \in Files : f # File => hooks'[f] = hooks[f]
    BY <1>6, <2>1
  <2> QED
    BY <1>4, <2>1, <2>2, <2>3
<1>11. CASE RebindEntry \/ RebindFails
  <2>1. hooks' = hooks /\ op.pc \in {"entry", "hooks"} /\ (entry' = entry \/ \E e \in Entries : WriteEntry(op.v, op.r, e))
    <3>1. Me \in Entries /\ op.entry \in Entries
      BY <1>0, <1>2, CmdTyped DEF Entries, IntegrationsTyped, Ops
    <3> QED
      BY <1>11, <3>1 DEF RebindEntry, RebindFails, Restore
  <2>2. ~OthersOf(op.p, entry[op.v][op.r])
    <3>1. ~OthersOf(op.p, op.entry)
      BY <1>0, <2>1 DEF Leftover
    <3>2. entry[op.v][op.r] \in {op.entry, Me, None}
      BY <1>0, <2>1 DEF Halfway
    <3> QED
      BY <1>3, <3>1, <3>2
  <2>3. \A v \in {"codex", "claude"}, r \in Roots : v # op.v \/ r # op.r => entry'[v][r] = entry[v][r]
    <3>1. CASE \E e \in Entries : WriteEntry(op.v, op.r, e)
      <4>1. \A v \in {"codex", "claude"}, r \in Roots : <<v, r>> # <<op.v, op.r>> => entry'[v][r] = entry[v][r]
        BY <1>0, <1>2, <3>1, EntrySet
      <4> QED
        BY <4>1
    <3> QED
      BY <2>1, <3>1
  <2>4. \A v \in {"codex", "claude"}, r \in Roots : OthersOf(op.p, entry[v][r]) => entry'[v][r] = entry[v][r]
    BY <2>2, <2>3
  <2> QED
    BY <2>1, <2>4 DEF Kept
<1>12. ~(Unhook \/ Disallow \/ RemoveFails)
  BY <1>0 DEF OpOK, Unhook, Disallow, RemoveFails
<1> QED
  BY <1>7, <1>8, <1>9, <1>10, <1>11, <1>12 DEF OpStep

LEMMA LiveStep ==
  ASSUME IntInv, Next, Sweeping \/ op.kind \in {"setup", "repair"}
  PROVE  Kept(IF Sweeping THEN launch.p ELSE op.p)
<1>0. IntegrationsTyped /\ OpOK /\ PassOK /\ Owned
  BY DEF IntInv
<1>1. CASE OpStep
  <2>1. op.pc # "idle"
    BY <1>0, <1>1, Nothing DEF OpOK, OpStep, SetupHooks, SetupTools, TrustUnasked, TrustAsked, TrustWritten, TrustAppended,
          RebindEntry, RebindHooks, RebindFails, Unhook, Disallow, RemoveFails, Crash
  <2>2. Sweeping => op.p = launch.p /\ op.kind = "repair"
    BY <1>0, <2>1 DEF PassOK, Sweeping
  <2>3. Kept(op.p)
    BY <1>1, <2>2, OpKept
  <2> QED
    BY <2>2, <2>3
<1>2. CASE Repair
  <2>1. op.entry = None /\ entry' = entry /\ launch.p \in Profiles /\ Sweeping /\ RootAt \in Roots
    BY <1>0, <1>2, Nothing, RootAtTyped DEF Repair, Sweeping, IntegrationsTyped, Launches
  <2>2. PICK r \in Roots : r = RootAt
    BY <2>1
  <2>3. PICK f \in Files : f = <<"cursor", r>>
    BY DEF Files
  <2>4. hooks' = hooks \/ (CursorAdopts(launch.p, r) /\ hooks' = [hooks EXCEPT ![f] = Rebind(@, Cmd(launch.p))])
    BY <1>2, <2>2, <2>3 DEF Repair
  <2>5. \/ hooks' = hooks
        \/ (\A c \in Commands(hooks[f]) : ~OthersOf(launch.p, c)) /\ (\A g \in Files : g # f => hooks'[g] = hooks[g])
    BY <1>0, <2>3, <2>4, CursorNobody DEF IntegrationsTyped
  <2>6. Kept(launch.p)
    BY <2>1, <2>5 DEF Kept
  <2> QED
    BY <2>1, <2>6
<1>3. CASE Quiet
  <2>1. op.kind = "none" /\ launch.at \in Nat
    BY <1>0, <1>3, Nothing DEF Quiet, IntegrationsTyped, Launches
  <2>2. ~Sweeping
    BY <1>3, <2>1 DEF Sweeping, Quiet, Launched
  <2> QED
    BY <2>1, <2>2
<1>4. OpStep \/ Repair \/ Quiet
  <2>1. CASE Elsewhere
    BY <2>1 DEF Elsewhere, OpStep, MoveExecutable, Launch, ChangeProfile, RemoveCodex, RemoveClaude, SetupAdopts, SetupEntry, Reconnect, Begin
  <2>2. CASE \E p \in Profiles : RemoveHooks(p)
    BY <2>2 DEF RemoveHooks, Begin
  <2>3. CASE \E p \in Profiles, r \in Roots : CursorRemove(p, r) \/ \E again \in BOOLEAN : CursorSetup(p, r, again)
    BY <2>3 DEF CursorRemove, CursorSetup, Begin
  <2>4. CASE \E f \in Files, e \in Events : EditHooks(f, e)
    BY <2>4 DEF EditHooks, Begin
  <2> QED
    BY <2>1, <2>2, <2>3, <2>4, Steppings DEF OpStep
<1> QED
  BY <1>1, <1>2, <1>3, <1>4

\* "Anything a live profile depends on still falls through to the explicit
\* refusal": whatever was cut short before, a setup or a repair does not take the
\* entry of another profile that is in use, nor its hooks unless the entry beside
\* them is a leftover.
THEOREM LiveKept == Spec => LiveBindingKept
<1>1. IntInv /\ [Next]_vars =>
        [Sweeping \/ op.kind \in {"setup", "repair"} =>
           /\ \A v \in {"codex", "claude"}, r \in Roots : Others(entry[v][r]) => entry'[v][r] = entry[v][r]
           /\ \A f \in Files : \A c \in Commands(hooks[f]) :
                Others(c) => \/ hooks'[f] = hooks[f]
                             \/ f = File /\ BesideLeftover]_vars
  <2> SUFFICES ASSUME IntInv, Next, Sweeping \/ op.kind \in {"setup", "repair"}
               PROVE  Kept(Actor)
    BY DEF Kept, Others, OthersOf, BesideLeftover
  <2> QED
    BY LiveStep DEF Actor
<1> QED
  BY <1>1, Invariant, PTL DEF Spec, LiveBindingKept
=============================================================================
