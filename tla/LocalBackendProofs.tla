------------------------- MODULE LocalBackendProofs -------------------------
(***************************************************************************)
(* What holds of the local backend for every number of ports, releases,    *)
(* attempts, restarts and starts: there is one supervisor; and as long as  *)
(* the service and a command do not work beside each other, there is one   *)
(* process on the database, an export is taken with none, and an Ensure    *)
(* that skips the push finds functions. And what the desktop application,  *)
(* which asks for that Ensure, tells its window of a backend's credential. *)
(***************************************************************************)
EXTENDS LocalBackend, Desktop, FiniteSetTheorems, TLAPS

Stages == {"idle", "check", "start", "spawned", "deploy", "pushed", "reset", "wiped", "export"}

States == [bin : Releases \cup {0}, port : Ports \cup {0}, pid : Nat, rev : Releases \cup {0}]

ManagerRecords ==
  [up : BOOLEAN, mem : States, command : Nat, adopted : Nat, stopped : BOOLEAN, watching : BOOLEAN,
   failures : Nat, moved : BOOLEAN, pc : Stages, by : Supervisors \cup {0}, try : 0..Attempts - 1,
   child : Nat, limited : BOOLEAN]

SupervisorRecords == [pc : {"none", "wait", "sleep", "ensure"}, pid : Nat]

ManagersTyped == mgr \in [Managers -> ManagerRecords]
SupervisorsTyped == sups \in [Supervisors -> SupervisorRecords]
DiskTyped == file \in States /\ db \in Releases \cup {0} /\ resetCut \in BOOLEAN
ProcsTyped == procs \subseteq [pid : Nat \ {0}, port : Ports, lost : BOOLEAN] /\ foreign \subseteq Ports

Typed ==
  /\ ManagersTyped /\ SupervisorsTyped /\ DiskTyped /\ ProcsTyped
  /\ spawned \in 0..MaxSpawns /\ events \in 0..MaxEvents

\* Pids are given out in order and never twice.
PidsFresh ==
  /\ file.pid <= spawned /\ \A p \in procs : p.pid <= spawned
  /\ \A m \in Managers : mgr[m].mem.pid <= spawned /\ mgr[m].command <= spawned
  /\ \A p, q \in procs : p.pid = q.pid => p = q

\* A manager whose process has ended has no state.
DownIsBlank == \A m \in Managers : ~mgr[m].up => mgr[m] = NoManager

\* Where an Ensure is that has begun.
Ensuring == {"check", "start", "spawned", "deploy", "pushed"}

\* The one supervisor, and the Ensure that it runs.
Watch ==
  /\ mgr[Command].by = 0 /\ mgr[Command].watching = FALSE
  /\ mgr[Service].by # 0 => mgr[Service].pc \in Ensuring
  /\ mgr[Service].by # 0 => mgr[Service].watching = TRUE /\ sups[mgr[Service].by].pc = "ensure"
  /\ mgr[Service].watching = TRUE => \E s \in Supervisors : /\ sups[s].pc # "none"
                                                            /\ \A t \in Supervisors : t # s => sups[t].pc = "none"
  /\ mgr[Service].watching = FALSE => \A s \in Supervisors : sups[s].pc = "none"

-----------------------------------------------------------------------------
\* Without overlap.

Alone == ~(mgr[Service].up = TRUE /\ mgr[Command].up = TRUE)

\* The stages in which the process on record may be alive.
Quiet == {"idle", "check", "deploy", "pushed"}

\* A manager's memory is what is on disk, but for the paths; the process that
\* it would end is the one on record, and a command past its stop has none.
Own(m) ==
  LET k == mgr[m]
  IN /\ k.mem.pid = file.pid /\ k.mem.port = file.port /\ k.mem.rev = file.rev
     /\ k.mem.bin # 0 /\ file.bin # 0
     /\ k.command \in {0, file.pid} /\ k.adopted \in {0, file.pid}
     /\ k.adopted # 0 => k.command = 0
     /\ k.pc \in {"reset", "wiped", "export"} => file.pid = 0

MemoryIsRecord == \A m \in Managers : mgr[m].up = TRUE => Own(m)

\* Where a process can be that is not lost: on record, or in the hands of the
\* manager that has just started it.
Held ==
  \A p \in Accounted :
    \/ p.pid = file.pid /\ \A m \in Managers : mgr[m].pc \in Quiet
    \/ \E m \in Managers : mgr[m].pc = "spawned" /\ mgr[m].child = p.pid

\* A recorded revision, or a push about to be recorded, means a database with
\* functions, but for a Reset that has not saved yet.
RevisionHolds ==
  /\ resetCut = FALSE /\ (\A m \in Managers : mgr[m].pc # "wiped") /\ file.rev # 0 => db # 0
  /\ \A m \in Managers : mgr[m].pc = "pushed" => db # 0

Records == Alone /\ MemoryIsRecord /\ Held /\ RevisionHolds

-----------------------------------------------------------------------------
\* Types.

\* The records of what is not there.
LEMMA BlankTypes ==
  NoState \in States /\ NoManager \in ManagerRecords /\ NoSupervisor \in SupervisorRecords
<1>1. NoState \in States
  BY DEF NoState, States
<1> QED
  BY <1>1, LocalBackendAssumption DEF NoManager, NoSupervisor, ManagerRecords, SupervisorRecords, Stages,
     Supervisors

\* The initial state has its types.
LEMMA InitTyped == Init => Typed
<1> SUFFICES ASSUME Init PROVE Typed
  OBVIOUS
<1>1. ManagersTyped /\ SupervisorsTyped
  BY BlankTypes DEF Init, ManagersTyped, SupervisorsTyped
<1>2. DiskTyped /\ ProcsTyped
  BY BlankTypes DEF Init, DiskTyped, ProcsTyped
<1> QED
  BY <1>1, <1>2, LocalBackendAssumption DEF Init, Typed

\* What the values are that the actions write.
LEMMA Written ==
  /\ \A pc \in {"idle", "check", "start", "spawned", "deploy", "pushed", "reset", "wiped", "export"} : pc \in Stages
  /\ 0 \in 0..Attempts - 1
BY LocalBackendAssumption DEF Stages

\* What a manager is after a step, in the fields that matter to more than that
\* step.
Became(m, pc, mem, command, adopted, child, by, watching) ==
  LET k == mgr'[m]
  IN /\ mgr' \in [Managers -> ManagerRecords]
     /\ k.up = mgr[m].up /\ k.pc = pc /\ k.mem = mem /\ k.command = command
     /\ k.adopted = adopted /\ k.child = child /\ k.by = by /\ k.watching = watching
     /\ \A n \in Managers : n # m => mgr'[n] = mgr[n]

\* A manager's record is exchanged for another one.
LEMMA SetBecame ==
  ASSUME ManagersTyped, NEW m \in Managers, NEW r \in ManagerRecords, Set(m, r), r.up = mgr[m].up
  PROVE  Became(m, r.pc, r.mem, r.command, r.adopted, r.child, r.by, r.watching)
BY DEF ManagersTyped, Set, Became

\* Each step of an Ensure, in these fields.
LEMMA EnsureBecomes ==
  ASSUME Typed, NEW m \in Managers
  PROVE  LET k == mgr[m]
         IN /\ Ensure(m) => Became(m, "check", k.mem, k.command, k.adopted, k.child, 0, k.watching)
            /\ Adopt(m) => Became(m, "deploy", k.mem, k.command, IF k.command = 0 THEN k.mem.pid ELSE k.adopted,
                                  k.child, k.by, k.watching)
            /\ Start(m) => Became(m, "start", k.mem, k.command, k.adopted, k.child, k.by, k.watching)
            /\ Spawn(m) => Became(m, "spawned", k.mem, k.command, k.adopted, spawned + 1, k.by, k.watching)
            /\ Push(m) => Became(m, "pushed", k.mem, k.command, k.adopted, k.child, k.by, k.watching)
            /\ Failed(m) => Became(m, "idle", k.mem, k.command, k.adopted, 0, 0, k.watching)
<1> DEFINE k == mgr[m]
<1>0. k \in ManagerRecords /\ ManagersTyped /\ k.mem.pid \in Nat /\ spawned + 1 \in Nat
  BY DEF Typed, ManagersTyped, ManagerRecords, States
<1>1. ASSUME Ensure(m) PROVE Became(m, "check", k.mem, k.command, k.adopted, k.child, 0, k.watching)
  <2> DEFINE r == [k EXCEPT !.pc = "check", !.by = 0, !.stopped = FALSE]
  <2>1. "check" \in Stages
    BY Written
  <2>2. /\ r \in ManagerRecords /\ r.up = k.up /\ r.pc = "check" /\ r.mem = k.mem /\ r.command = k.command
        /\ r.adopted = k.adopted /\ r.child = k.child /\ r.by = 0 /\ r.watching = k.watching
    BY <1>0, <2>1 DEF ManagerRecords
  <2>3. Set(m, r)
    BY <1>1 DEF Ensure
  <2> HIDE DEF r
  <2> QED
    BY <1>0, <2>2, <2>3, SetBecame
<1>2. ASSUME Adopt(m)
      PROVE  Became(m, "deploy", k.mem, k.command, IF k.command = 0 THEN k.mem.pid ELSE k.adopted, k.child, k.by,
                    k.watching)
  <2> DEFINE a == IF k.command = 0 THEN k.mem.pid ELSE k.adopted
             r == [k EXCEPT !.pc = "deploy", !.adopted = a]
  <2>1. "deploy" \in Stages /\ a \in Nat
    BY <1>0, Written DEF ManagerRecords
  <2>2. Set(m, r)
    BY <1>2 DEF Adopt
  <2> HIDE DEF a
  <2>3. /\ r \in ManagerRecords /\ r.up = k.up /\ r.pc = "deploy" /\ r.mem = k.mem /\ r.command = k.command
        /\ r.adopted = a /\ r.child = k.child /\ r.by = k.by /\ r.watching = k.watching
    BY <1>0, <2>1 DEF ManagerRecords
  <2> HIDE DEF r
  <2>4. Became(m, "deploy", k.mem, k.command, a, k.child, k.by, k.watching)
    BY <1>0, <2>2, <2>3, SetBecame
  <2> QED
    BY <2>4 DEF a
<1>3. ASSUME Start(m) PROVE Became(m, "start", k.mem, k.command, k.adopted, k.child, k.by, k.watching)
  <2> DEFINE r == [k EXCEPT !.pc = "start", !.try = 0]
  <2>1. "start" \in Stages /\ 0 \in 0..Attempts - 1
    BY Written
  <2>2. /\ r \in ManagerRecords /\ r.up = k.up /\ r.pc = "start" /\ r.mem = k.mem /\ r.command = k.command
        /\ r.adopted = k.adopted /\ r.child = k.child /\ r.by = k.by /\ r.watching = k.watching
    BY <1>0, <2>1 DEF ManagerRecords
  <2>3. Set(m, r)
    BY <1>3 DEF Start
  <2> HIDE DEF r
  <2> QED
    BY <1>0, <2>2, <2>3, SetBecame
<1>4. ASSUME Spawn(m) PROVE Became(m, "spawned", k.mem, k.command, k.adopted, spawned + 1, k.by, k.watching)
  <2> DEFINE r == [k EXCEPT !.pc = "spawned", !.child = spawned + 1]
  <2>1. "spawned" \in Stages
    BY Written
  <2>2. /\ r \in ManagerRecords /\ r.up = k.up /\ r.pc = "spawned" /\ r.mem = k.mem /\ r.command = k.command
        /\ r.adopted = k.adopted /\ r.child = spawned + 1 /\ r.by = k.by /\ r.watching = k.watching
    BY <1>0, <2>1 DEF ManagerRecords
  <2>3. Set(m, r)
    BY <1>4 DEF Spawn
  <2> HIDE DEF r
  <2> QED
    BY <1>0, <2>2, <2>3, SetBecame
<1>5. ASSUME Push(m) PROVE Became(m, "pushed", k.mem, k.command, k.adopted, k.child, k.by, k.watching)
  <2> DEFINE r == [k EXCEPT !.pc = "pushed"]
  <2>1. "pushed" \in Stages
    BY Written
  <2>2. /\ r \in ManagerRecords /\ r.up = k.up /\ r.pc = "pushed" /\ r.mem = k.mem /\ r.command = k.command
        /\ r.adopted = k.adopted /\ r.child = k.child /\ r.by = k.by /\ r.watching = k.watching
    BY <1>0, <2>1 DEF ManagerRecords
  <2>3. Set(m, r)
    BY <1>5 DEF Push
  <2> HIDE DEF r
  <2> QED
    BY <1>0, <2>2, <2>3, SetBecame
<1>6. ASSUME Failed(m) PROVE Became(m, "idle", k.mem, k.command, k.adopted, 0, 0, k.watching)
  <2> DEFINE r == [k EXCEPT !.pc = "idle", !.by = 0, !.try = 0, !.child = 0]
  <2>1. "idle" \in Stages /\ 0 \in 0..Attempts - 1
    BY Written
  <2>2. /\ r \in ManagerRecords /\ r.up = k.up /\ r.pc = "idle" /\ r.mem = k.mem /\ r.command = k.command
        /\ r.adopted = k.adopted /\ r.child = 0 /\ r.by = 0 /\ r.watching = k.watching
    BY <1>0, <2>1 DEF ManagerRecords
  <2>3. Set(m, r)
    BY <1>6 DEF Failed
  <2> HIDE DEF r
  <2> QED
    BY <1>0, <2>2, <2>3, SetBecame
<1> QED
  BY <1>1, <1>2, <1>3, <1>4, <1>5, <1>6

\* The other steps of a command, likewise.
LEMMA CommandBecomes ==
  ASSUME Typed, NEW m \in Managers
  PROVE  LET k == mgr[m]
         IN /\ \A next \in {"idle", "reset", "export"} : Stop(m, next) =>
                 Became(m, next, [file EXCEPT !.pid = 0], 0, IF k.command # 0 THEN k.adopted ELSE 0, k.child, k.by,
                        k.watching)
            /\ Wipe(m) => Became(m, "wiped", k.mem, k.command, k.adopted, k.child, k.by, k.watching)
            /\ ResetSave(m) => Became(m, "idle", [k.mem EXCEPT !.rev = 0, !.port = 0, !.pid = 0], k.command, k.adopted,
                                      k.child, k.by, k.watching)
            /\ Export(m) => Became(m, "idle", k.mem, k.command, k.adopted, k.child, k.by, k.watching)
<1> DEFINE k == mgr[m]
<1>0. k \in ManagerRecords /\ ManagersTyped
  BY DEF Typed, ManagersTyped
<1>1. ASSUME NEW next \in {"idle", "reset", "export"}, Stop(m, next)
      PROVE  Became(m, next, [file EXCEPT !.pid = 0], 0, IF k.command # 0 THEN k.adopted ELSE 0, k.child, k.by, k.watching)
  <2> DEFINE a == IF k.command # 0 THEN k.adopted ELSE 0
             f == [file EXCEPT !.pid = 0]
             r == [k EXCEPT !.stopped = TRUE, !.command = 0, !.adopted = a, !.mem = f, !.pc = next]
  <2>1. next \in Stages /\ a \in Nat /\ f \in States
    BY <1>0, Written DEF ManagerRecords, Typed, DiskTyped, States
  <2>2. Set(m, r)
    BY <1>1 DEF Stop
  <2> HIDE DEF a, f
  <2>3. /\ r \in ManagerRecords /\ r.up = k.up /\ r.pc = next /\ r.mem = f /\ r.command = 0
        /\ r.adopted = a /\ r.child = k.child /\ r.by = k.by /\ r.watching = k.watching
    BY <1>0, <2>1 DEF ManagerRecords
  <2> HIDE DEF r
  <2>4. Became(m, next, f, 0, a, k.child, k.by, k.watching)
    BY <1>0, <2>2, <2>3, SetBecame
  <2> QED
    BY <2>4 DEF a, f
<1>2. ASSUME Wipe(m) PROVE Became(m, "wiped", k.mem, k.command, k.adopted, k.child, k.by, k.watching)
  <2> DEFINE r == [k EXCEPT !.pc = "wiped"]
  <2>1. "wiped" \in Stages
    BY Written
  <2>2. /\ r \in ManagerRecords /\ r.up = k.up /\ r.pc = "wiped" /\ r.mem = k.mem /\ r.command = k.command
        /\ r.adopted = k.adopted /\ r.child = k.child /\ r.by = k.by /\ r.watching = k.watching
    BY <1>0, <2>1 DEF ManagerRecords
  <2>3. Set(m, r)
    BY <1>2 DEF Wipe
  <2> HIDE DEF r
  <2> QED
    BY <1>0, <2>2, <2>3, SetBecame
<1>3. ASSUME ResetSave(m)
      PROVE  Became(m, "idle", [k.mem EXCEPT !.rev = 0, !.port = 0, !.pid = 0], k.command, k.adopted, k.child, k.by,
                    k.watching)
  <2> DEFINE f == [k.mem EXCEPT !.rev = 0, !.port = 0, !.pid = 0]
             r == [k EXCEPT !.mem = f, !.pc = "idle"]
  <2>1. "idle" \in Stages /\ f \in States
    <3>1. k.mem \in States
      BY <1>0 DEF ManagerRecords
    <3> QED
      BY <3>1, Written DEF States
  <2>2. Set(m, r)
    BY <1>3 DEF ResetSave
  <2> HIDE DEF f
  <2>3. /\ r \in ManagerRecords /\ r.up = k.up /\ r.pc = "idle" /\ r.mem = f /\ r.command = k.command
        /\ r.adopted = k.adopted /\ r.child = k.child /\ r.by = k.by /\ r.watching = k.watching
    BY <1>0, <2>1 DEF ManagerRecords
  <2> HIDE DEF r
  <2>4. Became(m, "idle", f, k.command, k.adopted, k.child, k.by, k.watching)
    BY <1>0, <2>2, <2>3, SetBecame
  <2> QED
    BY <2>4 DEF f
<1>4. ASSUME Export(m) PROVE Became(m, "idle", k.mem, k.command, k.adopted, k.child, k.by, k.watching)
  <2> DEFINE r == [k EXCEPT !.pc = "idle"]
  <2>1. "idle" \in Stages
    BY Written
  <2>2. /\ r \in ManagerRecords /\ r.up = k.up /\ r.pc = "idle" /\ r.mem = k.mem /\ r.command = k.command
        /\ r.adopted = k.adopted /\ r.child = k.child /\ r.by = k.by /\ r.watching = k.watching
    BY <1>0, <2>1 DEF ManagerRecords
  <2>3. Set(m, r)
    BY <1>4 DEF Export
  <2> HIDE DEF r
  <2> QED
    BY <1>0, <2>2, <2>3, SetBecame
<1> QED
  BY <1>1, <1>2, <1>3, <1>4

\* A start that succeeds, a start that does not and may be tried again, and the end
\* of an Ensure.
LEMMA StartBecomes ==
  ASSUME Typed, NEW m \in Managers
  PROVE  LET k == mgr[m]
         IN /\ Ready(m) => \E p \in procs :
                 /\ p.pid = k.child /\ file' = [k.mem EXCEPT !.port = p.port, !.pid = p.pid]
                 /\ Became(m, "deploy", file', p.pid, 0, 0, k.by, k.watching)
            /\ NotReady(m) => \/ Became(m, "start", k.mem, k.command, k.adopted, 0, k.by, k.watching) /\ sups' = sups
                              \/ Failed(m)
<1> DEFINE k == mgr[m]
<1>0. k \in ManagerRecords /\ ManagersTyped /\ k.mem \in States
  BY DEF Typed, ManagersTyped, ManagerRecords
<1>1. ASSUME Ready(m)
      PROVE  \E p \in procs : /\ p.pid = k.child /\ file' = [k.mem EXCEPT !.port = p.port, !.pid = p.pid]
                              /\ Became(m, "deploy", file', p.pid, 0, 0, k.by, k.watching)
  <2>1. PICK p \in procs :
          /\ p.pid = k.child /\ file' = [k.mem EXCEPT !.port = p.port, !.pid = p.pid]
          /\ Set(m, [k EXCEPT !.pc = "deploy", !.mem = file', !.command = p.pid, !.adopted = 0, !.child = 0,
                       !.try = 0, !.moved = k.mem.port \notin {0, p.port}])
    BY <1>1 DEF Ready
  <2> DEFINE b == k.mem.port \notin {0, p.port}
             r == [k EXCEPT !.pc = "deploy", !.mem = file', !.command = p.pid, !.adopted = 0, !.child = 0,
                     !.try = 0, !.moved = b]
  <2>2. p.pid \in Nat /\ p.port \in Ports
    BY DEF Typed, ProcsTyped
  <2>3. file' \in States
    BY <1>0, <2>1, <2>2 DEF States
  <2>4. "deploy" \in Stages /\ 0 \in 0..Attempts - 1 /\ b \in BOOLEAN
    BY Written
  <2>5. Set(m, r)
    BY <2>1
  <2> HIDE DEF b
  <2>6. /\ r \in ManagerRecords /\ r.up = k.up /\ r.pc = "deploy" /\ r.mem = file' /\ r.command = p.pid
        /\ r.adopted = 0 /\ r.child = 0 /\ r.by = k.by /\ r.watching = k.watching
    BY <1>0, <2>2, <2>3, <2>4 DEF ManagerRecords
  <2> HIDE DEF r
  <2> QED
    BY <1>0, <2>1, <2>5, <2>6, SetBecame
<1>2. ASSUME NotReady(m), ~Failed(m)
      PROVE  Became(m, "start", k.mem, k.command, k.adopted, 0, k.by, k.watching) /\ sups' = sups
  <2> DEFINE r == [k EXCEPT !.pc = "start", !.try = k.try + 1, !.child = 0]
  <2>1. k.try + 1 < Attempts /\ Set(m, r) /\ sups' = sups
    BY <1>2 DEF NotReady
  <2>2. "start" \in Stages /\ k.try + 1 \in 0..Attempts - 1
    BY <1>0, <2>1, Written, LocalBackendAssumption DEF ManagerRecords
  <2>3. /\ r \in ManagerRecords /\ r.up = k.up /\ r.pc = "start" /\ r.mem = k.mem /\ r.command = k.command
        /\ r.adopted = k.adopted /\ r.child = 0 /\ r.by = k.by /\ r.watching = k.watching
    BY <1>0, <2>2 DEF ManagerRecords
  <2> HIDE DEF r
  <2> QED
    BY <1>0, <2>1, <2>3, SetBecame
<1> QED
  BY <1>1, <1>2

\* The watcher that an Ensure starts takes a free place.
LEMMA EnsuredBecomes ==
  ASSUME Typed, NEW m \in Managers, NEW state \in States, Ensured(m, state)
  PROVE  LET k == mgr[m]
             watch == k.command # 0 /\ k.watching = FALSE /\ m = Service
         IN /\ Became(m, "idle", state, k.command, k.adopted, k.child, 0, IF watch THEN TRUE ELSE k.watching)
            /\ \E free \in Supervisors :
                 /\ sups[free].pc = "none" \/ \A t \in Supervisors : sups[t].pc # "none"
                 /\ sups' = [s \in Supervisors |->
                      IF s = k.by THEN [pc |-> "wait", pid |-> IF k.command # 0 THEN k.command ELSE sups[s].pid]
                      ELSE IF watch /\ s = free THEN [pc |-> "wait", pid |-> k.command] ELSE sups[s]]
<1> DEFINE k == mgr[m]
           watch == k.command # 0 /\ k.watching = FALSE /\ m = Service
           r == [k EXCEPT !.pc = "idle", !.mem = state, !.by = 0]
<1>0. k \in ManagerRecords /\ ManagersTyped /\ k.watching \in BOOLEAN
  BY DEF Typed, ManagersTyped, ManagerRecords
<1>1. "idle" \in Stages
  BY Written
<1>2. /\ r \in ManagerRecords /\ r.up = k.up /\ r.pc = "idle" /\ r.mem = state /\ r.command = k.command
      /\ r.adopted = k.adopted /\ r.child = k.child /\ r.by = 0 /\ r.watching = k.watching
  BY <1>0, <1>1 DEF ManagerRecords
<1>3. (r.command # 0 /\ ~r.watching /\ m = Service) <=> watch
  BY <1>0, <1>2
<1>4. Became(m, "idle", state, k.command, k.adopted, k.child, 0, IF watch THEN TRUE ELSE k.watching)
  <2> DEFINE w == r.watching \/ (r.command # 0 /\ ~r.watching /\ m = Service)
             q == [r EXCEPT !.watching = w]
  <2>1. w \in BOOLEAN /\ w = IF watch THEN TRUE ELSE k.watching
    BY <1>0, <1>2
  <2>2. Set(m, q)
    BY DEF Ensured
  <2> HIDE DEF r, w, watch
  <2>3. /\ q \in ManagerRecords /\ q.up = r.up /\ q.pc = r.pc /\ q.mem = r.mem /\ q.command = r.command
        /\ q.adopted = r.adopted /\ q.child = r.child /\ q.by = r.by /\ q.watching = w
    BY <1>2, <2>1 DEF ManagerRecords
  <2> HIDE DEF q
  <2> QED
    BY <1>0, <1>2, <2>1, <2>2, <2>3, SetBecame
<1>5. \E free \in Supervisors :
        /\ sups[free].pc = "none" \/ \A t \in Supervisors : sups[t].pc # "none"
        /\ sups' = [s \in Supervisors |->
             IF s = k.by THEN [pc |-> "wait", pid |-> IF k.command # 0 THEN k.command ELSE sups[s].pid]
             ELSE IF watch /\ s = free THEN [pc |-> "wait", pid |-> k.command] ELSE sups[s]]
  <2> DEFINE free == CHOOSE s \in Supervisors : sups[s].pc = "none" \/ \A t \in Supervisors : sups[t].pc # "none"
  <2>1. \E s \in Supervisors : sups[s].pc = "none" \/ \A t \in Supervisors : sups[t].pc # "none"
    <3>1. 1 \in Supervisors
      BY DEF Supervisors
    <3> QED
      BY <3>1
  <2>2. free \in Supervisors /\ (sups[free].pc = "none" \/ \A t \in Supervisors : sups[t].pc # "none")
    BY <2>1
  <2>3. sups' = [s \in Supervisors |->
             IF s = k.by THEN [pc |-> "wait", pid |-> IF r.command # 0 THEN r.command ELSE sups[s].pid]
             ELSE IF r.command # 0 /\ ~r.watching /\ m = Service /\ s = free
                  THEN [pc |-> "wait", pid |-> r.command] ELSE sups[s]]
    BY DEF Ensured
  <2> HIDE DEF free, r, watch
  <2> QED
    BY <1>2, <1>3, <2>2, <2>3
<1> QED
  BY <1>4, <1>5

\* The steps of the supervisor.
LEMMA SupervisorBecomes ==
  ASSUME Typed, NEW s \in Supervisors
  PROVE  LET k == mgr[Service]
         IN /\ SupervisorEnds(s) =>
                 /\ Became(Service, k.pc, k.mem, k.command, k.adopted, k.child, k.by, FALSE)
                 /\ sups' = [sups EXCEPT ![s] = NoSupervisor]
            /\ SupervisorCounts(s) => \E on \in BOOLEAN :
                 /\ Became(Service, k.pc, k.mem, 0, k.adopted, k.child, k.by, on)
                 /\ sups' = [sups EXCEPT ![s] = IF on THEN [sups[s] EXCEPT !.pc = "sleep"] ELSE NoSupervisor]
            /\ SupervisorRestarts(s) =>
                 /\ Became(Service, "check", k.mem, k.command, k.adopted, k.child, s, k.watching)
                 /\ sups' = [sups EXCEPT ![s] = [sups[s] EXCEPT !.pc = "ensure"]]
<1> DEFINE k == mgr[Service]
<1>0. Service \in Managers /\ k \in ManagerRecords /\ ManagersTyped
  BY DEF Typed, ManagersTyped, Managers
<1>1. ASSUME SupervisorEnds(s)
      PROVE  /\ Became(Service, k.pc, k.mem, k.command, k.adopted, k.child, k.by, FALSE)
             /\ sups' = [sups EXCEPT ![s] = NoSupervisor]
  <2> DEFINE r == [k EXCEPT !.watching = FALSE]
  <2>1. /\ r \in ManagerRecords /\ r.up = k.up /\ r.pc = k.pc /\ r.mem = k.mem /\ r.command = k.command
        /\ r.adopted = k.adopted /\ r.child = k.child /\ r.by = k.by /\ r.watching = FALSE
    BY <1>0 DEF ManagerRecords
  <2>2. Set(Service, r)
    BY <1>1 DEF SupervisorEnds
  <2> HIDE DEF r
  <2>3. Became(Service, k.pc, k.mem, k.command, k.adopted, k.child, k.by, FALSE)
    BY <1>0, <2>1, <2>2, SetBecame
  <2> QED
    BY <1>1, <2>3 DEF SupervisorEnds
<1>2. ASSUME SupervisorCounts(s)
      PROVE  \E on \in BOOLEAN :
               /\ Became(Service, k.pc, k.mem, 0, k.adopted, k.child, k.by, on)
               /\ sups' = [sups EXCEPT ![s] = IF on THEN [sups[s] EXCEPT !.pc = "sleep"] ELSE NoSupervisor]
  <2>1. PICK n \in {k.failures + 1, 1} :
          /\ Set(Service, [k EXCEPT !.command = 0, !.failures = n, !.watching = (n <= RestartLimit)])
          /\ sups' = [sups EXCEPT ![s] = IF n > RestartLimit THEN NoSupervisor ELSE [sups[s] EXCEPT !.pc = "sleep"]]
    BY <1>2 DEF SupervisorCounts
  <2> DEFINE on == n <= RestartLimit
             r == [k EXCEPT !.command = 0, !.failures = n, !.watching = on]
  <2>2. n \in Nat /\ on \in BOOLEAN /\ (n > RestartLimit <=> ~on)
    BY <1>0, LocalBackendAssumption DEF ManagerRecords
  <2>3. Set(Service, r) /\ sups' = [sups EXCEPT ![s] = IF on THEN [sups[s] EXCEPT !.pc = "sleep"] ELSE NoSupervisor]
    BY <2>1, <2>2
  <2> HIDE DEF on
  <2>4. /\ r \in ManagerRecords /\ r.up = k.up /\ r.pc = k.pc /\ r.mem = k.mem /\ r.command = 0
        /\ r.adopted = k.adopted /\ r.child = k.child /\ r.by = k.by /\ r.watching = on
    BY <1>0, <2>2 DEF ManagerRecords
  <2> HIDE DEF r
  <2>5. Became(Service, k.pc, k.mem, 0, k.adopted, k.child, k.by, on)
    BY <1>0, <2>3, <2>4, SetBecame
  <2> QED
    BY <2>2, <2>3, <2>5
<1>3. ASSUME SupervisorRestarts(s)
      PROVE  /\ Became(Service, "check", k.mem, k.command, k.adopted, k.child, s, k.watching)
             /\ sups' = [sups EXCEPT ![s] = [sups[s] EXCEPT !.pc = "ensure"]]
  <2> DEFINE r == [k EXCEPT !.pc = "check", !.by = s, !.stopped = FALSE]
  <2>1. "check" \in Stages
    BY Written
  <2>2. /\ r \in ManagerRecords /\ r.up = k.up /\ r.pc = "check" /\ r.mem = k.mem /\ r.command = k.command
        /\ r.adopted = k.adopted /\ r.child = k.child /\ r.by = s /\ r.watching = k.watching
    BY <1>0, <2>1 DEF ManagerRecords
  <2>3. Set(Service, r)
    BY <1>3 DEF SupervisorRestarts
  <2> HIDE DEF r
  <2>4. Became(Service, "check", k.mem, k.command, k.adopted, k.child, s, k.watching)
    BY <1>0, <2>2, <2>3, SetBecame
  <2> QED
    BY <1>3, <2>4 DEF SupervisorRestarts, Typed, SupervisorsTyped
<1> QED
  BY <1>1, <1>2, <1>3

\* A manager that begins knows what is on disk; one that ends knows nothing.
LEMMA LifeBecomes ==
  ASSUME Typed, NEW m \in Managers
  PROVE  /\ New(m) => /\ mgr' \in [Managers -> ManagerRecords]
                      /\ mgr'[m].up = TRUE /\ mgr'[m].mem = file /\ mgr'[m].pc = "idle" /\ mgr'[m].by = 0
                      /\ mgr'[m].command = 0 /\ mgr'[m].adopted = 0 /\ mgr'[m].watching = FALSE
                      /\ \A n \in Managers : n # m => mgr'[n] = mgr[n]
         /\ mgr' = [mgr EXCEPT ![m] = NoManager] =>
                      /\ mgr' \in [Managers -> ManagerRecords] /\ mgr'[m] = NoManager
                      /\ \A n \in Managers : n # m => mgr'[n] = mgr[n]
<1>1. ASSUME New(m)
      PROVE  /\ mgr' \in [Managers -> ManagerRecords]
             /\ mgr'[m].up = TRUE /\ mgr'[m].mem = file /\ mgr'[m].pc = "idle" /\ mgr'[m].by = 0
             /\ mgr'[m].command = 0 /\ mgr'[m].adopted = 0 /\ mgr'[m].watching = FALSE
             /\ \A n \in Managers : n # m => mgr'[n] = mgr[n]
  <2> DEFINE b == (m = Command /\ mgr[Service].up)
             r == [NoManager EXCEPT !.up = TRUE, !.mem = file, !.limited = b]
  <2>1. b \in BOOLEAN /\ file \in States
    BY DEF Typed, DiskTyped
  <2>2. mgr' = [mgr EXCEPT ![m] = r]
    BY <1>1 DEF New
  <2>3. NoManager.pc = "idle" /\ NoManager.by = 0 /\ NoManager.command = 0 /\ NoManager.adopted = 0
        /\ NoManager.watching = FALSE
    BY DEF NoManager
  <2> HIDE DEF b
  <2>4. /\ r \in ManagerRecords /\ r.up = TRUE /\ r.mem = file /\ r.pc = NoManager.pc /\ r.by = NoManager.by
        /\ r.command = NoManager.command /\ r.adopted = NoManager.adopted /\ r.watching = NoManager.watching
    BY <2>1, BlankTypes DEF ManagerRecords
  <2> HIDE DEF r
  <2> QED
    BY <2>2, <2>3, <2>4 DEF Typed, ManagersTyped
<1> QED
  BY <1>1, BlankTypes DEF Typed, ManagersTyped

\* Every step keeps the types.
LEMMA TypedStep == Typed /\ [Next]_vars => Typed'
<1> SUFFICES ASSUME Typed, [Next]_vars PROVE Typed'
  OBVIOUS
<1>1. ManagersTyped'
  <2>1. ASSUME NEW m \in Managers, New(m) \/ Crash(m) PROVE ManagersTyped'
    BY <2>1, LifeBecomes DEF Crash, ManagersTyped
  <2>2. ASSUME Exit PROVE ManagersTyped'
    <3>1. Command \in Managers
      BY DEF Managers
    <3> QED
      BY <2>2, <3>1, LifeBecomes DEF Exit, ManagersTyped
  <2>3. ASSUME NEW m \in Managers, Failed(m) PROVE ManagersTyped'
    BY <2>3, EnsureBecomes DEF Became, ManagersTyped
  <2>4. ASSUME NEW m \in Managers, Adopt(m) \/ Start(m) \/ Spawn(m) \/ Push(m) \/ Ensure(m) PROVE ManagersTyped'
    BY <2>4, EnsureBecomes DEF Became, ManagersTyped
  <2>5. ASSUME NEW m \in Managers, Ready(m) \/ NotReady(m) PROVE ManagersTyped'
    BY <2>3, <2>5, StartBecomes DEF Became, ManagersTyped
  <2>6. ASSUME NEW m \in Managers, UpToDate(m) \/ Record(m) PROVE ManagersTyped'
    <3>1. mgr[m].mem \in States
      BY DEF Typed, ManagersTyped, ManagerRecords
    <3>2. [mgr[m].mem EXCEPT !.rev = mgr[m].mem.bin] \in States
      BY <3>1 DEF States
    <3> QED
      BY <2>6, <3>1, <3>2, EnsuredBecomes DEF UpToDate, Record, Became, ManagersTyped
  <2>7. ASSUME NEW m \in Managers, StartFails(m) \/ PushFails(m) \/ EnvironmentFails(m) PROVE ManagersTyped'
    BY <2>3, <2>7 DEF StartFails, PushFails, EnvironmentFails
  <2>8. ASSUME NEW m \in Managers,
               Wipe(m) \/ ResetSave(m) \/ Export(m) \/ \E next \in {"idle", "reset", "export"} : Stop(m, next)
        PROVE  ManagersTyped'
    BY <2>8, CommandBecomes DEF Became, ManagersTyped
  <2>9. ASSUME NEW s \in Supervisors, SupervisorStep(s) PROVE ManagersTyped'
    <3>1. SupervisorFollows(s) => ManagersTyped'
      BY DEF SupervisorFollows, Typed, ManagersTyped
    <3> QED
      BY <2>9, <3>1, SupervisorBecomes DEF SupervisorStep, Became, ManagersTyped
  <2>10. CASE UNCHANGED mgr
    BY <2>10 DEF Typed, ManagersTyped
  <2> QED
    BY <2>1, <2>2, <2>4, <2>5, <2>6, <2>7, <2>8, <2>9, <2>10
       DEF Next, vars, EnsureStep, CommandStep, Install, BackendExits, TakePort
<1>2. SupervisorsTyped'
  <2>1. ASSUME NEW m \in Managers, Failed(m) PROVE SupervisorsTyped'
    BY <2>1 DEF Failed, Resume, Typed, SupervisorsTyped, SupervisorRecords, ManagersTyped, ManagerRecords
  <2>2. ASSUME NEW m \in Managers, NEW state \in States, Ensured(m, state) PROVE SupervisorsTyped'
    <3>1. mgr[m].command \in Nat
      BY DEF Typed, ManagersTyped, ManagerRecords
    <3> DEFINE watch == mgr[m].command # 0 /\ mgr[m].watching = FALSE /\ m = Service
    <3>2. PICK free \in Supervisors : sups' = [s \in Supervisors |->
            IF s = mgr[m].by THEN [pc |-> "wait", pid |-> IF mgr[m].command # 0 THEN mgr[m].command ELSE sups[s].pid]
            ELSE IF watch /\ s = free THEN [pc |-> "wait", pid |-> mgr[m].command] ELSE sups[s]]
      BY <2>2, EnsuredBecomes
    <3> HIDE DEF watch
    <3> QED
      BY <3>1, <3>2 DEF Typed, SupervisorsTyped, SupervisorRecords
  <2>3. ASSUME NEW m \in Managers, UpToDate(m) \/ Record(m) PROVE SupervisorsTyped'
    <3>1. mgr[m].mem \in States
      BY DEF Typed, ManagersTyped, ManagerRecords
    <3>2. [mgr[m].mem EXCEPT !.rev = mgr[m].mem.bin] \in States
      BY <3>1 DEF States
    <3> QED
      BY <2>2, <2>3, <3>1, <3>2 DEF UpToDate, Record
  <2>4. ASSUME NEW m \in Managers, NotReady(m) \/ StartFails(m) \/ PushFails(m) \/ EnvironmentFails(m)
        PROVE  SupervisorsTyped'
    <3>1. CASE sups' = sups
      BY <3>1 DEF Typed, SupervisorsTyped
    <3> QED
      BY <2>1, <2>4, <3>1 DEF NotReady, StartFails, PushFails, EnvironmentFails
  <2>5. ASSUME NEW s \in Supervisors, SupervisorStep(s) PROVE SupervisorsTyped'
    <3>1. sups[s] \in SupervisorRecords /\ mgr[Service].command \in Nat
      BY DEF Typed, SupervisorsTyped, ManagersTyped, ManagerRecords, Managers
    <3>2. /\ [sups[s] EXCEPT !.pid = mgr[Service].command] \in SupervisorRecords
          /\ [sups[s] EXCEPT !.pc = "sleep"] \in SupervisorRecords
          /\ [sups[s] EXCEPT !.pc = "ensure"] \in SupervisorRecords
      BY <3>1 DEF SupervisorRecords
    <3>3. \A r \in SupervisorRecords : sups' = [sups EXCEPT ![s] = r] => SupervisorsTyped'
      BY DEF Typed, SupervisorsTyped
    <3>4. SupervisorFollows(s) => sups' = [sups EXCEPT ![s] = [sups[s] EXCEPT !.pid = mgr[Service].command]]
      BY DEF SupervisorFollows, Typed, SupervisorsTyped
    <3> QED
      BY <2>5, <3>2, <3>3, <3>4, BlankTypes, SupervisorBecomes DEF SupervisorStep
  <2>6. CASE UNCHANGED sups
    BY <2>6 DEF Typed, SupervisorsTyped
  <2>7. CASE \E m \in Managers : Crash(m)
    BY <2>6, <2>7, BlankTypes DEF Crash, SupervisorsTyped
  <2> QED
    BY <2>3, <2>4, <2>5, <2>6, <2>7 DEF Next, vars, EnsureStep, CommandStep, Install, BackendExits, TakePort, New, Exit,
       Adopt, Start, Spawn, Ready, Push, Ensure, Wipe, ResetSave, Export, Stop
<1>3. DiskTyped'
  <2>1. ASSUME NEW m \in Managers PROVE mgr[m].mem \in States /\ mgr[m].mem.bin \in Releases \cup {0}
    BY DEF Typed, ManagersTyped, ManagerRecords, States
  <2>2. CASE \E v \in Releases : Install(v)
    BY <2>2 DEF Install, Typed, DiskTyped, States
  <2>3. ASSUME NEW m \in Managers, Ready(m) PROVE DiskTyped'
    <3>1. PICK p \in procs : file' = [mgr[m].mem EXCEPT !.port = p.port, !.pid = p.pid]
      BY <2>3, StartBecomes
    <3>2. p.pid \in Nat /\ p.port \in Ports
      BY DEF Typed, ProcsTyped
    <3>3. file' \in States
      BY <2>1, <3>1, <3>2 DEF States
    <3> QED
      BY <2>3, <3>3 DEF Ready, Typed, DiskTyped
  <2>4. ASSUME NEW m \in Managers, Record(m) \/ ResetSave(m) PROVE DiskTyped'
    <3>1. /\ [mgr[m].mem EXCEPT !.rev = mgr[m].mem.bin] \in States
          /\ [mgr[m].mem EXCEPT !.rev = 0, !.port = 0, !.pid = 0] \in States
      BY <2>1 DEF States
    <3> QED
      BY <2>4, <3>1 DEF Record, ResetSave, Typed, DiskTyped
  <2>5. ASSUME NEW m \in Managers, NEW next, Stop(m, next) PROVE DiskTyped'
    BY <2>5 DEF Stop, Typed, DiskTyped, States
  <2>6. ASSUME NEW m \in Managers, Push(m) \/ PushFails(m) \/ Wipe(m) \/ Crash(m) PROVE DiskTyped'
    BY <2>1, <2>6 DEF Push, PushFails, Wipe, Crash, Typed, DiskTyped
  <2>7. CASE UNCHANGED <<file, db, resetCut>>
    BY <2>7 DEF Typed, DiskTyped
  <2> QED
    BY <2>2, <2>3, <2>4, <2>5, <2>6, <2>7 DEF Next, vars, EnsureStep, CommandStep, SupervisorStep, BackendExits,
       TakePort, New, Exit, Adopt, Start, Spawn, NotReady, StartFails, UpToDate, EnvironmentFails, Ensure, Export,
       SupervisorEnds, SupervisorFollows, SupervisorCounts, SupervisorRestarts
<1>4. ProcsTyped'
  <2>1. ASSUME NEW m \in Managers, Crash(m) PROVE ProcsTyped'
    <3>1. \A p \in procs : [p EXCEPT !.lost = TRUE] \in [pid : Nat \ {0}, port : Ports, lost : BOOLEAN]
      BY DEF Typed, ProcsTyped
    <3>2. \A q \in procs' : \E p \in procs : q = p \/ q = [p EXCEPT !.lost = TRUE]
      BY <2>1 DEF Crash
    <3>3. foreign' = foreign
      BY <2>1 DEF Crash
    <3>4. \A q \in procs' : q \in [pid : Nat \ {0}, port : Ports, lost : BOOLEAN]
      <4> SUFFICES ASSUME NEW q \in procs' PROVE q \in [pid : Nat \ {0}, port : Ports, lost : BOOLEAN]
        OBVIOUS
      <4>1. PICK p \in procs : q = p \/ q = [p EXCEPT !.lost = TRUE]
        BY <3>2
      <4>2. p \in [pid : Nat \ {0}, port : Ports, lost : BOOLEAN]
        BY DEF Typed, ProcsTyped
      <4> QED
        BY <3>1, <4>1, <4>2
    <3> QED
      BY <3>3, <3>4 DEF Typed, ProcsTyped
  <2>2. ASSUME NEW m \in Managers, Spawn(m) PROVE ProcsTyped'
    <3>1. PICK port \in Ports : procs' = procs \cup {[pid |-> spawned + 1, port |-> port, lost |-> FALSE]}
      BY <2>2 DEF Spawn, PortsToTry
    <3>2. spawned + 1 \in Nat \ {0}
      BY LocalBackendAssumption DEF Typed
    <3>3. [pid |-> spawned + 1, port |-> port, lost |-> FALSE] \in [pid : Nat \ {0}, port : Ports, lost : BOOLEAN]
      BY <3>2
    <3>4. foreign' = foreign
      BY <2>2 DEF Spawn
    <3> QED
      BY <3>1, <3>3, <3>4 DEF Typed, ProcsTyped
  <2>3. ASSUME procs' \subseteq procs, foreign' \subseteq foreign \cup Ports PROVE ProcsTyped'
    BY <2>3 DEF Typed, ProcsTyped
  <2> QED
    BY <2>1, <2>2, <2>3 DEF Next, vars, EnsureStep, CommandStep, SupervisorStep, Install, BackendExits,
       TakePort, New, Exit, Adopt, Start, Ready, NotReady, StartFails, UpToDate, Push, PushFails, Record,
       EnvironmentFails, Ensure, Stop, Wipe, ResetSave, Export, Kill,
       SupervisorEnds, SupervisorFollows, SupervisorCounts, SupervisorRestarts
<1>5. events' \in 0..MaxEvents
  <2>1. events' = events \/ Event
    BY DEF Next, vars, EnsureStep, CommandStep, SupervisorStep, Install, BackendExits, Crash,
       TakePort, New, Exit, Adopt, Start, Spawn, Ready, NotReady, StartFails, UpToDate, Push, PushFails, Record,
       EnvironmentFails, Ensure, Stop, Wipe, ResetSave, Export,
       SupervisorEnds, SupervisorFollows, SupervisorCounts, SupervisorRestarts
  <2> QED
    BY <2>1, LocalBackendAssumption DEF Event, Typed
<1>6. spawned' \in 0..MaxSpawns
  <2>1. spawned' = spawned \/ (spawned < MaxSpawns /\ spawned' = spawned + 1)
    BY DEF Next, vars, EnsureStep, CommandStep, SupervisorStep, Install, BackendExits, Crash,
       TakePort, New, Exit, Adopt, Start, Spawn, Ready, NotReady, StartFails, UpToDate, Push, PushFails, Record,
       EnvironmentFails, Ensure, Stop, Wipe, ResetSave, Export,
       SupervisorEnds, SupervisorFollows, SupervisorCounts, SupervisorRestarts
  <2> QED
    BY <2>1, LocalBackendAssumption DEF Typed
<1> QED
  BY <1>1, <1>2, <1>3, <1>4, <1>5, <1>6 DEF Typed

-----------------------------------------------------------------------------
\* Steps in terms of what they change.

\* The steps that change no record of a manager.
Aside ==
  \/ \E v \in Releases : Install(v)
  \/ \E p \in procs : BackendExits(p)
  \/ \E p \in Ports : TakePort(p)
  \/ \E s \in Supervisors : SupervisorFollows(s)
  \/ UNCHANGED vars

\* The record of a manager that an Ensure leaves when it ends well.
EndState(m) == IF mgr[m].pc = "deploy" THEN mgr[m].mem ELSE [mgr[m].mem EXCEPT !.rev = mgr[m].mem.bin]

\* An Ensure that ends well leaves the record it worked with, with the revision
\* it pushed.
LEMMA EndsWell ==
  ASSUME Typed, NEW m \in Managers, UpToDate(m) \/ Record(m)
  PROVE  EndState(m) \in States /\ Ensured(m, EndState(m))
<1>1. mgr[m].mem \in States
  BY DEF Typed, ManagersTyped, ManagerRecords
<1>2. [mgr[m].mem EXCEPT !.rev = mgr[m].mem.bin] \in States
  BY <1>1 DEF States
<1> QED
  BY <1>1, <1>2 DEF UpToDate, Record, EndState

\* The ways an Ensure fails.
Fails(m) == Failed(m) /\ (StartFails(m) \/ PushFails(m) \/ EnvironmentFails(m) \/ NotReady(m))

\* Retries another port.
Retries(m) ==
  /\ NotReady(m) /\ sups' = sups
  /\ Became(m, "start", mgr[m].mem, mgr[m].command, mgr[m].adopted, 0, mgr[m].by, mgr[m].watching)

\* Every step is one of these.
LEMMA StepCases ==
  ASSUME Typed, [Next]_vars
  PROVE  \/ Aside \/ Exit
         \/ \E s \in Supervisors : SupervisorEnds(s) \/ SupervisorCounts(s) \/ SupervisorRestarts(s)
         \/ \E m \in Managers :
              \/ New(m) \/ Crash(m) \/ Ensure(m) \/ Adopt(m) \/ Start(m) \/ Spawn(m) \/ Ready(m) \/ Push(m)
              \/ Fails(m) \/ Retries(m) \/ UpToDate(m) \/ Record(m)
              \/ Wipe(m) \/ ResetSave(m) \/ Export(m)
              \/ \E next \in {"idle", "reset", "export"} : Stop(m, next)
<1>1. ASSUME NEW m \in Managers, NotReady(m) PROVE Fails(m) \/ Retries(m)
  BY <1>1, StartBecomes DEF Fails, Retries
<1>2. ASSUME NEW m \in Managers, StartFails(m) \/ PushFails(m) \/ EnvironmentFails(m) PROVE Fails(m)
  BY <1>2 DEF Fails, StartFails, PushFails, EnvironmentFails
<1> QED
  BY <1>1, <1>2 DEF Next, EnsureStep, CommandStep, SupervisorStep, Aside

\* Pids stay fresh.
LEMMA FreshStep == Typed /\ PidsFresh /\ [Next]_vars => PidsFresh'
<1> SUFFICES ASSUME Typed, PidsFresh, [Next]_vars PROVE PidsFresh'
  OBVIOUS
<1>0. /\ Typed' /\ spawned \in Nat /\ spawned' \in Nat /\ \A p \in procs : p.pid \in Nat
      /\ \A m \in Managers : mgr[m].mem \in States /\ mgr[m].mem.pid \in Nat /\ mgr[m].command \in Nat
  BY TypedStep, LocalBackendAssumption DEF Typed, ProcsTyped, ManagersTyped, ManagerRecords, States
<1> DEFINE Procs(n) == /\ \A p \in procs' : p.pid <= n
                       /\ \A p, q \in procs' : p.pid = q.pid => p = q
           Mgrs(n) == \A m \in Managers : mgr'[m].mem.pid <= n /\ mgr'[m].command <= n
<1>1. ASSUME procs' \subseteq procs PROVE Procs(spawned)
  BY <1>1 DEF PidsFresh
<1>2. ASSUME NEW m \in Managers, NEW pid \in Nat, pid <= spawned, mgr'[m].mem.pid = pid,
             mgr'[m].command \in {0, pid, mgr[m].command},
             \A n \in Managers : n # m => mgr'[n] = mgr[n]
      PROVE  Mgrs(spawned)
  BY <1>0, <1>2 DEF PidsFresh
<1>3. CASE UNCHANGED spawned /\ UNCHANGED mgr /\ file'.pid = file.pid /\ procs' \subseteq procs
  BY <1>1, <1>3 DEF PidsFresh
<1>4. CASE Aside
  <2>1. UNCHANGED spawned /\ UNCHANGED mgr /\ procs' \subseteq procs
    BY <1>4 DEF Aside, Install, BackendExits, TakePort, SupervisorFollows, vars
  <2>2. file'.pid = file.pid
    BY <1>4 DEF Aside, Install, BackendExits, TakePort, SupervisorFollows, vars, Typed, DiskTyped, States
  <2> QED
    BY <1>3, <2>1, <2>2
<1>5. ASSUME UNCHANGED <<file, spawned>>, Mgrs(spawned), procs' \subseteq procs PROVE PidsFresh'
  BY <1>1, <1>5 DEF PidsFresh
<1>6. CASE Exit \/ \E m \in Managers : New(m) \/ Crash(m)
  <2>1. PICK m \in Managers : (m = Command /\ Exit) \/ New(m) \/ Crash(m)
    BY <1>6 DEF Managers
  <2>2. Mgrs(spawned)
    <3>1. New(m) => mgr'[m].mem.pid = file.pid /\ mgr'[m].command = 0 /\ \A n \in Managers : n # m => mgr'[n] = mgr[n]
      BY LifeBecomes
    <3>2. ~New(m) => mgr'[m].mem.pid = 0 /\ mgr'[m].command = 0 /\ \A n \in Managers : n # m => mgr'[n] = mgr[n]
      <4>1. ~New(m) => mgr' = [mgr EXCEPT ![m] = NoManager]
        BY <2>1 DEF Exit, Crash
      <4>2. NoManager.mem.pid = 0 /\ NoManager.command = 0
        BY DEF NoManager, NoState
      <4> QED
        BY <4>1, <4>2, LifeBecomes
    <3> QED
      <4>1. file.pid \in Nat /\ file.pid <= spawned /\ 0 <= spawned
        BY <1>0 DEF PidsFresh, Typed, DiskTyped, States
      <4>2. CASE New(m)
        BY <1>2, <3>1, <4>1, <4>2
      <4>3. CASE ~New(m)
        BY <1>2, <3>2, <4>1, <4>3
      <4> QED
        BY <4>2, <4>3
  <2>3. Procs(spawned)
    <3>1. \A q \in procs' : \E p \in procs : q = p \/ (q = [p EXCEPT !.lost = TRUE] /\ mgr[m].pc = "spawned" /\ p.pid = mgr[m].child)
      BY <2>1 DEF Exit, New, Crash
    <3>2. \A p \in procs : [p EXCEPT !.lost = TRUE].pid = p.pid
      BY DEF Typed, ProcsTyped
    <3>3. \A q \in procs' : \E p \in procs : q.pid = p.pid /\ (q = p \/ q = [p EXCEPT !.lost = TRUE])
      BY <3>1, <3>2
    <3>4. ASSUME NEW p \in procs', NEW q \in procs', p.pid = q.pid PROVE p = q
      <4>1. CASE UNCHANGED procs
        BY <3>4, <4>1 DEF PidsFresh
      <4>2. CASE Crash(m)
        <5> DEFINE Map(x) == IF mgr[m].pc = "spawned" /\ x.pid = mgr[m].child THEN [x EXCEPT !.lost = TRUE] ELSE x
        <5>1. procs' = {Map(x) : x \in procs}
          BY <4>2 DEF Crash
        <5>2. \A x \in procs : Map(x).pid = x.pid
          BY <3>2
        <5> HIDE DEF Map
        <5>3. PICK x \in procs, y \in procs : p = Map(x) /\ q = Map(y)
          BY <5>1
        <5>4. x = y
          BY <3>4, <5>2, <5>3 DEF PidsFresh
        <5> QED
          BY <5>3, <5>4
      <4> QED
        BY <2>1, <4>1, <4>2 DEF Exit, New
    <3> QED
      BY <3>3, <3>4 DEF PidsFresh
  <2> QED
    BY <2>1, <2>2, <2>3 DEF PidsFresh, Exit, New, Crash
<1>7. CASE \E s \in Supervisors : SupervisorEnds(s) \/ SupervisorCounts(s) \/ SupervisorRestarts(s)
  <2>1. UNCHANGED <<file, spawned, procs>>
    BY <1>7 DEF SupervisorEnds, SupervisorCounts, SupervisorRestarts
  <2>2. /\ mgr'[Service].mem = mgr[Service].mem /\ mgr'[Service].command \in {0, mgr[Service].command}
        /\ \A n \in Managers : n # Service => mgr'[n] = mgr[n]
    BY <1>7, SupervisorBecomes DEF Became
  <2>3. Service \in Managers
    BY DEF Managers
  <2>4. Mgrs(spawned)
    BY <1>0, <1>2, <2>2, <2>3 DEF PidsFresh
  <2> QED
    BY <1>5, <2>1, <2>4
<1>8. ASSUME NEW m \in Managers,
             Ensure(m) \/ Adopt(m) \/ Start(m) \/ Push(m) \/ Fails(m) \/ Retries(m) \/ Wipe(m) \/ Export(m)
      PROVE  PidsFresh'
  <2>1. UNCHANGED <<file, spawned>> /\ procs' \subseteq procs
    BY <1>8 DEF Ensure, Adopt, Start, Push, Fails, Retries, StartFails, PushFails, EnvironmentFails, NotReady,
       Wipe, Export, Kill
  <2>2. /\ mgr'[m].mem = mgr[m].mem /\ mgr'[m].command = mgr[m].command
        /\ \A n \in Managers : n # m => mgr'[n] = mgr[n]
    BY <1>8, EnsureBecomes, CommandBecomes DEF Became, Fails, Retries
  <2>3. Mgrs(spawned)
    BY <1>0, <1>2, <2>2 DEF PidsFresh
  <2> QED
    BY <1>5, <2>1, <2>3
<1>9. ASSUME NEW m \in Managers,
             \/ ResetSave(m) \/ UpToDate(m) \/ Record(m) \/ Ready(m)
             \/ \E next \in {"idle", "reset", "export"} : Stop(m, next)
      PROVE  PidsFresh'
  <2>1. UNCHANGED spawned /\ procs' \subseteq procs
    BY <1>9 DEF ResetSave, UpToDate, Record, Ready, Stop, Kill
  <2>2. \A n \in Managers : n # m => mgr'[n] = mgr[n]
    <3>1. CASE UpToDate(m) \/ Record(m)
      BY <3>1, EndsWell, EnsuredBecomes DEF Became
    <3>2. CASE Ready(m)
      BY <3>2, StartBecomes DEF Became
    <3>3. CASE ResetSave(m) \/ \E next \in {"idle", "reset", "export"} : Stop(m, next)
      BY <3>3, CommandBecomes DEF Became
    <3> QED
      BY <1>9, <3>1, <3>2, <3>3
  <2>3. /\ file'.pid \in Nat /\ file'.pid <= spawned /\ mgr'[m].mem.pid \in Nat /\ mgr'[m].mem.pid <= spawned
        /\ mgr'[m].command \in {0, mgr[m].command, mgr'[m].mem.pid}
    <3>1. CASE ResetSave(m)
      <4>1. file'.pid = 0 /\ mgr'[m].mem.pid = 0 /\ mgr'[m].command = mgr[m].command
        BY <1>0, <3>1, CommandBecomes DEF ResetSave, Became, States
      <4> QED
        BY <1>0, <4>1
    <3>2. CASE \E next \in {"idle", "reset", "export"} : Stop(m, next)
      <4>1. file'.pid = 0 /\ mgr'[m].mem.pid = 0 /\ mgr'[m].command = 0
        BY <1>0, <3>2, CommandBecomes DEF Stop, Became, Typed, DiskTyped, States
      <4> QED
        BY <1>0, <4>1
    <3>3. CASE UpToDate(m) \/ Record(m)
      <4>1. mgr'[m].mem = EndState(m) /\ mgr'[m].command = mgr[m].command
        BY <3>3, EndsWell, EnsuredBecomes DEF Became
      <4>2. EndState(m).pid = mgr[m].mem.pid /\ [mgr[m].mem EXCEPT !.rev = mgr[m].mem.bin].pid = mgr[m].mem.pid
        BY <1>0 DEF EndState, States
      <4>3. file'.pid \in {file.pid, mgr[m].mem.pid}
        BY <3>3, <4>2 DEF UpToDate, Record
      <4> QED
        BY <1>0, <4>1, <4>2, <4>3 DEF PidsFresh, Typed, DiskTyped, States
    <3>4. CASE Ready(m)
      <4>1. PICK p \in procs : /\ file' = [mgr[m].mem EXCEPT !.port = p.port, !.pid = p.pid]
                               /\ mgr'[m].mem = file' /\ mgr'[m].command = p.pid
        BY <3>4, StartBecomes DEF Became
      <4>2. file'.pid = p.pid
        BY <1>0, <4>1 DEF States
      <4> QED
        BY <1>0, <4>1, <4>2 DEF PidsFresh
    <3> QED
      BY <1>9, <3>1, <3>2, <3>3, <3>4
  <2>4. Mgrs(spawned)
    BY <1>2, <2>2, <2>3
  <2> QED
    BY <1>1, <2>1, <2>3, <2>4 DEF PidsFresh
<1>10. ASSUME NEW m \in Managers, Spawn(m) PROVE PidsFresh'
  <2>1. file' = file /\ spawned' = spawned + 1
    BY <1>10 DEF Spawn
  <2>2. PICK port : procs' = procs \cup {[pid |-> spawned + 1, port |-> port, lost |-> FALSE]}
    BY <1>10 DEF Spawn
  <2>3. Procs(spawned + 1)
    <3>1. \A p \in procs : p.pid <= spawned /\ p.pid # spawned + 1
      BY <1>0 DEF PidsFresh
    <3>2. \A q \in procs' : q \in procs \/ (q = [pid |-> spawned + 1, port |-> port, lost |-> FALSE] /\ q.pid = spawned + 1)
      BY <2>2
    <3>3. \A q \in procs' : q.pid <= spawned + 1
      BY <1>0, <3>1, <3>2
    <3> QED
      BY <3>1, <3>2, <3>3 DEF PidsFresh
  <2>4. /\ mgr'[m].mem = mgr[m].mem /\ mgr'[m].command = mgr[m].command
        /\ \A n \in Managers : n # m => mgr'[n] = mgr[n]
    BY <1>10, EnsureBecomes DEF Became
  <2>5. Mgrs(spawned + 1)
    BY <1>0, <2>4 DEF PidsFresh
  <2>6. file.pid <= spawned + 1
    BY <1>0 DEF PidsFresh, Typed, DiskTyped, States
  <2> QED
    BY <2>1, <2>3, <2>5, <2>6 DEF PidsFresh
<1> QED
  BY <1>4, <1>6, <1>7, <1>8, <1>9, <1>10, StepCases

\* The steps that a manager takes while it runs.
Acts(m) ==
  \/ Ensure(m) \/ Adopt(m) \/ Start(m) \/ Spawn(m) \/ Ready(m) \/ Push(m)
  \/ Fails(m) \/ Retries(m) \/ UpToDate(m) \/ Record(m) \/ Wipe(m) \/ ResetSave(m) \/ Export(m)
  \/ \E next \in {"idle", "reset", "export"} : Stop(m, next)

\* A manager that acts is running, and goes on running.
LEMMA ActsUp ==
  ASSUME Typed, DownIsBlank, NEW m \in Managers, Acts(m)
  PROVE  /\ mgr[m].up = TRUE /\ mgr'[m].up = TRUE
         /\ \A n \in Managers : n # m => mgr'[n] = mgr[n]
<1>1. mgr[m].up \in BOOLEAN /\ NoManager.pc = "idle"
  BY DEF Typed, ManagersTyped, ManagerRecords, NoManager
<1>2. mgr[m].up \/ mgr[m].pc # "idle"
  BY DEF Acts, Ensure, Adopt, Start, Spawn, Ready, Push, Fails, Retries, StartFails, PushFails, EnvironmentFails,
     NotReady, UpToDate, Record, Wipe, ResetSave, Export, Stop, Begin
<1>3. mgr[m].up = TRUE
  BY <1>1, <1>2 DEF DownIsBlank
<1>4. mgr'[m].up = mgr[m].up /\ \A n \in Managers : n # m => mgr'[n] = mgr[n]
  <2>1. CASE UpToDate(m) \/ Record(m)
    BY <2>1, EndsWell, EnsuredBecomes DEF Became
  <2>2. CASE Ready(m)
    BY <2>2, StartBecomes DEF Became
  <2>3. CASE Wipe(m) \/ ResetSave(m) \/ Export(m) \/ \E next \in {"idle", "reset", "export"} : Stop(m, next)
    BY <2>3, CommandBecomes DEF Became
  <2>4. CASE Ensure(m) \/ Adopt(m) \/ Start(m) \/ Spawn(m) \/ Push(m) \/ Fails(m) \/ Retries(m)
    BY <2>4, EnsureBecomes DEF Became, Fails, Retries
  <2> QED
    BY <2>1, <2>2, <2>3, <2>4 DEF Acts
<1> QED
  BY <1>3, <1>4

\* What a supervisor's step leaves of the managers.
LEMMA SupervisorUp ==
  ASSUME Typed, NEW s \in Supervisors, SupervisorEnds(s) \/ SupervisorCounts(s) \/ SupervisorRestarts(s)
  PROVE  /\ mgr[Service].up = TRUE /\ mgr'[Service].up = TRUE
         /\ mgr'[Command] = mgr[Command] /\ \A n \in Managers : mgr[n].pc = "idle"
         /\ sups[s].pc \in {"wait", "sleep"}
<1>1. mgr[Service].up /\ mgr[Service].up \in BOOLEAN /\ (\A n \in Managers : mgr[n].pc = "idle") /\ sups[s].pc \in {"wait", "sleep"}
  BY DEF SupervisorEnds, SupervisorCounts, SupervisorRestarts, SupervisorWoken, Begin, Typed, ManagersTyped,
     ManagerRecords, Managers
<1>2. mgr'[Service].up = mgr[Service].up /\ mgr'[Command] = mgr[Command]
  BY SupervisorBecomes DEF Became, Managers, Service, Command
<1> QED
  BY <1>1, <1>2

\* A manager that is not running has no state.
LEMMA DownStep == Typed /\ DownIsBlank /\ [Next]_vars => DownIsBlank'
<1> SUFFICES ASSUME Typed, DownIsBlank, [Next]_vars PROVE DownIsBlank'
  OBVIOUS
<1>1. ASSUME NEW m \in Managers, mgr'[m].up = TRUE \/ mgr'[m] = NoManager,
             \A n \in Managers : n # m => mgr'[n] = mgr[n]
      PROVE  DownIsBlank'
  BY <1>1 DEF DownIsBlank
<1>2. CASE Aside
  BY <1>2 DEF Aside, DownIsBlank, Install, BackendExits, TakePort, SupervisorFollows, vars
<1>3. CASE Exit \/ \E m \in Managers : New(m) \/ Crash(m)
  <2>1. PICK m \in Managers : New(m) \/ mgr' = [mgr EXCEPT ![m] = NoManager]
    BY <1>3 DEF Exit, Crash, Managers
  <2> QED
    BY <1>1, <2>1, LifeBecomes
<1>4. CASE \E m \in Managers : Acts(m)
  BY <1>1, <1>4, ActsUp
<1>5. ASSUME NEW s \in Supervisors, SupervisorEnds(s) \/ SupervisorCounts(s) \/ SupervisorRestarts(s)
      PROVE  DownIsBlank'
  BY <1>1, <1>5, SupervisorUp DEF Managers
<1> QED
  BY <1>2, <1>3, <1>4, <1>5, StepCases DEF Acts

\* At most one supervisor: it is started only where the manager knows of none, and
\* it alone runs the Ensure that it began.
LEMMA WatchStep == Typed /\ DownIsBlank /\ Watch /\ [Next]_vars => Watch'
<1> SUFFICES ASSUME Typed, DownIsBlank, Watch, [Next]_vars PROVE Watch'
  OBVIOUS
<1>0. /\ Service \in Managers /\ Command \in Managers /\ Service # Command
      /\ \A m \in Managers : m = Service \/ m = Command
      /\ mgr[Service].watching \in BOOLEAN /\ mgr[Service].by \in Supervisors \cup {0} /\ 0 \notin Supervisors
      /\ \A s \in Supervisors : sups[s] \in SupervisorRecords
  BY DEF Managers, Service, Command, Typed, ManagersTyped, ManagerRecords, SupervisorsTyped, Supervisors
<1>1. ASSUME NEW m \in Managers, sups' = sups, mgr'[m].by = mgr[m].by, mgr'[m].watching = mgr[m].watching,
             m = Service /\ mgr'[m].by # 0 => mgr'[m].pc \in Ensuring,
             \A n \in Managers : n # m => mgr'[n] = mgr[n]
      PROVE  Watch'
  BY <1>0, <1>1 DEF Watch
<1>2. CASE Aside
  <2>1. CASE UNCHANGED <<mgr, sups>>
    BY <2>1 DEF Watch
  <2>2. ASSUME NEW s \in Supervisors, SupervisorFollows(s) PROVE Watch'
    <3>1. mgr' = mgr /\ \A t \in Supervisors : sups'[t].pc = sups[t].pc
      BY <1>0, <2>2 DEF SupervisorFollows, Typed, SupervisorsTyped, SupervisorRecords
    <3> QED
      BY <1>0, <3>1 DEF Watch
  <2> QED
    BY <1>2, <2>1, <2>2 DEF Aside, Install, BackendExits, TakePort, vars
<1>3. CASE Exit \/ \E m \in Managers : New(m) \/ Crash(m)
  <2>1. NoManager.by = 0 /\ NoManager.watching = FALSE /\ NoManager.pc = "idle" /\ NoSupervisor.pc = "none"
    BY DEF NoManager, NoSupervisor
  <2>2. CASE Exit \/ Crash(Command)
    <3>1. mgr'[Command] = NoManager /\ mgr'[Service] = mgr[Service] /\ sups' = sups
      BY <1>0, <2>2, LifeBecomes DEF Exit, Crash
    <3> QED
      BY <2>1, <3>1 DEF Watch
  <2>3. CASE Crash(Service)
    <3>1. mgr'[Service] = NoManager /\ mgr'[Command] = mgr[Command] /\ \A s \in Supervisors : sups'[s] = NoSupervisor
      BY <1>0, <2>3, LifeBecomes DEF Crash
    <3> QED
      BY <2>1, <3>1 DEF Watch
  <2>4. ASSUME NEW m \in Managers, New(m) PROVE Watch'
    <3>1. /\ mgr'[m].pc = "idle" /\ mgr'[m].by = 0 /\ mgr'[m].watching = FALSE /\ sups' = sups
          /\ \A n \in Managers : n # m => mgr'[n] = mgr[n]
      BY <2>4, LifeBecomes DEF New
    <3>2. mgr[m] = NoManager
      BY <2>4 DEF New, DownIsBlank
    <3> QED
      BY <1>0, <2>1, <3>1, <3>2 DEF Watch
  <2> QED
    BY <1>0, <1>3, <2>2, <2>3, <2>4
<1>4. ASSUME NEW m \in Managers, Ensure(m) PROVE Watch'
  <2>1. /\ mgr[m].pc = "idle" /\ sups' = sups /\ mgr'[m].pc = "check" /\ mgr'[m].by = 0
        /\ mgr'[m].watching = mgr[m].watching /\ \A n \in Managers : n # m => mgr'[n] = mgr[n]
    BY <1>4, EnsureBecomes DEF Ensure, Begin, Became
  <2> QED
    BY <1>0, <2>1 DEF Watch
<1>5. ASSUME NEW m \in Managers, Adopt(m) \/ Start(m) \/ Spawn(m) \/ Push(m) \/ Retries(m) \/ Ready(m) PROVE Watch'
  <2>1. mgr[m].pc # "idle" /\ sups' = sups
    BY <1>5 DEF Adopt, Start, Spawn, Push, Retries, NotReady, Ready
  <2>2. /\ mgr'[m].by = mgr[m].by /\ mgr'[m].watching = mgr[m].watching /\ mgr'[m].pc \in Ensuring
        /\ \A n \in Managers : n # m => mgr'[n] = mgr[n]
    <3>1. CASE Ready(m)
      BY <3>1, StartBecomes DEF Became, Ensuring
    <3>2. CASE ~Ready(m)
      BY <1>5, <3>2, EnsureBecomes DEF Became, Retries, Ensuring
    <3> QED
      BY <3>1, <3>2
  <2> QED
    BY <1>1, <2>1, <2>2
<1>6. ASSUME NEW m \in Managers, Fails(m) PROVE Watch'
  <2>1. /\ mgr'[m].pc = "idle" /\ mgr'[m].by = 0 /\ mgr'[m].watching = mgr[m].watching
        /\ \A n \in Managers : n # m => mgr'[n] = mgr[n]
    BY <1>6, EnsureBecomes DEF Became, Fails
  <2>2. sups' = IF mgr[m].by = 0 THEN sups ELSE Resume(mgr[m].by, sups[mgr[m].by].pid)
    BY <1>6 DEF Fails, Failed
  <2>3. CASE mgr[m].by = 0
    BY <1>0, <2>1, <2>2, <2>3 DEF Watch
  <2>4. CASE mgr[m].by # 0
    <3>1. m = Service /\ mgr[Service].by \in Supervisors /\ mgr[Service].watching = TRUE
      BY <1>0, <2>4 DEF Watch
    <3>2. sups' = [sups EXCEPT ![mgr[Service].by] = [pc |-> "wait", pid |-> sups[mgr[Service].by].pid]]
      BY <1>0, <2>2, <2>4, <3>1 DEF Resume
    <3>3. /\ sups'[mgr[Service].by].pc = "wait"
          /\ \A t \in Supervisors : t # mgr[Service].by => sups'[t] = sups[t]
      BY <3>1, <3>2 DEF Typed, SupervisorsTyped
    <3> QED
      BY <1>0, <2>1, <2>4, <3>1, <3>3 DEF Watch
  <2> QED
    BY <2>3, <2>4
<1>7. ASSUME NEW m \in Managers, UpToDate(m) \/ Record(m) PROVE Watch'
  <2> DEFINE k == mgr[m]
             watch == k.command # 0 /\ k.watching = FALSE /\ m = Service
  <2>1. /\ mgr'[m].pc = "idle" /\ mgr'[m].by = 0 /\ mgr'[m].watching = IF watch THEN TRUE ELSE k.watching
        /\ \A n \in Managers : n # m => mgr'[n] = mgr[n]
    BY <1>7, EndsWell, EnsuredBecomes DEF Became
  <2>2. PICK free \in Supervisors :
          /\ sups[free].pc = "none" \/ \A t \in Supervisors : sups[t].pc # "none"
          /\ sups' = [s \in Supervisors |->
               IF s = k.by THEN [pc |-> "wait", pid |-> IF k.command # 0 THEN k.command ELSE sups[s].pid]
               ELSE IF watch /\ s = free THEN [pc |-> "wait", pid |-> k.command] ELSE sups[s]]
    BY <1>7, EndsWell, EnsuredBecomes
  <2>3. \A s \in Supervisors : sups'[s].pc = IF s = k.by \/ (watch /\ s = free) THEN "wait" ELSE sups[s].pc
    BY <2>2
  <2>4. k.watching \in BOOLEAN /\ free \in Supervisors /\ k.by \in Supervisors \cup {0}
    BY <1>0 DEF Typed, ManagersTyped, ManagerRecords
  <2>5. CASE m = Command
    <3>1. k.by = 0 /\ ~watch /\ k.watching = FALSE
      BY <1>0, <2>5 DEF Watch
    <3>2. /\ mgr'[Service] = mgr[Service] /\ mgr'[Command].by = 0 /\ mgr'[Command].watching = FALSE
          /\ \A s \in Supervisors : sups'[s].pc = sups[s].pc
      BY <1>0, <2>1, <2>3, <2>5, <3>1
    <3> HIDE DEF watch, k
    <3> QED
      BY <1>0, <3>2 DEF Watch
  <2>6. CASE m = Service /\ k.by # 0
    <3>1. k.by \in Supervisors /\ k.watching = TRUE /\ ~watch /\ sups[k.by].pc = "ensure"
      BY <1>0, <2>6 DEF Watch
    <3>2. \A t \in Supervisors : t # k.by => sups[t].pc = "none"
      BY <2>6, <3>1 DEF Watch
    <3>3. /\ mgr'[Command] = mgr[Command] /\ mgr'[Service].by = 0 /\ mgr'[Service].watching = TRUE
          /\ sups'[k.by].pc = "wait" /\ \A t \in Supervisors : t # k.by => sups'[t].pc = "none"
      BY <1>0, <2>1, <2>3, <2>6, <3>1, <3>2
    <3> HIDE DEF watch, k
    <3> QED
      BY <1>0, <3>1, <3>3 DEF Watch
  <2>7. CASE m = Service /\ k.by = 0 /\ ~watch
    <3>1. /\ mgr'[Command] = mgr[Command] /\ mgr'[Service].by = 0 /\ mgr'[Service].watching = mgr[Service].watching
          /\ \A s \in Supervisors : sups'[s].pc = sups[s].pc
      BY <1>0, <2>1, <2>3, <2>7
    <3> HIDE DEF watch, k
    <3> QED
      BY <1>0, <3>1 DEF Watch
  <2>8. CASE m = Service /\ k.by = 0 /\ watch
    <3>1. \A s \in Supervisors : sups[s].pc = "none"
      BY <2>8 DEF Watch
    <3>2. /\ mgr'[Command] = mgr[Command] /\ mgr'[Service].by = 0 /\ mgr'[Service].watching = TRUE
      BY <1>0, <2>1, <2>8
    <3>3. sups'[free].pc = "wait" /\ \A t \in Supervisors : t # free => sups'[t].pc = "none"
      <4> HIDE DEF watch, k
      <4> QED
        BY <1>0, <2>3, <2>4, <2>8, <3>1
    <3> HIDE DEF watch, k
    <3> QED
      BY <1>0, <2>4, <3>2, <3>3 DEF Watch
  <2> QED
    BY <1>0, <2>5, <2>6, <2>7, <2>8
<1>8. ASSUME NEW m \in Managers, Wipe(m) \/ ResetSave(m) \/ Export(m) \/ \E next \in {"idle", "reset", "export"} : Stop(m, next)
      PROVE  Watch'
  <2>1. sups' = sups /\ mgr'[m].by = mgr[m].by /\ mgr'[m].watching = mgr[m].watching
        /\ \A n \in Managers : n # m => mgr'[n] = mgr[n]
    BY <1>8, CommandBecomes DEF Became, Wipe, ResetSave, Export, Stop
  <2>2. mgr[m].pc \notin Ensuring
    BY <1>8 DEF Wipe, ResetSave, Export, Stop, Begin, Ensuring
  <2>3. m = Service => mgr'[m].by = 0
    BY <2>1, <2>2 DEF Watch
  <2> QED
    BY <1>1, <2>1, <2>3
<1>9. ASSUME NEW s \in Supervisors, SupervisorEnds(s) \/ SupervisorCounts(s) \/ SupervisorRestarts(s) PROVE Watch'
  <2> DEFINE k == mgr[Service]
  <2>1. mgr'[Command] = mgr[Command] /\ k.pc = "idle" /\ k.by = 0 /\ sups[s].pc # "none"
    BY <1>0, <1>9, SupervisorUp DEF Watch
  <2>2. k.watching = TRUE /\ \A t \in Supervisors : t # s => sups[t].pc = "none"
    BY <1>0, <2>1 DEF Watch
  <2>3. CASE SupervisorEnds(s)
    <3>1. mgr'[Service].by = 0 /\ mgr'[Service].watching = FALSE /\ sups' = [sups EXCEPT ![s] = NoSupervisor]
      BY <2>1, <2>3, SupervisorBecomes DEF Became
    <3>2. \A t \in Supervisors : sups'[t].pc = "none"
      BY <2>2, <3>1 DEF NoSupervisor, Typed, SupervisorsTyped
    <3> QED
      BY <1>0, <2>1, <3>1, <3>2 DEF Watch
  <2>4. CASE SupervisorCounts(s)
    <3>1. PICK on \in BOOLEAN :
            /\ mgr'[Service].by = 0 /\ mgr'[Service].watching = on
            /\ sups' = [sups EXCEPT ![s] = IF on THEN [sups[s] EXCEPT !.pc = "sleep"] ELSE NoSupervisor]
      BY <2>1, <2>4, SupervisorBecomes DEF Became
    <3>2. /\ \A t \in Supervisors : t # s => sups'[t].pc = "none"
          /\ sups'[s].pc = IF on THEN "sleep" ELSE "none"
      BY <1>0, <2>2, <3>1 DEF NoSupervisor, Typed, SupervisorsTyped, SupervisorRecords
    <3> QED
      BY <1>0, <2>1, <3>1, <3>2 DEF Watch
  <2>5. CASE SupervisorRestarts(s)
    <3>1. /\ mgr'[Service].by = s /\ mgr'[Service].watching = TRUE /\ mgr'[Service].pc = "check"
          /\ sups' = [sups EXCEPT ![s] = [sups[s] EXCEPT !.pc = "ensure"]]
      BY <2>2, <2>5, SupervisorBecomes DEF Became
    <3>2. /\ \A t \in Supervisors : t # s => sups'[t].pc = "none"
          /\ sups'[s].pc = "ensure"
      BY <1>0, <2>2, <3>1 DEF Typed, SupervisorsTyped, SupervisorRecords
    <3> QED
      BY <1>0, <2>1, <3>1, <3>2 DEF Watch, Ensuring
  <2> QED
    BY <1>9, <2>3, <2>4, <2>5
<1> QED
  BY <1>2, <1>3, <1>4, <1>5, <1>6, <1>7, <1>8, <1>9, StepCases

-----------------------------------------------------------------------------
\* One process on the database.

\* Held and RevisionHolds, where only this manager is up.
HeldBy(m) ==
  \A p \in Accounted :
    \/ p.pid = file.pid /\ mgr[m].pc \in Quiet
    \/ mgr[m].pc = "spawned" /\ mgr[m].child = p.pid

Revised(m) ==
  /\ resetCut = FALSE /\ mgr[m].pc # "wiped" /\ file.rev # 0 => db # 0
  /\ mgr[m].pc = "pushed" => db # 0

\* What Records says of the manager that is up.
LEMMA OnlyOne ==
  ASSUME Typed, DownIsBlank, Records, NEW m \in Managers, mgr[m].up = TRUE
  PROVE  /\ \A n \in Managers : n # m => mgr[n].up = FALSE /\ mgr[n].pc = "idle"
         /\ Own(m) /\ HeldBy(m) /\ Revised(m)
<1>1. \A n \in Managers : mgr[n].up \in BOOLEAN
  BY DEF Typed, ManagersTyped, ManagerRecords
<1>2. \A n \in Managers : n # m => mgr[n].up = FALSE
  BY <1>1 DEF Records, Alone, Managers
<1>3. \A n \in Managers : n # m => mgr[n].pc = "idle"
  BY <1>2 DEF DownIsBlank, NoManager
<1>4. HeldBy(m)
  BY <1>3 DEF Records, Held, HeldBy
<1>5. Revised(m)
  BY <1>3 DEF Records, RevisionHolds, Revised
<1> QED
  BY <1>2, <1>3, <1>4, <1>5 DEF Records, MemoryIsRecord

\* What is enough of the manager that is up after a step.
LEMMA StaysOne ==
  ASSUME NEW m \in Managers, mgr'[m].up = TRUE,
         \A n \in Managers : n # m => mgr'[n].up = FALSE /\ mgr'[n].pc = "idle",
         Own(m)', HeldBy(m)', Revised(m)'
  PROVE  Records'
<1>1. Alone' /\ MemoryIsRecord'
  BY DEF Alone, MemoryIsRecord, Managers, Service, Command
<1>2. "idle" \in Quiet
  BY DEF Quiet
<1>3. Held'
  BY <1>2 DEF Held, HeldBy
<1>4. RevisionHolds'
  BY DEF RevisionHolds, Revised
<1> QED
  BY <1>1, <1>3, <1>4 DEF Records

\* A step of the manager that is up keeps the records true: what it ends is what
\* the record names, and it starts a process only when none is left.
LEMMA ActsRecords ==
  ASSUME Typed, DownIsBlank, Records, NEW m \in Managers, Acts(m)
  PROVE  Records'
<1> DEFINE k == mgr[m]
<1>0. /\ k.up = TRUE /\ mgr'[m].up = TRUE /\ \A n \in Managers : n # m => mgr'[n] = mgr[n]
      /\ \A n \in Managers : n # m => mgr[n].up = FALSE /\ mgr[n].pc = "idle"
      /\ Own(m) /\ HeldBy(m) /\ Revised(m)
  BY ActsUp, OnlyOne
<1>1. /\ k.mem \in States /\ file \in States /\ k.command \in Nat /\ k.adopted \in Nat
      /\ \A p \in procs : p.lost \in BOOLEAN
  BY DEF Typed, DiskTyped, ManagersTyped, ManagerRecords, ProcsTyped
<1>2. SUFFICES Own(m)' /\ HeldBy(m)' /\ Revised(m)'
  BY <1>0, StaysOne
<1>3. ASSUME procs' \subseteq procs PROVE Accounted' \subseteq Accounted
  BY <1>3 DEF Accounted
<1>4. ASSUME Accounted' = {} PROVE HeldBy(m)'
  BY <1>4 DEF HeldBy
<1>5. ASSUME Accounted' \subseteq Accounted, file'.pid = file.pid, k.pc # "spawned",
             k.pc \in Quiet => mgr'[m].pc \in Quiet
      PROVE  HeldBy(m)'
  BY <1>0, <1>5 DEF HeldBy
<1>6. ASSUME UNCHANGED resetCut, file'.rev = file.rev, db' = db \/ db' # 0, k.pc # "wiped",
             mgr'[m].pc = "pushed" => db' # 0
      PROVE  Revised(m)'
  BY <1>0, <1>6 DEF Revised
<1>7. ASSUME file' = file, mgr'[m].mem = k.mem, mgr'[m].command = k.command,
             mgr'[m].adopted = k.adopted \/ (k.command = 0 /\ mgr'[m].adopted = k.mem.pid),
             mgr'[m].pc \in {"reset", "wiped", "export"} => k.pc = "reset"
      PROVE  Own(m)'
  BY <1>0, <1>7 DEF Own
<1>8. CASE Ensure(m) \/ Adopt(m) \/ Push(m) \/ Wipe(m) \/ Export(m)
  <2>1. /\ file' = file /\ procs' = procs /\ resetCut' = resetCut /\ k.pc \notin {"spawned", "wiped"}
        /\ k.pc \in {"idle", "check", "deploy", "reset", "export"}
    BY <1>8 DEF Ensure, Adopt, Push, Wipe, Export, Begin
  <2>2. /\ mgr'[m].mem = k.mem /\ mgr'[m].command = k.command
        /\ mgr'[m].adopted = k.adopted \/ (k.command = 0 /\ mgr'[m].adopted = k.mem.pid)
        /\ mgr'[m].pc \in {"idle", "check", "deploy", "pushed", "wiped"}
        /\ mgr'[m].pc = "wiped" => Wipe(m)
        /\ mgr'[m].pc = "pushed" => Push(m)
    BY <1>8, EnsureBecomes, CommandBecomes DEF Became
  <2>3. Wipe(m) => k.pc = "reset" /\ mgr'[m].pc = "wiped" /\ db' = 0
    BY CommandBecomes DEF Wipe, Became
  <2>4. Own(m)'
    BY <1>7, <2>1, <2>2, <2>3
  <2>5. k.pc \in Quiet => mgr'[m].pc \in Quiet
    BY <2>2, <2>3 DEF Quiet
  <2>6. HeldBy(m)'
    BY <1>3, <1>5, <2>1, <2>5
  <2>7. CASE Wipe(m)
    <3>1. Revised(m)'
      BY <2>3, <2>7 DEF Revised
    <3> QED
      BY <2>4, <2>6, <3>1
  <2>8. CASE ~Wipe(m)
    <3>1. Push(m) => db' # 0
      BY <1>0 DEF Push, Own
    <3>2. db' = db \/ db' # 0
      BY <1>8, <2>8, <3>1 DEF Ensure, Adopt, Wipe, Export
    <3>3. Revised(m)'
      BY <1>6, <2>1, <2>2, <3>1, <3>2
    <3> QED
      BY <2>4, <2>6, <3>3
  <2> QED
    BY <2>7, <2>8
<1>9. CASE Start(m)
  <2>1. /\ UNCHANGED <<file, db, resetCut>> /\ k.pc = "check" /\ mgr'[m].pc = "start" /\ mgr'[m].mem = k.mem
        /\ mgr'[m].command = k.command /\ mgr'[m].adopted = k.adopted
    BY <1>9, EnsureBecomes DEF Start, Became
  <2>2. Accounted' = {}
    BY <1>0, <1>9, <2>1 DEF Accounted, HeldBy, Own, Start, Kill
  <2> QED
    BY <1>4, <1>6, <1>7, <2>1, <2>2
<1>10. CASE Spawn(m)
  <2>1. /\ UNCHANGED <<file, db, resetCut>> /\ k.pc = "start" /\ mgr'[m].pc = "spawned" /\ mgr'[m].mem = k.mem
        /\ mgr'[m].command = k.command /\ mgr'[m].adopted = k.adopted /\ mgr'[m].child = spawned + 1
    BY <1>10, EnsureBecomes DEF Spawn, Became
  <2>2. PICK port : procs' = procs \cup {[pid |-> spawned + 1, port |-> port, lost |-> FALSE]}
    BY <1>10 DEF Spawn
  <2>3. Accounted = {}
    BY <1>0, <2>1 DEF HeldBy, Quiet
  <2>4. \A p \in Accounted' : p.pid = spawned + 1
    BY <2>2, <2>3 DEF Accounted
  <2>5. HeldBy(m)'
    BY <2>1, <2>4 DEF HeldBy
  <2> QED
    BY <1>6, <1>7, <2>1, <2>5
<1>11. CASE Ready(m)
  <2>1. UNCHANGED <<db, procs, resetCut>> /\ k.pc = "spawned"
    BY <1>11 DEF Ready
  <2>2. PICK p \in procs : /\ p.pid = k.child /\ file' = [k.mem EXCEPT !.port = p.port, !.pid = p.pid]
                           /\ mgr'[m].pc = "deploy" /\ mgr'[m].mem = file' /\ mgr'[m].command = p.pid
                           /\ mgr'[m].adopted = 0
    BY <1>11, StartBecomes DEF Became
  <2>3. file'.pid = p.pid /\ file'.rev = k.mem.rev /\ file'.bin = k.mem.bin
    BY <1>1, <2>2 DEF States
  <2>4. Own(m)'
    BY <1>0, <2>2, <2>3 DEF Own
  <2>5. \A q \in Accounted : q.pid = k.child
    BY <1>0, <2>1 DEF HeldBy, Quiet
  <2>6. HeldBy(m)'
    BY <2>1, <2>2, <2>3, <2>5 DEF HeldBy, Quiet, Accounted
  <2>7. file'.rev = file.rev
    BY <1>0, <2>3 DEF Own
  <2> QED
    BY <1>6, <2>1, <2>2, <2>4, <2>6, <2>7
<1>12. CASE Fails(m) \/ Retries(m)
  <2>1. /\ UNCHANGED <<file, resetCut>> /\ procs' \subseteq procs /\ k.pc \in {"start", "spawned", "deploy", "pushed"}
        /\ k.pc = "spawned" => procs' = Kill(k.child)
    BY <1>12 DEF Fails, Retries, StartFails, PushFails, EnvironmentFails, NotReady, Kill
  <2>2. /\ mgr'[m].pc \in {"idle", "start"} /\ mgr'[m].mem = k.mem
        /\ mgr'[m].command = k.command /\ mgr'[m].adopted = k.adopted
        /\ mgr'[m].pc = "start" => k.pc = "spawned"
    BY <1>12, EnsureBecomes DEF Fails, Retries, NotReady, Became
  <2>3. db' = db \/ db' # 0
    BY <1>0, <1>12 DEF Fails, Retries, StartFails, PushFails, EnvironmentFails, NotReady, Own
  <2>4. HeldBy(m)'
    <3>1. CASE k.pc = "spawned"
      <4>1. Accounted' = {}
        BY <1>0, <2>1, <3>1 DEF HeldBy, Quiet, Accounted, Kill
      <4> QED
        BY <1>4, <4>1
    <3>2. CASE k.pc # "spawned"
      <4>1. mgr'[m].pc \in Quiet
        BY <2>2, <3>2 DEF Quiet
      <4> QED
        BY <1>3, <1>5, <2>1, <3>2, <4>1
    <3> QED
      BY <3>1, <3>2
  <2> QED
    BY <1>6, <1>7, <2>1, <2>2, <2>3, <2>4
<1>13. CASE UpToDate(m) \/ Record(m)
  <2>1. UNCHANGED <<db, procs, resetCut>> /\ k.pc \in {"deploy", "pushed"}
    BY <1>13 DEF UpToDate, Record
  <2>2. mgr'[m].pc = "idle" /\ mgr'[m].mem = EndState(m) /\ mgr'[m].command = k.command /\ mgr'[m].adopted = k.adopted
    BY <1>13, EndsWell, EnsuredBecomes DEF Became
  <2>3. CASE UpToDate(m)
    <3>1. mgr'[m].mem = k.mem /\ file' = file
      BY <2>2, <2>3 DEF UpToDate, EndState
    <3>2. HeldBy(m)'
      BY <1>3, <1>5, <2>1, <2>2, <3>1 DEF Quiet
    <3> QED
      BY <1>6, <1>7, <2>1, <2>2, <3>1, <3>2
  <2>4. CASE Record(m)
    <3>1. k.pc = "pushed" /\ file' = [k.mem EXCEPT !.rev = k.mem.bin] /\ mgr'[m].mem = file'
      BY <2>2, <2>4 DEF Record, EndState
    <3>2. file'.pid = k.mem.pid /\ file'.port = k.mem.port /\ file'.bin = k.mem.bin
      BY <1>1, <3>1 DEF States
    <3>3. Own(m)'
      BY <1>0, <2>2, <3>1, <3>2 DEF Own
    <3>4. file'.pid = file.pid
      BY <1>0, <3>2 DEF Own
    <3>5. HeldBy(m)'
      BY <1>3, <1>5, <2>1, <2>2, <3>4 DEF Quiet
    <3>6. Revised(m)'
      BY <1>0, <2>1, <3>1 DEF Revised
    <3> QED
      BY <3>3, <3>5, <3>6
  <2> QED
    BY <1>13, <2>3, <2>4
<1>14. CASE \E next \in {"idle", "reset", "export"} : Stop(m, next)
  <2>1. PICK next \in {"idle", "reset", "export"} : Stop(m, next)
    BY <1>14
  <2>2. /\ UNCHANGED <<db, resetCut>> /\ k.pc = "idle" /\ procs' = Kill(Target(m)) /\ file' = [file EXCEPT !.pid = 0]
    BY <2>1 DEF Stop, Begin
  <2>3. /\ mgr'[m].pc = next /\ mgr'[m].mem = file' /\ mgr'[m].command = 0
        /\ mgr'[m].adopted = IF k.command # 0 THEN k.adopted ELSE 0
    BY <2>1, <2>2, CommandBecomes DEF Became
  <2>4. file'.pid = 0 /\ file'.rev = file.rev /\ file'.bin = file.bin
    BY <1>1, <2>2 DEF States
  <2>5. mgr'[m].adopted = 0
    BY <1>0, <2>3 DEF Own
  <2>6. Own(m)'
    BY <1>0, <2>3, <2>4, <2>5 DEF Own
  <2>7. Target(m) = file.pid
    BY <1>0, <1>1 DEF Target, Own
  <2>8. Accounted' = {}
    BY <1>0, <2>2, <2>7 DEF HeldBy, Accounted, Kill
  <2> QED
    BY <1>4, <1>6, <2>2, <2>3, <2>4, <2>6, <2>8
<1>15. CASE ResetSave(m)
  <2>1. /\ UNCHANGED <<db, procs, resetCut>> /\ k.pc = "wiped"
        /\ file' = [k.mem EXCEPT !.rev = 0, !.port = 0, !.pid = 0]
    BY <1>15 DEF ResetSave
  <2>2. mgr'[m].pc = "idle" /\ mgr'[m].mem = file' /\ mgr'[m].command = k.command /\ mgr'[m].adopted = k.adopted
    BY <1>15, <2>1, CommandBecomes DEF Became
  <2>3. file'.pid = 0 /\ file'.rev = 0 /\ file'.bin = k.mem.bin
    BY <1>1, <2>1 DEF States
  <2>4. Own(m)'
    BY <1>0, <2>1, <2>2, <2>3 DEF Own
  <2>5. HeldBy(m)'
    BY <1>0, <2>1 DEF HeldBy, Quiet, Accounted
  <2>6. Revised(m)'
    BY <2>2, <2>3 DEF Revised
  <2> QED
    BY <2>4, <2>5, <2>6
<1> QED
  BY <1>8, <1>9, <1>10, <1>11, <1>12, <1>13, <1>14, <1>15 DEF Acts

\* Without overlap the records stay true.
LEMMA RecordsStep ==
  ASSUME ~Overlap, Typed, DownIsBlank, Records, [Next]_vars
  PROVE  Records'
<1>0. /\ Service \in Managers /\ Command \in Managers /\ Service # Command
      /\ \A m \in Managers : mgr[m].up \in BOOLEAN
      /\ file \in States /\ resetCut \in BOOLEAN
  BY DEF Managers, Service, Command, Typed, ManagersTyped, ManagerRecords, DiskTyped
<1>1. CASE Aside
  <2>1. UNCHANGED <<mgr, db, resetCut>> /\ procs' \subseteq procs
    BY <1>1 DEF Aside, Install, BackendExits, TakePort, SupervisorFollows, vars
  <2>2. /\ file'.pid = file.pid /\ file'.port = file.port /\ file'.rev = file.rev
        /\ file.bin # 0 => file'.bin # 0
    <3>1. ASSUME NEW v \in Releases, Install(v)
          PROVE  file'.pid = file.pid /\ file'.port = file.port /\ file'.rev = file.rev /\ file'.bin # 0
      BY <1>0, <3>1, LocalBackendAssumption DEF Install, States
    <3> QED
      BY <1>1, <3>1 DEF Aside, BackendExits, TakePort, SupervisorFollows, vars
  <2>3. Alone' /\ MemoryIsRecord'
    BY <2>1, <2>2 DEF Records, Alone, MemoryIsRecord, Own
  <2>4. Accounted' \subseteq Accounted
    BY <2>1 DEF Accounted
  <2>5. Held'
    BY <2>1, <2>2, <2>4 DEF Records, Held
  <2>6. RevisionHolds'
    BY <2>1, <2>2 DEF Records, RevisionHolds
  <2> QED
    BY <2>3, <2>5, <2>6 DEF Records
<1>2. ASSUME NEW m \in Managers, New(m) PROVE Records'
  <2>1. /\ mgr[m].pc = "idle" /\ \A n \in Managers : mgr[n].up = FALSE
    BY <1>0, <1>2 DEF New, DownIsBlank, NoManager
  <2>2. \A n \in Managers : mgr[n].pc = "idle"
    BY <2>1 DEF DownIsBlank, NoManager
  <2>3. /\ UNCHANGED <<file, db, procs, resetCut>> /\ mgr'[m].up = TRUE /\ mgr'[m].mem = file /\ mgr'[m].pc = "idle"
        /\ mgr'[m].command = 0 /\ mgr'[m].adopted = 0 /\ file.bin # 0
        /\ \A n \in Managers : n # m => mgr'[n] = mgr[n]
    BY <1>2, LifeBecomes DEF New
  <2>4. Own(m)'
    BY <2>3 DEF Own
  <2>5. HeldBy(m)'
    BY <2>2, <2>3 DEF Records, Held, HeldBy, Quiet, Accounted
  <2>6. Revised(m)'
    BY <2>2, <2>3 DEF Records, RevisionHolds, Revised
  <2> QED
    BY <2>1, <2>2, <2>3, <2>4, <2>5, <2>6, StaysOne
<1>3. ASSUME NEW m \in Managers, Crash(m) \/ (m = Command /\ Exit) PROVE Records'
  <2>1. NoManager.pc = "idle" /\ NoManager.up = FALSE /\ "idle" \in Quiet
    BY DEF NoManager, Quiet
  <2>2. mgr' = [mgr EXCEPT ![m] = NoManager] /\ UNCHANGED <<file, db>> /\ mgr[m].up = TRUE
    BY <1>0, <1>3 DEF Crash, Exit, Begin
  <2>3. mgr'[m] = NoManager /\ \A n \in Managers : n # m => mgr'[n] = mgr[n]
    BY <2>2, LifeBecomes
  <2>4. /\ \A n \in Managers : n # m => mgr[n].up = FALSE /\ mgr[n].pc = "idle"
        /\ HeldBy(m) /\ Revised(m)
    BY <2>2, OnlyOne
  <2>5. Alone' /\ MemoryIsRecord'
    BY <1>0, <2>1, <2>3, <2>4 DEF Alone, MemoryIsRecord, Managers
  <2>6. \A p \in Accounted' : p \in Accounted /\ ~(mgr[m].pc = "spawned" /\ p.pid = mgr[m].child)
    <3>1. CASE Exit
      BY <3>1, <1>3, <2>2 DEF Exit, Begin, Accounted
    <3>2. CASE Crash(m)
      <4>1. \A p \in procs : [p EXCEPT !.lost = TRUE].lost = TRUE
        BY DEF Typed, ProcsTyped
      <4>2. \A q \in procs' : \/ q.lost = TRUE
                              \/ q \in procs /\ ~(mgr[m].pc = "spawned" /\ q.pid = mgr[m].child)
        BY <3>2, <4>1 DEF Crash
      <4> QED
        BY <4>2 DEF Accounted
    <3> QED
      BY <1>3, <3>1, <3>2
  <2>7. \A p \in Accounted' : p.pid = file.pid
    BY <2>4, <2>6 DEF HeldBy
  <2>8. Held'
    BY <2>1, <2>2, <2>3, <2>4, <2>7 DEF Held
  <2>9. resetCut' = FALSE => resetCut = FALSE /\ mgr[m].pc # "wiped"
    <3>1. CASE Crash(m)
      BY <1>0, <3>1 DEF Crash
    <3>2. CASE m = Command /\ Exit
      BY <3>2 DEF Exit, Begin
    <3> QED
      BY <1>3, <3>1, <3>2
  <2>10. RevisionHolds'
    BY <2>1, <2>2, <2>3, <2>4, <2>9 DEF RevisionHolds, Revised
  <2> QED
    BY <2>5, <2>8, <2>10 DEF Records
<1>4. ASSUME NEW s \in Supervisors, SupervisorEnds(s) \/ SupervisorCounts(s) \/ SupervisorRestarts(s) PROVE Records'
  <2> DEFINE k == mgr[Service]
  <2>1. k.up = TRUE /\ mgr'[Service].up = TRUE /\ mgr'[Command] = mgr[Command] /\ k.pc = "idle"
    BY <1>0, <1>4, SupervisorUp
  <2>2. UNCHANGED <<file, db, procs, resetCut>>
    BY <1>4 DEF SupervisorEnds, SupervisorCounts, SupervisorRestarts
  <2>3. /\ mgr'[Service].pc \in {"idle", "check"} /\ mgr'[Service].mem = k.mem /\ mgr'[Service].command \in {0, k.command}
        /\ mgr'[Service].adopted = k.adopted
    BY <1>4, <2>1, SupervisorBecomes DEF Became
  <2>4. /\ \A n \in Managers : n # Service => mgr[n].up = FALSE /\ mgr[n].pc = "idle"
        /\ Own(Service) /\ HeldBy(Service) /\ Revised(Service)
    BY <1>0, <2>1, OnlyOne
  <2>5. \A n \in Managers : n # Service => mgr'[n].up = FALSE /\ mgr'[n].pc = "idle"
    BY <2>1, <2>4 DEF Managers
  <2>6. Own(Service)'
    BY <2>2, <2>3, <2>4 DEF Own
  <2>7. HeldBy(Service)'
    BY <2>1, <2>2, <2>3, <2>4 DEF HeldBy, Quiet, Accounted
  <2>8. Revised(Service)'
    BY <2>1, <2>2, <2>3, <2>4 DEF Revised
  <2> QED
    BY <1>0, <2>1, <2>5, <2>6, <2>7, <2>8, StaysOne
<1>5. CASE \E m \in Managers : Acts(m)
  BY <1>5, ActsRecords
<1> QED
  BY <1>0, <1>1, <1>2, <1>3, <1>4, <1>5, StepCases DEF Acts

-----------------------------------------------------------------------------
\* The theorems.

\* What holds however the managers overlap, and what holds without overlap.
BackendInv == Typed /\ PidsFresh /\ DownIsBlank /\ Watch

\* Both hold from the start and are kept by every step.
LEMMA BackendInductive ==
  /\ Init => BackendInv /\ Records
  /\ BackendInv /\ [Next]_vars => BackendInv'
  /\ ~Overlap /\ BackendInv /\ Records /\ [Next]_vars => Records'
<1>1. ASSUME Init PROVE BackendInv /\ Records
  <2>1. /\ \A m \in Managers : mgr[m] = NoManager
        /\ \A s \in Supervisors : sups[s] = NoSupervisor
        /\ file = NoState /\ procs = {} /\ spawned = 0
    BY <1>1 DEF Init
  <2>2. /\ NoManager.up = FALSE /\ NoManager.pc = "idle" /\ NoManager.by = 0 /\ NoManager.watching = FALSE
        /\ NoManager.command = 0 /\ NoManager.mem = NoState /\ NoState.pid = 0 /\ NoState.rev = 0
        /\ NoSupervisor.pc = "none"
    BY DEF NoManager, NoSupervisor, NoState
  <2>3. PidsFresh
    BY <2>1, <2>2 DEF PidsFresh
  <2>4. DownIsBlank /\ Watch
    BY <2>1, <2>2 DEF DownIsBlank, Watch, Managers
  <2>5. Records
    BY <2>1, <2>2 DEF Records, Alone, MemoryIsRecord, Held, RevisionHolds, Accounted, Managers
  <2> QED
    BY <1>1, <2>3, <2>4, <2>5, InitTyped DEF BackendInv
<1> QED
  BY <1>1, TypedStep, FreshStep, DownStep, WatchStep, RecordsStep DEF BackendInv

\* Every variable keeps its type, a manager never holds a pid that was not given
\* out, and a start stays within its attempts (Manager and State).
THEOREM LocalBackendTyped == Spec => []LocalBackendTypeOK
<1>1. ASSUME BackendInv PROVE LocalBackendTypeOK
  <2>1. file \in [bin : Releases \cup {0}, port : Ports \cup {0}, pid : 0..MaxSpawns, rev : Releases \cup {0}]
    <3>1. file \in States /\ file.pid \in 0..MaxSpawns
      BY <1>1, LocalBackendAssumption DEF BackendInv, Typed, DiskTyped, PidsFresh, States
    <3> QED
      BY <3>1 DEF States
  <2>2. procs \subseteq [pid : 1..MaxSpawns, port : Ports, lost : BOOLEAN]
    <3>1. \A p \in procs : p \in [pid : Nat \ {0}, port : Ports, lost : BOOLEAN] /\ p.pid \in 1..MaxSpawns
      BY <1>1, LocalBackendAssumption DEF BackendInv, Typed, ProcsTyped, PidsFresh
    <3> QED
      BY <3>1
  <2>3. \A m \in Managers : mgr[m].command \in 0..spawned
    BY <1>1, LocalBackendAssumption DEF BackendInv, Typed, ManagersTyped, ManagerRecords, PidsFresh
  <2>4. \A m \in Managers : mgr[m].pc \in Stages /\ mgr[m].try \in 0..(Attempts - 1) /\ mgr[m].failures \in Nat
    BY <1>1 DEF BackendInv, Typed, ManagersTyped, ManagerRecords
  <2>5. \A s \in Supervisors : sups[s].pc \in {"none", "wait", "sleep", "ensure"}
    BY <1>1 DEF BackendInv, Typed, SupervisorsTyped, SupervisorRecords
  <2> QED
    BY <1>1, <2>1, <2>2, <2>3, <2>4, <2>5
       DEF LocalBackendTypeOK, BackendInv, Typed, DiskTyped, ProcsTyped, Stages, Managers
<1> QED
  BY <1>1, BackendInductive, PTL DEF Spec

\* "One manager has at most one" supervisor (startSupervisorLocked): the service has
\* exactly one while its manager believes it is watched and none otherwise, for
\* every restart limit and however a command works beside it.
THEOREM OneWatcher == Spec => []OneSupervisor
<1>1. ASSUME BackendInv PROVE OneSupervisor
  <2> DEFINE running == {s \in Supervisors : sups[s].pc # "none"}
  <2>1. mgr[Service].watching \in BOOLEAN
    BY <1>1 DEF BackendInv, Typed, ManagersTyped, ManagerRecords, Managers
  <2>2. CASE mgr[Service].watching = TRUE
    <3>1. PICK s \in Supervisors : sups[s].pc # "none" /\ \A t \in Supervisors : t # s => sups[t].pc = "none"
      BY <1>1, <2>2 DEF BackendInv, Watch
    <3>2. running = {s}
      BY <3>1
    <3>3. Cardinality(running) = 1
      BY <3>2, FS_Singleton
    <3> QED
      BY <2>2, <3>3 DEF OneSupervisor
  <2>3. CASE mgr[Service].watching = FALSE
    <3>1. running = {}
      BY <1>1, <2>3 DEF BackendInv, Watch
    <3>2. Cardinality(running) = 0
      BY <3>1, FS_EmptySet
    <3> QED
      BY <2>3, <3>2 DEF OneSupervisor
  <2> QED
    BY <2>1, <2>2, <2>3
<1> QED
  BY <1>1, BackendInductive, PTL DEF Spec

\* Adoption, slow starts, retries, restarts of the service and its crashes never
\* put a second process on the database, apart from one that a crash between its
\* start and its record made unknown to everyone: Ensure and Stop end what the
\* record names before anything is started.
THEOREM OneProcess == ~Overlap => (Spec => []OneBackend)
<1>1. ASSUME BackendInv, Records PROVE OneBackend
  <2>1. ASSUME NEW p \in Accounted, NEW q \in Accounted PROVE p = q
    <3>1. p.pid = q.pid
      <4>1. ASSUME NEW m \in Managers, mgr[m].pc = "spawned"
            PROVE  p.pid = mgr[m].child /\ q.pid = mgr[m].child
        <5>1. mgr[m].up = TRUE
          BY <1>1, <4>1 DEF BackendInv, DownIsBlank, NoManager, Typed, ManagersTyped, ManagerRecords
        <5>2. HeldBy(m)
          BY <1>1, <5>1, OnlyOne DEF BackendInv
        <5> QED
          BY <4>1, <5>2 DEF HeldBy, Quiet
      <4>2. CASE \A m \in Managers : mgr[m].pc # "spawned"
        BY <1>1, <4>2 DEF Records, Held
      <4> QED
        BY <4>1, <4>2
    <3> QED
      BY <1>1, <3>1 DEF BackendInv, PidsFresh, Accounted
  <2>2. CASE Accounted = {}
    BY <2>2, FS_EmptySet DEF OneBackend
  <2>3. CASE Accounted # {}
    <3>1. PICK p \in Accounted : TRUE
      BY <2>3
    <3>2. Accounted = {p}
      BY <2>1, <3>1
    <3>3. Cardinality(Accounted) = 1
      BY <3>2, FS_Singleton
    <3> QED
      BY <3>3 DEF OneBackend
  <2> QED
    BY <2>2, <2>3
<1>2. ASSUME ~Overlap PROVE Spec => []OneBackend
  <2>1. ~Overlap
    BY <1>2
  <2>2. BackendInv /\ Records /\ [Next]_vars => Records'
    BY <2>1, BackendInductive
  <2> QED
    BY <1>1, <2>2, BackendInductive, PTL DEF Spec
<1> QED
  BY <1>2

\* "The copy is taken with the backend stopped" (overgent backend export).
THEOREM ExportIsAtRest == ~Overlap => (Spec => []ExportedAtRest)
<1>1. ASSUME BackendInv, Records PROVE ExportedAtRest
  <2> SUFFICES ASSUME mgr[Command].pc = "export" PROVE Accounted = {}
    BY DEF ExportedAtRest
  <2>1. Command \in Managers
    BY DEF Managers
  <2>2. mgr[Command].up = TRUE
    BY <1>1, <2>1 DEF BackendInv, DownIsBlank, NoManager, Typed, ManagersTyped, ManagerRecords
  <2>3. HeldBy(Command)
    BY <1>1, <2>1, <2>2, OnlyOne DEF BackendInv
  <2> QED
    BY <2>3 DEF HeldBy, Quiet
<1>2. ASSUME ~Overlap PROVE Spec => []ExportedAtRest
  <2>2. BackendInv /\ Records /\ [Next]_vars => Records'
    BY <1>2, BackendInductive
  <2> QED
    BY <1>1, <2>2, BackendInductive, PTL DEF Spec
<1> QED
  BY <1>2

\* An Ensure that skips the push finds functions on the database: a recorded
\* revision outlives neither a saved Reset nor a push that was not finished.
THEOREM SkippedPushWasDone == ~Overlap => (Spec => []EnsuredHasFunctions)
<1>1. ASSUME BackendInv, Records PROVE EnsuredHasFunctions
  <2> SUFFICES ASSUME NEW m \in Managers, ~resetCut, mgr[m].pc = "deploy", mgr[m].mem.rev = mgr[m].mem.bin
               PROVE  db # 0
    BY DEF EnsuredHasFunctions
  <2>1. mgr[m].up = TRUE /\ resetCut = FALSE
    BY <1>1 DEF BackendInv, DownIsBlank, NoManager, Typed, ManagersTyped, ManagerRecords, DiskTyped
  <2>2. Own(m) /\ Revised(m)
    BY <1>1, <2>1, OnlyOne DEF BackendInv
  <2> QED
    BY <2>1, <2>2 DEF Own, Revised
<1>2. ASSUME ~Overlap PROVE Spec => []EnsuredHasFunctions
  <2>2. BackendInv /\ Records /\ [Next]_vars => Records'
    BY <1>2, BackendInductive
  <2> QED
    BY <1>1, <2>2, BackendInductive, PTL DEF Spec
<1> QED
  BY <1>2

-----------------------------------------------------------------------------
\* What the desktop application, which restarts this backend when it stopped,
\* tells its window of a credential: its calls ask the backends while a reset
\* or an enrollment changes the device they ask about.

Statuses == {"none", "unknown", "unread", "uncertain", "ok", "revoked"}

CachedAnswer == [status : Statuses, subject : Nat, fresh : BOOLEAN]

\* The devices of this profile are numbered by gestures, and none is made twice.
Numbered(d) == d \in 0..(gestures + 1)

DevicesNumbered ==
  /\ gestures \in Nat
  /\ env = [serving |-> env.serving, up |-> env.up, silent |-> env.silent, accepted |-> env.accepted]
  /\ device \in [Backends -> Nat]
  /\ \A b \in Backends :
       /\ Numbered(device[b])
       /\ \A d : <<b, d>> \in env.accepted => Numbered(d) /\ d # 0

\* Device d is no longer this Mac's, or the backend does not accept it: it
\* never will again.
Gone(b, d) == device[b] # d \/ <<b, d>> \notin env.accepted

\* A rejection is only kept, and only offered, about a device that is gone.
AnswerSound(b, a) ==
  /\ Numbered(a.subject)
  /\ a.status \in Refused => Gone(b, a.subject)

CallSound(r) ==
  /\ r = [pc |-> r.pc, held |-> r.held, todo |-> r.todo, late |-> r.late, verdict |-> r.verdict, got |-> r.got]
  /\ r.held \in [Backends -> Nat] /\ r.verdict \in Statuses /\ r.got \in [Backends -> Statuses]
  /\ \A b \in Backends :
       /\ Numbered(r.held[b])
       /\ r.got[b] \in Refused => Gone(b, r.held[b])
       /\ r.pc = "keep" /\ Head(r.todo) = b /\ r.verdict \in Refused => Gone(b, r.held[b])

WindowInv ==
  /\ DevicesNumbered
  /\ cache \in [Backends -> CachedAnswer] /\ \A b \in Backends : AnswerSound(b, cache[b])
  /\ calls = [c \in Callers |-> calls[c]] /\ \A c \in Callers : CallSound(calls[c])

\* What any step may do to the devices: forget one, enroll a new one, revoke.
DevicesAge ==
  /\ gestures' \in {gestures, gestures + 1}
  /\ env' = [serving |-> env'.serving, up |-> env'.up, silent |-> env'.silent, accepted |-> env'.accepted]
  /\ device' \in [Backends -> Nat]
  /\ \A b \in Backends :
       /\ device'[b] \in {device[b], 0} \/ (device'[b] = gestures + 2 /\ gestures' = gestures + 1)
       /\ \A d : <<b, d>> \in env'.accepted =>
            <<b, d>> \in env.accepted \/ (d = gestures + 2 /\ gestures' = gestures + 1)

LEMMA StaysGone ==
  ASSUME DevicesNumbered, DevicesAge
  PROVE  /\ DevicesNumbered'
         /\ \A d : Numbered(d) => Numbered(d)'
         /\ \A b \in Backends : \A d : Numbered(d) /\ Gone(b, d) => Gone(b, d)'
<1>1. gestures \in Nat /\ gestures' \in Nat /\ (gestures' = gestures \/ gestures' = gestures + 1)
  BY DEF DevicesNumbered, DevicesAge
<1>2. \A d : Numbered(d) => Numbered(d)' /\ d # gestures + 2
  <2>1. \A n, m \in Nat : m = n \/ m = n + 1 =>
           \A d : d \in 0..(n + 1) => d \in 0..(m + 1) /\ d # n + 2
    OBVIOUS
  <2>2. QED
    BY <1>1, <2>1 DEF Numbered
<1>3. DevicesNumbered'
  <2>1. ASSUME NEW b \in Backends PROVE Numbered(device[b])'
    <3>1. Numbered(device[b]) /\ (device'[b] \in {device[b], 0} \/ (device'[b] = gestures + 2 /\ gestures' = gestures + 1))
      BY DEF DevicesNumbered, DevicesAge
    <3>2. QED
      BY <1>1, <3>1 DEF Numbered
  <2>2. ASSUME NEW b \in Backends, NEW d, <<b, d>> \in env'.accepted PROVE Numbered(d)' /\ d # 0
    <3>1. <<b, d>> \in env.accepted \/ (d = gestures + 2 /\ gestures' = gestures + 1)
      BY <2>2 DEF DevicesAge
    <3>2. <<b, d>> \in env.accepted => Numbered(d) /\ d # 0
      BY DEF DevicesNumbered
    <3>3. QED
      BY <1>1, <1>2, <3>1, <3>2 DEF Numbered
  <2>3. QED
    BY <1>1, <2>1, <2>2 DEF DevicesNumbered, DevicesAge
<1>4. ASSUME NEW b \in Backends, NEW d, Numbered(d), Gone(b, d) PROVE Gone(b, d)'
  <2>1. device'[b] \in {device[b], 0} \/ device'[b] = gestures + 2
    BY DEF DevicesAge
  <2>2. \A e : <<b, e>> \in env'.accepted => <<b, e>> \in env.accepted \/ e = gestures + 2
    BY DEF DevicesAge
  <2>3. <<b, 0>> \notin env.accepted
    BY DEF DevicesNumbered
  <2>4. d # gestures + 2
    BY <1>2, <1>4
  <2>5. QED
    BY <1>4, <2>1, <2>2, <2>3, <2>4 DEF Gone
<1>5. QED
  BY <1>2, <1>3, <1>4

\* An answer that was sound stays so, whatever becomes of the devices.
LEMMA StaysSound ==
  ASSUME WindowInv, DevicesAge,
         cache' \in [Backends -> CachedAnswer], \A b \in Backends : AnswerSound(b, cache'[b]),
         calls' = [c \in Callers |-> calls'[c]], \A c \in Callers : CallSound(calls'[c])
  PROVE  WindowInv'
<1>1. /\ DevicesNumbered'
      /\ \A d : Numbered(d) => Numbered(d)'
      /\ \A b \in Backends : \A d : Numbered(d) /\ Gone(b, d) => Gone(b, d)'
  BY StaysGone DEF WindowInv
<1>2. ASSUME NEW b \in Backends PROVE AnswerSound(b, cache[b])'
  <2>1. AnswerSound(b, cache'[b])
    OBVIOUS
  <2>2. Numbered(cache'[b].subject) => Numbered(cache[b].subject)'
    BY <1>1
  <2>3. QED
    BY <1>1, <2>1, <2>2 DEF AnswerSound, Refused
<1>3. ASSUME NEW c \in Callers PROVE CallSound(calls[c])'
  <2>1. CallSound(calls'[c])
    OBVIOUS
  <2>2. \A b \in Backends : Numbered(calls'[c].held[b]) => Numbered(calls[c].held[b])'
    BY <1>1
  <2>3. \A b \in Backends : Numbered(calls'[c].held[b]) /\ Gone(b, calls'[c].held[b]) => Gone(b, calls[c].held[b])'
    BY <1>1
  <2>4. QED
    BY <2>1, <2>2, <2>3 DEF CallSound, Refused
<1>4. QED
  BY <1>1, <1>2, <1>3 DEF WindowInv

-----------------------------------------------------------------------------
\* The steps.

LEMMA SameDevices ==
  ASSUME DevicesNumbered, device' = device, gestures' \in {gestures, gestures + 1},
         env' = [serving |-> env'.serving, up |-> env'.up, silent |-> env'.silent, accepted |-> env'.accepted],
         env'.accepted \subseteq env.accepted
  PROVE  DevicesAge
BY DEF DevicesNumbered, DevicesAge

\* A step that asks nothing.
LEMMA AsksNothing ==
  ASSUME WindowInv, DevicesAge, UNCHANGED <<cache, calls>>
  PROVE  WindowInv'
BY StaysSound DEF WindowInv

\* A step of one call.
LEMMA CallGoesOn ==
  ASSUME WindowInv, DevicesAge, cache' \in [Backends -> CachedAnswer],
         \A b \in Backends : AnswerSound(b, cache'[b]),
         NEW c \in Callers, NEW r, CallSound(r), calls' = [calls EXCEPT ![c] = r]
  PROVE  WindowInv'
<1>1. calls' = [x \in Callers |-> calls'[x]] /\ \A x \in Callers : CallSound(calls'[x])
  BY DEF WindowInv
<1>2. QED
  BY <1>1, StaysSound

LEMMA CacheAsItWas ==
  ASSUME WindowInv, cache' = cache
  PROVE  cache' \in [Backends -> CachedAnswer] /\ \A b \in Backends : AnswerSound(b, cache'[b])
BY DEF WindowInv

LEMMA CacheDropped ==
  ASSUME WindowInv, cache' = NoAnswers
  PROVE  cache' \in [Backends -> CachedAnswer] /\ \A b \in Backends : AnswerSound(b, cache'[b])
BY DEF WindowInv, DevicesNumbered, NoAnswers, NoAnswer, CachedAnswer, Statuses,
       AnswerSound, Numbered, Refused

\* A call that has no answer yet.
LEMMA NothingOffered ==
  ASSUME NEW held \in [Backends -> Nat], \A b \in Backends : Numbered(held[b]), NEW pc, pc # "keep", NEW todo, NEW late
  PROVE  CallSound([pc |-> pc, held |-> held, todo |-> todo, late |-> late, verdict |-> "none", got |-> Blank])
<1>1. /\ Blank \in [Backends -> Statuses] /\ "none" \in Statuses
      /\ \A b \in Backends : Blank[b] \notin Refused
  BY DEF Blank, Statuses, Refused
<1>2. QED
  BY <1>1 DEF CallSound

LEMMA NoCallSound ==
  ASSUME DevicesNumbered
  PROVE  CallSound(NoCall)
<1> DEFINE none == [b \in Backends |-> 0]
<1>1. none \in [Backends -> Nat] /\ \A b \in Backends : Numbered(none[b])
  BY DEF DevicesNumbered, Numbered
<1>2. NoCall = [pc |-> "idle", held |-> none, todo |-> <<>>, late |-> FALSE, verdict |-> "none", got |-> Blank]
  BY Zenon DEF NoCall
<1>3. QED
  BY <1>1, <1>2, NothingOffered

LEMMA FreshCall ==
  ASSUME WindowInv, NEW pc, pc # "keep"
  PROVE  CallSound([NoCall EXCEPT !.pc = pc])
<1> DEFINE none == [b \in Backends |-> 0]
<1>1. none \in [Backends -> Nat] /\ \A b \in Backends : Numbered(none[b])
  BY DEF WindowInv, DevicesNumbered, Numbered
<1>2. NoCall = [pc |-> "idle", held |-> none, todo |-> <<>>, late |-> FALSE, verdict |-> "none", got |-> Blank]
  BY Zenon DEF NoCall
<1> HIDE DEF none
<1>3. [NoCall EXCEPT !.pc = pc] =
        [pc |-> pc, held |-> none, todo |-> <<>>, late |-> FALSE, verdict |-> "none", got |-> Blank]
  <2>1. PICK h, t, q : NoCall = [pc |-> "idle", held |-> h, todo |-> t, late |-> q, verdict |-> "none", got |-> Blank]
                       /\ h = none /\ t = <<>> /\ q = FALSE
    BY <1>2
  <2>2. PICK r : r = [NoCall EXCEPT !.pc = pc]
    OBVIOUS
  <2>3. DOMAIN r = {"pc", "held", "todo", "late", "verdict", "got"} /\ r = [x \in DOMAIN r |-> r[x]]
    BY <2>1, <2>2
  <2>4. r.pc = pc /\ r.held = h /\ r.todo = t /\ r.late = q /\ r.verdict = "none" /\ r.got = Blank
    BY <2>1, <2>2
  <2>5. r = [pc |-> pc, held |-> h, todo |-> t, late |-> q, verdict |-> "none", got |-> Blank]
    BY <2>3, <2>4
  <2>6. QED
    BY <2>1, <2>2, <2>5
<1>4. CallSound([pc |-> pc, held |-> none, todo |-> <<>>, late |-> FALSE, verdict |-> "none", got |-> Blank])
  BY <1>1, NothingOffered
<1>5. QED
  BY <1>3, <1>4, Zenon

LEMMA DevicesUnchanged ==
  ASSUME WindowInv, UNCHANGED <<env, device>>, gestures' \in {gestures, gestures + 1}
  PROVE  DevicesAge
BY SameDevices DEF WindowInv, DevicesNumbered

LEMMA ResetEnrollmentSound ==
  ASSUME WindowInv, NEW c \in Callers, NEW x \in Backends, ResetEnrollment(c, x)
  PROVE  WindowInv'
<1>1. DevicesAge
  BY DEF WindowInv, DevicesNumbered, DevicesAge, ResetEnrollment, Gesture
<1>2. calls' = [calls EXCEPT ![c] = [NoCall EXCEPT !.pc = "forget"]] /\ cache' = cache
  BY DEF ResetEnrollment, Call, SetCall
<1>3. CallSound([NoCall EXCEPT !.pc = "forget"])
  BY FreshCall
<1>4. QED
  BY <1>1, <1>2, <1>3, CacheAsItWas, CallGoesOn

LEMMA AddProjectSound ==
  ASSUME WindowInv, NEW c \in Callers, NEW x \in Backends, AddProject(c, x)
  PROVE  WindowInv'
<1>1. DevicesAge
  <2>1. /\ gestures \in Nat /\ gestures' = gestures + 1
        /\ device \in [Backends -> Nat] /\ device' = [device EXCEPT ![x] = gestures + 2]
    BY DEF WindowInv, DevicesNumbered, AddProject, Gesture
  <2>2. \E up : env' = [serving |-> env.serving, up |-> up, silent |-> env.silent,
                        accepted |-> env.accepted \cup {<<x, gestures + 2>>}]
    <3>1. env = [serving |-> env.serving, up |-> env.up, silent |-> env.silent, accepted |-> env.accepted]
      BY DEF WindowInv, DevicesNumbered
    <3>2. env' = [env EXCEPT !.accepted = @ \cup {<<x, gestures + 2>>}, !.up = @ \cup {x}]
      BY DEF AddProject
    <3>3. env' = [serving |-> env.serving, up |-> env.up \cup {x}, silent |-> env.silent,
                  accepted |-> env.accepted \cup {<<x, gestures + 2>>}]
      BY <3>1, <3>2
    <3>4. QED
      BY <3>3
  <2>3. QED
    BY <2>1, <2>2 DEF DevicesAge
<1>2. calls' = [calls EXCEPT ![c] = [NoCall EXCEPT !.pc = "forget"]] /\ cache' = cache
  BY DEF AddProject, Call, SetCall
<1>3. CallSound([NoCall EXCEPT !.pc = "forget"])
  BY FreshCall
<1>4. QED
  BY <1>1, <1>2, <1>3, CacheAsItWas, CallGoesOn

LEMMA RecheckSound ==
  ASSUME WindowInv, NEW c \in Callers, Recheck(c)
  PROVE  WindowInv'
<1>1. DevicesAge
  BY DevicesUnchanged DEF Recheck, Gesture
<1>2. calls' = [calls EXCEPT ![c] = [NoCall EXCEPT !.pc = "forget"]] /\ cache' = cache
  BY DEF Recheck, Call, SetCall
<1>3. CallSound([NoCall EXCEPT !.pc = "forget"])
  BY FreshCall
<1>4. QED
  BY <1>1, <1>2, <1>3, CacheAsItWas, CallGoesOn

LEMMA ForgetSound ==
  ASSUME WindowInv, NEW c \in Callers, forgetCredentialHealth(c)
  PROVE  WindowInv'
<1>1. DevicesAge
  BY DevicesUnchanged DEF forgetCredentialHealth
<1>2. calls' = [calls EXCEPT ![c] = [NoCall EXCEPT !.pc = "begin"]] /\ cache' = NoAnswers
  BY DEF forgetCredentialHealth, Call, SetCall
<1>3. CallSound([NoCall EXCEPT !.pc = "begin"])
  BY FreshCall
<1>4. QED
  BY <1>1, <1>2, <1>3, CacheDropped, CallGoesOn

\* A call of State asks about the devices config.json names as it begins.
LEMMA StateSound ==
  ASSUME WindowInv, NEW c \in Callers, State(c)
  PROVE  WindowInv'
<1>1. DevicesAge
  BY DevicesUnchanged DEF State
<1>2. PICK todo : calls' = [calls EXCEPT ![c] = [NoCall EXCEPT !.pc = "look", !.held = device, !.todo = todo]]
  BY Zenon DEF State, SetCall
<1>3. CallSound([NoCall EXCEPT !.pc = "look", !.held = device, !.todo = todo])
  <2>1. PICK h, t : NoCall = [pc |-> "idle", held |-> h, todo |-> t, late |-> FALSE, verdict |-> "none", got |-> Blank]
    BY Zenon DEF NoCall
  <2>2. [NoCall EXCEPT !.pc = "look", !.held = device, !.todo = todo] =
          [pc |-> "look", held |-> device, todo |-> todo, late |-> FALSE, verdict |-> "none", got |-> Blank]
    <3>1. PICK r, d : r = [NoCall EXCEPT !.pc = "look", !.held = device, !.todo = todo] /\ d = device
      OBVIOUS
    <3>2. DOMAIN r = {"pc", "held", "todo", "late", "verdict", "got"} /\ r = [x \in DOMAIN r |-> r[x]]
      BY <2>1, <3>1
    <3>3. r.pc = "look" /\ r.held = d /\ r.todo = todo /\ r.late = FALSE /\ r.verdict = "none" /\ r.got = Blank
      BY <2>1, <3>1
    <3>4. r = [pc |-> "look", held |-> d, todo |-> todo, late |-> FALSE, verdict |-> "none", got |-> Blank]
      BY <3>2, <3>3
    <3>5. QED
      BY <3>1, <3>4
  <2>3. device \in [Backends -> Nat] /\ \A b \in Backends : Numbered(device[b])
    BY DEF WindowInv, DevicesNumbered
  <2>4. QED
    BY <2>2, <2>3, NothingOffered
<1>4. cache' = cache
  BY DEF State
<1>5. QED
  BY <1>1, <1>2, <1>3, <1>4, CacheAsItWas, CallGoesOn

\* An answer about the device the call asks for is offered as it is.
LEMMA AnswerOffered ==
  ASSUME WindowInv, NEW c \in Callers, NEW b, NEW status,
         b \in Backends => status \in Statuses /\ (status \in Refused => Gone(b, calls[c].held[b]))
  PROVE  CallSound(Answer(c, b, status))
<1>1. PICK r : calls[c] = r /\ CallSound(r)
  BY DEF WindowInv
<1>2. r = [pc |-> r.pc, held |-> r.held, todo |-> r.todo, late |-> r.late, verdict |-> r.verdict, got |-> r.got]
  BY <1>1 DEF CallSound
<1>3. Answer(c, b, status) =
        [pc |-> "look", held |-> r.held, todo |-> Tail(r.todo), late |-> r.late, verdict |-> "none", got |-> [r.got EXCEPT ![b] = status]]
  <2>1. PICK pc, held, todo, late, verdict, got :
          r = [pc |-> pc, held |-> held, todo |-> todo, late |-> late, verdict |-> verdict, got |-> got]
    BY <1>2
  <2>2. /\ Answer(c, b, status) =
             [r EXCEPT !.pc = "look", !.todo = Tail(r.todo), !.verdict = "none", !.got = [r.got EXCEPT ![b] = status]]
        /\ r.todo = todo /\ r.late = late /\ r.got = got /\ r.held = held
    BY <1>1, <2>1 DEF Answer
  <2>3. QED
    BY <2>1, <2>2
<1>4. [r.got EXCEPT ![b] = status] \in [Backends -> Statuses]
  BY <1>1 DEF CallSound
<1>5. "none" \in Statuses
  BY DEF Statuses
<1>6. ASSUME NEW x \in Backends, [r.got EXCEPT ![b] = status][x] \in Refused PROVE Gone(x, r.held[x])
  <2>1. CASE x = b
    BY <1>1, <1>6, <2>1 DEF CallSound
  <2>2. CASE x # b
    BY <1>1, <1>6, <2>2 DEF CallSound
  <2>3. QED
    BY <2>1, <2>2
<1>7. QED
  BY <1>1, <1>3, <1>4, <1>5, <1>6 DEF CallSound

LEMMA LookSound ==
  ASSUME WindowInv, NEW c \in Callers, Look(c)
  PROVE  WindowInv'
<1>1. DevicesAge
  BY DevicesUnchanged DEF Look
<1>2. cache' = cache
  BY DEF Look
<1>3. PICK b : b = Head(calls[c].todo)
  OBVIOUS
<1>4. CASE Reusable(cache[b], calls[c].held[b]) 
  <2>1. calls' = [calls EXCEPT ![c] = Answer(c, b, cache[b].status)]
    BY <1>3, <1>4 DEF Look, SetCall
  <2>2. b \in Backends => cache[b].status \in Statuses
    BY DEF WindowInv, CachedAnswer
  <2>3. b \in Backends /\ cache[b].status \in Refused => Gone(b, calls[c].held[b])
    BY <1>4 DEF WindowInv, AnswerSound, Reusable
  <2>4. CallSound(Answer(c, b, cache[b].status))
    BY <2>2, <2>3, AnswerOffered
  <2>5. QED
    BY <1>1, <1>2, <2>1, <2>4, CacheAsItWas, CallGoesOn
<1>5. CASE ~Reusable(cache[b], calls[c].held[b])
  <2>1. calls' = [calls EXCEPT ![c] = [calls[c] EXCEPT !.pc = "ask"]]
    BY <1>3, <1>5 DEF Look, SetCall
  <2>2. CallSound([calls[c] EXCEPT !.pc = "ask"])
    <3>1. PICK r : calls[c] = r /\ CallSound(r)
      BY DEF WindowInv
    <3>2. [r EXCEPT !.pc = "ask"] = [pc |-> "ask", held |-> r.held, todo |-> r.todo, late |-> r.late, verdict |-> r.verdict, got |-> r.got]
      BY <3>1 DEF CallSound
    <3>3. QED
      BY <3>1, <3>2 DEF CallSound
  <2>3. QED
    BY <1>1, <1>2, <2>1, <2>2, CacheAsItWas, CallGoesOn
<1>6. QED
  BY <1>4, <1>5

\* The backend rejects a device only when it is gone, and a deadline that is used
\* up makes no rejection of it that could be read.
LEMMA CredentialStateSound ==
  ASSUME WindowInv, NEW c \in Callers, CredentialState(c)
  PROVE  WindowInv'
<1>1. DevicesAge
  BY DevicesUnchanged DEF CredentialState
<1>2. cache' = cache
  BY DEF CredentialState
<1>3. PICK r : calls[c] = r /\ CallSound(r)
  BY DEF WindowInv
<1>4. PICK b : b = Head(r.todo)
  OBVIOUS
<1>5. PICK v, late :
        /\ v = Verdict(b, r.held[b], r.late) \/ v = "unread"
        /\ calls' = [calls EXCEPT ![c] = [r EXCEPT !.pc = "keep", !.verdict = v, !.late = late]]
  BY <1>3, <1>4 DEF CredentialState, SetCall, Asked
<1>6. v \in Statuses /\ (v \in Refused => Gone(b, r.held[b]))
  BY <1>5 DEF Verdict, Statuses, Refused, Gone
<1>7. [r EXCEPT !.pc = "keep", !.verdict = v, !.late = late] =
        [pc |-> "keep", held |-> r.held, todo |-> r.todo, late |-> late, verdict |-> v, got |-> r.got]
  <2>1. PICK e : e = [r EXCEPT !.pc = "keep", !.verdict = v, !.late = late]
    OBVIOUS
  <2>2. PICK pc, held, todo, was, verdict, got :
          r = [pc |-> pc, held |-> held, todo |-> todo, late |-> was, verdict |-> verdict, got |-> got]
    BY <1>3 DEF CallSound
  <2>3. DOMAIN e = {"pc", "held", "todo", "late", "verdict", "got"} /\ e = [x \in DOMAIN e |-> e[x]]
    BY <2>1, <2>2
  <2>4. e.pc = "keep" /\ e.held = r.held /\ e.todo = r.todo /\ e.late = late /\ e.verdict = v /\ e.got = r.got
    BY <2>1, <2>2
  <2>5. e = [pc |-> "keep", held |-> r.held, todo |-> r.todo, late |-> late, verdict |-> v, got |-> r.got]
    BY <2>3, <2>4
  <2>6. QED
    BY <2>1, <2>5
<1>8. CallSound([pc |-> "keep", held |-> r.held, todo |-> r.todo, late |-> late, verdict |-> v, got |-> r.got])
  BY <1>3, <1>4, <1>6 DEF CallSound
<1>9. QED
  BY <1>1, <1>2, <1>5, <1>7, <1>8, CacheAsItWas, CallGoesOn

LEMMA KeepAnswerSound ==
  ASSUME WindowInv, NEW c \in Callers, KeepAnswer(c)
  PROVE  WindowInv'
<1>1. DevicesAge
  BY DevicesUnchanged DEF KeepAnswer
<1>2. PICK r : calls[c] = r /\ CallSound(r)
  BY DEF WindowInv
<1>3. PICK b : b = Head(r.todo)
  OBVIOUS
<1>4. /\ r.pc = "keep"
      /\ cache' = [cache EXCEPT ![b] = [status |-> r.verdict, subject |-> r.held[b], fresh |-> TRUE]]
      /\ calls' = [calls EXCEPT ![c] = Answer(c, b, r.verdict)]
  BY <1>2, <1>3 DEF KeepAnswer, SetCall
<1>5. r.verdict \in Statuses /\ (b \in Backends => r.held[b] \in Nat /\ Numbered(r.held[b]))
  BY <1>2 DEF CallSound
<1>6. b \in Backends /\ r.verdict \in Refused => Gone(b, r.held[b])
  BY <1>2, <1>3, <1>4 DEF CallSound
<1>7. CallSound(Answer(c, b, r.verdict))
  BY <1>2, <1>5, <1>6, AnswerOffered
<1>8. PICK a : a = [status |-> r.verdict, subject |-> r.held[b], fresh |-> TRUE]
  OBVIOUS
<1>9. b \in Backends => a \in CachedAnswer /\ AnswerSound(b, a)
  BY <1>5, <1>6, <1>8 DEF CachedAnswer, AnswerSound
<1>10. cache' \in [Backends -> CachedAnswer] /\ \A x \in Backends : AnswerSound(x, cache'[x])
  BY <1>4, <1>8, <1>9 DEF WindowInv
<1>11. QED
  BY <1>1, <1>4, <1>7, <1>10, CallGoesOn

LEMMA ShowSound ==
  ASSUME WindowInv, NEW c \in Callers, Show(c)
  PROVE  WindowInv'
<1>1. DevicesAge
  BY DevicesUnchanged DEF Show
<1>2. calls' = [calls EXCEPT ![c] = NoCall] /\ cache' = cache
  BY DEF Show, SetCall
<1>3. CallSound(NoCall)
  BY NoCallSound DEF WindowInv
<1>4. QED
  BY <1>1, <1>2, <1>3, CacheAsItWas, CallGoesOn

LEMMA LapseSound ==
  ASSUME WindowInv, NEW x \in Backends, Lapse(x)
  PROVE  WindowInv'
<1>1. DevicesAge
  BY DevicesUnchanged DEF Lapse
<1>2. PICK a \in CachedAnswer : cache[x] = a
  BY DEF WindowInv
<1>3. cache' = [cache EXCEPT ![x] = [a EXCEPT !.fresh = FALSE]] /\ calls' = calls
  BY <1>2 DEF Lapse
<1>4. /\ [a EXCEPT !.fresh = FALSE] \in CachedAnswer
      /\ [a EXCEPT !.fresh = FALSE].status = a.status /\ [a EXCEPT !.fresh = FALSE].subject = a.subject
  BY DEF CachedAnswer
<1>5. cache' \in [Backends -> CachedAnswer] /\ \A b \in Backends : AnswerSound(b, cache'[b])
  BY <1>2, <1>3, <1>4 DEF WindowInv, AnswerSound
<1>6. QED
  BY <1>1, <1>3, <1>5, StaysSound DEF WindowInv

LEMMA RestartForgetsSound ==
  ASSUME WindowInv, RestartForgets
  PROVE  WindowInv'
<1>1. DevicesAge
  BY DevicesUnchanged DEF RestartForgets
<1>2. cache' = NoAnswers /\ calls' = calls
  BY DEF RestartForgets
<1>3. QED
  BY <1>1, <1>2, CacheDropped, StaysSound DEF WindowInv

\* A step of the service, the backends or the window's pages: no answer is
\* asked for, and no device but a revoked one changes.
LEMMA Bystander ==
  ASSUME WindowInv, UNCHANGED <<device, cache, calls>>, gestures' \in {gestures, gestures + 1},
         \/ env' = env
         \/ \E up : env' = [env EXCEPT !.up = up]
         \/ \E up, silent : env' = [env EXCEPT !.up = up, !.silent = silent]
         \/ \E up, serving : env' = [env EXCEPT !.serving = serving, !.up = up]
         \/ \E serving : env' = [env EXCEPT !.serving = serving]
         \/ \E gone : env' = [env EXCEPT !.accepted = @ \ gone]
  PROVE  WindowInv'
<1>1. PICK serving, up, silent, accepted :
        env = [serving |-> serving, up |-> up, silent |-> silent, accepted |-> accepted]
  BY DEF WindowInv, DevicesNumbered
<1>2. env' = [serving |-> env'.serving, up |-> env'.up, silent |-> env'.silent, accepted |-> env'.accepted] /\ env'.accepted \subseteq accepted
  <2>1. CASE env' = env
    BY <1>1, <2>1
  <2>2. CASE \E u : env' = [env EXCEPT !.up = u]
    BY <1>1, <2>2
  <2>3. CASE \E u, s : env' = [env EXCEPT !.serving = s, !.up = u]
    <3>1. PICK u, s : env' = [env EXCEPT !.serving = s, !.up = u]
      BY <2>3
    <3>2. PICK e : e = env'
      OBVIOUS
    <3>3. DOMAIN e = {"serving", "up", "silent", "accepted"} /\ e = [x \in DOMAIN e |-> e[x]] /\ e.accepted = accepted
      BY <1>1, <3>1, <3>2
    <3>4. e = [serving |-> e.serving, up |-> e.up, silent |-> e.silent, accepted |-> e.accepted]
      BY <3>3
    <3>5. QED
      BY <3>2, <3>3, <3>4
  <2>7. CASE \E u, q : env' = [env EXCEPT !.up = u, !.silent = q]
    <3>1. PICK u, q : env' = [env EXCEPT !.up = u, !.silent = q]
      BY <2>7
    <3>2. PICK e : e = env'
      OBVIOUS
    <3>3. DOMAIN e = {"serving", "up", "silent", "accepted"} /\ e = [x \in DOMAIN e |-> e[x]] /\ e.accepted = accepted
      BY <1>1, <3>1, <3>2
    <3>4. e = [serving |-> e.serving, up |-> e.up, silent |-> e.silent, accepted |-> e.accepted]
      BY <3>3
    <3>5. QED
      BY <3>2, <3>3, <3>4
  <2>4. CASE \E s : env' = [env EXCEPT !.serving = s]
    BY <1>1, <2>4
  <2>5. CASE \E gone : env' = [env EXCEPT !.accepted = @ \ gone]
    BY <1>1, <2>5
  <2>6. QED
    BY <2>1, <2>2, <2>3, <2>4, <2>5, <2>7
<1>3. DevicesAge
  BY <1>1, <1>2, SameDevices DEF WindowInv
<1>4. QED
  BY <1>3, AsksNothing

LEMMA WindowStep == WindowInv /\ [DesktopNext]_desktopVars => WindowInv'
<1> SUFFICES ASSUME WindowInv, [DesktopNext]_desktopVars PROVE WindowInv'
  OBVIOUS
<1> USE DEF Fault, Gesture, health, pages
<1>1. CASE ServiceStops
  BY <1>1, Bystander DEF ServiceStops
<1>2. CASE ServiceStarts
  BY <1>2, Bystander DEF ServiceStarts
<1>3. ASSUME NEW b \in Backends, BackendStops(b) \/ BackendReturns(b) PROVE WindowInv'
  BY <1>3, Bystander DEF BackendStops, BackendReturns
<1>4. ASSUME NEW b \in Backends, Revoke(b) PROVE WindowInv'
  BY <1>4, Bystander DEF Revoke
<1>5. ASSUME NEW c \in Callers, NEW b \in Backends, ResetEnrollment(c, b) \/ AddProject(c, b) PROVE WindowInv'
  BY <1>5, ResetEnrollmentSound, AddProjectSound
<1>6. CASE EnvironmentNext
  BY <1>1, <1>2, <1>3, <1>4, <1>5, <1>6 DEF EnvironmentNext
<1>7. ASSUME NEW c \in Callers, State(c) \/ Recheck(c) \/ CallStep(c) PROVE WindowInv'
  BY <1>7, StateSound, RecheckSound, ForgetSound, LookSound, CredentialStateSound, KeepAnswerSound, ShowSound
     DEF CallStep
<1>8. CASE RestartEnsured
  BY <1>8, Bystander DEF RestartEnsured
<1>9. CASE RestartFails
  BY <1>9, Bystander DEF RestartFails
<1>10. CASE StateNext
  BY <1>7, <1>8, <1>9, <1>10, LapseSound, RestartForgetsSound DEF StateNext
<1>11. CASE DashboardRequest \/ SendRequest \/ RenewalUnread \/ SessionEnds \/ SessionAges
  BY <1>11, Bystander DEF DashboardRequest, SendRequest, RenewalUnread, SessionEnds, SessionAges
<1>12. ASSUME NEW i \in Opens, NEW b \in Backends, OpenNewestProject(i, b) PROVE WindowInv'
  BY <1>12, Bystander DEF OpenNewestProject
<1>13. ASSUME NEW i \in Opens, MintTicket(i) \/ OriginFails(i) \/ PageServed(i) \/ HandoffCloses(i)
       PROVE  WindowInv'
  BY <1>13, Bystander DEF MintTicket, OriginFails, PageServed, HandoffCloses
<1>14. ASSUME NEW i \in Opens, StartHandoff(i) PROVE WindowInv'
  BY <1>14, Bystander DEF StartHandoff, OriginFor
<1>15. CASE Deliver \/ Attach
  BY <1>15, Bystander DEF Deliver, Attach
<1>16. ASSUME NEW l \in 1..Links, HandleLink(l) PROVE WindowInv'
  BY <1>16, Bystander DEF HandleLink
<1>17. CASE WindowNext
  BY <1>11, <1>12, <1>13, <1>14, <1>15, <1>16, <1>17 DEF WindowNext
<1>18. CASE UNCHANGED desktopVars
  BY <1>18, Bystander DEF desktopVars
<1>19. QED
  BY <1>6, <1>10, <1>17, <1>18 DEF DesktopNext

LEMMA WindowInit == DesktopInit => WindowInv
<1> SUFFICES ASSUME DesktopInit PROVE WindowInv
  OBVIOUS
<1>1. DevicesNumbered
  BY DEF DesktopInit, DevicesNumbered, Numbered
<1>2. cache \in [Backends -> CachedAnswer] /\ \A b \in Backends : AnswerSound(b, cache[b])
  BY <1>1 DEF DesktopInit, DevicesNumbered, NoAnswers, NoAnswer, CachedAnswer, Statuses,
              AnswerSound, Numbered, Refused
<1>3. CallSound(NoCall)
  BY <1>1, NoCallSound
<1>4. calls = [c \in Callers |-> NoCall]
  BY DEF DesktopInit
<1>5. calls = [c \in Callers |-> calls[c]] /\ \A c \in Callers : CallSound(calls[c])
  BY <1>3, <1>4
<1>6. QED
  BY <1>1, <1>2, <1>5 DEF WindowInv

\* A credential that could be read is never shown as rejected while its device is
\* this Mac's and accepted, for every number of backends, calls and restarts:
\* the answer is never about the device that took its place (credentialHealth,
\* ResetEnrollment). On that answer the window offers to forget the device. Of a
\* credential that could not be read nothing is claimed.
THEOREM WindowNeverMisjudges == DesktopSpec => []RejectedOrUnread
<1>1. DesktopInit => WindowInv
  BY WindowInit
<1>2. WindowInv /\ [DesktopNext]_desktopVars => WindowInv'
  BY WindowStep
<1>3. WindowInv => RejectedOrUnread
  <2> SUFFICES ASSUME WindowInv, NEW c \in Callers, NEW b \in Backends, calls[c].got[b] \in Refused
      PROVE  Forgone(c, b)
    BY DEF RejectedOrUnread
  <2>1. QED
    BY DEF WindowInv, CallSound, Gone, Forgone
<1>4. QED
  BY <1>1, <1>2, <1>3, PTL DEF DesktopSpec
=============================================================================
