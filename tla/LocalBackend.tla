---------------------------- MODULE LocalBackend ----------------------------
(***************************************************************************)
(* Supervision of the bundled backend process (internal/localbackend): the *)
(* record backend.json, the database, the processes alive on this machine, *)
(* and the managers that start, adopt, deploy to, stop, reset and export   *)
(* the backend: the one of the service, with its supervisor goroutine, and *)
(* the one a command of the CLI makes when no service answers it.          *)
(*                                                                         *)
(* A manager's mutex is held for a whole Ensure, Stop or Reset; what it    *)
(* does not exclude is another manager, the backend's own exit, and a stop *)
(* of the process that holds it, so Ensure is several steps.               *)
(***************************************************************************)
EXTENDS Integers, FiniteSets

CONSTANTS
  Ports,         \* loopback ports
  Releases,      \* bundles an application may ship, 1 upwards
  Attempts,      \* attempts of one start (3)
  RestartLimit,  \* failures in a row after which the supervisor gives up (5)
  Overlap,       \* a command of the CLI may act beside a running service, in turns
  MaxSpawns,     \* bound: processes ever started
  MaxEvents      \* bound: calls, exits, timeouts, failures and stops together

ASSUME LocalBackendAssumption ==
  /\ Ports \subseteq Nat \ {0} /\ Releases \subseteq Nat \ {0}
  /\ Attempts \in Nat \ {0} /\ RestartLimit \in Nat
  /\ Overlap \in BOOLEAN /\ MaxSpawns \in Nat /\ MaxEvents \in Nat

Service == "service"
Command == "command"
Managers == {Service, Command}
Supervisors == 1..2

VARIABLES
  file,      \* backend.json
  db,        \* the release deployed to the database, 0 for none
  procs,     \* backend processes of this profile that are alive
  foreign,   \* ports something else listens on
  mgr,       \* the managers
  sups,      \* supervisor goroutines of the service
  spawned,   \* processes started so far; the last one's pid
  events,    \* calls and faults so far
  resetCut   \* history: a Reset failed or was cut before it saved

vars == <<file, db, procs, foreign, mgr, sups, spawned, events, resetCut>>

\* State: artifact paths as the release they belong to, port, pid and the
\* revision of the bundle deployed last.
NoState == [bin |-> 0, port |-> 0, pid |-> 0, rev |-> 0]

NoManager == [up |-> FALSE, mem |-> NoState, command |-> 0, adopted |-> 0,
              stopped |-> FALSE, watching |-> FALSE, failures |-> 0, moved |-> FALSE,
              pc |-> "idle", by |-> 0, try |-> 0, child |-> 0, limited |-> FALSE]

NoSupervisor == [pc |-> "none", pid |-> 0]

Init ==
  /\ file = NoState /\ db = 0
  /\ procs = {} /\ foreign = {}
  /\ mgr = [m \in Managers |-> NoManager]
  /\ sups = [s \in Supervisors |-> NoSupervisor]
  /\ spawned = 0 /\ events = 0 /\ resetCut = FALSE

Event == events < MaxEvents /\ events' = events + 1

Alive(pid) == \E p \in procs : p.pid = pid
Kill(pid) == {p \in procs : p.pid # pid}
Used == foreign \cup {p.port : p \in procs}

\* available and freePorts: the recorded port on the first attempt, if it is
\* free, or any free port.
PortsToTry(port, try) ==
  IF try = 0 /\ port \in Ports \ Used THEN {port} ELSE Ports \ Used

\* healthy: something answers on the port and names this profile's instance.
Healthy(port) == \E p \in procs : p.port = port

\* A manager begins something: its mutex is free, and the other one is at rest.
Begin(m) == mgr[m].up /\ \A n \in Managers : mgr[n].pc = "idle"

-----------------------------------------------------------------------------
\* Lifetime of the managers.

\* recordBundledBackend and backend install: load, set the paths, save.
Install(v) ==
  /\ Event
  /\ file.bin # v
  /\ file' = [file EXCEPT !.bin = v]
  /\ UNCHANGED <<db, procs, foreign, mgr, sups, spawned, resetCut>>

\* New loads the record once. A command asks the service first; it makes a
\* manager of its own when no service answers, and for reset and export also
\* after the service has stopped the backend for it.
New(m) ==
  /\ ~mgr[m].up /\ file.bin # 0
  /\ m = Service \/ ~Overlap => \A n \in Managers : ~mgr[n].up
  /\ (m = Command /\ mgr[Service].up) => Begin(Service) /\ mgr[Service].stopped
  /\ Event
  /\ mgr' = [mgr EXCEPT ![m] = [NoManager EXCEPT !.up = TRUE, !.mem = file,
                                  !.limited = (m = Command /\ mgr[Service].up)]]
  /\ UNCHANGED <<file, db, procs, foreign, sups, spawned, resetCut>>

\* The process of a manager ends in the middle of anything. What it spawned
\* lives on; nobody knows the pid of a process that was not yet saved.
Crash(m) ==
  /\ mgr[m].up
  /\ Event
  /\ mgr' = [mgr EXCEPT ![m] = NoManager]
  /\ sups' = IF m = Service THEN [s \in Supervisors |-> NoSupervisor] ELSE sups
  /\ procs' = {IF mgr[m].pc = "spawned" /\ p.pid = mgr[m].child THEN [p EXCEPT !.lost = TRUE] ELSE p : p \in procs}
  /\ resetCut' = (resetCut \/ mgr[m].pc = "wiped")
  /\ UNCHANGED <<file, db, foreign, spawned>>

\* A command is over.
Exit ==
  /\ Begin(Command)
  /\ mgr' = [mgr EXCEPT ![Command] = NoManager]
  /\ UNCHANGED <<file, db, procs, foreign, sups, spawned, events, resetCut>>

BackendExits(p) ==
  /\ p \in procs
  /\ Event
  /\ procs' = procs \ {p}
  /\ UNCHANGED <<file, db, foreign, mgr, sups, spawned, resetCut>>

TakePort(p) ==
  /\ p \notin Used
  /\ Event
  /\ foreign' = foreign \cup {p}
  /\ UNCHANGED <<file, db, procs, mgr, sups, spawned, resetCut>>

-----------------------------------------------------------------------------
\* Ensure: adopt or start, then deploy.

Set(m, r) == mgr' = [mgr EXCEPT ![m] = r]

\* At boot, for a refused send, for a new or moved Project, or for the desktop.
Ensure(m) ==
  /\ Begin(m) /\ ~mgr[m].limited
  /\ Event
  /\ Set(m, [mgr[m] EXCEPT !.pc = "check", !.by = 0, !.stopped = FALSE])
  /\ UNCHANGED <<file, db, procs, foreign, sups, spawned, resetCut>>

\* Mutant: the pid of the process in use is forgotten.
AdoptForgets(m) ==
  /\ mgr[m].pc = "check"
  /\ Healthy(mgr[m].mem.port)
  /\ Set(m, [mgr[m] EXCEPT !.pc = "deploy", !.mem.pid = 0])
  /\ UNCHANGED <<file, db, procs, foreign, sups, spawned, events, resetCut>>

\* A healthy backend on the recorded port is used as it is.
Adopt(m) ==
  /\ mgr[m].pc = "check"
  /\ Healthy(mgr[m].mem.port)
  /\ Set(m, [mgr[m] EXCEPT !.pc = "deploy",
               !.adopted = IF mgr[m].command = 0 THEN mgr[m].mem.pid ELSE @])
  /\ UNCHANGED <<file, db, procs, foreign, sups, spawned, events, resetCut>>

\* Mutant: a start does not look for the process that was recorded.
StartLeavesStale(m) ==
  /\ mgr[m].pc = "check"
  /\ IF Healthy(mgr[m].mem.port) THEN Event ELSE UNCHANGED events
  /\ Set(m, [mgr[m] EXCEPT !.pc = "start", !.try = 0])
  /\ UNCHANGED <<file, db, procs, foreign, sups, spawned, resetCut>>

\* Nothing answers, or (an event) not in time: kill what was recorded and start.
Start(m) ==
  /\ mgr[m].pc = "check"
  /\ IF Healthy(mgr[m].mem.port) THEN Event ELSE UNCHANGED events
  /\ procs' = Kill(mgr[m].mem.pid)
  /\ Set(m, [mgr[m] EXCEPT !.pc = "start", !.try = 0])
  /\ UNCHANGED <<file, db, foreign, sups, spawned, resetCut>>

Spawn(m) ==
  /\ mgr[m].pc = "start"
  /\ spawned < MaxSpawns /\ spawned' = spawned + 1
  /\ \E port \in PortsToTry(mgr[m].mem.port, mgr[m].try) :
       procs' = procs \cup {[pid |-> spawned + 1, port |-> port, lost |-> FALSE]}
  /\ Set(m, [mgr[m] EXCEPT !.pc = "spawned", !.child = spawned + 1])
  /\ UNCHANGED <<file, db, foreign, sups, events, resetCut>>

\* waitHealthy succeeds; the record is saved only now.
Ready(m) ==
  /\ mgr[m].pc = "spawned"
  /\ \E p \in procs :
       /\ p.pid = mgr[m].child
       /\ LET state == [mgr[m].mem EXCEPT !.port = p.port, !.pid = p.pid]
          IN /\ file' = state
             /\ Set(m, [mgr[m] EXCEPT !.pc = "deploy", !.mem = state, !.command = p.pid, !.adopted = 0, !.child = 0, !.try = 0,
                          !.moved = mgr[m].mem.port \notin {0, p.port}])
  /\ UNCHANGED <<db, procs, foreign, sups, spawned, events, resetCut>>

\* Mutant: a supervisor whose restart failed waits for a signal nobody sends.
ResumeParks(s, pid) == sups

\* A supervisor's Ensure has ended, with an error or with no process of ours.
Resume(s, pid) == IF s = 0 THEN sups ELSE [sups EXCEPT ![s] = [pc |-> "wait", pid |-> pid]]

Failed(m) ==
  /\ Set(m, [mgr[m] EXCEPT !.pc = "idle", !.by = 0, !.try = 0, !.child = 0])
  /\ sups' = IF mgr[m].by = 0 THEN sups ELSE Resume(mgr[m].by, sups[mgr[m].by].pid)

\* waitHealthy gives up: terminate, then the next attempt or none.
NotReady(m) ==
  /\ mgr[m].pc = "spawned"
  /\ IF Alive(mgr[m].child) THEN Event ELSE UNCHANGED events
  /\ procs' = Kill(mgr[m].child)
  /\ IF mgr[m].try + 1 < Attempts
       THEN Set(m, [mgr[m] EXCEPT !.pc = "start", !.try = @ + 1, !.child = 0]) /\ UNCHANGED sups
       ELSE Failed(m)
  /\ UNCHANGED <<file, db, foreign, spawned, resetCut>>

\* The binary is missing, no port is free, or the credential store refuses.
StartFails(m) ==
  /\ mgr[m].pc = "start"
  /\ IF Ports \subseteq Used THEN UNCHANGED events ELSE Event
  /\ Failed(m)
  /\ UNCHANGED <<file, db, procs, foreign, spawned, resetCut>>

\* Mutant: whether a supervisor runs is not remembered.
EnsuredForgets(m, state) ==
  LET r == [mgr[m] EXCEPT !.pc = "idle", !.mem = state, !.by = 0]
      by == mgr[m].by
      watch == r.command # 0 /\ m = Service
      free == CHOOSE s \in Supervisors : sups[s].pc = "none" \/ \A t \in Supervisors : sups[t].pc # "none"
  IN /\ Set(m, r)
     /\ sups' = [s \in Supervisors |->
          IF s = by THEN [pc |-> "wait", pid |-> IF r.command # 0 THEN r.command ELSE sups[s].pid]
          ELSE IF watch /\ s = free THEN [pc |-> "wait", pid |-> r.command] ELSE sups[s]]

\* Ensure returns without error; startSupervisorLocked starts one watcher.
Ensured(m, state) ==
  LET r == [mgr[m] EXCEPT !.pc = "idle", !.mem = state, !.by = 0]
      by == mgr[m].by
      watch == r.command # 0 /\ ~r.watching /\ m = Service
      free == CHOOSE s \in Supervisors : sups[s].pc = "none" \/ \A t \in Supervisors : sups[t].pc # "none"
  IN /\ Set(m, [r EXCEPT !.watching = @ \/ watch])
     /\ sups' = [s \in Supervisors |->
          IF s = by THEN [pc |-> "wait", pid |-> IF r.command # 0 THEN r.command ELSE sups[s].pid]
          ELSE IF watch /\ s = free THEN [pc |-> "wait", pid |-> r.command] ELSE sups[s]]

\* ensureDeployedLocked: the recorded revision is the installed one.
UpToDate(m) ==
  /\ mgr[m].pc = "deploy"
  /\ mgr[m].mem.rev = mgr[m].mem.bin
  /\ Ensured(m, mgr[m].mem)
  /\ UNCHANGED <<file, db, procs, foreign, spawned, events, resetCut>>

Push(m) ==
  /\ mgr[m].pc = "deploy"
  /\ mgr[m].mem.rev # mgr[m].mem.bin
  /\ Healthy(mgr[m].mem.port)
  /\ db' = mgr[m].mem.bin
  /\ Set(m, [mgr[m] EXCEPT !.pc = "pushed"])
  /\ UNCHANGED <<file, procs, foreign, sups, spawned, events, resetCut>>

\* start_push, wait_for_schema or finish_push is refused or not answered; the
\* backend may have finished what it did not answer.
PushFails(m) ==
  /\ mgr[m].pc = "deploy"
  /\ mgr[m].mem.rev # mgr[m].mem.bin
  /\ IF Healthy(mgr[m].mem.port) THEN Event /\ db' \in {db, mgr[m].mem.bin} ELSE UNCHANGED <<events, db>>
  /\ Failed(m)
  /\ UNCHANGED <<file, procs, foreign, spawned, resetCut>>

\* setEnvironment succeeds and the revision is recorded.
Record(m) ==
  /\ mgr[m].pc = "pushed"
  /\ Healthy(mgr[m].mem.port)
  /\ LET state == [mgr[m].mem EXCEPT !.rev = mgr[m].mem.bin]
     IN file' = state /\ Ensured(m, state)
  /\ UNCHANGED <<db, procs, foreign, spawned, events, resetCut>>

EnvironmentFails(m) ==
  /\ mgr[m].pc = "pushed"
  /\ IF Healthy(mgr[m].mem.port) THEN Event ELSE UNCHANGED events
  /\ Failed(m)
  /\ UNCHANGED <<file, db, procs, foreign, spawned, resetCut>>

-----------------------------------------------------------------------------
\* Stop, Reset, Export.

\* The process this manager started, or adopted, or finds in its record.
Target(m) ==
  IF mgr[m].command # 0 THEN mgr[m].command
  ELSE IF mgr[m].adopted > 0 THEN mgr[m].adopted ELSE mgr[m].mem.pid

\* Stop for its own sake, or as the first half of Reset and Export. Only the pid
\* is cleared, in what is on disk.
Stop(m, next) ==
  /\ Begin(m)
  /\ Event
  /\ next # "idle" => m = Command
  /\ next = "idle" => ~mgr[m].limited
  /\ procs' = Kill(Target(m))
  /\ file' = [file EXCEPT !.pid = 0]
  /\ Set(m, [mgr[m] EXCEPT !.stopped = TRUE, !.command = 0, !.adopted = IF mgr[m].command # 0 THEN @ ELSE 0,
               !.mem = [file EXCEPT !.pid = 0], !.pc = next])
  /\ UNCHANGED <<db, foreign, sups, spawned, resetCut>>

Wipe(m) ==
  /\ mgr[m].pc = "reset"
  /\ db' = 0
  /\ Set(m, [mgr[m] EXCEPT !.pc = "wiped"])
  /\ UNCHANGED <<file, procs, foreign, sups, spawned, events, resetCut>>

\* Mutant: a Reset keeps the revision of the bundle.
ResetKeepsRevision(m) ==
  /\ mgr[m].pc = "wiped"
  /\ LET state == [mgr[m].mem EXCEPT !.port = 0, !.pid = 0]
     IN file' = state /\ Set(m, [mgr[m] EXCEPT !.mem = state, !.pc = "idle"])
  /\ UNCHANGED <<db, procs, foreign, sups, spawned, events, resetCut>>

ResetSave(m) ==
  /\ mgr[m].pc = "wiped"
  /\ LET state == [mgr[m].mem EXCEPT !.rev = 0, !.port = 0, !.pid = 0]
     IN file' = state /\ Set(m, [mgr[m] EXCEPT !.mem = state, !.pc = "idle"])
  /\ UNCHANGED <<db, procs, foreign, sups, spawned, events, resetCut>>

Export(m) ==
  /\ mgr[m].pc = "export"
  /\ Set(m, [mgr[m] EXCEPT !.pc = "idle"])
  /\ UNCHANGED <<file, db, procs, foreign, sups, spawned, events, resetCut>>

-----------------------------------------------------------------------------
\* supervise.

\* The process it waits on has exited and the mutex is free.
SupervisorWoken(s) ==
  sups[s].pc = "wait" /\ ~Alive(sups[s].pid) /\ Begin(Service)

SupervisorEnds(s) ==
  /\ SupervisorWoken(s)
  /\ mgr[Service].stopped
  /\ Set(Service, [mgr[Service] EXCEPT !.watching = FALSE])
  /\ sups' = [sups EXCEPT ![s] = NoSupervisor]
  /\ UNCHANGED <<file, db, procs, foreign, spawned, events, resetCut>>

\* Something already replaced the process: follow the new one.
SupervisorFollows(s) ==
  /\ SupervisorWoken(s)
  /\ ~mgr[Service].stopped
  /\ mgr[Service].command \notin {0, sups[s].pid}
  /\ sups' = [sups EXCEPT ![s].pid = mgr[Service].command]
  /\ UNCHANGED <<file, db, procs, foreign, mgr, spawned, events, resetCut>>

\* Count the failure, in a new window if the old one is over (an event).
SupervisorCounts(s) ==
  /\ SupervisorWoken(s)
  /\ ~mgr[Service].stopped
  /\ mgr[Service].command \in {0, sups[s].pid}
  /\ \E failures \in {mgr[Service].failures + 1, 1} :
       /\ IF failures = mgr[Service].failures + 1 THEN UNCHANGED events ELSE Event
       /\ Set(Service, [mgr[Service] EXCEPT !.command = 0, !.failures = failures,
                          !.watching = (failures <= RestartLimit)])
       /\ sups' = [sups EXCEPT ![s] = IF failures > RestartLimit THEN NoSupervisor
                                      ELSE [sups[s] EXCEPT !.pc = "sleep"]]
  /\ UNCHANGED <<file, db, procs, foreign, spawned, resetCut>>

\* The backoff is over: Ensure, whatever happened meanwhile.
SupervisorRestarts(s) ==
  /\ sups[s].pc = "sleep" /\ Begin(Service)
  /\ Set(Service, [mgr[Service] EXCEPT !.pc = "check", !.by = s, !.stopped = FALSE])
  /\ sups' = [sups EXCEPT ![s].pc = "ensure"]
  /\ UNCHANGED <<file, db, procs, foreign, spawned, events, resetCut>>

-----------------------------------------------------------------------------
EnsureStep(m) ==
  \/ Adopt(m) \/ Start(m) \/ Spawn(m) \/ Ready(m) \/ NotReady(m) \/ StartFails(m)
  \/ UpToDate(m) \/ Push(m) \/ PushFails(m) \/ Record(m) \/ EnvironmentFails(m)

SupervisorStep(s) ==
  SupervisorEnds(s) \/ SupervisorFollows(s) \/ SupervisorCounts(s) \/ SupervisorRestarts(s)

CommandStep(m) ==
  \/ Ensure(m) \/ Wipe(m) \/ ResetSave(m) \/ Export(m)
  \/ \E next \in {"idle", "reset", "export"} : Stop(m, next)

Next ==
  \/ \E v \in Releases : Install(v)
  \/ \E m \in Managers : New(m) \/ Crash(m) \/ EnsureStep(m) \/ CommandStep(m)
  \/ Exit
  \/ \E p \in procs : BackendExits(p)
  \/ \E p \in Ports : TakePort(p)
  \/ \E s \in Supervisors : SupervisorStep(s)

\* A running service goes on with what it has begun.
Fairness ==
  /\ WF_vars(EnsureStep(Service))
  /\ \A s \in Supervisors : WF_vars(SupervisorStep(s))

Spec == Init /\ [][Next]_vars /\ Fairness

-----------------------------------------------------------------------------
\* Every variable has its type; a manager holds the pid of a process that was
\* started, and a start stays within its attempts.
LocalBackendTypeOK ==
  /\ file \in [bin : Releases \cup {0}, port : Ports \cup {0}, pid : 0..MaxSpawns, rev : Releases \cup {0}]
  /\ db \in Releases \cup {0}
  /\ procs \subseteq [pid : 1..MaxSpawns, port : Ports, lost : BOOLEAN]
  /\ foreign \subseteq Ports
  /\ \A m \in Managers : mgr[m].pc \in {"idle", "check", "start", "spawned", "deploy", "pushed", "reset", "wiped", "export"}
  /\ \A m \in Managers : mgr[m].command \in 0..spawned /\ mgr[m].try \in 0..(Attempts - 1)
  /\ mgr[Service].failures \in Nat
  /\ \A s \in Supervisors : sups[s].pc \in {"none", "wait", "sleep", "ensure"}

Accounted == {p \in procs : ~p.lost}

\* Two processes on one database never happen through adoption, restarts, slow
\* starts and restarts of the service: every process some record or manager
\* ever took note of is found and ended before another is started.
OneBackend == Cardinality(Accounted) <= 1

\* "The deployed bundle went with the database, so the next Ensure must push
\* again; keeping the revision would leave a fresh database with no functions on
\* it" (Reset): an Ensure that skips the push finds functions on the database,
\* whatever failed or stopped between a push and its record.
EnsuredHasFunctions ==
  \A m \in Managers :
    (/\ ~resetCut
     /\ mgr[m].pc = "deploy" /\ mgr[m].mem.rev = mgr[m].mem.bin /\ Healthy(mgr[m].mem.port)) => db # 0

\* "The copy is taken with the backend stopped" (overgent backend export).
ExportedAtRest == mgr[Command].pc = "export" => Accounted = {}

\* "One manager has at most one" supervisor goroutine, and it has one as long as
\* the manager believes it does.
OneSupervisor ==
  Cardinality({s \in Supervisors : sups[s].pc # "none"}) = (IF mgr[Service].watching THEN 1 ELSE 0)

Supervised == mgr[Service].up /\ mgr[Service].watching

\* A supervised backend that exits is brought back, unless it is stopped, the
\* service ends, or the supervisor gives up on it.
SupervisedBackendReturns ==
  (Supervised /\ Accounted = {}) ~> (Accounted # {} \/ ~Supervised \/ spawned = MaxSpawns)

=============================================================================
