--------------------------- MODULE ServiceManager ---------------------------
(***************************************************************************)
(* The per-user background service as the platform runs it                 *)
(* (internal/service). A definition on disk (a LaunchAgent, a systemd user  *)
(* unit, a scheduled task) is what every later check reads as "installed";  *)
(* whether the platform holds a job for it, and which image that job runs,  *)
(* are states of their own, which Install, Start, Stop and Remove change    *)
(* one call of the platform's tool at a time.                               *)
(*                                                                          *)
(* An image is a number, 0 for none. The operators below are effects on the *)
(* job; Upgrade sequences them.                                             *)
(***************************************************************************)
EXTENDS Naturals

VARIABLES
  platform,  \* "darwin", "linux" or "windows"
  env,       \* what the probes of a Linux account find
  quality,   \* of each image: "good", "broken" (does not run) or "unhealthy"
  unit,      \* the definition is on disk, or registered
  job,       \* "none", "loaded" (systemd: enabled) or "unloading"
  held,      \* stopped by command: the platform does not restart it by itself
  svc        \* the image the service process runs, 0 for no process

jobVars == <<unit, job, held, svc>>

Platforms == {"darwin", "linux", "windows"}

\* A desktop, a WSL2 distribution without systemd and a headless machine on
\* which loginctl gave no answer, or the answer that nothing lingers.
Environments ==
  {[wsl |-> FALSE, conf |-> FALSE, systemd |-> "yes", linger |-> "no", graphical |-> "yes"],
   [wsl |-> TRUE, conf |-> FALSE, systemd |-> "no", linger |-> "unknown", graphical |-> "unknown"]}
    \cup [wsl : {FALSE}, conf : {FALSE}, systemd : {"yes"}, linger : {"no", "unknown"}, graphical : {"no"}]

\* Only what was positively observed is a reason to refuse.
WslWithoutSystemd(e) == e.wsl /\ ~e.conf /\ e.systemd = "no"
LingerRequired(e) == e.linger = "no" /\ e.graphical = "no"
EnvironmentError == platform = "linux" /\ (WslWithoutSystemd(env) \/ LingerRequired(env))

ServiceInit ==
  /\ platform \in Platforms
  /\ env \in Environments /\ (platform # "linux" => env.graphical = "yes")
  /\ unit \in BOOLEAN /\ (unit => ~EnvironmentError)
  /\ job = IF unit THEN "loaded" ELSE "none"
  /\ held = FALSE
  /\ svc = IF unit THEN 1 ELSE 0

\* The process the platform gets when it starts the image.
Started(image) == IF image = 0 \/ quality[image] = "broken" THEN 0 ELSE image

\* "health": answered by whatever process serves the profile.
Healthy == svc # 0 /\ quality[svc] = "good"

-----------------------------------------------------------------------------
\* macOS.

\* bootout: returns before launchd has torn the job down.
Bootout ==
  /\ job' = IF job = "loaded" THEN "unloading" ELSE job
  /\ UNCHANGED <<unit, held, svc>>

\* bootstrap of a free label; RunAtLoad starts the image.
Bootstrap(image) ==
  /\ job = "none"
  /\ job' = "loaded" /\ held' = FALSE
  /\ svc' = Started(image)
  /\ UNCHANGED unit

\* Mutant: kickstart without -k, which leaves a running job alone.
KickstartOnly(image) ==
  /\ svc' = IF svc = 0 THEN Started(image) ELSE svc
  /\ held' = FALSE
  /\ UNCHANGED <<unit, job>>

\* kickstart -k, systemctl restart, schtasks /End and /Run: a running process is
\* replaced by one of the image on disk.
Restart(image) ==
  /\ svc' = Started(image) /\ held' = FALSE
  /\ UNCHANGED <<unit, job>>

-----------------------------------------------------------------------------
\* Linux and Windows.

\* enable --now starts a stopped unit and does nothing to a running one.
EnableNow(image) ==
  /\ job' = "loaded"
  /\ svc' = IF svc = 0 THEN Started(image) ELSE svc
  /\ held' = FALSE
  /\ UNCHANGED unit

\* schtasks /End: the registration stays.
EndTask ==
  /\ svc' = 0 /\ held' = TRUE
  /\ UNCHANGED <<unit, job>>

-----------------------------------------------------------------------------
\* The commands of one call.

\* Start refuses what is not installed. launchctl needs a loaded job; systemd
\* starts any unit it finds; a task is registered or it is not installed.
DarwinStart(image) == job # "none" /\ Restart(image)
LinuxStart(image) == Restart(image)
WindowsStart(image) == job # "none" /\ Restart(image)

Start(image) ==
  /\ unit
  /\ CASE platform = "darwin" -> DarwinStart(image)
       [] platform = "linux" -> LinuxStart(image)
       [] OTHER -> WindowsStart(image)

\* launchctl kill SIGTERM leaves KeepAlive in force.
KillJob ==
  /\ svc' = 0 /\ held' = FALSE
  /\ UNCHANGED <<unit, job>>

StopUnit ==
  /\ svc' = 0 /\ held' = TRUE
  /\ UNCHANGED <<unit, job>>

Stop ==
  /\ svc # 0
  /\ CASE platform = "darwin" -> KillJob
       [] platform = "linux" -> StopUnit
       [] OTHER -> EndTask

\* Remove: the job, then the definition. bootout returns before the job is gone.
DarwinRemove ==
  /\ job' = IF job = "loaded" THEN "unloading" ELSE job
  /\ unit' = FALSE
  /\ UNCHANGED <<held, svc>>

\* disable --now, the file, daemon-reload.
LinuxRemove ==
  /\ job' = "none" /\ svc' = 0
  /\ unit' = FALSE
  /\ UNCHANGED held

\* schtasks /End and /Delete.
WindowsRemove ==
  /\ svc' = 0
  /\ unit' = FALSE /\ job' = "none"
  /\ UNCHANGED held

Remove ==
  /\ unit /\ job # "unloading"
  /\ CASE platform = "darwin" -> DarwinRemove
       [] platform = "linux" -> LinuxRemove
       [] OTHER -> WindowsRemove

-----------------------------------------------------------------------------
\* What the platform does by itself.

Unloaded ==
  /\ job = "unloading"
  /\ job' = "none" /\ svc' = 0
  /\ UNCHANGED <<unit, held>>

\* KeepAlive, Restart=always with no start limit, RestartOnFailure.
KeepAlive(image) ==
  /\ job = "loaded" /\ ~held
  /\ svc = 0 /\ Started(image) # 0
  /\ svc' = Started(image)
  /\ UNCHANGED <<unit, job, held>>

\* The member logs out and in again, or the computer restarts.
Login(image) ==
  /\ job' = IF platform = "linux" THEN IF job = "loaded" THEN job ELSE "none"
            ELSE IF unit THEN "loaded" ELSE "none"
  /\ held' = FALSE
  /\ svc' = IF job' = "loaded" THEN Started(image) ELSE 0
  /\ UNCHANGED unit

=============================================================================
