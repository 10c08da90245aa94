------------------------------ MODULE Upgrade ------------------------------
(***************************************************************************)
(* Replacing the executable and restarting the service it runs             *)
(* (internal/update, the commands update and service, ensureService of the  *)
(* desktop application). Apply and Rollback are sequences of renames, each   *)
(* of which may fail or be the last thing the process does; the activation   *)
(* after them runs the new image and reinstalls the service, and undoes the  *)
(* replacement when that does not become healthy.                            *)
(***************************************************************************)
EXTENDS ServiceManager, FiniteSets

CONSTANTS
  MaxImage,   \* bound: releases, the installed one included
  Attempts,   \* bound: bootstrapAttempts
  MaxFaults,  \* bound: failed calls, ended processes and logins
  Overlap     \* whether the application installs the service beside a command

ASSUME UpgradeAssumption ==
  /\ MaxImage \in Nat \ {0} /\ Attempts \in Nat \ {0} /\ MaxFaults \in Nat
  /\ Overlap \in BOOLEAN

VARIABLES
  latest,  \* the release the signed manifest names
  exe,     \* the image under the name of the executable, 0 for none
  prev,    \* the image under the name of its rollback copy
  spare,   \* images left under other names by what was cut short
  flow,    \* the command and the application's installation, one each
  faults   \* failures so far

vars == <<platform, env, quality, unit, job, held, svc, latest, exe, prev, spare, flow, faults>>
files == <<exe, prev>>

Images == 1..MaxImage
Procs == {"cli", "app"}

\* What a process carries between two steps. keep is the image its work must not
\* lose, wrong counts what has gone wrong so far, ran is whether a service was
\* installed and healthy when it began.
Idle == [pc |-> "idle", phase |-> "none", image |-> 0, keep |-> 0, backup |-> 0, failed |-> 0,
         created |-> FALSE, tries |-> 0, wrong |-> 0, ran |-> FALSE, result |-> "none"]

Init ==
  /\ quality \in [Images -> {"good", "broken", "unhealthy"}] /\ quality[1] = "good"
  /\ ServiceInit
  /\ latest = 1 /\ exe = 1 /\ prev = 0 /\ spare = {}
  /\ flow = [p \in Procs |-> Idle]
  /\ faults = 0

At(p, pc) == flow[p].pc = pc
Go(p, pc) == flow' = [flow EXCEPT ![p].pc = pc]
Ok == UNCHANGED faults
Fault == faults < MaxFaults /\ faults' = faults + 1
Fixed == UNCHANGED <<platform, env, quality, latest>>

\* The process ends. What is left under other names stays there.
Finish(p, result, wrong, left) ==
  /\ flow' = [flow EXCEPT ![p] = [Idle EXCEPT !.phase = flow[p].phase, !.keep = flow[p].keep, !.ran = flow[p].ran,
                                              !.wrong = wrong, !.result = result]]
  /\ spare' = (spare \cup left) \ {0}

Held(p) == {flow[p].backup, flow[p].failed}
Ends(p, result) == Finish(p, result, flow[p].wrong, Held(p))
Fails(p) == Finish(p, "failed", flow[p].wrong + 1, Held(p))

\* Mutant: a failed activation is only reported.
GiveUpReports(p) == Fails(p)

\* A failed activation of an update is undone, any other is reported.
GiveUp(p) ==
  IF flow[p].phase = "update"
    THEN /\ flow' = [flow EXCEPT ![p].phase = "undo", ![p].pc = "unseat", ![p].wrong = @ + 1]
         /\ UNCHANGED spare
    ELSE Fails(p)

\* The service answers: the update is done, or the old image serves again.
Succeed(p) == Ends(p, IF flow[p].phase = "undo" THEN "failed" ELSE "ok")

Starts(p, pc, phase, image, keep) ==
  flow' = [flow EXCEPT ![p] = [Idle EXCEPT !.pc = pc, !.phase = phase, !.image = image, !.keep = keep,
                                           !.ran = (unit /\ job = "loaded" /\ Healthy)]]

Free(p) == At(p, "idle") /\ (Overlap \/ \A o \in Procs : At(o, "idle"))

\* The command is the image on disk, which must run at all.
Runs == exe # 0 /\ quality[exe] # "broken"

-----------------------------------------------------------------------------
\* Apply.

StartUpdate ==
  /\ Free("cli") /\ Runs
  /\ Starts("cli", "fetch", "update", 0, exe)
  /\ Fixed /\ UNCHANGED <<jobVars, files, spare, faults>>

\* FetchManifest verifies the signature. A manifest that names the version of
\* this command is nothing to do.
Fetch(p) ==
  /\ At(p, "fetch")
  /\ \/ latest = flow[p].keep /\ Ends(p, "current") /\ Ok
     \/ /\ latest # flow[p].keep
        /\ flow' = [flow EXCEPT ![p].pc = "stage", ![p].image = latest] /\ UNCHANGED spare /\ Ok
     \/ Fails(p) /\ Fault
  /\ Fixed /\ UNCHANGED <<jobVars, files>>

\* An asset for this platform, a regular file to replace, a place for the archive.
Stage(p) ==
  /\ At(p, "stage")
  /\ \/ exe # 0 /\ Go(p, "download") /\ UNCHANGED spare /\ Ok
     \/ Fails(p) /\ Fault
  /\ Fixed /\ UNCHANGED <<jobVars, files>>

\* The archive, its checksum and the one executable in it, beside the current.
Download(p) ==
  /\ At(p, "download")
  /\ \/ Go(p, "preserve") /\ UNCHANGED spare /\ Ok
     \/ Fails(p) /\ Fault
  /\ Fixed /\ UNCHANGED <<jobVars, files>>

\* preserveExisting.
Preserve(p) ==
  /\ At(p, "preserve")
  /\ \/ /\ flow' = [flow EXCEPT ![p].pc = "aside", ![p].backup = prev]
        /\ prev' = 0 /\ UNCHANGED <<exe, spare>> /\ Ok
     \/ /\ prev # 0 /\ Fails(p) /\ UNCHANGED files /\ Fault
  /\ Fixed /\ UNCHANGED jobVars

MoveAside(p) ==
  /\ At(p, "aside")
  /\ \/ /\ prev' = exe /\ exe' = 0
        /\ Go(p, "activate") /\ Ok
     \/ /\ flow' = [flow EXCEPT ![p].pc = "reprev", ![p].wrong = @ + 1]
        /\ UNCHANGED files /\ Fault
  /\ Fixed /\ UNCHANGED <<jobVars, spare>>

Activate(p) ==
  /\ At(p, "activate")
  /\ \/ /\ exe' = flow[p].image /\ Go(p, "sync") /\ Ok
     \/ /\ flow' = [flow EXCEPT ![p].pc = "revert", ![p].wrong = @ + 1]
        /\ UNCHANGED exe /\ Fault
  /\ Fixed /\ UNCHANGED <<jobVars, prev, spare>>

\* Mutant: the wrong one of the two older images is dropped.
SyncDropsPrevious(p) ==
  /\ At(p, "sync")
  /\ Go(p, "validate") /\ prev' = 0
  /\ Fixed /\ UNCHANGED <<jobVars, exe, spare, faults>>

\* The directory is flushed; only then is the older rollback copy dropped.
Sync(p) ==
  /\ At(p, "sync")
  /\ \/ flow' = [flow EXCEPT ![p].pc = "validate", ![p].backup = 0] /\ Ok
     \/ flow' = [flow EXCEPT ![p].pc = "park", ![p].wrong = @ + 1] /\ Fault
  /\ Fixed /\ UNCHANGED <<jobVars, files, spare>>

-----------------------------------------------------------------------------
\* restoreFailedActivation, and restoreExisting of the failure before it.

Park(p) ==
  /\ At(p, "park")
  /\ \/ /\ flow' = [flow EXCEPT ![p].pc = "revert", ![p].failed = exe]
        /\ exe' = 0 /\ Ok
     \/ Go(p, "revert") /\ UNCHANGED exe /\ Fault
  /\ Fixed /\ UNCHANGED <<jobVars, prev, spare>>

\* The failed image is deleted whether or not the current one came back.
Revert(p) ==
  /\ At(p, "revert")
  /\ \/ /\ exe' = prev /\ prev' = 0
        /\ flow' = [flow EXCEPT ![p].pc = "reprev", ![p].failed = 0] /\ UNCHANGED spare /\ Ok
     \/ /\ UNCHANGED files
        /\ Finish(p, "failed", flow[p].wrong + 1, {flow[p].backup}) /\ Fault
  /\ Fixed /\ UNCHANGED jobVars

Reprev(p) ==
  /\ At(p, "reprev")
  /\ \/ /\ prev' = IF flow[p].backup # 0 THEN flow[p].backup ELSE prev
        /\ Finish(p, "failed", flow[p].wrong, {})
        /\ UNCHANGED exe /\ Ok
     \/ /\ flow[p].backup # 0
        /\ UNCHANGED files /\ Fails(p) /\ Fault
  /\ Fixed /\ UNCHANGED jobVars

-----------------------------------------------------------------------------
\* Rollback, by command or as the end of a failed update.

StartRollback ==
  /\ Free("cli") /\ Runs
  /\ prev # 0
  /\ Starts("cli", "unseat", "rollback", 0, prev)
  /\ Fixed /\ UNCHANGED <<jobVars, files, spare, faults>>

Unseat(p) ==
  /\ At(p, "unseat")
  /\ \/ /\ exe # 0 /\ prev # 0
        /\ flow' = [flow EXCEPT ![p].pc = "reseat", ![p].failed = exe]
        /\ exe' = 0 /\ UNCHANGED spare /\ Ok
     \/ Fails(p) /\ UNCHANGED exe /\ (IF exe # 0 /\ prev # 0 THEN Fault ELSE Ok)
  /\ Fixed /\ UNCHANGED <<jobVars, prev>>

\* A rollback copy that does not move is answered by moving the failed one back.
Reseat(p) ==
  /\ At(p, "reseat")
  /\ \/ /\ exe' = prev /\ prev' = 0
        /\ Go(p, "syncback") /\ UNCHANGED spare /\ Ok
     \/ /\ exe' \in {flow[p].failed, 0} /\ UNCHANGED prev
        /\ Finish(p, "failed", flow[p].wrong + 1, IF exe' = 0 THEN {flow[p].failed} ELSE {})
        /\ Fault
  /\ Fixed /\ UNCHANGED jobVars

\* The rollback is active; a flush that fails ends the command before the
\* service is restarted.
SyncBack(p) ==
  /\ At(p, "syncback")
  /\ \/ /\ flow' = [flow EXCEPT ![p].failed = 0,
                                ![p].pc = IF flow[p].phase = "rollback" THEN "validate" ELSE "status"]
        /\ UNCHANGED spare /\ Ok
     \/ Fails(p) /\ Fault
  /\ Fixed /\ UNCHANGED <<jobVars, files>>

-----------------------------------------------------------------------------
\* activateUpdatedExecutable and restartInstalledService.

\* The new image must say which version it is.
Validate(p) ==
  /\ At(p, "validate")
  /\ \/ Runs /\ Go(p, "status") /\ UNCHANGED spare /\ Ok
     \/ ~Runs /\ GiveUp(p) /\ Ok
     \/ Runs /\ GiveUp(p) /\ Fault
  /\ Fixed /\ UNCHANGED <<jobVars, files>>

\* A service that is not installed, or whose status cannot be read, is left
\* alone.
Status(p) ==
  /\ At(p, "status")
  /\ \/ unit /\ Go(p, "write") /\ UNCHANGED spare /\ Ok
     \/ ~unit /\ Succeed(p) /\ Ok
     \/ unit /\ Finish(p, IF flow[p].phase = "undo" THEN "failed" ELSE "ok", flow[p].wrong + 1, {}) /\ Fault
  /\ Fixed /\ UNCHANGED <<jobVars, files>>

\* Ten seconds of "health".
AwaitHealth(p) ==
  /\ At(p, "health")
  /\ \/ Healthy /\ Succeed(p) /\ Ok
     \/ svc # 0 /\ ~Healthy /\ GiveUp(p) /\ Ok
     \/ svc = 0 /\ Started(exe) = 0 /\ GiveUp(p) /\ Ok
     \/ GiveUp(p) /\ Fault
  /\ Fixed /\ UNCHANGED <<jobVars, files>>

-----------------------------------------------------------------------------
\* Install, one tool call at a time.

\* ensureService of the application, and the command "service install".
StartInstall(p) ==
  /\ Free(p)
  /\ p = "cli" => Runs
  /\ Starts(p, "write", "install", 0, 0)
  /\ Fixed /\ UNCHANGED <<jobVars, files, spare, faults>>

\* A definition this call created must not outlive its failure.
Discarded(p) == IF flow[p].created THEN FALSE ELSE unit

Installed(p) ==
  IF flow[p].phase = "install" THEN Ends(p, "ok") ELSE Go(p, "health") /\ UNCHANGED spare

\* The definition is written and put in place (service_darwin.go:67-85,
\* service_linux.go:70-96); schtasks /Create registers it at once
\* (service_windows.go:65-76). A Linux environment in which the unit would not
\* survive is refused before anything is.
WriteDefinition(p) ==
  /\ At(p, "write")
  /\ \/ /\ ~EnvironmentError
        /\ unit' = TRUE
        /\ job' = IF platform = "windows" THEN "loaded" ELSE job
        /\ flow' = [flow EXCEPT ![p].pc = "clear", ![p].created = ~unit, ![p].tries = 0]
        /\ UNCHANGED <<held, svc, spare>> /\ Ok
     \/ EnvironmentError /\ UNCHANGED jobVars /\ GiveUp(p) /\ Ok
     \/ UNCHANGED jobVars /\ GiveUp(p) /\ Fault
  /\ Fixed /\ UNCHANGED files

\* bootout of an older job, whose failure does not matter.
DarwinClear(p) ==
  /\ platform = "darwin"
  /\ Bootout /\ Go(p, "load") /\ UNCHANGED spare /\ Ok

\* daemon-reload.
LinuxClear(p) ==
  /\ platform = "linux"
  /\ \/ UNCHANGED jobVars /\ Go(p, "load") /\ UNCHANGED spare /\ Ok
     \/ unit' = Discarded(p) /\ UNCHANGED <<job, held, svc>> /\ GiveUp(p) /\ Fault

\* /End, of a task that may not run.
WindowsClear(p) ==
  /\ platform = "windows"
  /\ \/ EndTask /\ Go(p, "start") /\ UNCHANGED spare /\ Ok
     \/ /\ unit' = Discarded(p) /\ job' = IF flow[p].created THEN "none" ELSE job
        /\ UNCHANGED <<held, svc>> /\ GiveUp(p) /\ Fault

\* bootstrapWhenFree: a label launchd still holds costs an attempt.
DarwinLoad(p) ==
  /\ platform = "darwin"
  /\ \/ flow[p].tries < Attempts /\ Bootstrap(exe) /\ Go(p, "start") /\ UNCHANGED spare /\ Ok
     \/ /\ flow[p].tries < Attempts /\ job # "none"
        /\ flow' = [flow EXCEPT ![p].tries = @ + 1]
        /\ UNCHANGED <<jobVars, spare>> /\ Ok
     \/ /\ flow[p].tries = Attempts
        /\ unit' = Discarded(p) /\ UNCHANGED <<job, held, svc>> /\ GiveUp(p) /\ Ok
     \/ unit' = Discarded(p) /\ UNCHANGED <<job, held, svc>> /\ GiveUp(p) /\ Fault

LinuxLoad(p) ==
  /\ platform = "linux"
  /\ \/ EnableNow(exe) /\ Go(p, "start") /\ UNCHANGED spare /\ Ok
     \/ unit' = Discarded(p) /\ UNCHANGED <<job, held, svc>> /\ GiveUp(p) /\ Fault

\* A start that fails takes the job down with it, and the definition this call
\* created; one of an earlier installation is left.
StartFails(p) ==
  /\ unit' = Discarded(p)
  /\ CASE platform = "darwin" -> job' = "unloading" /\ UNCHANGED <<held, svc>>
       [] platform = "linux" -> job' = "none" /\ svc' = 0 /\ UNCHANGED held
       [] OTHER -> job' = (IF flow[p].created THEN "none" ELSE job) /\ svc' = 0 /\ held' = TRUE
  /\ GiveUp(p)

\* kickstart -k, restart, /Run.
StartJob(p) ==
  /\ At(p, "start")
  /\ \/ Restart(exe) /\ Installed(p) /\ Ok
     \/ StartFails(p) /\ Fault
  /\ Fixed /\ UNCHANGED files

Clear(p) == At(p, "clear") /\ (DarwinClear(p) \/ LinuxClear(p) \/ WindowsClear(p)) /\ Fixed /\ UNCHANGED files
Load(p) == At(p, "load") /\ (DarwinLoad(p) \/ LinuxLoad(p)) /\ Fixed /\ UNCHANGED files

-----------------------------------------------------------------------------
\* Around the commands.

Publish ==
  /\ latest < MaxImage /\ latest' = latest + 1
  /\ UNCHANGED <<platform, env, quality, jobVars, files, spare, flow, faults>>

\* service start, stop and remove.
ServiceCommand ==
  /\ Free("cli") /\ Runs
  /\ Start(exe) \/ Stop \/ Remove
  /\ Fixed /\ UNCHANGED <<files, spare, flow, faults>>

PlatformStep ==
  /\ Unloaded \/ KeepAlive(exe)
  /\ Fixed /\ UNCHANGED <<files, spare, flow, faults>>

Crash(p) ==
  /\ ~At(p, "idle") /\ Fault
  /\ Ends(p, "cut")
  /\ Fixed /\ UNCHANGED <<jobVars, files>>

LogsIn ==
  /\ \A p \in Procs : At(p, "idle")
  /\ Fault /\ Login(exe)
  /\ Fixed /\ UNCHANGED <<files, spare, flow>>

Step(p) ==
  \/ Fetch(p) \/ Stage(p) \/ Download(p) \/ Preserve(p) \/ MoveAside(p) \/ Activate(p) \/ Sync(p)
  \/ Park(p) \/ Revert(p) \/ Reprev(p) \/ Unseat(p) \/ Reseat(p) \/ SyncBack(p)
  \/ Validate(p) \/ Status(p) \/ WriteDefinition(p) \/ Clear(p) \/ Load(p) \/ StartJob(p) \/ AwaitHealth(p)

Next ==
  \/ StartUpdate \/ StartRollback \/ Publish \/ ServiceCommand \/ PlatformStep \/ LogsIn
  \/ \E p \in Procs : StartInstall(p) \/ Step(p) \/ Crash(p)

Spec == Init /\ [][Next]_vars

-----------------------------------------------------------------------------
OnDisk == {exe, prev} \cup spare \cup UNION {Held(p) : p \in Procs}

\* "performs recoverable executable replacement" (package update): the image a
\* command replaces or rolls back to is on disk under some name at every moment
\* of the command and after it, whatever fails and wherever the process ends.
ReplacedImageKept ==
  LET f == flow["cli"] IN f.phase \in {"update", "undo", "rollback"} => f.keep \in OnDisk

CommandEnds(result) == ~At("cli", "idle") /\ flow'["cli"].pc = "idle" /\ flow'["cli"].result = result

\* "updated executable failed validation and was rolled back" (update): when one
\* thing goes wrong, a failed rename, flush or tool call or an image that does
\* not run or does not serve, the command ends with the executable it found and,
\* if the installed service was healthy before, with a healthy service.
FailedUpdateUndone ==
  [][LET f == flow["cli"]
         g == flow'["cli"]
     IN CommandEnds("failed") /\ g.phase \in {"update", "undo"} /\ g.wrong <= 1
          => exe' = f.keep /\ (f.ran => unit' /\ svc' # 0 /\ quality[svc'] = "good")]_vars

\* "without an explicit restart an update leaves the previous executable running
\* under the new unit file" (Install): a command that reports success and met no
\* error leaves an installed service running the image on disk.
UpdatedServiceRuns ==
  [][CommandEnds("ok") /\ flow'["cli"].wrong = 0 /\ flow'["cli"].phase \in {"update", "rollback"} /\ unit
       => svc' = exe']_vars

\* "A unit that already existed is left alone; it belongs to an earlier, possibly
\* working, install" (discardUnit): a start that fails at the end of an install
\* leaves a unit that was enabled before the call enabled, or no login starts it.
EarlierUnitLeftAlone ==
  [][\A p \in Procs :
       platform = "linux" /\ At(p, "start") /\ ~flow[p].created /\ job = "loaded" => job' = "loaded"]_vars

=============================================================================
