# A formal model of Overgent

Overgent lets coding agents that work on the same repository from different
machines know of each other.  This directory holds TLA+ modules that model the
programs on one Mac and what the server does with what they send, TLC
configurations that check them on small instances, and proofs, checked by TLAPS,
that nearly all of the safety properties, and the refinement of an abstract outbox
by the publisher, hold for every instance.

Contents: 1 the system, 2 what is modelled and how, 3 runs, 4 disagreements
found, 5 proofs, 6 limits and abstractions, 7 not modelled, 8 plan.

## 1. The system

Agent hooks and an MCP server call the `overgent` executable, which talks over a
local socket to one **service** per user and profile (Go, `internal/app`).  The
service watches the registered repositories, keeps everything in one SQLite
database (`internal/store`), and publishes to one or more **backends** that
implement `/v1` (Convex functions in `convex/functions`): a team's server, or a
backend the service runs on loopback.  A backend projects the events into
workstreams, manifests and findings, which other devices and the dashboard read.
A desktop application and a command line enrol the Mac, connect agents to
repositories, and install, update and show the rest.

| Component | State | Operations | Talks to |
|---|---|---|---|
| Profile configuration (`internal/config`) | `config.json`: backends with this Mac's device id, Project -> backend, repositories | upsert backend, bind, rebind and remove a Project, remove a backend | read at boot, then held as `Service.cfg`; edited by the service under `s.mu`, by commands under the daemon lock, by a reset under neither |
| Event store (`internal/store`) | `workspaces`, `event_queue`, `cursors`; manifests, fingerprints, read sets, agent sessions, focus, injection deliveries, idempotency keys | one transaction per operation | every handler and loop of the service |
| Publisher (`internal/app/app.go`) | the flush pass: pending events, snapshot, failed backends, window | boot, flush, retry one by one, pause, add / remove / rebind | store, configuration, backends |
| Event intake (`convex/functions/service.ts`) | `activityEvents`, `lastProjectedSequence`, staged manifests, read sets | `publishEvents`, `applyProjection` | one mutation is one transaction |
| Observation (`internal/watcher`, `internal/git`, `app.go`, `contract_watch.go`) | watch list and budget, debounce timer, active manifest, fingerprints, reads | scan, publish a manifest in chunks, fingerprint, report reads | Git, store, intake |
| Injection (`app.go`, `store.go`, `cmd` hook) | claims per session and item, focus, mid-turn windows | agent_injection, focus | backend's briefs, the hook process |
| Agent sessions (`app.go`, `internal/agentactivity`, `internal/sessiontranscript`, `internal/mcp`) | sessions seen, lifecycle calls and their keys, shared messages | agent_event, resolve, begin / update / report / finish | hooks, MCP processes, store |
| Local backend (`internal/localbackend`) | `backend.json`, the process, what is deployed | ensure, adopt, start, deploy, stop, reset, export, supervise | service and command |
| Onboarding (`internal/onboarding`) and credentials (`internal/credential`) | stored tokens, pending promotion, profile | create, join, promote, reset, disconnect | server, keychain, configuration, service |
| Agent integrations (`internal/hookconfig`, `codexsetup`, `claudesetup`, `cursorsetup`, `adapterrepair`) | MCP entries and hook files of three vendors, per repository but for the hooks of Codex, which are the user's | setup, reconnect, adopt, remove, repair at launch | files other profiles and the member also write |
| Self-update (`internal/update`) and service registration (`internal/service`) | executable, its rollback copy, unit, job, running image | update, rollback, install, start, stop, remove | launchd, systemd, scheduled tasks |
| Desktop (`apps/desktop`) | credential cache, dashboard connection, openings, links | State, restart of a backend, open a dashboard, deep links | service, backends, window |
| Surface (`cmd`, dashboard, contract extraction, membership and findings of the server) | - | presentation, parsing, hosted queries | see 7 |

What is hard here is not any single function but what happens between them.

* Events are numbered per workspace and the backend silently ignores a number it
  has passed, so the sender must keep order through lost replies, late requests,
  a batch refused for one of its events, and stops between the reply and the
  acknowledgement.
* Two stores are written one after the other almost everywhere: configuration and
  database (a move), server and keychain and configuration (onboarding), an MCP
  entry and a hook file (setup), two renames and a platform tool (update), a push
  and its record (deploy).  A stop may fall in between, and usually the next
  attempt of the same operation is the only recovery there is.
* A pass, a scan, an injection or a call of `State` works on what it read while
  other calls change it.
* Several processes that share no lock act on the same files: service and command
  on a local backend, profiles on hook files, application and command on the
  keychain.
* Something must come in the end: a queue drains, a supervised backend returns, a
  correction reaches its agent, an interrupted move is finished.

`PROJECT.json` lists these hazards at their lines, with the properties that cover
them.

## 2. What is modelled and how

| Module | Models | Extends |
|---|---|---|
| `ProfileConfig` | `config.go`: configurations as values | - |
| `EventStore` | `store.go`: rows, queue, cursors; one operator per transaction | `ProfileConfig` |
| `EventBackend` | `publishEvents`, sequence rules of `applyProjection` | `EventStore` |
| `Publisher` | the service's flush pass and administrative calls, the network and faults | the three above |
| `Outbox` | what a publisher promises, with no windows, passes, devices or crashes | - |
| `PublisherRefines` | the refinement mapping from `Publisher` to `Outbox` | `Publisher` |
| `TreeWatch` | the watcher: tree, ignore rules, budget, debounce | - |
| `Observation` | scans, manifests, fingerprints, reads, and their projection | `TreeWatch` |
| `Injection` | briefs, budgets, claims, focus, mid-turn windows | - |
| `Sessions` | identities of MCP processes, lifecycle calls, shared messages | - |
| `LocalBackend` | the supervised backend process and its managers | - |
| `CredentialStore` | keychains and the secret service, as the flows use them | - |
| `Onboarding` | create, join, promote, reset, disconnect | `CredentialStore` |
| `HookFile` | a hook file as groups of commands, and the edits of it | - |
| `Integrations` | setup, reconnect, adoption, removal, repair over entries and hook files | `HookFile` |
| `ServiceManager` | unit, job and process on three platforms | - |
| `Upgrade` | Apply, Rollback, activation, undo, the service commands | `ServiceManager` |
| `Desktop` | State and its cache, restart, dashboard, openings, links | - |
| `PublisherProofs` | theorems about `Publisher`, and the refinement | `PublisherRefines` |
| `ObservationProofs`, `InjectionProofs`, `SessionsProofs`, `OnboardingProofs`, `IntegrationsProofs`, `UpgradeProofs` | theorems about the module they name | that module |
| `LocalBackendProofs` | theorems about the local backend, and about the window that asks for it | `LocalBackend`, `Desktop` |
| `MC...` | instances for TLC | the module they name |

The grain is the same in all of them.  A SQLite transaction, a write or rename of
a file, a request, a call of a platform tool is one step; anything may happen
between two of them.  A lock held over several of them is a guard on who may
start.  A failure is an alternative of the step that can fail; a stop (`Crash`,
`ProcessEnds`, `Killed`) clears what is memory and keeps what is stored.  History
variables, marked so where they are declared, record what a property speaks of
and are read by no guard.

**Publisher.**  `row[w]` is the row of `workspaces` (`present` says whether there
is one, `reg` is `registration_enqueued`); `queue` is `event_queue`, `acked` and
`quarantined` its rows with `acked_at` and `quarantined_at`.  An event is what
decisions are made on: workspace, sequence, device, kind (`reg` a registration,
`mft` a manifest event, which neither respects nor advances
`lastProjectedSequence`, `obs` all others).  `log[b]`, `high[b][w]`, `stale[b]` are
the events backend `b` accepted, its `lastProjectedSequence`, and those it accepted
but ignored as old.  `flush` is `LoadPending`, `LoadWorkspaces`, `Pick...`,
`Send...`, `Ack...`, `Retry...`; `rebindProject` is `RebindProject` (file and
memory), then `RebindStored` and `RebindUpsert` for each workspace; `addWorkspace`
is `AddWorkspace` (file), `AddUpsert` (store), `AddCommit` (memory).  `s.mu` and the
daemon lock are the guard `op.kind = "none"`; handlers that take neither do not
have it.  A request that fails transiently had no effect, or had its effect and
lost the reply, or will arrive later (`late`).  An element of `Backends` is a server
together with one identity of this Mac on it; `enrolled` remembers the identities
that were taken, because a device is never given one it had before: a server joined
again after a reset is another element.

**Outbox.**  An item waits until it is delivered or refused; items of a workspace
are settled oldest first; one counts as delivered only once it has arrived; a
workspace's items are withdrawn together.  The mapping: `waiting` is the pending
rows, `delivered` the acknowledged ones, `refused` those quarantined and not
acknowledged, `arrived` the queued events the backend they are addressed to has
in its log.  Windows, snapshots, single retries and crashes are stutters.

**Observation.**  `scan` is the scan in progress: HEAD, index and worktree are
three reads of a tree that may change in between, then `PublishManifest` in one
transaction and the fingerprints in another.  `queue` holds the workspace's events
in order; `Deliver` applies the first, `Refuse` sets it aside (what `Publisher`
shows about delivery is assumed here).  `backend` is the projection: the staged
manifests with their chunks, the active one, fingerprints, reads.  `Stop`,
`StoreFails` and `Move` fall between any two steps.  `refused` is the history of
the revisions that lost an event to a refusal.  `blind` is the history of the files that
nothing schedules a scan of, until one begins: those changed below `.git`, those in
directories that connecting another repository began to watch (a connection scans
nothing), and all of them when the store did not take a manifest.  `TreeWatch` keeps the operating
system's watch list apart from the number the watcher counts.

**Injection.**  A hook is one process waiting for one call; `pc` is where the call
is (`fetch`, `picked`, `answer`), `gone` that nobody waits for it.
`delivered` is `injection_deliveries`.  Time is what is left of each deadline and
`Tick` moves all of them.  A brief is rendered anew for every call, the most urgent items
first, and what it has room for depends on them alone, not on what a session was told.  `shown`, `again` and `lost` are history: what a session's
agent saw, what it saw twice, and what was claimed for a hook that had gone.

**Sessions.**  `sessions` is `agent_sessions` as age; `identity[s]` is what the MCP
process of `s` resolved to; `stored` is `idempotency_keys`.  A call is `CallTool`,
`PublishLifecycle` (revision, events and key in one transaction) or `Refuse`,
`Reply`, and `Retry` after a lost reply.  `RequestHash` is what a repeated key is compared
by: the kind and content of the events, not the revision or the workstream they were based on.  A hook that shares a transcript queues
one message per step.

**LocalBackend.**  `mgr` are the managers of the service and of a command, each with
its own copy of `backend.json`; `Ensure` is several steps under the manager's
mutex, which excludes neither the other manager nor the process.  `sups` are the
supervisor goroutines.

**Onboarding.**  `flow` is one flow of the application and one of the command line,
each a program counter over calls to server, keychain and profile.  A credential
and the device the server makes for it are one number.

**Integrations.**  `entry[v][r]` is the MCP entry of vendor `v` in root `r`,
`hooks[f]` a hook file.  `op` is a setup, reconnect or removal with its remaining
writes, `launch` a repair pass with its position.  Executables go to and fro between
the places a profile is installed at, profiles appear and go, members edit files.  A
member's hook is plain (`Theirs`) or has fields Overgent does not know (`Rich`); `Encoded`
is what becomes of an event's groups when they are decoded and written again.

**Upgrade.**  `exe`, `prev`, `spare` are images under the executable's name, its
rollback copy's and others; each rename, flush and tool call is a step that may
fail.  `ServiceManager` has the effect of every tool call on unit, job and process.

**Desktop.**  A call of `State` is the steps between its waits: read the profile,
ask each backend, keep and offer the answers.  The backends are asked in the order of
the file under one deadline, which a silent one uses up (`late`); a secret that cannot
be read, or is asked for after the deadline, is the answer `unknown` to the program and
`unread` to the properties.  The service, the backends and the
member are the environment.

## 3. Runs

`tlc -config <cfg> <module>` repeats any of them.

| Run (`cfg`, module) | Instance | Checks |
|---|---|---|
| `queue` (`Queue`, `MCPublisher`) | 2 workspaces of one root (the second a re-enrollment), 1 backend, a payload refused at sequence 3, batches of 2, 2 administrative calls, 1 fault, 1 late request | `TypeOK`, `AckedWasAccepted`, `CursorCoversNoPending`, `BootNeverConflicts`, `RegistrationRemembered`, `OnlyRefusedQuarantined` |
| `rebind` (`Rebind`, `MCPublisher`) | the same with 2 backends and a refusal at sequence 2 | `NoSilentlyStaleEvent`, `ImplementsOutbox` |
| `liveness` (`Liveness`, `MCPublisher`) | 3 workspaces, two Projects, one on `a` (answers), one on `b` (need not), a refusal | `ReachableBackendDrains` |
| `observation` | 2 repositories and an ignored directory under a budget of 3 watches, 2 files, chunks of 1 path, 3 operations of the member, 2 reports of reads, 1 fault, 1 move, 3 of these in all | `DescriptorBudget`, `QuietMeansObserved`, `ActiveIsWhole`, `BackendCatchesUp`, `ReadEvidenceAgrees` |
| `injection` | 1 session, 2 hooks at once, 3 items of which a brief holds one in full and one by reference and an injection one, 2 revisions, 1 focus, 1 fault | `ShownOnce`, `NothingRetiredUnread`, `CorrectionArrives` |
| `sessions` | 3 Codex threads (one writes no rollout), 2 keys, 3 methods, 1 text, a window of 2 messages, 4 events | `RetriesAgree`, `NoLostUpdate`, `NeverMistaken`, `MessageSharedOnce` |
| `localbackend` | 3 ports, 2 releases, 2 attempts of a start, 5 processes, 9 events | `OneBackend`, `EnsuredHasFunctions`, `ExportedAtRest`, `OneSupervisor`, `SupervisedBackendReturns` |
| `onboarding` | a Project of this Mac, somebody's Project with an invite, 2 servers, 2 faults, all credential stores | `MovedProjectReachable`, `SharedDeviceKept`, `MoveCompletes` |
| `integrations` | 3 profiles (one under a former name), 2 roots, 3 vendors, executables at 2 places; all operations for 3 events, one root for 4, Codex for 4, Claude Code in one root for 6 | `OneOwnerPerFile`, `OwnLeftoversAdopted`, `LiveBindingKept`, `MemberHooksKept` |
| `upgrade` | 3 images of any quality, 3 platforms, 2 faults | `ReplacedImageKept`, `FailedUpdateUndone`, `UpdatedServiceRuns` |
| `desktop` | a team server before the local backend, 2 callers, 2 openings, 2 links, 2 faults, 2 gestures | `RejectedOrUnread`, `HealedBackendShown`, `DashboardRecovers`, `LatestLinkOpens` |
| `rebind_crash` (`RebindCrash`, `MCPublisher`) | 1 workspace, 2 backends, 1 move, 1 fault | violates `RegistrationRemembered`, see 4 |

*Bounds.*  `MaxSeq` 3 with bursts and batches of 2 gives a registration, two further
events, a full window and a rest, so that order, partial acknowledgement and a
window split by a refusal all occur.  Two administrative calls reach every pair
(remove and re-enroll, reset and register); one fault can fall between any two
steps, and where recovery itself can fail (`onboarding`, `upgrade`, `desktop`)
there are two.  Two workspaces with one root reach every case of the
re-enrollment rule; three in `liveness` give a failed backend a workspace before
and one after the failure.  A budget of 3 watches for 4 directories makes two
repositories compete; chunks of one path make a manifest of two files several
events, some of which may be refused.  Two hooks are what a parallel tool call
has; a window of two messages is passed by the third.  Of three items the brief has
room for a part, so that its order and both budgets decide what is told when, and the
claim of one makes room in an injection and not in the brief.  Nine events of
`localbackend` are a start, a crash, a failed restart, a stop and an upgrade with
room between.  Two profiles in use and one superseded are the cases of ownership.  `integrations`
explores longer histories in parts (`MCIntegrations`): six events are a setup, a move, a
launch, a cut, a move back and a launch.
Symmetry is used where the runs check no liveness: profiles in use
(`integrations`), threads and keys (`sessions`).  `desktop` explores the calls of
`State` and the pages of the window one at a time: they share only the
environment, which is free in both; two callers run beside the local backend alone, one
beside a team server that config.json names first.  Between them the passing runs take every
action.

*Deadlock* is checked in `injection`, `onboarding` and `upgrade`, where time, the
service manager or the member can always go on.  Elsewhere an idle program at the
end of its bounds is a proper end.

*Fairness.*
* `Publisher`: `flushLoop` re-arms its timer after each pass and no pass waits for
  anything but a request (weak fairness of `FlushStep`, and of `OpStep` for a call in
  progress).  A request to a backend in `Reachable` is answered infinitely often if it
  is made infinitely often (strong fairness of answered sends and retries): that is
  what reachable means.  Nothing is assumed of other backends, of members, or of a
  stopped service being started.
* `Injection`: time passes; a hook's process takes its steps, each bounded by its
  deadline.  A session that works on is prompted again and again outside a focus, and
  some of its calls are answered in time (strong fairness): without that no item can
  reach it.
* `LocalBackend`: goroutines of a running service run on (`EnsureStep`,
  `SupervisorStep`).  Nothing is assumed of the command or of the backend process.
* `Onboarding`: a flow takes its next step; a member whose move was cut short starts it
  again (strong fairness of `StartPromote`), which is what the code relies on.
* `Desktop`: goroutines run on, a cached answer lapses, launchd starts the service.  The
  member's repeated asking is a premise of the property, not an assumption.

*What holds and why it is not obvious.*
* `NoSilentlyStaleEvent`: an event leaves the pending set before its successors are
  acknowledged or not at all, because windows, retries and acks keep sequence order, and
  a resent event is recognised by its id before the sequence rule sees it.
* `ImplementsOutbox` says the same of the whole history: no interleaving of a pass with
  a move, removal or crash settles an event twice, out of order or before it arrived.
* `QuietMeansObserved`: a scan reads three layers one after the other, and what changes
  behind it has re-armed the timer; the exception is a write below `.git`.
* `ActiveIsWhole`: a backend that lost a chunk to a refusal shows the older manifest.
* `ShownOnce`: two hooks pick the same item from one read; only the claim decides.
* `RetriesAgree`: a key outlives the events it stands for, pruned or moved.
* `OneBackend`: each process some record took note of is found and ended before another
  starts, although a port, a pid and the record can each be stale.
* `MovedProjectReachable`: `promote` stores the credential as pending before the server
  has the Project, so no cut leaves a Project nobody holds a credential for.
* `ReplacedImageKept`: the order of the renames, whichever of them is the last.
* `RejectedOrUnread`: an answer is kept with the device it is about, so a slow call
  cannot report the device that replaced it.
* `OwnLeftoversAdopted`: a repair is cut between its two writes, and the application may next
  be started from the path it came from; what the pass leaves is an entry beside hooks that
  are right, never hooks that are wrong.

## 4. Disagreements found

`rebind_crash` is a run that expects a violation; `PROJECT.json` quotes the lines.  A
stop between the file half and the store half of a move boots with the new backend
in the row and the registration flag still set: the new backend is never told of
the workspace, and refuses everything.

Further configurations are kept as witnesses, each of one statement of the
repository that the code, or a premise of a run above, does not meet.  They are
not among the runs; `tlc -config X.cfg M` prints the behaviour.

| `cfg`, module | Violates | What happens |
|---|---|---|
| `PauseRace`, `MCPublisher` | `PauseStopsTransmission` | "Pause stops payload transmission synchronously before success returns" (docs/security-privacy.md); a pass reads the flag once, and goes on |
| `RebindRace`, `MCPublisher` | `OnlyRefusedQuarantined` | between the two transactions of a move a handler queues an event; it precedes the registration and is quarantined |
| `OrphanStarves`, `MCPublisher` | `OrphanHoldsUpNobody` | an event left by a reset marks its backend failed in every pass, before the workspaces behind it |
| `MovedManifest`, `MCObservation` | `MovedProjectIsLearned` | after a move a scan finds the active manifest unchanged and sends the new backend nothing until a path changes |
| `RetiredUnread`, `MCInjection` | `ClaimIsWaitedFor` | the service's budget is longer than the hook's: an item is claimed for a hook that has given up |
| `FailedEnrollment`, `Onboarding` | `RollbackRevokes` | the server refuses to revoke the last device that owns a Project, so a Project whose creation failed on this Mac stays, with its device |
| `UnreadReset`, `Onboarding` | `ResetOnlyRejected` | a credential store that cannot be read counts as a credential that is gone |
| `CrowdedOut`, `MCInjection` | `EveryItemArrives` | a brief is filled from the most urgent item on, whatever a session was told before: an item behind a full brief is not told until one before it is closed |
| `UnreadRejected`, `MCDesktop` | `RejectedWasRejected` | any failure to read the secret is `unknown`: a locked keyring shows the access of an accepted device as gone |
| `SilentBackend`, `MCDesktop` | `HealedBesideSilence` | "a revoked team Project must not present the local Project beside it as broken" (`onboarding_service.go`); one server that does not answer uses up the eight seconds all backends share, on every poll |
| `LeftoverStays`, `MCIntegrations` | `EveryLeftoverAdopted` | "Run repairs every vendor across every registered repository" (`repair.go`); Cursor's hooks of the same profile at a former path are `partial`, and so are the Codex entries after the first repository's and an entry beside hooks that are right already |
| `LiveHooksTaken`, `MCIntegrations` | `LiveHooksKept` | "Anything a live profile depends on still falls through to the explicit refusal" (`codexsetup/setup.go`); `adopt` asks about a leftover entry and `rebind` takes the live profile's hooks with it |
| `StrippedHooks`, `MCIntegrations` | `UnrelatedHooksKept` | "Unrelated hook groups and handlers are preserved byte-semantically" (`hooks.go`); fields the decoder does not know are lost, and `Remove` drops a group with what a member added to it |
| `LostService`, `Upgrade` | `EarlierUnitLeftAlone` | a restart that fails at the end of an install disables the unit an earlier install left, and keeps it on disk: it reads as installed and no login starts it |

## 5. Proofs

Every theorem holds for every value of the constants: any number of workspaces,
sessions, repositories, releases, profiles, events and faults.  The assumptions are
those named in the modules (finite sets, bounds that are numbers, a `NoBackend` that is
no backend, a retired event that is none of today's, an initial profile that `Register`
can leave).  A bound restricts which behaviours `Spec` has; the theorems hold whatever
it is.  Each proof follows one scheme: an inductive invariant, one lemma per action or
per kind of step, and a last step that combines them.

| Module | Theorem | States |
|---|---|---|
| `PublisherProofs` | `TypeInvariant`, `BootAlwaysPossible`, `DeliveryIsHonest` | `TypeOK`, `BootNeverConflicts`, `AckedWasAccepted` |
| | `CursorIsHonest`, `NothingSilentlyStale`, `PublisherIsAnOutbox` | `CursorCoversNoPending`, `NoSilentlyStaleEvent`, `ImplementsOutbox` |
| | `RegistrationNeverForgotten`, `QuarantineIsJustified` | `RegistrationRemembered` when moves run to their end; `OnlyRefusedQuarantined` when Projects stay on their backends |
| `ObservationProofs` | `BudgetKept`, `QuietHasSeen`, `ManifestShownIsWhole`, `CaughtUp`, `EvidenceAgrees`, `ObservationTyped` | `DescriptorBudget`, `QuietMeansObserved`, `ActiveIsWhole`, `BackendCatchesUp`, `ReadEvidenceAgrees`, types |
| `InjectionProofs` | `NeverShownTwice`, `RetiredWasClaimed`, `InjectionTyped` | `ShownOnce`, `NothingRetiredUnread`, types |
| `SessionsProofs` | `RetriesAlwaysAgree`, `NoUpdateLost`, `HeardIsNeverMistaken`, `SharedOnce`, `SessionsTyped` | `RetriesAgree`, `NoLostUpdate`, `NeverMistaken`, `MessageSharedOnce`, types |
| `LocalBackendProofs` | `OneWatcher`, `OneProcess`, `ExportIsAtRest`, `SkippedPushWasDone`, `LocalBackendTyped` | `OneSupervisor`; without overlap `OneBackend`, `ExportedAtRest`, `EnsuredHasFunctions`; types |
| | `WindowNeverMisjudges` | `RejectedOrUnread` (of `Desktop`): what is said of a secret that was read |
| `OnboardingProofs` | `MoveNeverStrands`, `SharedDeviceNeverLost` | without overlap and with a credential store that can be read `MovedProjectReachable`; if moreover no registration's reply is lost `SharedDeviceKept` |
| `IntegrationsProofs` | `OneOwnerAlways`, `MembersKept`, `LiveKept`, `LeftoversAdopted` | `OneOwnerPerFile`, `MemberHooksKept`, `LiveBindingKept`, `OwnLeftoversAdopted` |
| `UpgradeProofs` | `ImageKept`, `ServiceUpdated`, `UpdateUndone` | `ReplacedImageKept`, `UpdatedServiceRuns`; without overlap `FailedUpdateUndone` |

**Publisher: types, boot, delivery.**  `TypeOK` is not inductive: a window can only be
sent when its backend is one, and the new `lastProjectedSequence` is the maximum of a set
that has one.  `Sound` adds: every configured workspace resolves to a backend; a row that
exists names one; a call in progress names what its next step uses; a pass past `pick` has
a workspace and a backend; and the sequences held or in flight of a workspace are bounded.
A registration queued by the boot loop would collide with a queue entry of the same
workspace that has the same number or is a registration to the same device.  `Identity`
rules out both: all that is held of a workspace with a row is numbered up to the row's
sequence (`SeqOK`), a queued registration is remembered by the flag (`FlagOK`), and a
workspace that lost its row while events of it remain is not configured and never will be
(`GoneOK`).  The last needs that one root belongs to at most one configured workspace
(`RootsOK`, or the re-enrollment rule would delete rows of configured workspaces) and that
ids are never minted twice (`UsedOK`).  For delivery, `Ack` finds its row by event id after
the reply, and anything may have replaced the row since: `Delivered` says that what the
pass is about to acknowledge is known to the backend of its device, and that a row with the
id of a held event is that event.

**Publisher: order and refinement.**  `Moves` says that a registration is queued for a
backend once, also while a move is half done.  `Order` relates the pass to the queue: the
window precedes what the pass still has of its workspace, the pass has left out no pending
event before one it holds, what it holds is unsettled, and events of a workspace are
settled oldest first.  It is kept for four kinds of step: rows are appended past all
numbers of their workspace (`Appended`), a workspace leaves the queue whole (`Dropped`), a
window is settled, a pass ends anywhere; every action is one of them or touches neither
queue nor pass.  `Arrival` carries the order over the network: `lastProjectedSequence` is
that of an accepted event, nothing of a batch that may still arrive overtakes a pending
event (`LateOrder`), and nothing in a log precedes a pending event its backend does not
know (`ArrivalOrder`).  The mapping to `Outbox` is then followed action by action: a
request that arrives is its arrival, `Ack` its delivery, `Quarantine` its refusal, a move
or removal its withdrawal, everything else a stutter.

**Publisher: registrations and refusals.**  Two properties do not hold of every behaviour
of `Spec`, and their theorems say of which they do: they are about
`Spec /\ [][A]_vars`, where `A` is a restriction of the steps.  `WholeMoves` is what
`RebindWorkspace` relies on and `RebindCrash` lacks: while a move is in progress its process
does not stop, no transaction of it fails and no workspace of it is missing; and a workspace
is added with the origin its Project has, because `addWorkspace` with another one also moves
the Project, without rewriting the rows of the others.  Then a registered row that no move
has still to rewrite names the backend the configuration resolves to (`Agreement`), and the
flag is never set without the registration in the queue (`Introduced`).  `Stays` says
that no Project moves at all.  Nothing weaker in the way of `WholeMoves` would do for
`OnlyRefusedQuarantined`: even a move that runs to its end lets a handler queue an event
between the two transactions of a workspace, ahead of its registration (`RebindRace`).  With
it, whatever names a backend for a workspace names the same one, and its registration is the
first event it ever queued (`Homes`); a pass reaches a later event only once that is
settled, so that a refusal of it has one of the other two reasons (`Refusals`).  Both
hypotheses hold in every behaviour of the instance of `queue`, which has one backend; TLC
checked the two strengthenings on instances with two.

**Observation.**  `DescriptorBudget` needs that the watcher's count and the system's list
agree after each walk, which is a recursive function over the tree: `RankBound` bounds what
a walk adds by what the cap leaves.  `Observed` says where a watched file's state is: a
timer is armed, or the part of the scan that is done has seen it, or the active manifest
has.  `WholeManifests` says that a completion in the queue names a manifest that was
published.  `Followed` is the proof that the backend catches up: the events of the newest
manifest are in the queue in order, behind what was there, and what the backend has of it
is exactly the first of its chunks (`InPlace`, `Built`).  `EvidenceFollows` says that the
strongest evidence of a read is recorded, queued or about to be.

**Injection.**  `ClaimsApart`: a claim on its way is a row, is nobody else's and was not
shown before.  What a brief contains and what fits the budget play no part.

**Sessions.**  `Answered` (an answered request is stored, and answered as stored),
`Ordered` (no revision is ahead of the current one), `Paid` (each revision was an event,
which keeps revisions within their type), `InPlace` (a shared message bears the identity of
its place in the transcript).

**LocalBackend.**  `Watch` ties the supervisor to what the service's manager believes and
holds with commands beside the service.  `Records` is about one manager at a time: its
memory is what is on disk, a process that is not lost is on record or in the hands of the
manager that started it, and a recorded revision means a database with functions.  With a
second manager each of these is false, which is why those theorems have the hypothesis
`~Overlap`.

**Desktop.**  `WindowInv` numbers the devices of a backend and rests on their number never
being given again: a device that was rejected or replaced stays so (`Gone`), and an answer
that says rejected, in the cache or in a call that is about to keep it, is about such a device
(`AnswerSound`, `CallSound`).  The answer of a secret that was not read is left out of the
statement, because it says nothing of the device (`UnreadRejected`).  The theorem stands beside those of the
local backend, whose Ensure the application calls.

**Onboarding.**  `MoveInv` says what each stage of a flow has done by then.  A Project that is
being created is owned by nobody else and only one flow creates it (`CreatedOnce`); a move
stores its credential before the request and deletes it after the profile names the team
server, and a Project that is on the team server while the profile says local has its
credential pending (`MoveRemembered`).  `DeviceInv` says that the device of a first enrollment
is nobody else's until it is registered (`OwnDevice`), that only such a device is rolled back
(`RollsBackOwn`), and that a reset about to delete a credential found it gone or refused
(`ResetRejected`).  Each hypothesis is needed, and TLC shows a counterexample without it.
`~Overlap`: a reset saves the profile it loaded, over what a flow saved meanwhile.  `~Unread`:
a pending credential that cannot be read is replaced, and a stored one that cannot be read
counts as gone.  `~LostReply`, for `SharedDeviceKept` alone: a first enrollment whose
registration was saved but whose reply was lost is rolled back.

**Integrations.**  The hook file operations are reasoned about once, over all files of
groups and handlers: what each leaves of the commands, and of the member's hooks.  A
command that is new in a file is then the only one in it (`Taken`), which is all that
`Owned` needs.  `LiveBindingKept` needs what an operation cut into several writes has done
so far (`Halfway`) and that what it is about to take was nobody's when it looked and still
is (`Leftover`), since nothing else writes until it ends; what it looked at is the entry
if that is a leftover, and the hooks otherwise, and this is the exception in the property.
`OwnLeftoversAdopted` is the end of `Progress`: each vendor and repository the pass has come
past is adopted, or its repair is under way.  A later repair keeps it so, although the
repositories share the hooks of Codex: it leaves there the command of the profile that
launched, and that is what the exception for an entry asks of them.

**Upgrade.**  `Placed` says at each step under which of the two names the image is that
must not be lost; `Phased` and `Faulty` which step belongs to which phase and how often
something has gone wrong by then; `Current` that nothing runs but the image on disk once
the job was restarted; `Served` that an update which began with a healthy service keeps its
definition.  Only the last, and with it `FailedUpdateUndone`, needs that no other installer
is at work.

**What the proofs found in the model.**  Each was corrected after the source was read
again.  A backend joined again after a reset was taken for the same identity, so a second
registration could collide.  Overlapping arms of a `CASE` in `Sessions`, `HookFile`,
`Integrations` and `Desktop` left the choice between two answers open, where the code tests
them in order.  A repository connected to a running service counted as seen before it was
scanned.  `BackendCatchesUp` excused any manifest after a refusal, not only the one that lost
an event.  A rebind that failed outside a launch left the pass of a launch that had never
begun, and no operation followed it.

*Only model-checked:* the seven liveness properties (fairness is out of the prover's reach).
Every safety invariant and every other action property of a passing run is stated by a
theorem.  What a recursive definition computes for every input is not proved either:
the proofs use of such a definition what one unfolding of it gives.  The witnesses of
section 4 are counterexamples found by TLC.

## 6. Limits and abstractions

Of the publisher:
* One Mac has one device identity per backend, so a device id is identified with
  its backend; a server joined again after a reset is another element of `Backends`,
  and `failedBackends`, which the code keys by server, is kept per identity.
* A promotion that is tried again reuses the pending credential, and with it the
  device: that case is in `Onboarding` and not here.
* Event ids are random except for registrations; (workspace, sequence) names the
  random ones.  Which payloads validation refuses is a set of sequences.
* `context.acknowledged` is counted among `obs`, although the backend never
  ignores it as old: the properties are stricter for it than the code needs.
* A handler's look at the configuration and its transaction are one step.  `Reset`
  is one step here; its steps are in `Onboarding`.
* A credential that cannot be read, a rate limit and a loopback backend that is
  down are all transient failures; the sender cache is not modelled.
* `Deny` is final: rejoining a Project belongs to membership.
* Acknowledged rows are never cleaned up: `CleanupAcknowledged` has no caller.

Premises some properties need, each because the code does not give more:
* `EnsuredHasFunctions` excludes a reset that failed or was cut before it saved
  (`resetCut`): the database is removed first, and the record still says deployed.
* `Overlap` (a command beside a running service or application), `LostReply` (of a
  registration) and `Unread` (a credential store that fails on read) are constants,
  FALSE in the passing runs; `UnreadReset` shows the last.  With them
  two managers start two processes and two installers undo each other.
* `BackendCatchesUp` speaks of Projects that were not moved and of a newest manifest
  none of whose own events was refused; `ReadEvidenceAgrees` also excludes faults: reads are
  recorded in one transaction and queued in another.
* `CorrectionArrives` is about what a brief has room for beside the items before it
  (`CrowdedOut` shows why).
* `RejectedOrUnread` leaves out a secret that could not be read, and `HealedBackendShown` a
  backend that stays silent (`UnreadRejected`, `SilentBackend`).
* `OwnLeftoversAdopted` is about Codex and Claude Code, and leaves out an entry whose hooks
  are at the right path and hooks beside another profile's entry (`LeftoverStays`).
* `LiveBindingKept` leaves out hooks beside a leftover entry (`LiveHooksTaken`).
* `MemberHooksKept` says that hooks stay, not all their fields, and of a removal only those
  in groups without a hook of Overgent's (`StrippedHooks`).
* `DescriptorBudget` bounds the watches by what the watcher counts.  Directories deleted
  before their repository is disconnected stay counted.
* `MessageSharedOnce` holds within the window read of a transcript: a message's
  identity counts from the start of the window.
* `FailedUpdateUndone` allows one thing to go wrong: an undo that fails too is
  reported and not undone.
* `RegistrationRemembered` holds as long as no move is cut short, and
  `OnlyRefusedQuarantined` as long as none is made (`WholeMoves` and `Stays` in section 5);
  `RebindCrash` and `RebindRace` show why.
* `ReachableBackendDrains` excludes orphans (`OrphanStarves` shows why).

Elsewhere: what Git prints, what a transcript says, how commands are quoted and how
manifests are signed are left out; content is a member of a small set.  The
idle stop of a local backend is off in production (its timeout is zero) and left out.  The clearing of a runtime verification by a reconnect is not modelled.
Schema migrations and the migration of an old configuration file are not either.

## 7. Not modelled

* Membership and access of a Project, coordination intelligence and findings: hosted
  TypeScript.  What a device sees of them is `Deny`, the server of `Onboarding`, and
  items that are opened, revised and closed at will in `Injection`.
* The HTTP surface: routing and status codes around the functions.
* Contract extraction: parsing through tree-sitter grammars; a file's surface is a
  function of its content in `Observation`.
* Dashboard, tray, notifications, pickers, presentation of the command line:
  presentation of what is modelled elsewhere.
* Evaluations and generated protocol types: a harness and declarations.

## 8. Plan

Done: the device side, from an edit of a file to the projection at the backend and
back to the agent; the local backend; onboarding; integrations; update; the desktop.
Every safety property of the runs is proved, and the publisher is proved to implement its
abstract specification.  Left:

1. Membership: invites, enroll, join, removal and data deletion, and the uniqueness
   its lookups rely on.
2. Overlap: which part of what `OneProcess`, `UpdateUndone` and `MoveNeverStrands` say
   survives two commands at once.
