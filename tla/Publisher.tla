----------------------------- MODULE Publisher -----------------------------
(***************************************************************************)
(* The per-user service of one Mac publishing its durable event queue to    *)
(* the backends its Projects live on (internal/app/app.go), composed with   *)
(* the store it reads, the profile configuration it resolves backends from  *)
(* and the backends themselves.                                             *)
(*                                                                          *)
(* Actors: the flush loop (one pass at a time, every store transaction and  *)
(* every request its own step); the administrative calls that hold s.mu or  *)
(* the daemon lock (add, remove and rebind a Project; a reset, which takes  *)
(* neither); the IPC handlers that queue events or pause; the network,      *)
(* which may lose a reply or deliver a request late; a crash or stop of the *)
(* service at any point, and its next boot.                                 *)
(***************************************************************************)
EXTENDS EventBackend

CONSTANTS
  InitialConfig,  \* the profile as earlier commands left it, not yet served
  BatchSize,  \* events per request (100 in flush and store.Batch)
  MaxBurst,   \* most events one transaction queues in the model
  MaxSeq,     \* bound: observations stop once a workspace reaches it
  MaxAdmin,   \* bound: administrative calls
  MaxFaults,  \* bound: crashes and failed store transactions
  MaxLate,    \* bound: requests delivered after the client gave up on them
  Reachable   \* backends that answer again and again if asked again and again

\* What Register and its checks leave in a profile.
WellFormed(c) ==
  /\ c \in Config
  /\ \A w \in c.ws : BackendForWorkspace(c, w) \in c.known
  /\ \A v, w \in c.ws : RootOf[v] = RootOf[w] => v = w

ASSUME InitialConfigAssumption == WellFormed(InitialConfig)

ASSUME BoundsAssumption ==
  /\ BatchSize \in Nat \ {0}
  /\ MaxBurst \in Nat /\ MaxSeq \in Nat
  /\ MaxAdmin \in Nat /\ MaxFaults \in Nat /\ MaxLate \in Nat

ASSUME ReachableAssumption == Reachable \subseteq Backends

VARIABLES
  up,       \* the service is running (it then holds the daemon lock)
  cfgDisk,  \* config.json
  cfgMem,   \* Service.cfg
  op,       \* the administrative call in progress; it holds s.mu or the lock
  used,     \* workspace ids ever minted: they are random, never reused
  enrolled, \* backends this Mac ever took an identity on: never minted twice
  admin, faults,  \* how many administrative calls and faults there have been
  pc,       \* where the flush pass is
  todo,     \* events of this pass not yet sent
  snap,     \* backendOf: the backend ids read at the start of the pass
  failed,   \* failedBackends
  cur, via, \* the workspace being drained and the backend its sender talks to
  win,      \* the window, or what is left of it to acknowledge or retry
  late      \* requests the client timed out on that may still arrive

adminVars == <<up, cfgDisk, cfgMem, op, used, enrolled, admin, faults>>
flushVars == <<pc, todo, snap, failed, cur, via, win>>
vars == <<storeVars, backendVars, adminVars, flushVars, late>>

OpKinds == {"none", "add", "addCommit", "remove", "rebind", "rebindUpsert"}
Op == [kind : OpKinds, rest : SUBSET Workspaces, ws : Workspaces \cup {0},
       target : Backends \cup {NoBackend}]
NoOp == [kind |-> "none", rest |-> {}, ws |-> 0, target |-> NoBackend]

PCs == {"idle", "loaded", "pick", "send", "ack", "single", "singleAck", "singleQuarantine"}

\* What an administrative call reads: Service.cfg when the service runs, the
\* file when the command edits a stopped profile under the daemon lock.
CurrentConfig == IF up THEN cfgMem ELSE cfgDisk

SaveConfig(c) ==
  /\ cfgDisk' = c
  /\ cfgMem' = IF up THEN c ELSE cfgMem

Init ==
  /\ StoreInit
  /\ BackendInit
  /\ up = FALSE
  /\ cfgDisk = InitialConfig
  /\ cfgMem = EmptyConfig
  /\ op = NoOp
  /\ used = InitialConfig.ws
  /\ enrolled = InitialConfig.known
  /\ admin = 0
  /\ faults = 0
  /\ pc = "idle"
  /\ todo = {}
  /\ snap = [w \in Workspaces |-> NoBackend]
  /\ failed = {}
  /\ cur = 0
  /\ via = NoBackend
  /\ win = {}
  /\ late = {}

-----------------------------------------------------------------------------
\* Boot, crash and the handlers that write to the queue.

\* Run: load the configuration, upsert every workspace it names.
Boot ==
  /\ ~up /\ op.kind = "none"
  /\ \A w \in cfgDisk.ws : ~UpsertConflict(cfgDisk, w)
  /\ up' = TRUE
  /\ cfgMem' = cfgDisk
  /\ UpsertWorkspaces(cfgDisk, cfgDisk.ws)
  /\ UNCHANGED <<backendVars, cfgDisk, op, used, enrolled, admin, faults, flushVars, late>>

\* Run stops inside its loop: some workspaces are upserted and others are not.
BootCut ==
  /\ ~up /\ op.kind = "none"
  /\ faults < MaxFaults
  /\ faults' = faults + 1
  /\ \E S \in SUBSET cfgDisk.ws :
       /\ \A w \in S : ~UpsertConflict(cfgDisk, w)
       /\ UpsertWorkspaces(cfgDisk, S)
  /\ UNCHANGED <<backendVars, up, cfgDisk, cfgMem, op, used, enrolled, admin, flushVars, late>>

\* The process stops: the flush pass and the call in progress are cut off where
\* they are.  With the service stopped it is the command holding the lock.
Crash ==
  /\ faults < MaxFaults
  /\ up \/ op.kind # "none"
  /\ faults' = faults + 1
  /\ up' = FALSE
  /\ cfgMem' = EmptyConfig
  /\ op' = NoOp
  /\ pc' = "idle" /\ todo' = {} /\ failed' = {} /\ cur' = 0 /\ via' = NoBackend /\ win' = {}
  /\ snap' = [w \in Workspaces |-> NoBackend]
  /\ UNCHANGED <<storeVars, backendVars, cfgDisk, used, enrolled, admin, late>>

\* An IPC handler or a scan queues n events.  A scan holds s.mu, and a manifest
\* is at least a start and a completion.
Observe(w, kind, n) ==
  /\ up
  /\ kind = "mft" => op.kind = "none" /\ n >= 2
  /\ w \in cfgMem.ws
  /\ row[w].seq + n <= MaxSeq
  /\ EnqueueEvents(w, kind, n)
  /\ UNCHANGED <<backendVars, adminVars, flushVars, late>>

\* The pause and resume calls, for one workspace or for one Project's.
PauseResume(S, p) ==
  /\ up
  /\ \E w \in S : row[w].present /\ row[w].paused # p
  /\ SetPaused(S, p)
  /\ UNCHANGED <<backendVars, adminVars, flushVars, late>>

-----------------------------------------------------------------------------
\* Administrative calls.

\* An onboarding flow reads the file: it reuses the device the file names for a
\* backend and mints one for a backend the file does not know.  UpsertBackend
\* then refuses a second identity for a backend the configuration knows.  An
\* identity given up with a reset is gone: the server hands out another one.
OneIdentity(b) == b \in cfgDisk.known \/ b \notin enrolled

StartAdmin == op.kind = "none" /\ admin < MaxAdmin /\ admin' = admin + 1

EndOp == op' = NoOp

\* addWorkspace: save, upsert, and only then the in-memory configuration.  An
\* origin supplied by the caller rebinds the Project to it.
AddWorkspace(w, b) ==
  /\ up /\ StartAdmin
  /\ w \notin used
  /\ ~AlreadyRegistered(cfgMem, w)
  /\ OneIdentity(b)
  /\ used' = used \cup {w}
  /\ enrolled' = enrolled \cup {b}
  /\ cfgDisk' = AddToConfig(cfgMem, w, b)
  /\ op' = [kind |-> "add", rest |-> {}, ws |-> w, target |-> b]
  /\ UNCHANGED <<storeVars, backendVars, up, cfgMem, faults, flushVars, late>>

AddUpsert ==
  /\ op.kind = "add"
  /\ LET next == AddToConfig(cfgMem, op.ws, op.target)
     IN /\ ~UpsertConflict(next, op.ws)
        /\ UpsertWorkspaces(next, {op.ws})
  /\ op' = [op EXCEPT !.kind = "addCommit"]
  /\ UNCHANGED <<backendVars, up, cfgDisk, cfgMem, used, enrolled, admin, faults, flushVars, late>>

AddCommit ==
  /\ op.kind = "addCommit"
  /\ cfgMem' = AddToConfig(cfgMem, op.ws, op.target)
  /\ EndOp
  /\ UNCHANGED <<storeVars, backendVars, up, cfgDisk, used, enrolled, admin, faults, flushVars, late>>

\* Register: the stopped service's half only edits the file, and refuses to
\* move a Project.
Register(w, b) ==
  /\ ~up /\ StartAdmin
  /\ w \notin used
  /\ ~AlreadyRegistered(cfgDisk, w)
  /\ OneIdentity(b)
  /\ BackendForWorkspace(cfgDisk, w) \in {NoBackend, b}
  /\ used' = used \cup {w}
  /\ enrolled' = enrolled \cup {b}
  /\ cfgDisk' = AddToConfig(cfgDisk, w, b)
  /\ UNCHANGED <<storeVars, backendVars, up, cfgMem, op, faults, flushVars, late>>

\* removeProjectWorkspaces and Deregister: the configuration first, then the
\* stored rows one workspace at a time.
RemoveProjectWorkspaces(p) ==
  /\ StartAdmin
  /\ BackendForProject(CurrentConfig, p) # NoBackend
  /\ SaveConfig(RemoveProject(CurrentConfig, p))
  /\ op' = [kind |-> "remove", rest |-> WorkspacesForProject(CurrentConfig, p),
            ws |-> 0, target |-> NoBackend]
  /\ UNCHANGED <<storeVars, backendVars, up, used, enrolled, faults, flushVars, late>>

RemoveStored ==
  /\ op.kind = "remove"
  /\ \E w \in op.rest :
       /\ DeleteWorkspace(w)
       /\ op' = [op EXCEPT !.rest = @ \ {w}]
  /\ UNCHANGED <<backendVars, up, cfgDisk, cfgMem, used, enrolled, admin, faults, flushVars, late>>

\* Promote is the only caller of a rebind: it refuses a backend the file has an
\* identity for and takes a new one, UpsertBackend refuses it where the service
\* still has the old one.  The Project is created under that identity, so no
\* workspace of it has been registered there.
Promotable(b) == b \notin enrolled

\* rebindProject and RebindProject: the configuration first, then for each
\* workspace RebindWorkspace and UpsertWorkspace, two transactions.
RebindProject(p, b) ==
  /\ StartAdmin
  /\ Promotable(b)
  /\ CanRebind(CurrentConfig, p, b)
  /\ enrolled' = enrolled \cup {b}
  /\ SaveConfig(RebindInConfig(CurrentConfig, p, b))
  /\ op' = [kind |-> "rebind", rest |-> WorkspacesForProject(CurrentConfig, p),
            ws |-> 0, target |-> b]
  /\ UNCHANGED <<storeVars, backendVars, up, used, faults, flushVars, late>>

RebindStored ==
  /\ op.kind = "rebind"
  /\ \E w \in op.rest :
       /\ row[w].present
       /\ RebindWorkspace(w, op.target)
       /\ op' = [op EXCEPT !.kind = "rebindUpsert", !.ws = w, !.rest = @ \ {w}]
  /\ UNCHANGED <<backendVars, up, cfgDisk, cfgMem, used, enrolled, admin, faults, flushVars, late>>

RebindUpsert ==
  /\ op.kind = "rebindUpsert"
  /\ LET next == RebindInConfig(CurrentConfig, ProjectOf[op.ws], op.target)
     IN /\ ~UpsertConflict(next, op.ws)
        /\ UpsertWorkspaces(next, {op.ws})
  /\ op' = [op EXCEPT !.kind = "rebind", !.ws = 0]
  /\ UNCHANGED <<backendVars, up, cfgDisk, cfgMem, used, enrolled, admin, faults, flushVars, late>>

\* The call has no workspace left to handle.
FinishOp ==
  /\ op.kind \in {"remove", "rebind"} /\ op.rest = {}
  /\ EndOp
  /\ UNCHANGED <<storeVars, backendVars, up, cfgDisk, cfgMem, used, enrolled, admin, faults, flushVars, late>>

\* A store transaction of the call fails: addWorkspace writes the old
\* configuration back; a rebind and Deregister return; removeProjectWorkspaces
\* logs and goes on to the next workspace.
StoreFails ==
  /\ faults < MaxFaults
  /\ faults' = faults + 1
  /\ \/ /\ op.kind = "add"
        /\ cfgDisk' = cfgMem
        /\ EndOp
     \/ /\ op.kind \in {"rebind", "rebindUpsert"}
        /\ op.kind = "rebindUpsert" \/ op.rest # {}
        /\ EndOp
        /\ UNCHANGED cfgDisk
     \/ /\ op.kind = "remove"
        /\ \E w \in op.rest :
             op' = IF up THEN [op EXCEPT !.rest = @ \ {w}] ELSE NoOp
        /\ UNCHANGED cfgDisk
  /\ UNCHANGED <<storeVars, backendVars, up, cfgMem, used, enrolled, admin, flushVars, late>>

\* RebindWorkspace finds no row: "workspace not found" ends the call.
RebindMissing ==
  /\ op.kind = "rebind"
  /\ \E w \in op.rest : ~row[w].present
  /\ EndOp
  /\ UNCHANGED <<storeVars, backendVars, up, cfgDisk, cfgMem, used, enrolled, admin, faults, flushVars, late>>

\* Reset and clearLocalEnrollment rewrite the file; neither takes the daemon
\* lock, tells the running service, or touches the store.
ResetBackend(b) ==
  /\ admin < MaxAdmin /\ admin' = admin + 1
  /\ b \in cfgDisk.known
  /\ cfgDisk' = RemoveBackend(cfgDisk, b)
  /\ UNCHANGED <<storeVars, backendVars, up, cfgMem, op, used, enrolled, faults, flushVars, late>>

-----------------------------------------------------------------------------
\* The flush pass.

FlushUnchanged == UNCHANGED <<adminVars>>

\* s.store.Pending
LoadPending ==
  /\ up /\ pc = "idle"
  /\ Pending # {}
  /\ pc' = "loaded"
  /\ todo' = Pending
  /\ UNCHANGED <<storeVars, backendVars, snap, failed, cur, via, win, late>>
  /\ FlushUnchanged

\* s.store.Workspaces: pause and backend ids as of now, for the whole pass.
LoadWorkspaces ==
  /\ pc = "loaded"
  /\ pc' = "pick"
  /\ todo' = {e \in todo : ~row[e.ws].paused}
  /\ snap' = [w \in Workspaces |-> row[w].backend]
  /\ failed' = {}
  /\ UNCHANGED <<storeVars, backendVars, cur, via, win, late>>
  /\ FlushUnchanged

\* The next workspace of `order`, which is by workspace id.
NextWorkspace == CHOOSE w \in {e.ws : e \in todo} : \A e \in todo : w <= e.ws

\* senderForWorkspaceID resolves through the configuration of this moment.
Sender(w) == IF w \in cfgMem.ws THEN BackendForWorkspace(cfgMem, w) ELSE NoBackend

SkipWorkspace(w) == todo' = todo \ EventsOf(todo, w)

PickSkip ==
  /\ pc = "pick" /\ todo # {}
  /\ snap[NextWorkspace] \in failed
  /\ SkipWorkspace(NextWorkspace)
  /\ UNCHANGED <<storeVars, backendVars, pc, snap, failed, cur, via, win, late>>
  /\ FlushUnchanged

PickUnconfigured ==
  /\ pc = "pick" /\ todo # {}
  /\ snap[NextWorkspace] \notin failed
  /\ Sender(NextWorkspace) = NoBackend
  /\ failed' = failed \cup {snap[NextWorkspace]}
  /\ SkipWorkspace(NextWorkspace)
  /\ UNCHANGED <<storeVars, backendVars, pc, snap, cur, via, win, late>>
  /\ FlushUnchanged

PickSender ==
  /\ pc = "pick" /\ todo # {}
  /\ snap[NextWorkspace] \notin failed
  /\ Sender(NextWorkspace) # NoBackend
  /\ pc' = "send"
  /\ cur' = NextWorkspace
  /\ via' = Sender(NextWorkspace)
  /\ UNCHANGED <<storeVars, backendVars, todo, snap, failed, win, late>>
  /\ FlushUnchanged

FinishFlush ==
  /\ pc = "pick" /\ todo = {}
  /\ pc' = "idle"
  /\ UNCHANGED <<storeVars, backendVars, todo, snap, failed, cur, via, win, late>>
  /\ FlushUnchanged

\* The first n events of S by sequence.
FirstBySeq(S, n) == {e \in S : Cardinality({f \in S : f.seq < e.seq}) < n}

Window == FirstBySeq(EventsOf(todo, cur), BatchSize)

\* Mutant: one backend's failure ends the pass for all of them.
GiveUpOnAll ==
  /\ pc' = "pick"
  /\ todo' = {}
  /\ failed' = failed
  /\ win' = {}
  /\ UNCHANGED <<snap, cur, via>>

\* A transient error: the rest of this backend waits for the next pass.
GiveUpOnBackend ==
  /\ pc' = "pick"
  /\ failed' = failed \cup {snap[cur]}
  /\ SkipWorkspace(cur)
  /\ win' = {}
  /\ UNCHANGED <<snap, cur, via>>

\* What a request that fails transiently leaves behind: nothing, or its effect
\* at the backend (the reply was lost), or a request that may still arrive.
TransientFailure(batch) ==
  \/ UNCHANGED <<backendVars, late>>
  \/ /\ Accepts(via, batch)
     /\ PublishEvents(via, batch)
     /\ UNCHANGED late
  \/ /\ Cardinality(late) < MaxLate
     /\ late' = late \cup {[to |-> via, batch |-> batch]}
     /\ UNCHANGED backendVars

\* sender.Send of the window succeeds.
SendWindow ==
  /\ pc = "send"
  /\ EventsOf(todo, cur) # {}
  /\ Accepts(via, Window)
  /\ PublishEvents(via, Window)
  /\ pc' = "ack"
  /\ win' = Window
  /\ todo' = todo \ Window
  /\ UNCHANGED <<storeVars, snap, failed, cur, via, late>>
  /\ FlushUnchanged

\* Mutant: a permanent rejection counts as delivered.
SendRejectedAsSent ==
  /\ pc = "send"
  /\ EventsOf(todo, cur) # {}
  /\ ~Accepts(via, Window)
  /\ pc' = "ack"
  /\ win' = Window
  /\ todo' = todo \ Window
  /\ UNCHANGED <<storeVars, backendVars, snap, failed, cur, via, late>>
  /\ FlushUnchanged

\* A permanent rejection says nothing about which event was refused.
SendRejected ==
  /\ pc = "send"
  /\ EventsOf(todo, cur) # {}
  /\ ~Accepts(via, Window)
  /\ pc' = "single"
  /\ win' = Window
  /\ todo' = todo \ Window
  /\ UNCHANGED <<storeVars, backendVars, snap, failed, cur, via, late>>
  /\ FlushUnchanged

SendFails ==
  /\ pc = "send"
  /\ EventsOf(todo, cur) # {}
  /\ TransientFailure(Window)
  /\ GiveUpOnBackend
  /\ UNCHANGED storeVars
  /\ FlushUnchanged

\* The workspace's events are all sent.
Drained ==
  /\ pc = "send"
  /\ EventsOf(todo, cur) = {}
  /\ pc' = "pick"
  /\ UNCHANGED <<storeVars, backendVars, todo, snap, failed, cur, via, win, late>>
  /\ FlushUnchanged

\* Mutant: the newest first.
LastOf(S) == CHOOSE e \in S : \A f \in S : e.seq >= f.seq

FirstOf(S) == CHOOSE e \in S : \A f \in S : e.seq <= f.seq

\* Acknowledge the window one event at a time, each in its own transaction.
AckNext ==
  /\ pc = "ack" /\ win # {}
  /\ Ack(FirstOf(win))
  /\ win' = win \ {FirstOf(win)}
  /\ UNCHANGED <<backendVars, pc, todo, snap, failed, cur, via, late>>
  /\ FlushUnchanged

\* The row is gone (a rebind or a removal since the pass began): the pass ends.
AckMissing ==
  /\ pc = "ack" /\ win # {}
  /\ ~CanAck(FirstOf(win))
  /\ pc' = "idle" /\ todo' = {} /\ win' = {}
  /\ UNCHANGED <<storeVars, backendVars, snap, failed, cur, via, late>>
  /\ FlushUnchanged

\* The window, acknowledged or retried to its end, is behind us.
NextWindow ==
  /\ pc \in {"ack", "single"} /\ win = {}
  /\ pc' = "send"
  /\ UNCHANGED <<storeVars, backendVars, todo, snap, failed, cur, via, win, late>>
  /\ FlushUnchanged

\* retryIndividually: one request per event.
RetryAccepted ==
  /\ pc = "single" /\ win # {}
  /\ Accepts(via, {FirstOf(win)})
  /\ PublishEvents(via, {FirstOf(win)})
  /\ pc' = "singleAck"
  /\ UNCHANGED <<storeVars, todo, snap, failed, cur, via, win, late>>
  /\ FlushUnchanged

\* Mutant: every event of a rejected window may be quarantined.
RetryRefusedAny ==
  /\ pc = "single" /\ win # {}
  /\ pc' = "singleQuarantine"
  /\ UNCHANGED <<storeVars, backendVars, todo, snap, failed, cur, via, win, late>>
  /\ FlushUnchanged

RetryRefused ==
  /\ pc = "single" /\ win # {}
  /\ ~Accepts(via, {FirstOf(win)})
  /\ pc' = "singleQuarantine"
  /\ UNCHANGED <<storeVars, backendVars, todo, snap, failed, cur, via, win, late>>
  /\ FlushUnchanged

RetryFails ==
  /\ pc = "single" /\ win # {}
  /\ TransientFailure({FirstOf(win)})
  /\ GiveUpOnBackend
  /\ UNCHANGED storeVars
  /\ FlushUnchanged

RetryAck ==
  /\ pc = "singleAck"
  /\ Ack(FirstOf(win))
  /\ pc' = "single"
  /\ win' = win \ {FirstOf(win)}
  /\ UNCHANGED <<backendVars, todo, snap, failed, cur, via, late>>
  /\ FlushUnchanged

RetryAckMissing ==
  /\ pc = "singleAck"
  /\ ~CanAck(FirstOf(win))
  /\ GiveUpOnBackend
  /\ UNCHANGED <<storeVars, backendVars, late>>
  /\ FlushUnchanged

RetryQuarantine ==
  /\ pc = "singleQuarantine"
  /\ Quarantine(FirstOf(win))
  /\ pc' = "single"
  /\ win' = win \ {FirstOf(win)}
  /\ UNCHANGED <<backendVars, todo, snap, failed, cur, via, late>>
  /\ FlushUnchanged

\* A store transaction of the pass fails: a read or an acknowledgement ends the
\* pass, a write of retryIndividually gives up on the backend.
FlushStoreFails ==
  /\ faults < MaxFaults
  /\ faults' = faults + 1
  /\ \/ /\ pc = "loaded" \/ (pc = "ack" /\ win # {})
        /\ pc' = "idle" /\ todo' = {} /\ win' = {}
        /\ UNCHANGED <<snap, failed, cur, via>>
     \/ /\ pc \in {"singleAck", "singleQuarantine"}
        /\ GiveUpOnBackend
  /\ UNCHANGED <<storeVars, backendVars, up, cfgDisk, cfgMem, op, used, enrolled, admin, late>>

-----------------------------------------------------------------------------
\* The network and the backends' own decisions.

\* A request the client gave up on arrives after all.
DeliverLate ==
  /\ \E m \in late :
       /\ late' = late \ {m}
       /\ IF Accepts(m.to, m.batch) THEN PublishEvents(m.to, m.batch)
          ELSE UNCHANGED backendVars
  /\ UNCHANGED <<storeVars, adminVars, flushVars>>

\* Someone removes this member or deletes the Project.
Revoke(p, b) ==
  /\ admin < MaxAdmin /\ admin' = admin + 1
  /\ Deny(p, b)
  /\ UNCHANGED <<storeVars, up, cfgDisk, cfgMem, op, used, enrolled, faults, flushVars, late>>

-----------------------------------------------------------------------------
FlushStep ==
  \/ LoadPending \/ LoadWorkspaces
  \/ PickSkip \/ PickUnconfigured \/ PickSender \/ FinishFlush
  \/ SendWindow \/ SendRejected \/ SendFails \/ Drained
  \/ AckNext \/ AckMissing \/ NextWindow
  \/ RetryAccepted \/ RetryRefused \/ RetryFails
  \/ RetryAck \/ RetryAckMissing \/ RetryQuarantine

OpStep ==
  \/ AddUpsert \/ AddCommit \/ RemoveStored
  \/ RebindStored \/ RebindUpsert \/ RebindMissing \/ FinishOp

AdminCall ==
  \/ \E w \in Workspaces, b \in Backends : AddWorkspace(w, b) \/ Register(w, b)
  \/ \E p \in Projects : RemoveProjectWorkspaces(p)
  \/ \E p \in Projects, b \in Backends : RebindProject(p, b)
  \/ \E b \in Backends : ResetBackend(b)

Handler ==
  \/ \E w \in Workspaces, kind \in {"obs", "mft"}, n \in 1..MaxBurst : Observe(w, kind, n)
  \/ \E w \in Workspaces, p \in BOOLEAN : PauseResume({w}, p)
  \/ \E q \in Projects, p \in BOOLEAN : PauseResume({w \in Workspaces : ProjectOf[w] = q}, p)

Environment ==
  \/ Crash \/ BootCut \/ StoreFails \/ FlushStoreFails \/ DeliverLate
  \/ \E p \in Projects, b \in Backends : Revoke(p, b)

Next == Boot \/ FlushStep \/ OpStep \/ AdminCall \/ Handler \/ Environment

Spec == Init /\ [][Next]_vars

\* flushLoop re-arms its timer for as long as the service runs and a call in
\* progress runs to its end; a request to a reachable backend is answered sooner
\* or later.  Nothing makes a member act, a crash happen or a stopped service
\* start.
Answered(A) == A /\ via \in Reachable

FairSpec ==
  /\ Spec
  /\ WF_vars(FlushStep)
  /\ WF_vars(OpStep)
  /\ SF_vars(Answered(SendWindow \/ SendRejected))
  /\ SF_vars(Answered(RetryAccepted \/ RetryRefused))

-----------------------------------------------------------------------------
AdminTypeOK ==
  /\ up \in BOOLEAN
  /\ cfgDisk \in Config
  /\ cfgMem \in Config
  /\ op \in Op
  /\ used \subseteq Workspaces
  /\ enrolled \subseteq Backends
  /\ admin \in Nat
  /\ faults \in Nat

FlushTypeOK ==
  /\ pc \in PCs
  /\ todo \subseteq Event
  /\ snap \in [Workspaces -> Backends \cup {NoBackend}]
  /\ failed \subseteq Backends \cup {NoBackend}
  /\ cur \in Workspaces \cup {0}
  /\ via \in Backends \cup {NoBackend}
  /\ win \subseteq Event
  /\ late \subseteq [to : Backends, batch : SUBSET Event]

\* Every variable has its type, and the flags of event_queue are set on rows of
\* event_queue.
TypeOK == StoreTypeOK /\ BackendTypeOK /\ AdminTypeOK /\ FlushTypeOK

\* An event the store counts as delivered (acked_at) is in the log of the
\* backend it was queued for.  store.Ack goes by event id alone and runs after
\* the reply, so a rebind, a removal or a lost reply may come in between.
AckedWasAccepted == \A e \in acked : Known(e.dev, e)

\* The cursor of a workspace never passes an event that is still to be
\* published: windows, single retries and their acks keep sequence order
\* across crashes, refusals and passes that end half way.
CursorCoversNoPending == \A e \in Pending : e.seq > cursor[e.ws]

\* applyProjection returns silently on a sequence it has passed.  No event the
\* device still holds as queued or delivered meets that fate: only events it
\* quarantined, or dropped with a rebind or a removal, arrive too late.
NoSilentlyStaleEvent ==
  \A b \in Backends : \A e \in stale[b] : e \in queue => e \in quarantined

\* UpsertWorkspace never meets the primary key or UNIQUE(workspace_id,sequence)
\* of event_queue for a configured workspace: Run returns on that error, so a
\* conflict would keep the service from ever booting again (B23).
BootNeverConflicts == \A w \in cfgDisk.ws : ~UpsertConflict(cfgDisk, w)

\* registration_enqueued means what RebindWorkspace says it remembers: the
\* backend the row names has met the workspace, or its registration is queued.
RegistrationRemembered ==
  \A w \in Workspaces : row[w].present /\ row[w].reg =>
    \/ Registered(row[w].backend, w)
    \/ \E e \in queue : e.ws = w /\ e.kind = "reg" /\ e.dev = row[w].backend

\* retryIndividually "quarantines exactly the refused events": an event
\* addressed to the backend its workspace publishes to is quarantined only for
\* what it contains or because the device lost its place in the Project.
OnlyRefusedQuarantined ==
  \A e \in quarantined :
    \/ Malformed(e)
    \/ <<ProjectOf[e.ws], e.dev>> \in denied
    \/ BackendForWorkspace(CurrentConfig, e.ws) # e.dev

\* A workspace the running service publishes: configured, not paused, on a
\* backend that can be reached.
Publishes(w) ==
  /\ up
  /\ w \in cfgMem.ws
  /\ ~row[w].paused
  /\ BackendForWorkspace(cfgMem, w) \in Reachable

Settled(w) == EventsOf(Pending, w) = {}

\* No event is left of a workspace the configuration no longer names.
NoOrphans == \A e \in Pending : e.ws \in cfgMem.ws

\* "A team Project whose server is unreachable must not hold up the local Project
\* beside it" (flush): a workspace on a reachable backend empties its queue,
\* whatever the other backends do, however often single events are refused.
ReachableBackendDrains ==
  \A w \in Workspaces : <>[](Publishes(w) /\ NoOrphans) => <>[]Settled(w)

\* "The rest of the profile keeps working while that one Project is unusable"
\* (senderForWorkspace): the same without the premise about orphans.
OrphanHoldsUpNobody ==
  \A w \in Workspaces : <>[]Publishes(w) => <>[]Settled(w)

\* "Pause stops payload transmission synchronously before success returns": no
\* request is started for a workspace whose row says paused.
PauseStopsTransmission ==
  [][(SendWindow \/ SendRejected \/ SendFails \/ RetryAccepted \/ RetryRefused \/ RetryFails)
       => ~row[cur].paused]_vars

=============================================================================
