----------------------------- MODULE Onboarding -----------------------------
(***************************************************************************)
(* How a Mac gets, moves and loses its identity on a backend               *)
(* (internal/onboarding, the desktop's onboarding service and the commands *)
(* create, join and reset). A flow is a sequence of calls to a server, the  *)
(* credential store and the profile, none of which is atomic with another:  *)
(* a call may fail, its answer may be lost, the process may end after any   *)
(* of them, and a flow of the desktop application may run beside one of the *)
(* command line.                                                            *)
(*                                                                          *)
(* A credential and the device the server creates for it are one number.    *)
(* The profile is which device it has on each server and which server each  *)
(* Project is bound to.                                                     *)
(***************************************************************************)
EXTENDS CredentialStore, FiniteSets

CONSTANTS
  Own,        \* Projects this Mac creates
  Shared,     \* somebody else's Project on the team server, with an invite
  MaxTokens,  \* bound: identities minted by creating and joining
  MaxFaults,  \* bound: failed calls, lost answers and ended processes
  Overlap,    \* whether a reset runs beside other flows
  LostReply,  \* whether the service's answer to a registration may be lost
  Unread      \* whether a read of a stored credential may fail

ASSUME OnboardingAssumption ==
  /\ Shared \notin Own /\ IsFiniteSet(Own)
  /\ MaxTokens \in Nat /\ MaxFaults \in Nat
  /\ Overlap \in BOOLEAN /\ LostReply \in BOOLEAN /\ Unread \in BOOLEAN

VARIABLES
  cfg,      \* the profile
  dev,      \* what the server of a credential knows of its device
  owner,    \* on each server the device that owns a Project, 0 for none
  members,  \* devices that joined Shared
  invites,  \* uses left of the invite to Shared
  up,       \* the background service runs
  flow,     \* the flow of the desktop application and of the command line
  minted,   \* identities minted so far
  faults    \* failures so far

vars == <<cfg, vault, dev, owner, members, invites, up, flow, minted, faults>>
server == <<dev, owner, members, invites>>

Projects == Own \cup {Shared}
Origins == {"local", "team"}
Flows == {"desktop", "cli"}
\* A move may need another identity after every failure.
Tokens == 1..(MaxTokens + MaxFaults + Cardinality(Own))

EmptyProfile == [device |-> [o \in Origins |-> 0], bind |-> [p \in Projects |-> "none"]]
NoFlow == [pc |-> "idle", kind |-> "none", o |-> "none", p |-> "none", t |-> 0, first |-> FALSE, cfg |-> EmptyProfile]

Init ==
  /\ cfg = EmptyProfile
  /\ store \in Stores /\ ring \in {"open", "locked"} /\ (store # "secretservice" => ring = "open")
  /\ keys = {} /\ pending = [p \in Own |-> 0]
  /\ dev = [t \in Tokens |-> "none"]
  /\ owner = [o \in Origins |-> [p \in Own |-> 0]]
  /\ members = {} /\ invites = 2
  /\ up \in BOOLEAN
  /\ flow = [f \in Flows |-> NoFlow]
  /\ minted = 0 /\ faults = 0

Fault == faults < MaxFaults /\ faults' = faults + 1
NoFault == UNCHANGED faults

At(f, pc) == flow[f].pc = pc
Go(f, pc) == flow' = [flow EXCEPT ![f].pc = pc]
End(f) == flow' = [flow EXCEPT ![f] = NoFlow]

\* Reset takes no lock: nothing but luck keeps it from running beside a flow.
Free(f) == At(f, "idle") /\ (Overlap \/ \A g \in Flows : flow[g].kind \notin {"reset", "force"})

Begin(f, pc, kind, o, p, t, first) ==
  flow' = [flow EXCEPT ![f] = [pc |-> pc, kind |-> kind, o |-> o, p |-> p, t |-> t, first |-> first, cfg |-> EmptyProfile]]

-----------------------------------------------------------------------------
\* Starting a flow. BackendTarget decides between minting an identity and
\* reusing the one the profile has, whose credential is read.

Mint(f, kind, o, p) ==
  /\ cfg.device[o] = 0 /\ minted < MaxTokens
  /\ minted' = minted + 1
  /\ Begin(f, "call", kind, o, p, minted + 1, TRUE)
  /\ UNCHANGED vault

DeviceToken(f, kind, o, p) ==
  /\ cfg.device[o] \in keys
  /\ Get(TRUE)
  /\ Begin(f, "call", kind, o, p, cfg.device[o], FALSE)
  /\ UNCHANGED minted

\* The server issues an identifier nothing else has.
CreateOnNewBackend(f, o, p) ==
  /\ pending[p] = 0
  /\ \A x \in Origins : owner[x][p] = 0
  /\ \A g \in Flows : flow[g].p # p
  /\ Mint(f, "create", o, p) \/ DeviceToken(f, "create", o, p)
  /\ UNCHANGED <<cfg, server, up, faults>>

JoinOnNewBackend(f) ==
  /\ Mint(f, "join", "team", Shared) \/ DeviceToken(f, "join", "team", Shared)
  /\ UNCHANGED <<cfg, server, up, faults>>

\* One repository coordinates one Project.
RepositoryAvailable(p) == cfg.bind[p] = "none"

\* addProject of the desktop application.
AddProject ==
  /\ Free("desktop")
  /\ \/ \E o \in Origins, p \in Own : RepositoryAvailable(p) /\ CreateOnNewBackend("desktop", o, p)
     \/ JoinOnNewBackend("desktop")

\* The commands create and connect.
CreateCommand ==
  /\ Free("cli")
  /\ \E o \in Origins, p \in Own : RepositoryAvailable(p) /\ CreateOnNewBackend("cli", o, p)

ConnectCommand == Free("cli") /\ JoinOnNewBackend("cli")

CanPromote(p) == cfg.bind[p] = "local" /\ cfg.device["team"] = 0

\* Mutant: the credential of a move is only stored with its device.
StartPromoteUnstored(p) ==
  /\ Free("desktop") /\ CanPromote(p)
  /\ minted < Cardinality(Tokens)
  /\ minted' = minted + 1
  /\ Begin("desktop", "call", "promote", "team", p, minted + 1, TRUE)
  /\ UNCHANGED <<cfg, vault, server, up, faults>>

\* Mutant: every attempt at a move takes a credential of its own.
StartPromoteAnew(p) ==
  /\ Free("desktop") /\ CanPromote(p)
  /\ minted < Cardinality(Tokens)
  /\ minted' = minted + 1
  /\ Begin("desktop", "pending", "promote", "team", p, minted + 1, TRUE)
  /\ UNCHANGED <<cfg, vault, server, up, faults>>

\* Promote: the credential of an earlier attempt, or a new one if none can be
\* read, which is stored before it is used. Only the desktop application promotes.
StartPromote(p) ==
  /\ Free("desktop") /\ CanPromote(p)
  /\ \/ /\ pending[p] # 0 /\ Get(TRUE)
        /\ Begin("desktop", "call", "promote", "team", p, pending[p], TRUE)
        /\ UNCHANGED minted
     \/ /\ IF pending[p] = 0 THEN Get(TRUE) ELSE Unread /\ Get(FALSE)
        /\ minted < Cardinality(Tokens)
        /\ minted' = minted + 1
        /\ Begin("desktop", "pending", "promote", "team", p, minted + 1, TRUE)
  /\ UNCHANGED <<cfg, server, up, faults>>

StorePending(f) ==
  /\ At(f, "pending")
  /\ \/ PutPending(flow[f].p, flow[f].t, TRUE) /\ Go(f, "call") /\ NoFault
     \/ PutPending(flow[f].p, flow[f].t, FALSE) /\ End(f) /\ Fault
  /\ UNCHANGED <<cfg, server, up, minted>>

-----------------------------------------------------------------------------
\* The calls to the server.

Member(o, p, t) == IF p = Shared THEN o = "team" /\ t \in members ELSE owner[o][p] = t

\* createProject knows the device or makes one. An identifier that is taken
\* changes nothing.
CreateProject(o, p, t) ==
  /\ dev' = IF owner[o][p] = 0 THEN [dev EXCEPT ![t] = "live"] ELSE dev
  /\ owner' = IF owner[o][p] = 0 THEN [owner EXCEPT ![o][p] = t] ELSE owner
  /\ UNCHANGED <<members, invites>>

\* enroll and joinProjectAsDevice spend a use of the invite.
Redeem(t) ==
  /\ dev' = [dev EXCEPT ![t] = "live"]
  /\ members' = members \cup {t}
  /\ invites' = invites - 1
  /\ UNCHANGED owner

Known(f) == dev[flow[f].t] # "revoked"

\* The answer arrives, or is lost: that ends the flow as a failure does.
Exchange(f, accepted, applied) ==
  /\ At(f, "call")
  /\ \/ accepted /\ applied /\ Go(f, "bootstrap") /\ NoFault
     \/ accepted /\ applied /\ End(f) /\ Fault
     \/ ~accepted /\ UNCHANGED server /\ End(f) /\ NoFault
  /\ UNCHANGED <<cfg, vault, up, minted>>

Create(f) ==
  /\ flow[f].kind = "create" /\ flow[f].first
  /\ Exchange(f, Known(f), CreateProject(flow[f].o, flow[f].p, flow[f].t))

CreateAdditional(f) ==
  /\ flow[f].kind = "create" /\ ~flow[f].first
  /\ Exchange(f, Known(f), CreateProject(flow[f].o, flow[f].p, flow[f].t))

Join(f) ==
  /\ flow[f].kind = "join" /\ flow[f].first
  /\ Exchange(f, invites > 0, Redeem(flow[f].t))

\* A device that is a member already is refused before the invite is spent.
JoinAdditional(f) ==
  /\ flow[f].kind = "join" /\ ~flow[f].first
  /\ Exchange(f, Known(f) /\ invites > 0 /\ flow[f].t \notin members, Redeem(flow[f].t))

\* An identifier that is taken is not an error yet: Bootstrap decides whose it is.
Promote(f) ==
  /\ flow[f].kind = "promote"
  /\ Exchange(f, Known(f), CreateProject(flow[f].o, flow[f].p, flow[f].t))

\* Bootstrap must name this device and the Project. A new device is stored next.
Bootstrap(f) ==
  /\ At(f, "bootstrap")
  /\ IF dev[flow[f].t] = "live" /\ Member(flow[f].o, flow[f].p, flow[f].t)
       THEN Go(f, IF flow[f].first THEN "store" ELSE "register") ELSE End(f)
  /\ UNCHANGED <<cfg, vault, server, up, minted, faults>>

\* A call fails without effect; nothing is undone.
CallFails(f) ==
  /\ flow[f].pc \in {"call", "bootstrap"}
  /\ Fault /\ End(f)
  /\ UNCHANGED <<cfg, vault, server, up, minted>>

-----------------------------------------------------------------------------
\* finish: the credential, then the profile, else everything back.

Store(f) ==
  /\ At(f, "store")
  /\ \/ /\ PutDevice(flow[f].t, TRUE)
        /\ Go(f, IF flow[f].kind = "promote" THEN "rebind" ELSE "register") /\ NoFault
     \/ /\ PutDevice(flow[f].t, FALSE) /\ Fault
        /\ IF flow[f].kind = "promote" THEN End(f) ELSE Go(f, "revoke")
  /\ UNCHANGED <<cfg, server, up, minted>>

\* Mutant: every failed registration is rolled back.
RollBackAlways(f) == Go(f, "delete")

\* finish rolls back, finishExisting and JoinAdditional do not.
RollBack(f) == IF flow[f].first THEN Go(f, "delete") ELSE End(f)

\* UpsertBackend refuses a second identity, Register a Project bound elsewhere;
\* the command line needs the lock a running service holds.
Registers(f) ==
  /\ cfg.device[flow[f].o] \in {0, flow[f].t}
  /\ cfg.bind[flow[f].p] \in {"none", flow[f].o}
  /\ f = "cli" => ~up

Bound(f) == [device |-> [cfg.device EXCEPT ![flow[f].o] = flow[f].t],
             bind |-> [cfg.bind EXCEPT ![flow[f].p] = flow[f].o]]

Register(f) ==
  /\ At(f, "register")
  /\ \/ Registers(f) /\ cfg' = Bound(f) /\ End(f) /\ NoFault
     \/ ~Registers(f) /\ UNCHANGED cfg /\ RollBack(f) /\ NoFault
     \/ UNCHANGED cfg /\ RollBack(f) /\ Fault   \* or the ticket or the invite before it
     \/ LostReply /\ f = "desktop" /\ up /\ Registers(f) /\ cfg' = Bound(f) /\ RollBack(f) /\ Fault
  /\ UNCHANGED <<vault, server, up, minted>>

DeleteKey(f) ==
  /\ At(f, "delete")
  /\ \/ DeleteDevice(flow[f].t, TRUE) /\ NoFault
     \/ DeleteDevice(flow[f].t, FALSE) /\ Fault
  /\ Go(f, "revoke")
  /\ UNCHANGED <<cfg, server, up, minted>>

\* revokeDevice refuses the last device that owns a Project.
Revocable(t) == \A o \in Origins, p \in Own : owner[o][p] # t

RevokeDevice(f) ==
  /\ At(f, "revoke")
  /\ \/ /\ dev' = IF Revocable(flow[f].t) THEN [dev EXCEPT ![flow[f].t] = "revoked"] ELSE dev
        /\ NoFault
     \/ UNCHANGED dev /\ Fault
  /\ End(f)
  /\ UNCHANGED <<cfg, vault, owner, members, invites, up, minted>>

\* Rebind of a move: the profile is saved before the store, which may fail.
Rebind(f) ==
  /\ At(f, "rebind")
  /\ LET can == cfg.device["team"] \in {0, flow[f].t} /\ cfg.bind[flow[f].p] \notin {"none", "team"}
     IN \/ can /\ cfg' = Bound(f) /\ Go(f, "unpend") /\ NoFault
        \/ can /\ cfg' = Bound(f) /\ End(f) /\ Fault
        \/ ~can /\ UNCHANGED cfg /\ End(f) /\ NoFault
        \/ UNCHANGED cfg /\ End(f) /\ Fault
  /\ UNCHANGED <<vault, server, up, minted>>

Unpend(f) ==
  /\ At(f, "unpend")
  /\ \/ DeletePending(flow[f].p, TRUE) /\ NoFault
     \/ DeletePending(flow[f].p, FALSE) /\ Fault
  /\ End(f)
  /\ UNCHANGED <<cfg, server, up, minted>>

-----------------------------------------------------------------------------
\* Reset of one backend.

Reset(f, kind, o) ==
  /\ Free(f) /\ (Overlap \/ \A g \in Flows : At(g, "idle"))
  /\ cfg.device[o] # 0
  /\ flow' = [flow EXCEPT ![f] = [pc |-> "check", kind |-> kind, o |-> o, p |-> "none",
                                 t |-> cfg.device[o], first |-> FALSE, cfg |-> cfg]]
  /\ UNCHANGED <<cfg, vault, server, up, minted, faults>>

\* The application's recovery, and the command, which may be told to force it.
ResetEnrollment(o) == Reset("desktop", "reset", o)
ResetCommand(o) == Reset("cli", "reset", o) \/ Reset("cli", "force", o)

\* ClassifyCredentialError of the answer to Bootstrap.
Rejected(t) == dev[t] # "live"

\* CredentialState: a credential that cannot be read is as good as a refused one.
CredentialState(f) ==
  /\ At(f, "check")
  /\ LET t == flow[f].t
         goes == flow[f].kind = "force"
     IN \/ t \in keys /\ Get(TRUE) /\ (IF Rejected(t) \/ goes THEN Go(f, "forget") ELSE End(f)) /\ NoFault
        \/ t \in keys /\ Get(TRUE) /\ (IF goes THEN Go(f, "forget") ELSE End(f)) /\ Fault   \* no answer
        \/ t \notin keys /\ Get(TRUE) /\ Go(f, "forget") /\ NoFault
        \/ Unread /\ Get(FALSE) /\ Go(f, "forget") /\ NoFault
  /\ UNCHANGED <<cfg, server, up, minted>>

Forget(f) ==
  /\ At(f, "forget")
  /\ \/ DeleteDevice(flow[f].t, TRUE) /\ NoFault
     \/ DeleteDevice(flow[f].t, FALSE) /\ Fault
  /\ Go(f, "save")
  /\ UNCHANGED <<cfg, server, up, minted>>

\* RemoveBackend of the profile as it was loaded.
SaveReset(f) ==
  /\ At(f, "save")
  /\ LET old == flow[f].cfg
     IN cfg' = [device |-> [old.device EXCEPT ![flow[f].o] = 0],
                bind |-> [p \in Projects |-> IF old.bind[p] = flow[f].o THEN "none" ELSE old.bind[p]]]
  /\ End(f)
  /\ UNCHANGED <<vault, server, up, minted, faults>>

-----------------------------------------------------------------------------
\* Around the flows.

\* DisconnectProject of the application and "projects disconnect": the running
\* service is asked first, else the profile is edited directly.
Disconnect(f, p) ==
  /\ Free(f) /\ cfg.bind[p] # "none"
  /\ cfg' = [cfg EXCEPT !.bind[p] = "none"]
  /\ UNCHANGED <<vault, server, up, flow, minted, faults>>

ServiceStartsOrStops ==
  /\ up' = ~up
  /\ UNCHANGED <<cfg, vault, server, flow, minted, faults>>

KeyringLocks ==
  /\ Fault /\ Lock
  /\ UNCHANGED <<cfg, server, up, flow, minted>>

\* The owner of Shared revokes a device that joined.
OwnerRevokes(t) ==
  /\ t \in members /\ dev[t] = "live" /\ Revocable(t) /\ Fault
  /\ dev' = [dev EXCEPT ![t] = "revoked"]
  /\ UNCHANGED <<cfg, vault, owner, members, invites, up, flow, minted>>

ProcessEnds(f) ==
  /\ ~At(f, "idle") /\ Fault
  /\ End(f)
  /\ UNCHANGED <<cfg, vault, server, up, minted>>

Step(f) ==
  \/ StorePending(f) \/ Create(f) \/ CreateAdditional(f) \/ Join(f) \/ JoinAdditional(f) \/ Promote(f)
  \/ Bootstrap(f) \/ Store(f) \/ Register(f) \/ DeleteKey(f)
  \/ RevokeDevice(f) \/ Rebind(f) \/ Unpend(f) \/ CredentialState(f) \/ Forget(f) \/ SaveReset(f)

Next ==
  \/ ServiceStartsOrStops \/ KeyringLocks \/ AddProject \/ CreateCommand \/ ConnectCommand
  \/ \E f \in Flows : Step(f) \/ CallFails(f) \/ ProcessEnds(f) \/ \E p \in Projects : Disconnect(f, p)
  \/ \E o \in Origins : ResetEnrollment(o) \/ ResetCommand(o)
  \/ \E p \in Own : StartPromote(p)
  \/ \E t \in Tokens : OwnerRevokes(t)

Spec == Init /\ [][Next]_vars

\* A process that runs goes on, and a member whose move failed tries again.
FairSpec ==
  /\ Spec
  /\ \A f \in Flows : WF_vars(Step(f))
  /\ \A p \in Own : SF_vars(StartPromote(p))

-----------------------------------------------------------------------------
Profile == [device : [Origins -> Tokens \cup {0}], bind : [Projects -> Origins \cup {"none"}]]

\* Every value is one the code could hold: a Project is bound to a server the
\* profile has a device on, whichever flow wrote last.
OnboardingTypeOK ==
  /\ cfg \in Profile
  /\ keys \subseteq Tokens /\ pending \in [Own -> Tokens \cup {0}]
  /\ dev \in [Tokens -> {"none", "live", "revoked"}]
  /\ invites \in 0..2 /\ minted \in 0..Cardinality(Tokens)
  /\ \A p \in Projects : cfg.bind[p] # "none" => cfg.device[cfg.bind[p]] # 0

\* "The Project would be stranded permanently": a Project that exists on the
\* team server while the profile still has it as a local one is one this Mac
\* stores the credential for, wherever the move was cut short.
MovedProjectReachable ==
  \A p \in Own :
    LET t == owner["team"][p]
    IN t # 0 /\ cfg.bind[p] = "local" => pending[p] = t \/ t \in keys

\* "a local registration failure must never revoke the shared device and strand
\* its existing Projects", and a reset "refuses unless that backend has actually
\* rejected the credential": no flow deletes the credential or revokes the device
\* of a backend in the profile that still accepts it, unless it was told to.
SharedDeviceKept ==
  [][flow' # flow /\ (\A f \in Flows : flow[f].kind # "force") =>
       \A o \in Origins :
         LET d == cfg.device[o]
         IN d # 0 /\ d \in keys /\ dev[d] = "live" => d \in keys' /\ dev'[d] = "live"]_vars

\* "It is written to be safe to run twice": a move that was begun ends with the
\* Project on the team server, or is refused because the profile got an identity
\* there by other means, or the Project is disconnected.
MoveCompletes ==
  \A p \in Own :
    (flow["desktop"].kind = "promote" /\ flow["desktop"].p = p)
      ~> (cfg.bind[p] # "local" \/ cfg.device["team"] # 0)

\* "Unlike first enrollment, a local registration failure must never revoke the
\* shared device": the failure of a first enrollment does revoke its device,
\* when the call is made and answered.
RollbackRevokes ==
  [][\A f \in Flows :
       At(f, "revoke") /\ flow'[f] = NoFlow /\ UNCHANGED faults => dev'[flow[f].t] = "revoked"]_vars

\* "It refuses unless that backend has actually rejected the credential" (Reset):
\* a reset that was not forced goes on only if the stored credential is gone or
\* the backend refuses it.
ResetOnlyRejected ==
  [][\A f \in Flows :
       At(f, "check") /\ flow[f].kind = "reset" /\ flow'[f].pc = "forget"
         => flow[f].t \notin keys \/ Rejected(flow[f].t)]_vars

=============================================================================
