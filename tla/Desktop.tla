------------------------------ MODULE Desktop ------------------------------
(***************************************************************************)
(* The desktop application (apps/desktop) beside the background service:   *)
(* the state its window asks for, with the cached answers about this       *)
(* device's credentials and the restart of a stopped local backend; the    *)
(* session it keeps for a Project's dashboard; the hand-over of a one-time *)
(* ticket to the window; and the links the system delivers to it.          *)
(*                                                                         *)
(* The window's calls run concurrently, each one a goroutine. The service, *)
(* the backends and the member's gestures are the environment.             *)
(***************************************************************************)
EXTENDS Integers, Sequences, Functions

CONSTANTS
  Order,        \* the backends, in the order config.json names them
  Local,        \* the one the service runs on this device
  Home,         \* the one of the Project the dashboard shows and links name
  Callers,      \* calls of the window that may be in flight together
  Opens,        \* openings of a Project, by the tray or a link
  Links,        \* links, in the order they arrive
  MaxFaults,    \* bound: exits, refusals, revocations, ended sessions and
                \* secrets that cannot be read
  MaxGestures   \* bound: resets, enrolments, re-checks, tray openings

ASSUME DesktopAssumption ==
  /\ Local \in Range(Order) /\ Home \in Range(Order)
  /\ Links \in Nat
  /\ MaxFaults \in Nat /\ MaxGestures \in Nat

Backends == Range(Order)

VARIABLES
  env,        \* the service, the backends and what they accept
  device,     \* config.json: the device enrolled at each backend, 0 for none
  cache,      \* credentials: the last answer about each backend
  calls,      \* calls of State and RecheckState, by caller
  restart,    \* restarting and the goroutine that holds it
  shown,      \* the credentials the window shows
  conn,       \* the dashboard connection of that Project
  opens,      \* openings and the loopback servers that hand their tickets over
  window,     \* what the window was last told to load
  router,     \* deepLinkRouter
  faults, gestures

health == <<cache, calls, restart, shown>>
pages == <<conn, opens, window, router>>
desktopVars == <<env, device, cache, calls, restart, shown, conn, opens, window, router, faults, gestures>>

NoAnswer == [status |-> "none", subject |-> 0, fresh |-> FALSE]
NoAnswers == [b \in Backends |-> NoAnswer]
Blank == [b \in Backends |-> "none"]
NoCall == [pc |-> "idle", held |-> [b \in Backends |-> 0], todo |-> <<>>, late |-> FALSE,
           verdict |-> "none", got |-> Blank]
NoConnection == [pc |-> "free", device |-> 0, cookie |-> "none", expired |-> FALSE, served |-> FALSE]

DesktopInit ==
  /\ device \in [Backends -> {0, 1}]
  /\ env = [serving |-> TRUE, up |-> Backends, silent |-> {}, accepted |-> {b \in Backends : device[b] = 1} \X {1}]
  /\ cache = NoAnswers
  /\ calls = [c \in Callers |-> NoCall]
  /\ restart = "idle"
  /\ shown = Blank
  /\ conn = NoConnection
  /\ opens = [i \in Opens |-> [pc |-> "none", of |-> Home]]
  /\ window = "shell"
  /\ router = [attached |-> FALSE, pending |-> 0, carried |-> {}, last |-> 0, handled |-> {}]
  /\ faults = 0 /\ gestures = 0

Fault == faults < MaxFaults /\ faults' = faults + 1
Gesture == gestures < MaxGestures /\ gestures' = gestures + 1

-----------------------------------------------------------------------------
\* The environment.

ServiceStops ==
  /\ env.serving
  /\ Fault
  /\ env' = [env EXCEPT !.serving = FALSE]
  /\ UNCHANGED <<device, health, pages, gestures>>

\* The platform starts the service again; it ensures the backend as it boots,
\* and carries on when that fails.
ServiceStarts ==
  /\ ~env.serving
  /\ \E up \in {env.up, env.up \cup {Local}} : env' = [env EXCEPT !.serving = TRUE, !.up = up]
  /\ UNCHANGED <<device, health, pages, faults, gestures>>

\* A server out of reach, which refuses at once or leaves every request without
\* an answer; a local backend stopped, or one whose supervisor gave up on it.
BackendStops(b) ==
  /\ b \in env.up
  /\ Fault
  /\ \E silent \in {{}, {b} \ {Local}} : env' = [env EXCEPT !.up = @ \ {b}, !.silent = @ \cup silent]
  /\ UNCHANGED <<device, health, pages, gestures>>

\* It answers again; the service may ensure the local one for a send.
BackendReturns(b) ==
  /\ b \notin env.up
  /\ b = Local => env.serving
  /\ env' = [env EXCEPT !.up = @ \cup {b}, !.silent = @ \ {b}]
  /\ UNCHANGED <<device, health, pages, faults, gestures>>

Revoke(b) ==
  /\ <<b, device[b]>> \in env.accepted
  /\ Fault
  /\ env' = [env EXCEPT !.accepted = @ \ {<<b, device[b]>>}]
  /\ UNCHANGED <<device, health, pages, gestures>>

\* CredentialState once the secret is read: it is gone, nothing answers in time, or
\* the backend accepts or rejects the device it was asked about.
Verdict(b, d, late) ==
  IF device[b] # d THEN "unknown"
  ELSE IF late \/ b \notin env.up THEN "uncertain"
  ELSE IF <<b, d>> \in env.accepted THEN "ok"
  ELSE "revoked"

\* A secret that cannot be read is the same CredentialUnknown as one that is
\* gone; "unread" tells it apart for the properties alone.
Refused == {"unknown", "revoked"}
Rejected == Refused \cup {"unread"}

-----------------------------------------------------------------------------
\* State and its cache of credential answers.

SetCall(c, r) == calls' = [calls EXCEPT ![c] = r]
Call(c, pc) == SetCall(c, [NoCall EXCEPT !.pc = pc])

\* RecheckState: drop the answers first.
Recheck(c) ==
  /\ calls[c].pc = "idle"
  /\ Gesture
  /\ Call(c, "forget")
  /\ UNCHANGED <<env, device, cache, restart, shown, pages, faults>>

\* ResetEnrollment of one backend, refused unless its credential is rejected or
\* cannot be read.
ResetEnrollment(c, b) ==
  /\ calls[c].pc = "idle" /\ device[b] # 0
  /\ \/ Verdict(b, device[b], FALSE) \in Rejected /\ UNCHANGED faults
     \/ Fault
  /\ Gesture
  /\ device' = [device EXCEPT ![b] = 0]
  /\ Call(c, "forget")
  /\ UNCHANGED <<env, cache, restart, shown, pages>>

\* addProject on a backend this device is not enrolled at: a new device. The
\* local backend is ensured first.
AddProject(c, b) ==
  /\ calls[c].pc = "idle" /\ device[b] = 0
  /\ IF b = Local THEN env.serving ELSE b \in env.up
  /\ Gesture
  /\ LET d == gestures + 2
     IN /\ device' = [device EXCEPT ![b] = d]
        /\ env' = [env EXCEPT !.accepted = @ \cup {<<b, d>>}, !.up = @ \cup {b}]
  /\ Call(c, "forget")
  /\ UNCHANGED <<cache, restart, shown, pages, faults>>

forgetCredentialHealth(c) ==
  /\ calls[c].pc = "forget"
  /\ cache' = NoAnswers
  /\ Call(c, "begin")
  /\ UNCHANGED <<env, device, restart, shown, pages, faults, gestures>>

\* The manager's Status: something healthy answers on the recorded port.
LocalHealthy == Local \in env.up

\* backendStatus: what the service reports, and nothing runs without one.
Running == env.serving /\ LocalHealthy

\* restartStoppedBackend: one restart at a time.
RestartStoppedBackend == IF ~Running /\ restart = "idle" THEN "calling" ELSE restart

\* State loads config.json and the backend's status, and asks for the
\* credential of every backend the file names, one after the other under one
\* deadline.
State(c) ==
  /\ calls[c].pc \in {"idle", "begin"}
  /\ restart' = RestartStoppedBackend
  /\ SetCall(c, [NoCall EXCEPT !.pc = "look", !.held = device,
                           !.todo = SelectSeq(Order, LAMBDA b : device[b] # 0)])
  /\ UNCHANGED <<env, device, cache, shown, pages, faults, gestures>>

Answer(c, b, status) == [calls[c] EXCEPT !.pc = "look", !.todo = Tail(@), !.verdict = "none", !.got[b] = status]

AnyReusable(answer, d) == answer.fresh

\* credentialHealth reuses a recent answer about the same device.
Reusable(answer, d) == answer.fresh /\ answer.subject = d

Look(c) ==
  /\ calls[c].pc = "look" /\ calls[c].todo # <<>>
  /\ LET b == Head(calls[c].todo)
     IN IF Reusable(cache[b], calls[c].held[b])
          THEN SetCall(c, Answer(c, b, cache[b].status))
          ELSE SetCall(c, [calls[c] EXCEPT !.pc = "ask"])
  /\ UNCHANGED <<env, device, cache, restart, shown, pages, faults, gestures>>

Asked(c, status, late) == [calls[c] EXCEPT !.pc = "keep", !.verdict = status, !.late = late]

\* The deadline of State is used up by a backend that is silent. From then on a
\* secret is read only where the store does not heed it (Windows), and its
\* backend is not asked any more.
CredentialState(c) ==
  /\ calls[c].pc = "ask"
  /\ LET b == Head(calls[c].todo)
         d == calls[c].held[b]
         late == calls[c].late
     IN \/ /\ SetCall(c, Asked(c, Verdict(b, d, late), late \/ (device[b] = d /\ b \in env.silent)))
           /\ UNCHANGED faults
        \/ /\ SetCall(c, Asked(c, "unread", late))
           /\ IF late THEN UNCHANGED faults ELSE Fault
  /\ UNCHANGED <<env, device, cache, restart, shown, pages, gestures>>

KeepAnswer(c) ==
  /\ calls[c].pc = "keep"
  /\ LET b == Head(calls[c].todo)
     IN /\ cache' = [cache EXCEPT ![b] = [status |-> calls[c].verdict, subject |-> calls[c].held[b], fresh |-> TRUE]]
        /\ SetCall(c, Answer(c, b, calls[c].verdict))
  /\ UNCHANGED <<env, device, restart, shown, pages, faults, gestures>>

Show(c) ==
  /\ calls[c].pc = "look" /\ calls[c].todo = <<>>
  /\ shown' = calls[c].got
  /\ SetCall(c, NoCall)
  /\ UNCHANGED <<env, device, cache, restart, pages, faults, gestures>>

\* credentialTTL has passed since the answer was kept.
Lapse(b) ==
  /\ cache[b].fresh
  /\ cache' = [cache EXCEPT ![b].fresh = FALSE]
  /\ UNCHANGED <<env, device, calls, restart, shown, pages, faults, gestures>>

\* The goroutine of restartStoppedBackend: ensureLocalBackend, waiting for the
\* socket of a service that is starting.
RestartEnsured ==
  /\ restart = "calling" /\ env.serving
  /\ env' = [env EXCEPT !.up = @ \cup {Local}]
  /\ restart' = "forgetting"
  /\ UNCHANGED <<device, cache, calls, shown, pages, faults, gestures>>

RestartFailsHeld ==
  /\ restart = "calling"
  /\ Fault
  /\ restart' = "held"
  /\ UNCHANGED <<env, device, cache, calls, shown, pages, gestures>>

\* The service answers with an error, or its socket does not appear in time.
RestartFails ==
  /\ restart = "calling"
  /\ Fault
  /\ restart' = "idle"
  /\ UNCHANGED <<env, device, cache, calls, shown, pages, gestures>>

RestartForgets ==
  /\ restart = "forgetting"
  /\ cache' = NoAnswers
  /\ restart' = "idle"
  /\ UNCHANGED <<env, device, calls, shown, pages, faults, gestures>>

-----------------------------------------------------------------------------
\* DashboardRequest for one Project: the connection's mutex is held from the
\* renewal of its session to the reply.

DashboardRequest ==
  /\ conn.pc = "free" /\ device[Home] # 0
  /\ conn' = [(IF conn.device = device[Home] THEN conn ELSE [NoConnection EXCEPT !.device = device[Home]])
                 EXCEPT !.pc = "held"]
  /\ UNCHANGED <<env, device, health, opens, window, router, faults, gestures>>

\* A ticket of the device's credential is exchanged for a session when the
\* connection has none, or had it for seven hours: an hour less than the
\* backend would accept it.
Renewed ==
  IF conn.cookie # "none" /\ ~conn.expired
    THEN conn
    ELSE IF Verdict(Home, conn.device, FALSE) = "ok"
           THEN [conn EXCEPT !.cookie = "live", !.expired = FALSE]
           ELSE conn

Reply(held, served) == [held EXCEPT !.pc = "free", !.served = served]

DeniedKeepsCookie(held) == Reply(held, FALSE)

\* A session the backend refuses is forgotten, to be renewed by the next request.
Denied(held) == [Reply(held, FALSE) EXCEPT !.cookie = "none"]

SendRequest ==
  /\ conn.pc = "held"
  /\ conn' = IF Home \notin env.up \/ Renewed.cookie = "none" \/ Renewed.expired THEN Reply(Renewed, FALSE)
              ELSE IF Renewed.cookie = "live" /\ <<Home, conn.device>> \in env.accepted THEN Reply(Renewed, TRUE)
              ELSE Denied(Renewed)
  /\ UNCHANGED <<env, device, health, opens, window, router, faults, gestures>>

\* The secret that a renewal needs cannot be read.
RenewalUnread ==
  /\ conn.pc = "held" /\ (conn.cookie = "none" \/ conn.expired)
  /\ Fault
  /\ conn' = Reply(conn, FALSE)
  /\ UNCHANGED <<env, device, health, opens, window, router, gestures>>

\* The backend ends a session before its time: a change of privileges.
SessionEnds ==
  /\ conn.cookie = "live"
  /\ Fault
  /\ conn' = [conn EXCEPT !.cookie = "ended"]
  /\ UNCHANGED <<env, device, health, opens, window, router, gestures>>

\* Seven hours have passed since the session was made.
SessionAges ==
  /\ conn.pc = "free" /\ conn.cookie = "live" /\ ~conn.expired
  /\ Gesture
  /\ conn' = [conn EXCEPT !.expired = TRUE]
  /\ UNCHANGED <<env, device, health, opens, window, router, faults>>

-----------------------------------------------------------------------------
\* Opening a Project in the window, by the tray or a link.

SetOpen(i, pc) == opens' = [opens EXCEPT ![i].pc = pc]

OpenNewestProject(i, b) ==
  /\ opens[i].pc = "none"
  /\ Gesture
  /\ opens' = [opens EXCEPT ![i] = [pc |-> "mint", of |-> b]]
  /\ UNCHANGED <<env, device, health, conn, window, router, faults>>

\* liveProjectURL: a one-time ticket of the Project's backend, if the secret that
\* asks for it can be read.
MintTicket(i) ==
  /\ opens[i].pc = "mint"
  /\ LET b == opens[i].of
     IN \/ /\ SetOpen(i, IF device[b] # 0 /\ Verdict(b, device[b], FALSE) = "ok" THEN "origin" ELSE "failed")
           /\ UNCHANGED faults
        \/ SetOpen(i, "failed") /\ Fault
  /\ UNCHANGED <<env, device, health, conn, window, router, gestures>>

\* activationOriginFor: a local backend is ensured and the dashboard's origin
\* pointed at it.
OriginFor(b) ==
  /\ b = Local => env.serving
  /\ env' = [env EXCEPT !.up = @ \cup ({b} \cap {Local})]

\* activation.Start: a loopback server with one page that holds the ticket.
Listen(i) == SetOpen(i, "listening")

StartHandoff(i) ==
  /\ opens[i].pc = "origin"
  /\ OriginFor(opens[i].of)
  /\ Listen(i)
  /\ window' = i
  /\ UNCHANGED <<device, health, conn, router, faults, gestures>>

OriginFails(i) ==
  /\ opens[i].pc = "origin" /\ opens[i].of = Local
  /\ Fault
  /\ SetOpen(i, "failed")
  /\ UNCHANGED <<env, device, health, conn, window, router, gestures>>

\* The window fetches the page, whose form posts the ticket and leads on to
\* the live view.
PageServed(i) ==
  /\ opens[i].pc = "listening" /\ window = i
  /\ SetOpen(i, "served")
  /\ window' = "live"
  /\ UNCHANGED <<env, device, health, conn, router, faults, gestures>>

\* Wait: the page was served, or thirty seconds passed.
HandoffCloses(i) ==
  /\ opens[i].pc \in {"listening", "served"}
  /\ SetOpen(i, "closed")
  /\ UNCHANGED <<env, device, health, conn, window, router, faults, gestures>>

-----------------------------------------------------------------------------
\* deepLinkRouter: a link is carried to the handler outside the mutex.

Deliver ==
  /\ router.last < Links
  /\ LET l == router.last + 1
     IN router' = IF router.attached
                    THEN [router EXCEPT !.last = l, !.carried = @ \cup {l}]
                    ELSE [router EXCEPT !.last = l, !.pending = l]
  /\ UNCHANGED <<env, device, health, conn, opens, window, faults, gestures>>

AttachedEmpty == [router EXCEPT !.attached = TRUE, !.pending = 0]

Attached == [router EXCEPT !.attached = TRUE, !.pending = 0, !.carried = @ \cup ({router.pending} \ {0})]

Attach ==
  /\ ~router.attached
  /\ router' = Attached
  /\ UNCHANGED <<env, device, health, conn, opens, window, faults, gestures>>

\* A link to one of the application's own screens.
ShowScreen == window' = "shell" /\ UNCHANGED opens

\* A link to a Project: a goroutine opens it.
OpenProject ==
  /\ \E i \in Opens : opens[i].pc = "none" /\ SetOpen(i, "mint")
  /\ UNCHANGED window

HandleLink(l) ==
  /\ l \in router.carried
  /\ router' = [router EXCEPT !.carried = @ \ {l}, !.handled = @ \cup {l}]
  /\ ShowScreen \/ OpenProject
  /\ UNCHANGED <<env, device, health, conn, faults, gestures>>

-----------------------------------------------------------------------------
CallStep(c) ==
  \/ forgetCredentialHealth(c) \/ (calls[c].pc = "begin" /\ State(c))
  \/ Look(c) \/ CredentialState(c) \/ KeepAnswer(c) \/ Show(c)

EnvironmentNext ==
  \/ ServiceStops \/ ServiceStarts
  \/ \E b \in Backends : BackendStops(b) \/ BackendReturns(b) \/ Revoke(b)
  \/ \E c \in Callers : \E b \in Backends : ResetEnrollment(c, b) \/ AddProject(c, b)

StateNext ==
  \/ \E b \in Backends : Lapse(b)
  \/ \E c \in Callers : (calls[c].pc = "idle" /\ State(c)) \/ Recheck(c) \/ CallStep(c)
  \/ RestartEnsured \/ RestartFails \/ RestartForgets

WindowNext ==
  \/ DashboardRequest \/ SendRequest \/ RenewalUnread \/ SessionEnds \/ SessionAges
  \/ \E i \in Opens :
       \/ MintTicket(i) \/ StartHandoff(i) \/ OriginFails(i) \/ PageServed(i) \/ HandoffCloses(i)
       \/ \E b \in Backends : OpenNewestProject(i, b)
  \/ Deliver \/ Attach
  \/ \E l \in 1..Links : HandleLink(l)

DesktopNext == EnvironmentNext \/ StateNext \/ WindowNext

\* The goroutines run on, the platform restarts the service, an answer lapses
\* after its fifteen seconds.
DesktopFairness ==
  /\ WF_desktopVars(ServiceStarts)
  /\ \A c \in Callers : WF_desktopVars(CallStep(c))
  /\ \A b \in Backends : WF_desktopVars(Lapse(b))
  /\ WF_desktopVars(RestartEnsured) /\ WF_desktopVars(RestartForgets)
  /\ WF_desktopVars(SendRequest)
  /\ WF_desktopVars(Attach) /\ \A l \in 1..Links : WF_desktopVars(HandleLink(l))

DesktopSpec == DesktopInit /\ [][DesktopNext]_desktopVars /\ DesktopFairness

-----------------------------------------------------------------------------
\* The device a call was asked about has been replaced, or is not accepted.
Forgone(c, b) == device[b] # calls[c].held[b] \/ <<b, device[b]>> \notin env.accepted

\* A credential the window is told is rejected was rejected by its backend, or
\* its secret is gone or could not be read: the answer offered is about the
\* device config.json named, whatever a slower call keeps after a reset and a new
\* enrolment (credentialHealth). On this answer the window offers to forget the
\* device.
RejectedOrUnread ==
  \A c \in Callers : \A b \in Backends : calls[c].got[b] \in Refused => Forgone(c, b)

\* The same without the secret that could not be read, which is what the comment
\* on the state's Credential asks for. The code does not have it: a locked store,
\* or the deadline a silent backend used up, shows an accepted device as one
\* whose access is gone.
RejectedWasRejected ==
  \A c \in Callers : \A b \in Backends : calls[c].got[b] \in Rejected => Forgone(c, b)

\* The member keeps asking, and the local backend can run and accepts the device.
LocalCanHeal ==
  /\ <>[](env.serving /\ <<Local, device[Local]>> \in env.accepted)
  /\ []<>(\E c \in Callers : calls[c].pc = "look")

\* A member who keeps asking is shown a healthy local Project once its backend
\* can run, if no other backend of the profile stays silent: a stopped backend is
\* restarted from the window, one restart at a time, no answer cached while it was
\* down is shown for good, and a deadline used up once is the next call's again
\* (restartStoppedBackend, credentialTTL, State).
HealedBackendShown == LocalCanHeal /\ <>[](env.silent = {}) => <>[](shown[Local] = "ok")

\* The same beside a backend that stays silent, which is what State's comment asks
\* for: a revoked or broken team Project must not present the local Project beside
\* it as broken. The code does not have it when config.json names the silent one
\* first.
HealedBesideSilence == LocalCanHeal => <>[](shown[Local] = "ok")

\* An open dashboard whose session the backend ended is served again while the
\* device is still accepted: a refused session is renewed, not kept for its
\* seven hours (DashboardRequest).
DashboardRecovers ==
  /\ <>[](Home \in env.up /\ <<Home, device[Home]>> \in env.accepted)
  /\ []<>(conn.pc = "held")
  => <>[](conn.served)

\* The last link delivered reaches the handler, wherever the start of the
\* application was when it arrived (deepLinkRouter).
LatestLinkOpens ==
  \A l \in 1..Links : (router.last = l) ~> (l \in router.handled \/ router.last # l)
=============================================================================
