--------------------------- MODULE ProfileConfig ---------------------------
(***************************************************************************)
(* The profile configuration of one Mac (internal/config/config.go): which *)
(* backend each Project lives on and which repositories ("workspaces") are *)
(* registered.  A configuration is a value; every operation of the Go type *)
(* Config returns a new one, so they are operators here and the module has *)
(* no state.                                                               *)
(*                                                                         *)
(* One Mac has one device identity per backend (ADR-069, ADR-074), so the  *)
(* device id a backend knows this Mac by is identified with the backend: a *)
(* server enrolled on again after a reset is another member of Backends.   *)
(***************************************************************************)
EXTENDS Naturals, FiniteSets

CONSTANTS
  Workspaces,  \* workspace ids; the service orders them, so they are numbers
  Projects,    \* Project ids
  Backends,    \* servers implementing /v1, each with this Mac's device on it
  NoBackend,   \* the empty backend id
  ProjectOf,   \* the Project a workspace was enrolled in
  RootOf       \* the repository root a workspace was enrolled for

ASSUME WorkspacesAssumption ==
  /\ Workspaces \subseteq Nat
  /\ IsFiniteSet(Workspaces)

ASSUME BackendsAssumption == NoBackend \notin Backends

ASSUME ProjectOfAssumption == ProjectOf \in [Workspaces -> Projects]

Config == [known : SUBSET Backends,
           bind  : [Projects -> Backends \cup {NoBackend}],
           ws    : SUBSET Workspaces]

EmptyConfig == [known |-> {}, bind |-> [p \in Projects |-> NoBackend], ws |-> {}]

BackendForProject(c, p) == c.bind[p]

BackendForWorkspace(c, w) == BackendForProject(c, ProjectOf[w])

WorkspacesForProject(c, p) == {w \in c.ws : ProjectOf[w] = p}

UpsertBackend(c, b) == [c EXCEPT !.known = @ \cup {b}]

BindProject(c, p, b) == [c EXCEPT !.bind[p] = b]

\* Register and addWorkspace: record the backend, bind the workspace's Project
\* to it, append the workspace.
AddToConfig(c, w, b) ==
  [BindProject(UpsertBackend(c, b), ProjectOf[w], b) EXCEPT !.ws = @ \cup {w}]

\* "workspace already registered": the id or the root is taken.
AlreadyRegistered(c, w) == \E v \in c.ws : v = w \/ RootOf[v] = RootOf[w]

\* RebindProject refuses an unknown Project and the backend it is already on.
CanRebind(c, p, b) == c.bind[p] \notin {NoBackend, b}

RebindInConfig(c, p, b) == BindProject(UpsertBackend(c, b), p, b)

RemoveProject(c, p) ==
  [c EXCEPT !.bind[p] = NoBackend, !.ws = @ \ WorkspacesForProject(c, p)]

RemoveBackend(c, b) ==
  [known |-> c.known \ {b},
   bind  |-> [p \in Projects |-> IF c.bind[p] = b THEN NoBackend ELSE c.bind[p]],
   ws    |-> {w \in c.ws : BackendForWorkspace(c, w) # b}]

=============================================================================
