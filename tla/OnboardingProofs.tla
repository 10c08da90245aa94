-------------------------- MODULE OnboardingProofs --------------------------
(***************************************************************************)
(* What a Mac's identities survive, for every number of Projects, tokens    *)
(* and faults: a Project that a move already created on the team server     *)
(* stays reachable from here wherever the move was cut short; and no flow   *)
(* deletes the credential or revokes the device of a backend of the profile *)
(* that still accepts it, unless it was told to.                            *)
(***************************************************************************)
EXTENDS Onboarding, FiniteSetTheorems, TLAPS

-----------------------------------------------------------------------------
\* The inductive invariant.

PCs == {"idle", "pending", "call", "bootstrap", "store", "register", "delete",
        "revoke", "rebind", "unpend", "check", "forget", "save"}

Kinds == {"none", "create", "join", "promote", "reset", "force"}

FlowRecord == [pc : PCs, kind : Kinds, o : Origins \cup {"none"}, p : Projects \cup {"none"},
               t : Nat, first : BOOLEAN, cfg : Profile]

\* Every value is one the code could hold, and no identity is in use that was
\* not minted.
Typed ==
  /\ cfg \in Profile
  /\ keys \subseteq Tokens
  /\ pending \in [Own -> 0..minted]
  /\ dev \in [Tokens -> {"none", "live", "revoked"}]
  /\ owner \in [Origins -> [Own -> Nat]]
  /\ flow \in [Flows -> FlowRecord]
  /\ minted \in 0..Cardinality(Tokens)
  /\ \A o \in Origins : cfg.device[o] \in 0..minted
  /\ \A f \in Flows : flow[f].t \in 0..minted

\* What each flow holds at each of its stages.
InReset(f) == flow[f].kind \in {"reset", "force"}
InCreate(f) == flow[f].kind = "create"
InPromote(f) == flow[f].kind = "promote"

Stages ==
  \A f \in Flows :
    /\ flow[f].kind = "none" => flow[f].pc = "idle"
    /\ flow[f].pc = "idle" => flow[f] = NoFlow
    /\ InReset(f) => flow[f].pc \in {"check", "forget", "save"} /\ flow[f].o \in Origins
    /\ flow[f].kind \in {"create", "join"} =>
         flow[f].pc \in {"call", "bootstrap", "store", "register", "delete", "revoke"} /\ flow[f].t # 0
    /\ InCreate(f) => flow[f].o \in Origins /\ flow[f].p \in Own
    /\ flow[f].kind = "join" => flow[f].o = "team" /\ flow[f].p = Shared
    /\ InPromote(f) =>
         /\ flow[f].pc \in {"pending", "call", "bootstrap", "store", "rebind", "unpend"}
         /\ f = "desktop" /\ flow[f].o = "team" /\ flow[f].p \in Own /\ flow[f].t # 0 /\ flow[f].first

\* A Project bound to the local backend was created there; one that is being
\* created is nowhere else, and only one flow creates it.
CreatedOnce ==
  /\ \A p \in Own : cfg.bind[p] = "local" => owner["local"][p] # 0
  /\ \A f \in Flows : InCreate(f) =>
       /\ flow[f].pc \in {"call", "bootstrap", "store", "register"} => cfg.bind[flow[f].p] = "none"
       /\ flow[f].pc = "call" => \A o \in Origins : owner[o][flow[f].p] = 0
       /\ \A o \in Origins : flow[f].pc \in {"bootstrap", "store", "register"} =>
             (o = flow[f].o <=> owner[o][flow[f].p] # 0)
  /\ \A f, g \in Flows : InCreate(f) /\ InCreate(g) /\ flow[f].p = flow[g].p => f = g
  /\ \A f, g \in Flows :
       InCreate(f) /\ flow[f].pc \in {"call", "bootstrap", "store", "register"} /\ InPromote(g) =>
         flow[f].p # flow[g].p

\* A move stores its credential before it uses it, and deletes it after the
\* profile names the team server.
MoveRemembered ==
  /\ \A f \in Flows : InPromote(f) =>
       /\ owner["local"][flow[f].p] # 0
       /\ flow[f].pc = "pending" => pending[flow[f].p] = 0
       /\ flow[f].pc # "pending" => pending[flow[f].p] = flow[f].t
       /\ flow[f].pc \in {"bootstrap", "store", "rebind", "unpend"} => owner["team"][flow[f].p] # 0
       /\ flow[f].pc = "unpend" => cfg.bind[flow[f].p] # "local"
  /\ \A p \in Own : cfg.bind[p] = "local" /\ owner["team"][p] # 0 => pending[p] = owner["team"][p]

\* A reset runs alone, and saves the profile it loaded.
ResetAlone ==
  \A f \in Flows : InReset(f) =>
    /\ flow[f].cfg = cfg
    /\ \A g \in Flows : g # f => flow[g].pc = "idle"

\* Reached on these hypotheses: nothing but luck keeps a reset from running
\* beside a flow, and a credential that cannot be read is replaced.
MoveInv == Typed /\ Stages /\ CreatedOnce /\ MoveRemembered /\ ResetAlone

\* The device of a first enrollment is nobody else's until it is registered.
Enrolling(f) == flow[f].kind \in {"create", "join"} /\ flow[f].first

OwnDevice ==
  \A f \in Flows : Enrolling(f) =>
    /\ \A o \in Origins : cfg.device[o] # flow[f].t
    /\ \A p \in Own : pending[p] # flow[f].t
    /\ \A g \in Flows : flow[g].t = flow[f].t => g = f

\* Only a first enrollment is stored or rolled back.
RollsBackOwn == \A f \in Flows : flow[f].pc \in {"store", "delete", "revoke"} => flow[f].first

\* The credential a reset is about to delete is gone, or refused.
ResetRejected ==
  \A f \in Flows :
    flow[f].kind = "reset" /\ flow[f].pc = "forget" => flow[f].t \notin keys \/ dev[flow[f].t] # "live"

DeviceInv == OwnDevice /\ RollsBackOwn /\ ResetRejected

-----------------------------------------------------------------------------
\* Identities and the effects of a flow's step.

LEMMA TokenCount ==
  /\ Cardinality(Tokens) \in Nat
  /\ Tokens = 1..Cardinality(Tokens)
  /\ MaxTokens <= Cardinality(Tokens)
<1> DEFINE n == MaxTokens + MaxFaults + Cardinality(Own)
<1>1. Cardinality(Own) \in Nat
  BY FS_CardinalityType, OnboardingAssumption
<1>2. n \in Nat /\ MaxTokens <= n
  BY <1>1, OnboardingAssumption
<1>3. Tokens = 1..n
  BY DEF Tokens
<1> HIDE DEF n
<1>4. Cardinality(1..n) = n
  BY <1>2, FS_Interval, 0 <= n, 1 \in Int, n \in Int
<1>5. QED
  BY <1>2, <1>3, <1>4

LEMMA EmptyProfileTyped == EmptyProfile \in Profile
  BY TokenCount DEF EmptyProfile, Profile

LEMMA NoFlowTyped == NoFlow \in FlowRecord /\ NoFlow.t = 0 /\ NoFlow.kind = "none" /\ NoFlow.pc = "idle"
  BY EmptyProfileTyped DEF NoFlow, FlowRecord, PCs, Kinds

LEMMA GoEffect ==
  ASSUME NEW f \in Flows, NEW pc \in PCs, flow \in [Flows -> FlowRecord], Go(f, pc)
  PROVE  /\ flow' \in [Flows -> FlowRecord]
         /\ flow'[f].pc = pc /\ flow'[f].kind = flow[f].kind
         /\ flow'[f].o = flow[f].o /\ flow'[f].p = flow[f].p /\ flow'[f].t = flow[f].t
         /\ flow'[f].first = flow[f].first /\ flow'[f].cfg = flow[f].cfg
         /\ \A g \in Flows : g # f => flow'[g] = flow[g]
<1>1. PICK r \in FlowRecord : flow[f] = r
  OBVIOUS
<1>2. flow' = [flow EXCEPT ![f] = [r EXCEPT !.pc = pc]]
  BY <1>1 DEF Go
<1>3. [r EXCEPT !.pc = pc] \in FlowRecord
  BY DEF FlowRecord
<1>4. QED
  BY <1>1, <1>2, <1>3 DEF FlowRecord

LEMMA EndEffect ==
  ASSUME NEW f \in Flows, flow \in [Flows -> FlowRecord], End(f)
  PROVE  /\ flow' \in [Flows -> FlowRecord]
         /\ flow'[f] = NoFlow
         /\ \A g \in Flows : g # f => flow'[g] = flow[g]
  BY NoFlowTyped DEF End

LEMMA BeginEffect ==
  ASSUME NEW f \in Flows, NEW pc \in PCs, NEW kind \in Kinds, NEW o \in Origins,
         NEW p \in Projects, NEW t \in Nat, NEW first \in BOOLEAN,
         flow \in [Flows -> FlowRecord], Begin(f, pc, kind, o, p, t, first)
  PROVE  /\ flow' \in [Flows -> FlowRecord]
         /\ flow'[f].pc = pc /\ flow'[f].kind = kind /\ flow'[f].o = o
         /\ flow'[f].p = p /\ flow'[f].t = t /\ flow'[f].first = first
         /\ \A g \in Flows : g # f => flow'[g] = flow[g]
<1> DEFINE r == [pc |-> pc, kind |-> kind, o |-> o, p |-> p, t |-> t, first |-> first, cfg |-> EmptyProfile]
<1>1. r \in FlowRecord
  BY EmptyProfileTyped DEF FlowRecord
<1>2. flow' = [flow EXCEPT ![f] = r]
  BY DEF Begin
<1>3. /\ r.pc = pc /\ r.kind = kind /\ r.o = o /\ r.p = p /\ r.t = t /\ r.first = first
  OBVIOUS
<1> HIDE DEF r
<1>4. QED
  BY <1>1, <1>2, <1>3

\* The profile a registration saves.
LEMMA BoundEffect ==
  ASSUME NEW f \in Flows, cfg \in Profile, flow[f].o \in Origins, flow[f].p \in Projects,
         flow[f].t \in Tokens
  PROVE  /\ Bound(f) \in Profile
         /\ \A o \in Origins :
              Bound(f).device[o] = IF o = flow[f].o THEN flow[f].t ELSE cfg.device[o]
         /\ \A p \in Projects :
              Bound(f).bind[p] = IF p = flow[f].p THEN flow[f].o ELSE cfg.bind[p]
<1>1. PICK d \in [Origins -> Tokens \cup {0}], b \in [Projects -> Origins \cup {"none"}] :
        cfg.device = d /\ cfg.bind = b
  BY DEF Profile
<1>2. Bound(f) = [device |-> [d EXCEPT ![flow[f].o] = flow[f].t],
                  bind |-> [b EXCEPT ![flow[f].p] = flow[f].o]]
  BY <1>1 DEF Bound
<1>3. QED
  BY <1>1, <1>2 DEF Profile

-----------------------------------------------------------------------------
\* Steps of a flow that leave the profile, the moves' credentials and the
\* owners as they were.

Aside ==
  /\ UNCHANGED <<cfg, pending, owner, minted>>
  /\ keys' \subseteq Tokens
  /\ dev' \in [Tokens -> {"none", "live", "revoked"}]

LEMMA FlowsSame ==
  ASSUME MoveInv, Aside, UNCHANGED flow
  PROVE  MoveInv'
<1>1. Typed'
  BY DEF MoveInv, Typed, Aside
<1>2. Stages' /\ CreatedOnce' /\ MoveRemembered' /\ ResetAlone'
  BY DEF MoveInv, Stages, CreatedOnce, MoveRemembered, ResetAlone, Aside, InReset, InCreate, InPromote
<1>3. QED
  BY <1>1, <1>2 DEF MoveInv

LEMMA Counted ==
  ASSUME MoveInv
  PROVE  minted \in Nat /\ 0 \in 0..minted /\ minted <= Cardinality(Tokens)
  BY TokenCount DEF MoveInv, Typed

\* A flow may end at any of its stages.
LEMMA EndKeeps ==
  ASSUME MoveInv, NEW f \in Flows, End(f), Aside
  PROVE  MoveInv'
<1>1. /\ flow \in [Flows -> FlowRecord] /\ flow' \in [Flows -> FlowRecord]
      /\ flow'[f] = NoFlow
      /\ \A g \in Flows : g # f => flow'[g] = flow[g]
  BY EndEffect DEF MoveInv, Typed
<1>2. flow'[f].kind = "none" /\ flow'[f].pc = "idle" /\ flow'[f].t = 0
  BY <1>1, NoFlowTyped
<1>3. Typed'
  BY <1>1, <1>2 DEF MoveInv, Typed, Aside
<1>4. Stages'
  BY <1>1, <1>2 DEF MoveInv, Stages, InReset, InCreate, InPromote
<1>5. CreatedOnce'
  BY <1>1, <1>2 DEF MoveInv, CreatedOnce, Aside, InCreate, InPromote
<1>6. MoveRemembered'
  BY <1>1, <1>2 DEF MoveInv, MoveRemembered, Aside, InPromote
<1>7. ResetAlone'
  BY <1>1, <1>2 DEF MoveInv, ResetAlone, Aside, InReset
<1>8. QED
  BY <1>3, <1>4, <1>5, <1>6, <1>7 DEF MoveInv

\* The stages a flow goes through without touching the profile, the moves'
\* credentials or the owners.
Quiet(f, pc) ==
  \/ InReset(f) /\ pc \in {"forget", "save"}
  \/ /\ flow[f].kind \in {"create", "join"}
     /\ \/ flow[f].pc \in {"bootstrap", "store"} /\ pc \in {"store", "register"}
        \/ pc \in {"delete", "revoke"}
  \/ InPromote(f) /\ flow[f].pc \in {"bootstrap", "store"} /\ pc \in {"store", "rebind"}

LEMMA GoKeeps ==
  ASSUME MoveInv, NEW f \in Flows, NEW pc, Quiet(f, pc), Go(f, pc), Aside
  PROVE  MoveInv'
<1>0. pc \in PCs /\ pc # "idle"
  BY DEF Quiet, PCs
<1>1. /\ flow \in [Flows -> FlowRecord] /\ flow' \in [Flows -> FlowRecord]
      /\ flow'[f].pc = pc /\ flow'[f].kind = flow[f].kind
      /\ flow'[f].o = flow[f].o /\ flow'[f].p = flow[f].p /\ flow'[f].t = flow[f].t
      /\ flow'[f].first = flow[f].first /\ flow'[f].cfg = flow[f].cfg
      /\ \A g \in Flows : g # f => flow'[g] = flow[g]
  BY <1>0, GoEffect DEF MoveInv, Typed
<1>3. Typed'
  BY <1>1 DEF MoveInv, Typed, Aside
<1>4. Stages'
  BY <1>0, <1>1 DEF MoveInv, Stages, InReset, InCreate, InPromote, Quiet
<1>5. CreatedOnce'
  BY <1>1 DEF MoveInv, CreatedOnce, Aside, InCreate, InReset, InPromote, Quiet
<1>6. MoveRemembered'
  BY <1>1 DEF MoveInv, MoveRemembered, Aside, InPromote, InReset, Quiet
<1>7. ResetAlone'
  <2>1. flow[f].pc # "idle"
    BY DEF MoveInv, Stages, Quiet, InReset, InPromote
  <2>2. QED
    BY <1>0, <1>1, <2>1 DEF MoveInv, ResetAlone, Aside, InReset
<1>8. QED
  BY <1>3, <1>4, <1>5, <1>6, <1>7 DEF MoveInv

-----------------------------------------------------------------------------
\* The start of a flow.

LEMMA FreeFlow ==
  ASSUME ~Overlap, MoveInv, NEW f \in Flows, Free(f)
  PROVE  /\ flow[f].pc = "idle" /\ flow[f].kind = "none" /\ flow[f].t = 0
         /\ \A g \in Flows : ~InReset(g)
  BY NoFlowTyped DEF Free, At, MoveInv, Stages, InReset

LEMMA BeginKeeps ==
  ASSUME ~Overlap, MoveInv, NEW f \in Flows, Free(f),
         NEW kind \in {"create", "join"}, NEW o \in Origins, NEW p \in Projects,
         NEW t \in 1..minted', NEW first \in BOOLEAN,
         Begin(f, "call", kind, o, p, t, first),
         minted' \in minted..Cardinality(Tokens),
         UNCHANGED <<cfg, keys, pending, dev, owner>>,
         kind = "join" => o = "team" /\ p = Shared,
         kind = "create" =>
           /\ p \in Own /\ cfg.bind[p] = "none"
           /\ \A x \in Origins : owner[x][p] = 0
           /\ \A g \in Flows : flow[g].p # p
  PROVE  MoveInv'
<1>0. minted \in Nat /\ minted' \in Nat /\ 0..minted \subseteq 0..minted' /\ t \in Nat /\ t # 0
  BY TokenCount DEF MoveInv, Typed
<1>1. /\ flow \in [Flows -> FlowRecord] /\ flow' \in [Flows -> FlowRecord]
      /\ flow'[f].pc = "call" /\ flow'[f].kind = kind /\ flow'[f].o = o
      /\ flow'[f].p = p /\ flow'[f].t = t /\ flow'[f].first = first
      /\ \A g \in Flows : g # f => flow'[g] = flow[g]
  <2>1. "call" \in PCs /\ kind \in Kinds
    BY DEF PCs, Kinds
  <2>2. flow \in [Flows -> FlowRecord]
    BY DEF MoveInv, Typed
  <2>3. QED
    BY <1>0, <2>1, <2>2, BeginEffect
<1>2. \A g \in Flows : ~InReset(g)
  BY FreeFlow
<1>3. Typed'
  <2>1. pending' \in [Own -> 0..minted']
    BY <1>0 DEF MoveInv, Typed
  <2>2. \A g \in Flows : flow'[g].t \in 0..minted'
    BY <1>0, <1>1 DEF MoveInv, Typed
  <2>3. minted' \in 0..Cardinality(Tokens)
    BY <1>0, TokenCount
  <2>4. QED
    BY <1>0, <1>1, <2>1, <2>2, <2>3 DEF MoveInv, Typed
<1>4. Stages'
  BY <1>0, <1>1 DEF MoveInv, Stages, InReset, InCreate, InPromote
<1>5. CreatedOnce'
  BY <1>1 DEF MoveInv, CreatedOnce, InCreate, InPromote
<1>6. MoveRemembered'
  BY <1>1 DEF MoveInv, MoveRemembered, InPromote
<1>7. ResetAlone'
  BY <1>1, <1>2 DEF ResetAlone, InReset
<1>8. QED
  BY <1>3, <1>4, <1>5, <1>6, <1>7 DEF MoveInv

\* An identity for the flow: a new one, or the one of the profile.
LEMMA MintOrReuse ==
  ASSUME MoveInv, NEW f \in Flows, NEW kind, NEW o \in Origins, NEW p,
         Mint(f, kind, o, p) \/ DeviceToken(f, kind, o, p)
  PROVE  /\ \E t \in 1..minted', first \in BOOLEAN : Begin(f, "call", kind, o, p, t, first)
         /\ minted' \in minted..Cardinality(Tokens)
         /\ UNCHANGED <<keys, pending>>
<1>0. minted \in Nat /\ minted <= Cardinality(Tokens) /\ Cardinality(Tokens) \in Nat
  BY TokenCount DEF MoveInv, Typed
<1>1. CASE Mint(f, kind, o, p)
  <2>1. minted' = minted + 1 /\ minted < MaxTokens /\ UNCHANGED vault
        /\ Begin(f, "call", kind, o, p, minted + 1, TRUE)
    BY <1>1 DEF Mint
  <2>2. minted + 1 \in 1..minted' /\ minted' \in minted..Cardinality(Tokens)
    BY <1>0, <2>1, TokenCount, OnboardingAssumption
  <2>3. QED
    BY <2>1, <2>2 DEF vault
<1>2. CASE DeviceToken(f, kind, o, p)
  <2>1. minted' = minted /\ UNCHANGED <<keys, pending>> /\ cfg.device[o] \in keys
        /\ Begin(f, "call", kind, o, p, cfg.device[o], FALSE)
    BY <1>2 DEF DeviceToken, Get
  <2>2. cfg.device[o] \in 0..minted /\ cfg.device[o] \in Tokens
    BY <2>1 DEF MoveInv, Typed
  <2>3. cfg.device[o] \in 1..minted' /\ minted' \in minted..Cardinality(Tokens)
    BY <1>0, <2>1, <2>2, TokenCount
  <2>4. QED
    BY <2>1, <2>3
<1>3. QED
  BY <1>1, <1>2

LEMMA CreateStarts ==
  ASSUME ~Overlap, MoveInv, NEW f \in Flows, Free(f), NEW o \in Origins, NEW p \in Own,
         RepositoryAvailable(p), CreateOnNewBackend(f, o, p)
  PROVE  MoveInv'
<1>1. /\ Mint(f, "create", o, p) \/ DeviceToken(f, "create", o, p)
      /\ UNCHANGED <<cfg, dev, owner>>
      /\ cfg.bind[p] = "none"
      /\ \A x \in Origins : owner[x][p] = 0
      /\ \A g \in Flows : flow[g].p # p
  BY DEF CreateOnNewBackend, RepositoryAvailable, server
<1>2. PICK t \in 1..minted', first \in BOOLEAN : Begin(f, "call", "create", o, p, t, first)
  BY <1>1, MintOrReuse
<1>3. minted' \in minted..Cardinality(Tokens) /\ UNCHANGED <<keys, pending>>
  BY <1>1, MintOrReuse
<1>4. p \in Projects
  BY DEF Projects
<1>5. QED
  BY <1>1, <1>2, <1>3, <1>4, BeginKeeps

LEMMA JoinStarts ==
  ASSUME ~Overlap, MoveInv, NEW f \in Flows, Free(f), JoinOnNewBackend(f)
  PROVE  MoveInv'
<1>1. /\ Mint(f, "join", "team", Shared) \/ DeviceToken(f, "join", "team", Shared)
      /\ UNCHANGED <<cfg, dev, owner>>
  BY DEF JoinOnNewBackend, server
<1>2. "team" \in Origins /\ Shared \in Projects
  BY DEF Origins, Projects
<1>3. PICK t \in 1..minted', first \in BOOLEAN : Begin(f, "call", "join", "team", Shared, t, first)
  BY <1>1, <1>2, MintOrReuse
<1>4. minted' \in minted..Cardinality(Tokens) /\ UNCHANGED <<keys, pending>>
  BY <1>1, <1>2, MintOrReuse
<1>5. QED
  BY <1>1, <1>2, <1>3, <1>4, BeginKeeps

\* A move begins with the credential of an earlier attempt, or with a new one
\* if none is stored.
LEMMA PromoteStarts ==
  ASSUME ~Overlap, ~Unread, MoveInv, NEW p \in Own, StartPromote(p)
  PROVE  MoveInv'
<1> DEFINE d == "desktop"
<1>0. /\ d = "desktop" /\ Free(d) /\ d \in Flows
      /\ "team" \in Origins /\ "local" \in Origins /\ p \in Projects
      /\ cfg.bind[p] = "local"
      /\ UNCHANGED <<cfg, keys, pending, dev, owner>>
  BY DEF StartPromote, CanPromote, Flows, Origins, Projects, Get, server
<1>1. \E pc \in {"pending", "call"} : \E t \in Nat : \E first \in BOOLEAN :
        /\ first
        /\ Begin(d, pc, "promote", "team", p, t, first)
        /\ minted' \in minted..Cardinality(Tokens)
        /\ t \in 1..minted'
        /\ pc = "pending" => pending[p] = 0
        /\ pc = "call" => pending[p] = t
  <2>0. minted \in Nat /\ minted <= Cardinality(Tokens) /\ Cardinality(Tokens) \in Nat
        /\ pending[p] \in 0..minted
    BY TokenCount DEF MoveInv, Typed
  <2>1. CASE pending[p] # 0 /\ Begin(d, "call", "promote", "team", p, pending[p], TRUE) /\ UNCHANGED minted
    <3>1. pending[p] \in Nat /\ pending[p] \in 1..minted' /\ minted' \in minted..Cardinality(Tokens)
      BY <2>0, <2>1
    <3>2. QED
      BY <2>1, <3>1
  <2>2. CASE /\ pending[p] = 0 /\ minted < Cardinality(Tokens) /\ minted' = minted + 1
             /\ Begin(d, "pending", "promote", "team", p, minted + 1, TRUE)
    <3>1. minted + 1 \in Nat /\ minted + 1 \in 1..minted' /\ minted' \in minted..Cardinality(Tokens)
      BY <2>0, <2>2
    <3>2. QED
      BY <2>2, <3>1
  <2>3. QED
    BY <2>1, <2>2 DEF StartPromote
<1> HIDE DEF d
<1>2. PICK pc \in {"pending", "call"}, t \in Nat, first \in BOOLEAN :
        /\ first
        /\ Begin(d, pc, "promote", "team", p, t, first)
        /\ minted' \in minted..Cardinality(Tokens)
        /\ t \in 1..minted'
        /\ pc = "pending" => pending[p] = 0
        /\ pc = "call" => pending[p] = t
  BY <1>1
<1>3. minted \in Nat /\ minted' \in Nat /\ 0..minted \subseteq 0..minted' /\ t # 0
  BY <1>2, TokenCount DEF MoveInv, Typed
<1>4. /\ flow \in [Flows -> FlowRecord] /\ flow' \in [Flows -> FlowRecord]
      /\ flow'[d].pc = pc /\ flow'[d].kind = "promote" /\ flow'[d].o = "team"
      /\ flow'[d].p = p /\ flow'[d].t = t /\ flow'[d].first = first
      /\ \A g \in Flows : g # d => flow'[g] = flow[g]
  <2>1. pc \in PCs /\ "promote" \in Kinds
    BY DEF PCs, Kinds
  <2>2. flow \in [Flows -> FlowRecord]
    BY DEF MoveInv, Typed
  <2>3. Begin(d, pc, "promote", "team", p, t, first) /\ d \in Flows /\ "team" \in Origins /\ p \in Projects
    BY <1>0, <1>2
  <2>4. QED
    BY <2>1, <2>2, <2>3, BeginEffect
<1>5. \A g \in Flows : ~InReset(g)
  BY <1>0, FreeFlow
<1>6. Typed'
  <2>1. pending' \in [Own -> 0..minted']
    BY <1>0, <1>3 DEF MoveInv, Typed
  <2>2. \A g \in Flows : flow'[g].t \in 0..minted'
    BY <1>2, <1>3, <1>4 DEF MoveInv, Typed
  <2>3. minted' \in 0..Cardinality(Tokens)
    BY <1>2, <1>3, TokenCount
  <2>4. QED
    BY <1>0, <1>3, <1>4, <2>1, <2>2, <2>3 DEF MoveInv, Typed
<1>7. Stages'
  <2>1. \A g \in Flows : g # d => flow'[g] = flow[g]
    BY <1>4
  <2>2. /\ flow'[d].pc \in {"pending", "call"} /\ flow'[d].kind = "promote" /\ d = "desktop"
        /\ flow'[d].o = "team" /\ flow'[d].p \in Own /\ flow'[d].t # 0 /\ flow'[d].first
    BY <1>0, <1>2, <1>3, <1>4
  <2>3. QED
    BY <2>1, <2>2 DEF MoveInv, Stages, InReset, InCreate, InPromote
<1>8. CreatedOnce'
  BY <1>0, <1>4 DEF MoveInv, CreatedOnce, InCreate, InPromote
<1>9. MoveRemembered'
  <2>1. owner["local"][p] # 0
    BY <1>0 DEF MoveInv, CreatedOnce
  <2>2. QED
    BY <1>0, <1>2, <1>4, <2>1 DEF MoveInv, MoveRemembered, InPromote
<1>10. ResetAlone'
  BY <1>4, <1>5 DEF ResetAlone, InReset
<1>11. QED
  BY <1>6, <1>7, <1>8, <1>9, <1>10 DEF MoveInv

\* A reset starts with nothing else under way.
LEMMA ResetStarts ==
  ASSUME ~Overlap, MoveInv, NEW f \in Flows, NEW kind \in {"reset", "force"}, NEW o \in Origins,
         Reset(f, kind, o)
  PROVE  MoveInv'
<1> DEFINE r == [pc |-> "check", kind |-> kind, o |-> o, p |-> "none",
                 t |-> cfg.device[o], first |-> FALSE, cfg |-> cfg]
<1>0. /\ \A g \in Flows : flow[g].pc = "idle"
      /\ flow' = [flow EXCEPT ![f] = r]
      /\ UNCHANGED <<cfg, keys, pending, dev, owner, minted>>
  BY DEF Reset, At, vault, server
<1>1. /\ r \in FlowRecord /\ r.t \in 0..minted
      /\ r.pc = "check" /\ r.kind = kind /\ r.o = o /\ r.cfg = cfg
  BY TokenCount DEF FlowRecord, PCs, Kinds, MoveInv, Typed
<1> HIDE DEF r
<1>2. /\ flow' \in [Flows -> FlowRecord] /\ flow'[f] = r
      /\ \A g \in Flows : g # f => flow'[g] = flow[g]
  BY <1>0, <1>1 DEF MoveInv, Typed
<1>3. Typed'
  BY <1>0, <1>1, <1>2 DEF MoveInv, Typed
<1>4. Stages'
  BY <1>0, <1>1, <1>2 DEF MoveInv, Stages, InReset, InCreate, InPromote
<1>5. CreatedOnce'
  BY <1>0, <1>1, <1>2 DEF MoveInv, CreatedOnce, InCreate, InPromote
<1>6. MoveRemembered'
  BY <1>0, <1>1, <1>2 DEF MoveInv, MoveRemembered, InPromote
<1>7. ResetAlone'
  <2>1. \A g \in Flows : flow[g].kind = "none"
    BY <1>0, NoFlowTyped DEF MoveInv, Stages
  <2>2. QED
    BY <1>0, <1>1, <1>2, <2>1 DEF ResetAlone, InReset
<1>8. QED
  BY <1>3, <1>4, <1>5, <1>6, <1>7 DEF MoveInv

-----------------------------------------------------------------------------
\* The steps that move what the proof is about: the calls to the server, the
\* profile and the moves' credentials.

\* What an answered call does to the owners: nothing, or the flow's Project is
\* created for its device.
LEMMA CallKeeps ==
  ASSUME MoveInv, NEW f \in Flows, At(f, "call"),
         flow[f].kind \in {"create", "join", "promote"},
         Go(f, "bootstrap") \/ End(f),
         UNCHANGED <<cfg, keys, pending, minted>>,
         dev' \in [Tokens -> {"none", "live", "revoked"}],
         IF flow[f].kind = "join" THEN owner' = owner
         ELSE owner' = IF owner[flow[f].o][flow[f].p] = 0
                         THEN [owner EXCEPT ![flow[f].o][flow[f].p] = flow[f].t] ELSE owner
  PROVE  MoveInv'
<1>0. /\ flow \in [Flows -> FlowRecord] /\ owner \in [Origins -> [Own -> Nat]]
      /\ flow[f].pc = "call" /\ ~InReset(f) /\ flow[f].t # 0 /\ flow[f].t \in Nat
      /\ flow[f].kind = "join" \/ (flow[f].o \in Origins /\ flow[f].p \in Own)
      /\ "local" \in Origins /\ "team" \in Origins /\ "bootstrap" \in PCs
  BY TokenCount DEF MoveInv, Typed, At, Stages, InReset, InCreate, InPromote, Origins, PCs
<1>1. /\ flow' \in [Flows -> FlowRecord]
      /\ \A g \in Flows : g # f => flow'[g] = flow[g]
      /\ \/ flow'[f].pc = "bootstrap" /\ flow'[f].kind = flow[f].kind
            /\ flow'[f].o = flow[f].o /\ flow'[f].p = flow[f].p /\ flow'[f].t = flow[f].t
            /\ flow'[f].first = flow[f].first
         \/ flow'[f] = NoFlow /\ flow'[f].kind = "none" /\ flow'[f].pc = "idle" /\ flow'[f].t = 0
  BY <1>0, GoEffect, EndEffect, NoFlowTyped
<1>2. /\ owner' \in [Origins -> [Own -> Nat]]
      /\ \A o \in Origins, p \in Own : owner[o][p] # 0 => owner'[o][p] = owner[o][p]
      /\ \A o \in Origins, p \in Own : owner'[o][p] # owner[o][p] =>
           /\ flow[f].kind # "join" /\ o = flow[f].o /\ p = flow[f].p
           /\ owner'[o][p] = flow[f].t
      /\ flow[f].kind # "join" => owner'[flow[f].o][flow[f].p] # 0
  <2>1. CASE owner' = owner /\ (flow[f].kind # "join" => owner[flow[f].o][flow[f].p] # 0)
    BY <1>0, <2>1
  <2>2. CASE /\ flow[f].kind # "join" /\ owner[flow[f].o][flow[f].p] = 0
             /\ owner' = [owner EXCEPT ![flow[f].o][flow[f].p] = flow[f].t]
    <3>1. PICK o \in Origins, p \in Own, t \in Nat \ {0} :
            flow[f].o = o /\ flow[f].p = p /\ flow[f].t = t
      BY <1>0, <2>2
    <3>2. owner[o] \in [Own -> Nat] /\ owner' = [owner EXCEPT ![o] = [owner[o] EXCEPT ![p] = t]]
      BY <1>0, <2>2, <3>1
    <3>3. /\ owner' \in [Origins -> [Own -> Nat]] /\ owner'[o][p] = t
          /\ \A x \in Origins, q \in Own : x # o \/ q # p => owner'[x][q] = owner[x][q]
      BY <1>0, <3>2
    <3>4. QED
      BY <2>2, <3>1, <3>3
  <2>3. QED
    BY <2>1, <2>2
<1>3. Typed'
  BY <1>0, <1>1, <1>2 DEF MoveInv, Typed
<1>4. Stages'
  BY <1>0, <1>1 DEF MoveInv, Stages, InReset, InCreate, InPromote
<1>5. CreatedOnce'
  <2>1. \A p \in Own : cfg'.bind[p] = "local" => owner'["local"][p] # 0
    BY <1>0, <1>2 DEF MoveInv, CreatedOnce
  <2>2. ASSUME NEW g \in Flows, InCreate(g)', g # f
        PROVE  /\ flow[g] = flow'[g] /\ InCreate(g) /\ flow[g].p \in Own
               /\ flow[f].kind # "join" => flow[f].p # flow[g].p \/ flow[g].pc \notin {"call", "bootstrap", "store", "register"}
    <3>1. flow[g] = flow'[g] /\ InCreate(g) /\ flow[g].p \in Own
      BY <1>1, <2>2 DEF InCreate, MoveInv, Stages
    <3>2. QED
      BY <2>2, <3>1 DEF InCreate, InPromote, MoveInv, CreatedOnce
  <2>3. \A g \in Flows : InCreate(g)' =>
          /\ flow'[g].pc \in {"call", "bootstrap", "store", "register"} => cfg'.bind[flow'[g].p] = "none"
          /\ flow'[g].pc = "call" => \A o \in Origins : owner'[o][flow'[g].p] = 0
          /\ \A o \in Origins : flow'[g].pc \in {"bootstrap", "store", "register"} =>
               (o = flow'[g].o <=> owner'[o][flow'[g].p] # 0)
    <3> SUFFICES ASSUME NEW g \in Flows, InCreate(g)'
                 PROVE  /\ flow'[g].pc \in {"call", "bootstrap", "store", "register"} => cfg'.bind[flow'[g].p] = "none"
                        /\ flow'[g].pc = "call" => \A o \in Origins : owner'[o][flow'[g].p] = 0
                        /\ \A o \in Origins : flow'[g].pc \in {"bootstrap", "store", "register"} =>
                             (o = flow'[g].o <=> owner'[o][flow'[g].p] # 0)
      OBVIOUS
    <3>1. CASE g # f
      BY <1>2, <2>2, <3>1 DEF MoveInv, CreatedOnce, InCreate, InPromote
    <3>2. CASE g = f
      <4>1. flow'[f].pc = "bootstrap" /\ flow[f].kind = "create"
            /\ flow'[f].o = flow[f].o /\ flow'[f].p = flow[f].p
        BY <1>1, <3>2 DEF InCreate
      <4>2. cfg.bind[flow[f].p] = "none" /\ \A o \in Origins : owner[o][flow[f].p] = 0
        BY <1>0, <4>1 DEF MoveInv, CreatedOnce, InCreate, InPromote
      <4>3. QED
        BY <1>0, <1>2, <3>2, <4>1, <4>2
    <3>3. QED
      BY <3>1, <3>2
  <2>4. \A g, h \in Flows : InCreate(g)' /\ InCreate(h)' /\ flow'[g].p = flow'[h].p => g = h
    <3>1. \A g \in Flows : InCreate(g)' => InCreate(g) /\ flow'[g].p = flow[g].p
      BY <1>1 DEF InCreate
    <3>2. QED
      BY <3>1 DEF MoveInv, CreatedOnce
  <2>5. \A g, h \in Flows :
          InCreate(g)' /\ flow'[g].pc \in {"call", "bootstrap", "store", "register"} /\ InPromote(h)' =>
            flow'[g].p # flow'[h].p
    <3>1. \A g \in Flows : InCreate(g)' =>
            InCreate(g) /\ flow'[g].p = flow[g].p /\ (flow'[g].pc = flow[g].pc \/ flow[g].pc = "call")
      BY <1>0, <1>1 DEF InCreate
    <3>2. \A g \in Flows : InPromote(g)' => InPromote(g) /\ flow'[g].p = flow[g].p
      BY <1>1 DEF InPromote
    <3>3. QED
      BY <3>1, <3>2 DEF MoveInv, CreatedOnce
  <2>6. QED
    BY <2>1, <2>3, <2>4, <2>5 DEF CreatedOnce
<1>6. MoveRemembered'
  <2>1. \A p \in Own : cfg'.bind[p] = "local" /\ owner'["team"][p] # 0 => pending'[p] = owner'["team"][p]
    <3> SUFFICES ASSUME NEW p \in Own, cfg.bind[p] = "local", owner'["team"][p] # 0
                 PROVE  pending[p] = owner'["team"][p]
      OBVIOUS
    <3>1. CASE owner'["team"][p] = owner["team"][p]
      BY <3>1 DEF MoveInv, MoveRemembered
    <3>2. CASE owner'["team"][p] # owner["team"][p]
      <4>1. flow[f].kind # "join" /\ p = flow[f].p /\ owner'["team"][p] = flow[f].t
        BY <1>0, <1>2, <3>2
      <4>2. flow[f].kind # "create"
        BY <1>0, <4>1 DEF MoveInv, CreatedOnce, InCreate, InPromote
      <4>3. QED
        BY <1>0, <4>1, <4>2 DEF MoveInv, MoveRemembered, InPromote
    <3>3. QED
      BY <3>1, <3>2
  <2>2. \A g \in Flows : InPromote(g)' =>
          /\ owner'["local"][flow'[g].p] # 0
          /\ flow'[g].pc = "pending" => pending'[flow'[g].p] = 0
          /\ flow'[g].pc # "pending" => pending'[flow'[g].p] = flow'[g].t
          /\ flow'[g].pc \in {"bootstrap", "store", "rebind", "unpend"} => owner'["team"][flow'[g].p] # 0
          /\ flow'[g].pc = "unpend" => cfg'.bind[flow'[g].p] # "local"
    <3> SUFFICES ASSUME NEW g \in Flows, InPromote(g)'
                 PROVE  /\ owner'["local"][flow'[g].p] # 0
                        /\ flow'[g].pc = "pending" => pending'[flow'[g].p] = 0
                        /\ flow'[g].pc # "pending" => pending'[flow'[g].p] = flow'[g].t
                        /\ flow'[g].pc \in {"bootstrap", "store", "rebind", "unpend"} => owner'["team"][flow'[g].p] # 0
                        /\ flow'[g].pc = "unpend" => cfg'.bind[flow'[g].p] # "local"
      OBVIOUS
    <3>1. CASE g # f
      <4>1. flow'[g] = flow[g] /\ InPromote(g) /\ flow[g].p \in Own
        BY <1>1, <3>1 DEF InPromote, MoveInv, Stages
      <4>2. QED
        BY <1>0, <1>2, <4>1 DEF MoveInv, MoveRemembered
    <3>2. CASE g = f
      <4>1. /\ flow'[f].pc = "bootstrap" /\ flow[f].kind = "promote"
            /\ flow'[f].o = flow[f].o /\ flow'[f].p = flow[f].p /\ flow'[f].t = flow[f].t
        BY <1>1, <3>2 DEF InPromote
      <4>2. flow[f].o = "team" /\ flow[f].p \in Own /\ owner["local"][flow[f].p] # 0
            /\ pending[flow[f].p] = flow[f].t
        BY <1>0, <4>1 DEF MoveInv, MoveRemembered, Stages, InPromote
      <4>3. QED
        BY <1>0, <1>2, <3>2, <4>1, <4>2
    <3>3. QED
      BY <3>1, <3>2
  <2>3. QED
    BY <2>1, <2>2 DEF MoveRemembered
<1>7. ResetAlone'
  BY <1>0, <1>1 DEF MoveInv, ResetAlone, InReset
<1>8. QED
  BY <1>3, <1>4, <1>5, <1>6, <1>7 DEF MoveInv

\* A registration names the flow's backend, which owns the Project it created.
LEMMA RegisterKeeps ==
  ASSUME MoveInv, NEW f \in Flows, At(f, "register"), cfg' = Bound(f),
         Go(f, "delete") \/ End(f),
         UNCHANGED <<keys, pending, owner, dev, minted>>
  PROVE  MoveInv'
<1>0. /\ flow \in [Flows -> FlowRecord] /\ cfg \in Profile
      /\ flow[f].pc = "register" /\ flow[f].kind \in {"create", "join"} /\ flow[f].t \in Tokens
      /\ flow[f].t \in 0..minted
      /\ flow[f].o \in Origins /\ flow[f].p \in Projects
      /\ flow[f].kind = "create" => flow[f].p \in Own
      /\ flow[f].kind = "join" => flow[f].p \notin Own
      /\ \A p \in Own : p \in Projects
      /\ "local" \in Origins /\ "team" \in Origins /\ "delete" \in PCs
  <2>1. /\ flow \in [Flows -> FlowRecord] /\ cfg \in Profile
        /\ flow[f].pc = "register" /\ flow[f].kind \in {"create", "join"}
        /\ flow[f].o \in Origins /\ flow[f].t # 0
        /\ flow[f].kind = "create" => flow[f].p \in Own
        /\ flow[f].kind = "join" => flow[f].p = Shared
    BY DEF MoveInv, Typed, At, Stages, InReset, InCreate, InPromote, FlowRecord, Kinds, Origins
  <2>2. flow[f].t \in Tokens /\ flow[f].t \in 0..minted
    BY <2>1, TokenCount DEF MoveInv, Typed
  <2>3. QED
    BY <2>1, <2>2, OnboardingAssumption DEF Projects, Origins, PCs
<1>1. /\ flow' \in [Flows -> FlowRecord]
      /\ \A g \in Flows : g # f => flow'[g] = flow[g]
      /\ \/ flow'[f].pc = "delete" /\ flow'[f].kind = flow[f].kind
            /\ flow'[f].o = flow[f].o /\ flow'[f].p = flow[f].p /\ flow'[f].t = flow[f].t
            /\ flow'[f].first = flow[f].first
         \/ flow'[f] = NoFlow /\ flow'[f].kind = "none" /\ flow'[f].pc = "idle" /\ flow'[f].t = 0
  BY <1>0, GoEffect, EndEffect, NoFlowTyped
<1>2. /\ cfg' \in Profile
      /\ \A o \in Origins : cfg'.device[o] = IF o = flow[f].o THEN flow[f].t ELSE cfg.device[o]
      /\ \A p \in Projects : cfg'.bind[p] = IF p = flow[f].p THEN flow[f].o ELSE cfg.bind[p]
  BY <1>0, BoundEffect
<1>3. Typed'
  <2>1. \A o \in Origins : cfg'.device[o] \in 0..minted'
    BY <1>0, <1>2 DEF MoveInv, Typed
  <2>2. \A g \in Flows : flow'[g].t \in 0..minted'
    <3>1. minted \in Nat /\ minted' = minted /\ \A g \in Flows : flow[g].t \in 0..minted
      BY TokenCount DEF MoveInv, Typed
    <3>2. flow'[f].t \in 0..minted
      BY <1>0, <1>1, <3>1
    <3>3. QED
      BY <1>1, <3>1, <3>2
  <2>3. QED
    BY <1>1, <1>2, <2>1, <2>2 DEF MoveInv, Typed
<1>4. Stages'
  BY <1>0, <1>1 DEF MoveInv, Stages, InReset, InCreate, InPromote
<1>5. CreatedOnce'
  <2>1. \A p \in Own : cfg'.bind[p] = "local" => owner'["local"][p] # 0
    BY <1>0, <1>2 DEF MoveInv, CreatedOnce, InCreate
  <2>2. \A g \in Flows : InCreate(g)' =>
          /\ InCreate(g) /\ flow'[g].p = flow[g].p /\ flow'[g].o = flow[g].o
          /\ flow'[g].pc \in {"call", "bootstrap", "store", "register"} =>
               g # f /\ flow[g].pc = flow'[g].pc /\ cfg'.bind[flow[g].p] = cfg.bind[flow[g].p]
    <3> SUFFICES ASSUME NEW g \in Flows, InCreate(g)'
                 PROVE  /\ InCreate(g) /\ flow'[g].p = flow[g].p /\ flow'[g].o = flow[g].o
                        /\ flow'[g].pc \in {"call", "bootstrap", "store", "register"} =>
                             g # f /\ flow[g].pc = flow'[g].pc /\ cfg'.bind[flow[g].p] = cfg.bind[flow[g].p]
      OBVIOUS
    <3>1. CASE g = f
      BY <1>1, <3>1 DEF InCreate
    <3>2. CASE g # f
      <4>1. flow'[g] = flow[g] /\ InCreate(g) /\ flow[g].p \in Own
        BY <1>1, <3>2 DEF InCreate, MoveInv, Stages
      <4>2. flow[g].p # flow[f].p
        BY <1>0, <3>2, <4>1 DEF MoveInv, CreatedOnce, InCreate
      <4>3. QED
        BY <1>0, <1>2, <3>2, <4>1, <4>2
    <3>3. QED
      BY <3>1, <3>2
  <2>3. \A g \in Flows : InPromote(g)' => InPromote(g) /\ flow'[g].p = flow[g].p
    BY <1>0, <1>1 DEF InPromote
  <2>4. QED
    BY <2>1, <2>2, <2>3 DEF MoveInv, CreatedOnce
<1>6. MoveRemembered'
  <2>1. \A p \in Own : cfg'.bind[p] = "local" /\ owner'["team"][p] # 0 => pending'[p] = owner'["team"][p]
    <3> SUFFICES ASSUME NEW p \in Own, cfg'.bind[p] = "local", owner["team"][p] # 0
                 PROVE  pending[p] = owner["team"][p]
      OBVIOUS
    <3>1. cfg.bind[p] = "local"
      <4>1. CASE p = flow[f].p
        <5>1. flow[f].kind = "create" /\ flow[f].o = "local"
          BY <1>0, <1>2, <4>1
        <5>2. QED
          BY <1>0, <4>1, <5>1 DEF MoveInv, CreatedOnce, InCreate, Origins
      <4>2. QED
        BY <1>0, <1>2, <4>1
    <3>2. QED
      BY <3>1 DEF MoveInv, MoveRemembered
  <2>2. \A g \in Flows : InPromote(g)' =>
          /\ InPromote(g) /\ flow'[g] = flow[g] /\ cfg'.bind[flow[g].p] = cfg.bind[flow[g].p]
    <3> SUFFICES ASSUME NEW g \in Flows, InPromote(g)'
                 PROVE  InPromote(g) /\ flow'[g] = flow[g] /\ cfg'.bind[flow[g].p] = cfg.bind[flow[g].p]
      OBVIOUS
    <3>1. InPromote(g) /\ flow'[g] = flow[g] /\ flow[g].p \in Own
      BY <1>0, <1>1 DEF InPromote, MoveInv, Stages
    <3>2. flow[g].p # flow[f].p
      BY <1>0, <3>1 DEF MoveInv, CreatedOnce, InCreate
    <3>3. QED
      BY <1>0, <1>2, <3>1, <3>2
  <2>3. QED
    BY <2>1, <2>2 DEF MoveInv, MoveRemembered
<1>7. ResetAlone'
  BY <1>0, <1>1 DEF MoveInv, ResetAlone, InReset
<1>8. QED
  BY <1>3, <1>4, <1>5, <1>6, <1>7 DEF MoveInv

\* A move names the team server, and only then lets go of its credential.
LEMMA RebindKeeps ==
  ASSUME MoveInv, NEW f \in Flows, At(f, "rebind"), cfg' = Bound(f),
         cfg.bind[flow[f].p] \notin {"none", "team"},
         Go(f, "unpend") \/ End(f),
         UNCHANGED <<keys, pending, owner, dev, minted>>
  PROVE  MoveInv'
<1>0. /\ flow \in [Flows -> FlowRecord] /\ cfg \in Profile
      /\ flow[f].pc = "rebind" /\ InPromote(f) /\ flow[f].t \in Tokens /\ flow[f].t \in 0..minted
      /\ flow[f].o = "team" /\ flow[f].p \in Own /\ flow[f].kind = "promote"
      /\ \A p \in Own : p \in Projects
      /\ "local" \in Origins /\ "team" \in Origins /\ "unpend" \in PCs
  <2>1. /\ flow \in [Flows -> FlowRecord] /\ cfg \in Profile
        /\ flow[f].pc = "rebind" /\ InPromote(f) /\ flow[f].kind = "promote"
        /\ flow[f].o = "team" /\ flow[f].t # 0 /\ flow[f].p \in Own
    BY DEF MoveInv, Typed, At, Stages, InReset, InCreate, InPromote, FlowRecord, Kinds, Origins
  <2>2. flow[f].t \in Tokens /\ flow[f].t \in 0..minted
    BY <2>1, TokenCount DEF MoveInv, Typed
  <2>3. QED
    BY <2>1, <2>2, OnboardingAssumption DEF Projects, Origins, PCs
<1>1. /\ flow' \in [Flows -> FlowRecord]
      /\ \A g \in Flows : g # f => flow'[g] = flow[g]
      /\ \/ flow'[f].pc = "unpend" /\ flow'[f].kind = flow[f].kind
            /\ flow'[f].o = flow[f].o /\ flow'[f].p = flow[f].p /\ flow'[f].t = flow[f].t
            /\ flow'[f].first = flow[f].first
         \/ flow'[f] = NoFlow /\ flow'[f].kind = "none" /\ flow'[f].pc = "idle" /\ flow'[f].t = 0
  BY <1>0, GoEffect, EndEffect, NoFlowTyped
<1>2. /\ cfg' \in Profile
      /\ \A o \in Origins : cfg'.device[o] = IF o = "team" THEN flow[f].t ELSE cfg.device[o]
      /\ \A p \in Projects : cfg'.bind[p] = IF p = flow[f].p THEN "team" ELSE cfg.bind[p]
  <2>1. flow[f].p \in Projects /\ flow[f].o \in Origins
    BY <1>0
  <2>2. QED
    BY <1>0, <2>1, BoundEffect
<1>3. Typed'
  <2>1. \A o \in Origins : cfg'.device[o] \in 0..minted'
    BY <1>0, <1>2 DEF MoveInv, Typed
  <2>2. \A g \in Flows : flow'[g].t \in 0..minted'
    <3>1. minted \in Nat /\ minted' = minted /\ \A g \in Flows : flow[g].t \in 0..minted
      BY TokenCount DEF MoveInv, Typed
    <3>2. flow'[f].t \in 0..minted
      BY <1>0, <1>1, <3>1
    <3>3. QED
      BY <1>1, <3>1, <3>2
  <2>3. QED
    BY <1>1, <1>2, <2>1, <2>2 DEF MoveInv, Typed
<1>4. Stages'
  BY <1>0, <1>1 DEF MoveInv, Stages, InReset, InCreate, InPromote
<1>5. \A p \in Projects : cfg.bind[p] = "none" => cfg'.bind[p] = "none"
  BY <1>2
<1>6. CreatedOnce'
  <2>1. \A p \in Own : cfg'.bind[p] = "local" => owner'["local"][p] # 0
    BY <1>0, <1>2 DEF MoveInv, CreatedOnce
  <2>2. \A g \in Flows : InCreate(g)' => InCreate(g) /\ flow'[g] = flow[g] /\ flow[g].p \in Projects
    BY <1>0, <1>1 DEF InCreate, MoveInv, Stages
  <2>3. \A g \in Flows : InPromote(g)' => InPromote(g) /\ flow'[g].p = flow[g].p
    BY <1>1 DEF InPromote
  <2>4. QED
    BY <1>5, <2>1, <2>2, <2>3 DEF MoveInv, CreatedOnce
<1>7. MoveRemembered'
  BY <1>0, <1>1, <1>2 DEF MoveInv, MoveRemembered, InPromote, Stages
<1>8. ResetAlone'
  BY <1>0, <1>1 DEF MoveInv, ResetAlone, InReset
<1>9. QED
  BY <1>3, <1>4, <1>6, <1>7, <1>8 DEF MoveInv

\* A reset saves the profile without its backend; nothing else is under way.
LEMMA SaveResetKeeps ==
  ASSUME MoveInv, NEW f \in Flows, SaveReset(f)
  PROVE  MoveInv'
<1>0. /\ flow \in [Flows -> FlowRecord] /\ cfg \in Profile
      /\ InReset(f) /\ flow[f].o \in Origins /\ flow[f].cfg = cfg
      /\ \A g \in Flows : g # f => flow[g].kind = "none"
      /\ \A p \in Own : p \in Projects
      /\ End(f) /\ UNCHANGED <<keys, pending, dev, owner, minted>>
  <2>1. flow \in [Flows -> FlowRecord] /\ cfg \in Profile /\ flow[f].pc = "save"
    BY DEF MoveInv, Typed, SaveReset, At
  <2>2. InReset(f)
    BY <2>1 DEF MoveInv, Typed, Stages, InReset, InCreate, InPromote, FlowRecord, Kinds
  <2>3. flow[f].o \in Origins /\ flow[f].cfg = cfg /\ \A g \in Flows : g # f => flow[g].kind = "none"
    BY <2>2, NoFlowTyped DEF MoveInv, Stages, ResetAlone
  <2>4. QED
    BY <2>1, <2>2, <2>3 DEF SaveReset, vault, server, Projects
<1>1. PICK d \in [Origins -> Tokens \cup {0}], b \in [Projects -> Origins \cup {"none"}] :
        cfg.device = d /\ cfg.bind = b
  BY <1>0 DEF Profile
<1>2. cfg' = [device |-> [d EXCEPT ![flow[f].o] = 0],
              bind |-> [p \in Projects |-> IF b[p] = flow[f].o THEN "none" ELSE b[p]]]
  BY <1>0, <1>1 DEF SaveReset
<1>3. /\ cfg' \in Profile
      /\ \A o \in Origins : cfg'.device[o] = IF o = flow[f].o THEN 0 ELSE cfg.device[o]
      /\ \A p \in Projects : cfg'.bind[p] = IF cfg.bind[p] = flow[f].o THEN "none" ELSE cfg.bind[p]
  BY <1>0, <1>1, <1>2 DEF Profile
<1>4. /\ flow' \in [Flows -> FlowRecord]
      /\ \A g \in Flows : flow'[g].kind = "none"
      /\ \A g \in Flows : g # f => flow'[g] = flow[g]
      /\ flow'[f] = NoFlow /\ flow'[f].t = 0 /\ flow'[f].pc = "idle"
  BY <1>0, EndEffect, NoFlowTyped
<1>5. Typed'
  <2>1. \A o \in Origins : cfg'.device[o] \in 0..minted'
    BY <1>0, <1>3, Counted DEF MoveInv, Typed
  <2>2. \A g \in Flows : flow'[g].t \in 0..minted'
    BY <1>0, <1>4, Counted DEF MoveInv, Typed
  <2>3. QED
    BY <1>0, <1>3, <1>4, <2>1, <2>2 DEF MoveInv, Typed
<1>6. Stages'
  BY <1>4 DEF MoveInv, Stages, InReset, InCreate, InPromote
<1>7. CreatedOnce'
  BY <1>0, <1>3, <1>4 DEF MoveInv, CreatedOnce, InCreate
<1>8. MoveRemembered'
  BY <1>0, <1>3, <1>4 DEF MoveInv, MoveRemembered, InPromote
<1>9. ResetAlone'
  BY <1>4 DEF ResetAlone, InReset
<1>10. QED
  BY <1>5, <1>6, <1>7, <1>8, <1>9 DEF MoveInv

LEMMA DisconnectKeeps ==
  ASSUME ~Overlap, MoveInv, NEW f \in Flows, NEW p \in Projects, Disconnect(f, p)
  PROVE  MoveInv'
<1>0. /\ cfg \in Profile /\ Free(f) /\ UNCHANGED <<flow, keys, pending, dev, owner, minted>>
      /\ \A q \in Own : q \in Projects
  BY DEF MoveInv, Typed, Disconnect, vault, server, Projects
<1>1. PICK d \in [Origins -> Tokens \cup {0}], b \in [Projects -> Origins \cup {"none"}] :
        cfg = [device |-> d, bind |-> b]
  BY <1>0 DEF Profile
<1>2. cfg' = [device |-> d, bind |-> [b EXCEPT ![p] = "none"]]
  BY <1>1 DEF Disconnect
<1>3. /\ cfg' \in Profile /\ cfg'.device = cfg.device
      /\ \A q \in Projects : cfg'.bind[q] = IF q = p THEN "none" ELSE cfg.bind[q]
  BY <1>1, <1>2 DEF Profile
<1>4. \A g \in Flows : ~InReset(g)
  BY <1>0, FreeFlow
<1>5. Typed'
  BY <1>0, <1>3 DEF MoveInv, Typed
<1>6. Stages'
  BY <1>0 DEF MoveInv, Stages, InReset, InCreate, InPromote
<1>7. CreatedOnce'
  <2>1. \A q \in Own : cfg'.bind[q] = "local" => owner'["local"][q] # 0
    BY <1>0, <1>3 DEF MoveInv, CreatedOnce
  <2>2. \A g \in Flows : InCreate(g) => flow[g].p \in Projects
    BY <1>0 DEF MoveInv, Stages
  <2>3. QED
    BY <1>0, <1>3, <2>1, <2>2 DEF MoveInv, CreatedOnce, InCreate, InPromote
<1>8. MoveRemembered'
  <2>1. \A g \in Flows : InPromote(g) => flow[g].p \in Projects
    BY <1>0 DEF MoveInv, Stages
  <2>2. QED
    BY <1>0, <1>3, <2>1 DEF MoveInv, MoveRemembered, InPromote
<1>9. ResetAlone'
  BY <1>0, <1>4 DEF ResetAlone, InReset
<1>10. QED
  BY <1>5, <1>6, <1>7, <1>8, <1>9 DEF MoveInv

\* The credential of a move is stored where no other is.
LEMMA StorePendingKeeps ==
  ASSUME MoveInv, NEW f \in Flows, StorePending(f)
  PROVE  MoveInv'
<1>0. /\ flow \in [Flows -> FlowRecord] /\ pending \in [Own -> 0..minted]
      /\ flow[f].pc = "pending" /\ InPromote(f) /\ f = "desktop" /\ flow[f].kind = "promote"
      /\ flow[f].p \in Own /\ flow[f].t \in 0..minted /\ pending[flow[f].p] = 0
      /\ UNCHANGED <<cfg, keys, dev, owner, minted>> /\ "call" \in PCs
  <2>1. flow \in [Flows -> FlowRecord] /\ pending \in [Own -> 0..minted] /\ flow[f].pc = "pending"
        /\ flow[f].t \in 0..minted /\ UNCHANGED <<cfg, keys, dev, owner, minted>>
    BY DEF MoveInv, Typed, StorePending, At, server, PutPending
  <2>2. InPromote(f) /\ f = "desktop" /\ flow[f].p \in Own /\ flow[f].kind = "promote"
    BY <2>1 DEF MoveInv, Typed, Stages, InReset, InCreate, InPromote, FlowRecord, Kinds
  <2>3. QED
    BY <2>1, <2>2 DEF MoveInv, MoveRemembered, PCs
<1>1. CASE PutPending(flow[f].p, flow[f].t, FALSE) /\ End(f)
  BY <1>0, <1>1, EndKeeps DEF PutPending, Aside, MoveInv, Typed
<1>2. CASE PutPending(flow[f].p, flow[f].t, TRUE) /\ Go(f, "call")
  <2>0. PICK p \in Own, t \in 0..minted : flow[f].p = p /\ flow[f].t = t
    BY <1>0
  <2>1. pending' = [pending EXCEPT ![p] = t]
    BY <1>2, <2>0 DEF PutPending
  <2>2. /\ pending' \in [Own -> 0..minted] /\ pending'[p] = t
        /\ \A q \in Own : q # p => pending'[q] = pending[q]
    BY <1>0, <2>1
  <2>3. /\ flow' \in [Flows -> FlowRecord]
        /\ flow'[f].pc = "call" /\ flow'[f].kind = "promote"
        /\ flow'[f].o = flow[f].o /\ flow'[f].p = p /\ flow'[f].t = t
        /\ flow'[f].first = flow[f].first
        /\ \A g \in Flows : g # f => flow'[g] = flow[g]
    BY <1>0, <1>2, <2>0, GoEffect
  <2>4. Typed'
    BY <1>0, <2>2, <2>3 DEF MoveInv, Typed
  <2>5. Stages'
    BY <1>0, <2>0, <2>3 DEF MoveInv, Stages, InReset, InCreate, InPromote
  <2>6. CreatedOnce'
    <3>1. \A g \in Flows : InCreate(g)' => InCreate(g) /\ flow'[g] = flow[g]
      BY <2>3 DEF InCreate
    <3>2. \A g \in Flows : InPromote(g)' => InPromote(g) /\ flow'[g].p = flow[g].p
      BY <1>0, <2>0, <2>3 DEF InPromote
    <3>3. CreatedOnce /\ UNCHANGED <<cfg, owner>>
      BY <1>0 DEF MoveInv
    <3>4. \A p1 \in Own : cfg'.bind[p1] = "local" => owner'["local"][p1] # 0
      BY <3>3 DEF CreatedOnce
    <3>5. \A g \in Flows : InCreate(g)' =>
            /\ flow'[g].pc \in {"call", "bootstrap", "store", "register"} => cfg'.bind[flow'[g].p] = "none"
            /\ flow'[g].pc = "call" => \A o \in Origins : owner'[o][flow'[g].p] = 0
            /\ \A o \in Origins : flow'[g].pc \in {"bootstrap", "store", "register"} =>
                  (o = flow'[g].o <=> owner'[o][flow'[g].p] # 0)
      BY <3>1, <3>3 DEF CreatedOnce
    <3>6. \A g, h \in Flows : InCreate(g)' /\ InCreate(h)' /\ flow'[g].p = flow'[h].p => g = h
      BY <3>1, <3>3 DEF CreatedOnce
    <3>7. \A g, h \in Flows :
            InCreate(g)' /\ flow'[g].pc \in {"call", "bootstrap", "store", "register"} /\ InPromote(h)' =>
              flow'[g].p # flow'[h].p
      BY <3>1, <3>2, <3>3 DEF CreatedOnce
    <3>8. QED
      BY <3>4, <3>5, <3>6, <3>7 DEF CreatedOnce
  <2>7. MoveRemembered'
    <3>1. \A g \in Flows : InPromote(g)' => g = f
      BY <1>0, <2>3 DEF InPromote, MoveInv, Stages
    <3>2. MoveRemembered /\ UNCHANGED <<cfg, owner>> /\ flow[f].p = p /\ pending[p] = 0 /\ InPromote(f)
      BY <1>0, <2>0 DEF MoveInv
    <3>3. /\ owner'["local"][p] # 0 /\ pending'[p] = t
          /\ flow'[f].p = p /\ flow'[f].t = t /\ flow'[f].pc = "call"
      BY <2>2, <2>3, <3>2 DEF MoveRemembered
    <3>4. \A g \in Flows : InPromote(g)' =>
            /\ owner'["local"][flow'[g].p] # 0
            /\ flow'[g].pc = "pending" => pending'[flow'[g].p] = 0
            /\ flow'[g].pc # "pending" => pending'[flow'[g].p] = flow'[g].t
            /\ flow'[g].pc \in {"bootstrap", "store", "rebind", "unpend"} => owner'["team"][flow'[g].p] # 0
            /\ flow'[g].pc = "unpend" => cfg'.bind[flow'[g].p] # "local"
      BY <3>1, <3>3
    <3>5. \A q \in Own : cfg'.bind[q] = "local" /\ owner'["team"][q] # 0 => pending'[q] = owner'["team"][q]
      BY <2>2, <3>2 DEF MoveRemembered
    <3>6. QED
      BY <3>4, <3>5 DEF MoveRemembered
  <2>8. ResetAlone'
    BY <1>0, <2>3 DEF MoveInv, ResetAlone, InReset, InPromote
  <2>9. QED
    BY <2>4, <2>5, <2>6, <2>7, <2>8 DEF MoveInv
<1>3. QED
  BY <1>1, <1>2 DEF StorePending

\* The credential of a move is deleted when the Project is local no more.
LEMMA UnpendKeeps ==
  ASSUME MoveInv, NEW f \in Flows, Unpend(f)
  PROVE  MoveInv'
<1>0. /\ flow \in [Flows -> FlowRecord] /\ pending \in [Own -> 0..minted]
      /\ InPromote(f) /\ f = "desktop"
      /\ flow[f].p \in Own /\ cfg.bind[flow[f].p] # "local"
      /\ End(f) /\ UNCHANGED <<cfg, keys, dev, owner, minted>> /\ 0 \in 0..minted
  <2>1. flow \in [Flows -> FlowRecord] /\ pending \in [Own -> 0..minted] /\ flow[f].pc = "unpend"
        /\ End(f) /\ UNCHANGED <<cfg, keys, dev, owner, minted>> /\ 0 \in 0..minted
    BY Counted DEF MoveInv, Typed, Unpend, At, server, DeletePending
  <2>2. InPromote(f) /\ f = "desktop" /\ flow[f].p \in Own
    BY <2>1 DEF MoveInv, Typed, Stages, InReset, InCreate, InPromote, FlowRecord, Kinds
  <2>3. QED
    BY <2>1, <2>2 DEF MoveInv, MoveRemembered
<1>1. PICK p \in Own : flow[f].p = p
  BY <1>0
<1>2. /\ pending' \in [Own -> 0..minted]
      /\ \A q \in Own : q # p => pending'[q] = pending[q]
  BY <1>0, <1>1 DEF Unpend, DeletePending
<1>3. /\ flow' \in [Flows -> FlowRecord]
      /\ flow'[f] = NoFlow /\ flow'[f].kind = "none" /\ flow'[f].pc = "idle" /\ flow'[f].t = 0
      /\ \A g \in Flows : g # f => flow'[g] = flow[g]
  BY <1>0, EndEffect, NoFlowTyped
<1>4. Typed'
  BY <1>0, <1>2, <1>3 DEF MoveInv, Typed
<1>5. Stages'
  BY <1>3 DEF MoveInv, Stages, InReset, InCreate, InPromote
<1>6. CreatedOnce'
  BY <1>0, <1>3 DEF MoveInv, CreatedOnce, InCreate, InPromote
<1>7. MoveRemembered'
  <2>1. \A g \in Flows : ~InPromote(g)'
    BY <1>0, <1>3 DEF InPromote, MoveInv, Stages
  <2>2. QED
    BY <1>0, <1>1, <1>2, <2>1 DEF MoveInv, MoveRemembered
<1>8. ResetAlone'
  BY <1>0, <1>3 DEF MoveInv, ResetAlone, InReset
<1>9. QED
  BY <1>4, <1>5, <1>6, <1>7, <1>8 DEF MoveInv

-----------------------------------------------------------------------------
\* Every step of Next.

\* The stages and the kinds of the flows they belong to.
LEMMA StageKind ==
  ASSUME MoveInv, NEW f \in Flows
  PROVE  /\ flow[f].pc \in {"call", "bootstrap", "store"} => flow[f].kind \in {"create", "join", "promote"}
         /\ flow[f].pc \in {"register", "delete", "revoke"} => flow[f].kind \in {"create", "join"}
         /\ flow[f].pc \in {"rebind", "unpend", "pending"} => InPromote(f)
         /\ flow[f].pc \in {"check", "forget", "save"} => InReset(f)
         /\ InPromote(f) => flow[f].first
         /\ flow[f].kind \in {"create", "join", "promote"} => flow[f].t \in Tokens
<1>1. flow[f].kind \in Kinds /\ flow[f].t \in 0..minted /\ minted \in Nat /\ minted <= Cardinality(Tokens)
  BY Counted DEF MoveInv, Typed, FlowRecord
<1>2. flow[f].kind \in {"create", "join", "promote"} => flow[f].t # 0
  BY DEF MoveInv, Stages, InPromote
<1>3. flow[f].kind \in {"create", "join", "promote"} => flow[f].t \in Tokens
  BY <1>1, <1>2, TokenCount
<1>4. QED
  BY <1>1, <1>3 DEF Kinds, MoveInv, Stages, InReset, InCreate, InPromote

LEMMA CallStepKeeps ==
  ASSUME MoveInv, NEW f \in Flows,
         Create(f) \/ CreateAdditional(f) \/ Join(f) \/ JoinAdditional(f) \/ Promote(f)
  PROVE  MoveInv'
<1>0. flow[f].kind \in {"create", "join", "promote"} /\ At(f, "call")
      /\ UNCHANGED <<cfg, keys, pending, minted>>
      /\ dev \in [Tokens -> {"none", "live", "revoked"}] /\ keys \subseteq Tokens
  BY DEF Create, CreateAdditional, Join, JoinAdditional, Promote, Exchange, vault, MoveInv, Typed
<1>1. CASE End(f) /\ UNCHANGED server
  BY <1>0, <1>1, EndKeeps DEF server, Aside
<1>2. CASE /\ Go(f, "bootstrap") \/ End(f)
           /\ flow[f].kind # "join" /\ CreateProject(flow[f].o, flow[f].p, flow[f].t)
  <2>1. dev' \in [Tokens -> {"none", "live", "revoked"}]
    BY <1>0, <1>2 DEF CreateProject
  <2>2. owner' = IF owner[flow[f].o][flow[f].p] = 0
                   THEN [owner EXCEPT ![flow[f].o][flow[f].p] = flow[f].t] ELSE owner
    BY <1>2 DEF CreateProject
  <2>3. QED
    BY <1>0, <1>2, <2>1, <2>2, CallKeeps
<1>3. CASE /\ Go(f, "bootstrap") \/ End(f)
           /\ flow[f].kind = "join" /\ Redeem(flow[f].t)
  <2>1. dev' \in [Tokens -> {"none", "live", "revoked"}] /\ owner' = owner
    BY <1>0, <1>3 DEF Redeem
  <2>2. QED
    BY <1>0, <1>3, <2>1, CallKeeps
<1>4. QED
  BY <1>1, <1>2, <1>3 DEF Create, CreateAdditional, Join, JoinAdditional, Promote, Exchange

LEMMA EnrollStepKeeps ==
  ASSUME MoveInv, NEW f \in Flows,
         Bootstrap(f) \/ Store(f) \/ Register(f) \/ DeleteKey(f) \/ RevokeDevice(f)
  PROVE  MoveInv'
<1>0. dev \in [Tokens -> {"none", "live", "revoked"}] /\ keys \subseteq Tokens
  BY DEF MoveInv, Typed
<1>1. CASE Bootstrap(f)
  <2>1. Aside
    BY <1>0, <1>1 DEF Bootstrap, Aside, vault, server
  <2>2. CASE End(f)
    BY <2>1, <2>2, EndKeeps
  <2>3. CASE Go(f, IF flow[f].first THEN "store" ELSE "register")
    <3> DEFINE next == IF flow[f].first THEN "store" ELSE "register"
    <3>1. Quiet(f, next)
      BY <1>1, StageKind DEF Bootstrap, At, Quiet, InPromote
    <3>2. Go(f, next)
      BY <2>3
    <3> HIDE DEF next
    <3>3. QED
      BY <2>1, <3>1, <3>2, GoKeeps
  <2>4. QED
    BY <1>1, <2>2, <2>3 DEF Bootstrap
<1>2. CASE Store(f)
  <2>1. Aside
    BY <1>0, <1>2, StageKind DEF Store, At, PutDevice, Aside, server
  <2>2. CASE End(f)
    BY <2>1, <2>2, EndKeeps
  <2>3. CASE Go(f, IF flow[f].kind = "promote" THEN "rebind" ELSE "register")
    <3> DEFINE next == IF flow[f].kind = "promote" THEN "rebind" ELSE "register"
    <3>1. Quiet(f, next)
      BY <1>2, StageKind DEF Store, At, Quiet, InPromote
    <3>2. Go(f, next)
      BY <2>3
    <3> HIDE DEF next
    <3>3. QED
      BY <2>1, <3>1, <3>2, GoKeeps
  <2>4. CASE flow[f].kind # "promote" /\ Go(f, "revoke")
    <3>1. Quiet(f, "revoke")
      BY <1>2, <2>4, StageKind DEF Store, At, Quiet
    <3>2. QED
      BY <2>1, <2>4, <3>1, GoKeeps
  <2>5. QED
    BY <1>2, <2>2, <2>3, <2>4 DEF Store
<1>3. CASE Register(f)
  <2>0. At(f, "register") /\ UNCHANGED <<keys, pending, owner, dev, minted>>
    BY <1>3 DEF Register, vault, server
  <2>1. CASE cfg' = Bound(f)
    <3>1. Go(f, "delete") \/ End(f)
      BY <1>3 DEF Register, RollBack
    <3>2. QED
      BY <2>0, <2>1, <3>1, RegisterKeeps
  <2>2. CASE UNCHANGED cfg /\ RollBack(f)
    <3>1. Aside
      BY <1>0, <2>0, <2>2 DEF Aside
    <3>2. Quiet(f, "delete")
      BY <2>0, StageKind DEF At, Quiet
    <3>3. QED
      BY <2>2, <3>1, <3>2, EndKeeps, GoKeeps DEF RollBack
  <2>3. QED
    BY <1>3, <2>1, <2>2 DEF Register
<1>4. CASE DeleteKey(f)
  <2>1. Aside
    BY <1>0, <1>4 DEF DeleteKey, DeleteDevice, Aside, server
  <2>2. Quiet(f, "revoke") /\ Go(f, "revoke")
    BY <1>4, StageKind DEF DeleteKey, At, Quiet
  <2>3. QED
    BY <2>1, <2>2, GoKeeps
<1>5. CASE RevokeDevice(f)
  <2>1. Aside /\ End(f)
    BY <1>0, <1>5 DEF RevokeDevice, vault, Aside
  <2>2. QED
    BY <2>1, EndKeeps
<1>6. QED
  BY <1>1, <1>2, <1>3, <1>4, <1>5

LEMMA ResetStepKeeps ==
  ASSUME MoveInv, NEW f \in Flows,
         Rebind(f) \/ CredentialState(f) \/ Forget(f)
  PROVE  MoveInv'
<1>0. dev \in [Tokens -> {"none", "live", "revoked"}] /\ keys \subseteq Tokens
  BY DEF MoveInv, Typed
<1>1. CASE Rebind(f)
  <2>0. At(f, "rebind") /\ UNCHANGED <<keys, pending, owner, dev, minted>>
    BY <1>1 DEF Rebind, vault, server
  <2>1. CASE UNCHANGED cfg /\ End(f)
    BY <1>0, <2>0, <2>1, EndKeeps DEF Aside
  <2>2. CASE /\ cfg' = Bound(f) /\ cfg.bind[flow[f].p] \notin {"none", "team"}
             /\ Go(f, "unpend") \/ End(f)
    BY <2>0, <2>2, RebindKeeps
  <2>3. QED
    BY <1>1, <2>1, <2>2 DEF Rebind
<1>2. CASE CredentialState(f)
  <2>1. Aside
    BY <1>0, <1>2 DEF CredentialState, Get, Aside, server
  <2>2. Quiet(f, "forget")
    BY <1>2, StageKind DEF CredentialState, At, Quiet
  <2>3. Go(f, "forget") \/ End(f)
    BY <1>2 DEF CredentialState
  <2>4. QED
    BY <2>1, <2>2, <2>3, EndKeeps, GoKeeps
<1>3. CASE Forget(f)
  <2>1. Aside
    BY <1>0, <1>3 DEF Forget, DeleteDevice, Aside, server
  <2>2. Quiet(f, "save") /\ Go(f, "save")
    BY <1>3, StageKind DEF Forget, At, Quiet
  <2>3. QED
    BY <2>1, <2>2, GoKeeps
<1>4. QED
  BY <1>1, <1>2, <1>3

LEMMA MoveStep ==
  ASSUME ~Overlap, ~Unread, MoveInv, [Next]_vars
  PROVE  MoveInv'
<1>0. /\ dev \in [Tokens -> {"none", "live", "revoked"}] /\ keys \subseteq Tokens
      /\ "desktop" \in Flows /\ "cli" \in Flows
  BY DEF MoveInv, Typed, Flows
<1>1. CASE UNCHANGED vars \/ ServiceStartsOrStops \/ KeyringLocks \/ \E t \in Tokens : OwnerRevokes(t)
  <2>1. Aside /\ UNCHANGED flow
    BY <1>0, <1>1 DEF vars, vault, server, ServiceStartsOrStops, KeyringLocks, Lock, OwnerRevokes, Aside
  <2>2. QED
    BY <2>1, FlowsSame
<1>2. CASE AddProject
  BY <1>0, <1>2, CreateStarts, JoinStarts DEF AddProject
<1>3. CASE CreateCommand \/ ConnectCommand
  BY <1>0, <1>3, CreateStarts, JoinStarts DEF CreateCommand, ConnectCommand
<1>4. ASSUME NEW f \in Flows, Step(f)
      PROVE  MoveInv'
  BY <1>4, StorePendingKeeps, CallStepKeeps, EnrollStepKeeps, ResetStepKeeps, UnpendKeeps, SaveResetKeeps DEF Step
<1>5. ASSUME NEW f \in Flows, CallFails(f) \/ ProcessEnds(f)
      PROVE  MoveInv'
  <2>1. Aside /\ End(f)
    BY <1>0, <1>5 DEF CallFails, ProcessEnds, vault, server, Aside
  <2>2. QED
    BY <2>1, EndKeeps
<1>6. ASSUME NEW f \in Flows, NEW p \in Projects, Disconnect(f, p)
      PROVE  MoveInv'
  BY <1>6, DisconnectKeeps
<1>7. ASSUME NEW o \in Origins, ResetEnrollment(o) \/ ResetCommand(o)
      PROVE  MoveInv'
  BY <1>0, <1>7, ResetStarts DEF ResetEnrollment, ResetCommand
<1>8. ASSUME NEW p \in Own, StartPromote(p)
      PROVE  MoveInv'
  BY <1>8, PromoteStarts
<1>9. QED
  BY <1>1, <1>2, <1>3, <1>4, <1>5, <1>6, <1>7, <1>8 DEF Next

LEMMA MoveInit == Init => MoveInv
<1> SUFFICES ASSUME Init PROVE MoveInv
  OBVIOUS
<1>1. /\ \A o \in Origins : cfg.device[o] = 0
      /\ \A p \in Projects : cfg.bind[p] = "none"
      /\ \A f \in Flows : flow[f] = NoFlow
      /\ \A p \in Own : p \in Projects
  BY DEF Init, EmptyProfile, Projects
<1>2. Typed
  BY <1>1, TokenCount, EmptyProfileTyped, NoFlowTyped DEF Init, Typed
<1>3. Stages /\ CreatedOnce /\ MoveRemembered /\ ResetAlone
  BY <1>1, NoFlowTyped DEF Init, Stages, CreatedOnce, MoveRemembered, ResetAlone, InReset, InCreate, InPromote
<1>4. QED
  BY <1>2, <1>3 DEF MoveInv

\* The desktop application, the commands and the service keep to MoveInv as long
\* as no reset runs beside a flow and no read of a stored credential fails.
LEMMA MoveInvariant ==
  ASSUME ~Overlap, ~Unread
  PROVE  Spec => []MoveInv
<1>1. MoveInv /\ [Next]_vars => MoveInv'
  BY MoveStep
<1>2. QED
  BY MoveInit, <1>1, PTL DEF Spec

\* "The Project would be stranded permanently" (Promote): a Project that exists on
\* the team server while the profile still has it as a local one is one whose
\* credential is still stored for the move, whichever call failed, whichever
\* answer was lost and whenever the process ended, for every number of Projects.
THEOREM MoveNeverStrands ==
  ASSUME ~Overlap, ~Unread
  PROVE  Spec => []MovedProjectReachable
<1>1. MoveInv => MovedProjectReachable
  BY DEF MoveInv, MoveRemembered, MovedProjectReachable
<1>2. QED
  BY <1>1, MoveInvariant, PTL

-----------------------------------------------------------------------------
\* The device of a first enrollment stays its own.

LEMMA EnrollingHasToken ==
  ASSUME MoveInv, NEW f \in Flows, Enrolling(f)
  PROVE  flow[f].t # 0
  BY DEF MoveInv, Stages, Enrolling

\* Flows go on or end, and what the profile and the moves' credentials newly name
\* is no device of an enrollment that is still under way.
LEMMA OwnDeviceKept ==
  ASSUME MoveInv, OwnDevice,
         \A g \in Flows :
           \/ flow'[g] = NoFlow
           \/ flow'[g].t = flow[g].t /\ flow'[g].kind = flow[g].kind /\ flow'[g].first = flow[g].first,
         \A o \in Origins :
           \/ cfg'.device[o] \in {cfg.device[o], 0}
           \/ \E g \in Flows : cfg'.device[o] = flow[g].t /\ ~Enrolling(g)',
         \A p \in Own :
           \/ pending'[p] \in {pending[p], 0}
           \/ \E g \in Flows : pending'[p] = flow[g].t /\ ~Enrolling(g)'
  PROVE  OwnDevice'
<1> SUFFICES ASSUME NEW f \in Flows, Enrolling(f)'
             PROVE  /\ \A o \in Origins : cfg'.device[o] # flow'[f].t
                    /\ \A p \in Own : pending'[p] # flow'[f].t
                    /\ \A g \in Flows : flow'[g].t = flow'[f].t => g = f
  BY DEF OwnDevice
<1>1. Enrolling(f) /\ flow'[f].t = flow[f].t /\ flow[f].t # 0
  BY NoFlowTyped, EnrollingHasToken DEF Enrolling
<1>2. \A g \in Flows : flow[g].t = flow[f].t => g = f
  BY <1>1 DEF OwnDevice
<1>3. \A o \in Origins : cfg'.device[o] # flow'[f].t
  BY <1>1, <1>2 DEF OwnDevice
<1>4. \A p \in Own : pending'[p] # flow'[f].t
  BY <1>1, <1>2 DEF OwnDevice
<1>5. \A g \in Flows : flow'[g].t = flow'[f].t => g = f
  BY <1>1, <1>2, NoFlowTyped
<1>6. QED
  BY <1>3, <1>4, <1>5

\* A flow begins with a device nothing else names, or, if it is no first
\* enrollment, with one that is named already.
LEMMA OwnDeviceBegins ==
  ASSUME MoveInv, OwnDevice, NEW f \in Flows,
         \A g \in Flows : g # f => flow'[g] = flow[g],
         UNCHANGED <<cfg, pending>>,
         \/ flow'[f].t = minted + 1
         \/ /\ ~Enrolling(f)'
            /\ \/ \E o \in Origins : flow'[f].t = cfg.device[o]
               \/ \E p \in Own : flow'[f].t = pending[p]
  PROVE  OwnDevice'
<1>1. /\ minted \in Nat /\ \A o \in Origins : cfg.device[o] \in 0..minted
      /\ \A p \in Own : pending[p] \in 0..minted
      /\ \A g \in Flows : flow[g].t \in 0..minted
  BY Counted DEF MoveInv, Typed
<1>2. /\ \A o \in Origins : cfg.device[o] # minted + 1
      /\ \A p \in Own : pending[p] # minted + 1
      /\ \A g \in Flows : flow[g].t # minted + 1
  BY <1>1
<1> SUFFICES ASSUME NEW e \in Flows, Enrolling(e)'
             PROVE  /\ \A o \in Origins : cfg'.device[o] # flow'[e].t
                    /\ \A p \in Own : pending'[p] # flow'[e].t
                    /\ \A g \in Flows : flow'[g].t = flow'[e].t => g = e
  BY DEF OwnDevice
<1>3. CASE e = f
  BY <1>2, <1>3
<1>4. CASE e # f
  <2>1. Enrolling(e) /\ flow'[e].t = flow[e].t
    BY <1>4 DEF Enrolling
  <2>2. flow'[f].t # flow[e].t
    BY <1>2, <2>1 DEF OwnDevice
  <2>3. QED
    BY <1>4, <2>1, <2>2 DEF OwnDevice
<1>5. QED
  BY <1>3, <1>4

LEMMA MintIsOwn ==
  ASSUME MoveInv, DeviceInv, NEW f \in Flows, NEW kind \in {"create", "join"},
         NEW o \in Origins, NEW p \in Projects,
         Mint(f, kind, o, p) \/ DeviceToken(f, kind, o, p), UNCHANGED cfg
  PROVE  /\ OwnDevice'
         /\ flow'[f].kind = kind /\ flow'[f].pc = "call"
         /\ \A g \in Flows : g # f => flow'[g] = flow[g]
<1>0. flow \in [Flows -> FlowRecord] /\ "call" \in PCs /\ kind \in Kinds /\ OwnDevice
      /\ minted \in Nat /\ minted + 1 \in Nat
  BY Counted DEF MoveInv, Typed, PCs, Kinds, DeviceInv
<1>1. CASE Mint(f, kind, o, p)
  <2>1. Begin(f, "call", kind, o, p, minted + 1, TRUE) /\ UNCHANGED pending
    BY <1>1 DEF Mint, vault
  <2>2. /\ flow'[f].pc = "call" /\ flow'[f].kind = kind /\ flow'[f].t = minted + 1
        /\ \A g \in Flows : g # f => flow'[g] = flow[g]
    BY <1>0, <2>1, BeginEffect
  <2>3. QED
    BY <1>0, <2>1, <2>2, OwnDeviceBegins
<1>2. CASE DeviceToken(f, kind, o, p)
  <2>0. cfg.device[o] \in Nat
    BY <1>0 DEF MoveInv, Typed
  <2>1. PICK t \in Nat, first \in BOOLEAN :
          ~first /\ t = cfg.device[o] /\ Begin(f, "call", kind, o, p, t, first) /\ UNCHANGED pending
    BY <1>2, <2>0 DEF DeviceToken, Get
  <2>2. /\ flow'[f].pc = "call" /\ flow'[f].kind = kind /\ flow'[f].t = cfg.device[o]
        /\ ~flow'[f].first
        /\ \A g \in Flows : g # f => flow'[g] = flow[g]
    <3>1. Begin(f, "call", kind, o, p, t, first)
      BY <2>1
    <3>2. /\ flow'[f].pc = "call" /\ flow'[f].kind = kind /\ flow'[f].t = t /\ flow'[f].first = first
          /\ \A g \in Flows : g # f => flow'[g] = flow[g]
      BY <1>0, <3>1, BeginEffect
    <3>3. QED
      BY <2>1, <3>2
  <2>3. ~Enrolling(f)'
    BY <2>2 DEF Enrolling
  <2>4. QED
    BY <1>0, <2>1, <2>2, <2>3, OwnDeviceBegins
<1>3. QED
  BY <1>1, <1>2

\* A flow that is under way goes to its next stage or ends.
LEMMA StepGoesOn ==
  ASSUME MoveInv, NEW f \in Flows, Step(f) \/ CallFails(f) \/ ProcessEnds(f)
  PROVE  End(f) \/ \E pc \in PCs : Go(f, pc)
<1>1. CASE Create(f) \/ CreateAdditional(f) \/ Join(f) \/ JoinAdditional(f) \/ Promote(f)
  BY <1>1 DEF Create, CreateAdditional, Join, JoinAdditional, Promote, Exchange, PCs
<1>2. CASE StorePending(f) \/ Rebind(f) \/ Unpend(f) \/ CredentialState(f) \/ Forget(f) \/ SaveReset(f)
  BY <1>2 DEF StorePending, Rebind, Unpend, CredentialState, Forget, SaveReset, PCs
<1>3. CASE Bootstrap(f)
  BY <1>3 DEF Bootstrap, PCs
<1>4. CASE Store(f)
  BY <1>4 DEF Store, PCs
<1>5. CASE Register(f) \/ DeleteKey(f) \/ RevokeDevice(f) \/ CallFails(f) \/ ProcessEnds(f)
  BY <1>5 DEF Register, RollBack, DeleteKey, RevokeDevice, CallFails, ProcessEnds, PCs
<1>6. QED
  BY <1>1, <1>2, <1>3, <1>4, <1>5 DEF Step

LEMMA StepFlows ==
  ASSUME MoveInv, NEW f \in Flows, Step(f) \/ CallFails(f) \/ ProcessEnds(f)
  PROVE  /\ \A g \in Flows : g # f => flow'[g] = flow[g]
         /\ \/ flow'[f] = NoFlow
            \/ flow'[f].t = flow[f].t /\ flow'[f].kind = flow[f].kind /\ flow'[f].first = flow[f].first
<1>1. flow \in [Flows -> FlowRecord]
  BY DEF MoveInv, Typed
<1>2. QED
  BY <1>1, StepGoesOn, GoEffect, EndEffect

\* What a step newly names: the device of the flow that takes it, which then is
\* no first enrollment any more.
LEMMA StepNames ==
  ASSUME ~LostReply, MoveInv, NEW f \in Flows, Step(f) \/ CallFails(f) \/ ProcessEnds(f)
  PROVE  /\ \A o \in Origins :
              \/ cfg'.device[o] \in {cfg.device[o], 0}
              \/ cfg'.device[o] = flow[f].t /\ ~Enrolling(f)'
         /\ \A p \in Own :
              \/ pending'[p] \in {pending[p], 0}
              \/ pending'[p] = flow[f].t /\ ~Enrolling(f)'
<1>0. /\ flow \in [Flows -> FlowRecord] /\ cfg \in Profile /\ pending \in [Own -> 0..minted]
  BY DEF MoveInv, Typed
<1>1. CASE UNCHANGED <<cfg, pending>>
  BY <1>1
<1>2. InPromote(f) => ~Enrolling(f)'
  BY <1>0, StepFlows, NoFlowTyped DEF InPromote, Enrolling
<1>3. CASE Register(f)
  <2>1. CASE cfg' = Bound(f) /\ End(f)
    <3>1. flow[f].o \in Origins /\ flow[f].p \in Projects /\ flow[f].t \in Tokens
      <4>1. flow[f].kind \in {"create", "join"} /\ flow[f].t \in Tokens
        BY <1>3, StageKind DEF Register, At
      <4>2. QED
        BY <4>1 DEF MoveInv, Stages, InCreate, Origins, Projects
    <3>2. \A o \in Origins : cfg'.device[o] = IF o = flow[f].o THEN flow[f].t ELSE cfg.device[o]
      BY <1>0, <2>1, <3>1, BoundEffect
    <3>3. ~Enrolling(f)'
      BY <1>0, <2>1, EndEffect, NoFlowTyped DEF Enrolling
    <3>4. pending' = pending
      BY <1>3 DEF Register, vault
    <3>5. QED
      BY <3>2, <3>3, <3>4
  <2>2. CASE cfg' = cfg
    BY <1>3, <2>2 DEF Register, vault
  <2>3. QED
    BY <1>3, <2>1, <2>2 DEF Register
<1>4. CASE Rebind(f)
  <2>1. InPromote(f) /\ flow[f].t \in Tokens /\ pending' = pending
    BY <1>4, StageKind DEF Rebind, At, vault, InPromote
  <2>2. flow[f].o \in Origins /\ flow[f].p \in Projects
    BY <2>1 DEF MoveInv, Stages, Origins, Projects
  <2>3. CASE cfg' = Bound(f)
    <3>1. \A o \in Origins : cfg'.device[o] = IF o = flow[f].o THEN flow[f].t ELSE cfg.device[o]
      BY <1>0, <2>1, <2>2, <2>3, BoundEffect
    <3>2. QED
      BY <1>2, <2>1, <3>1
  <2>4. CASE cfg' = cfg
    BY <2>1, <2>4
  <2>5. QED
    BY <1>4, <2>3, <2>4 DEF Rebind
<1>5. CASE SaveReset(f)
  <2>1. InReset(f) /\ flow[f].cfg = cfg
    BY <1>5, StageKind DEF SaveReset, At, MoveInv, ResetAlone
  <2>2. cfg'.device = [cfg.device EXCEPT ![flow[f].o] = 0] /\ pending' = pending
    BY <1>5, <2>1 DEF SaveReset, vault
  <2>3. cfg.device \in [Origins -> Tokens \cup {0}]
    BY <1>0 DEF Profile
  <2>4. QED
    BY <2>2, <2>3
<1>6. CASE StorePending(f)
  <2>1. InPromote(f) /\ cfg' = cfg
    BY <1>6, StageKind DEF StorePending, At
  <2>2. pending' = pending \/ pending' = [pending EXCEPT ![flow[f].p] = flow[f].t]
    BY <1>6 DEF StorePending, PutPending
  <2>3. QED
    BY <1>0, <1>2, <2>1, <2>2
<1>7. CASE Unpend(f)
  <2>1. cfg' = cfg /\ (pending' = pending \/ pending' = [pending EXCEPT ![flow[f].p] = 0])
    BY <1>7 DEF Unpend, DeletePending
  <2>2. QED
    BY <1>0, <2>1
<1>8. CASE CallFails(f) \/ ProcessEnds(f) \/ Bootstrap(f) \/ RevokeDevice(f)
  BY <1>1, <1>8 DEF CallFails, ProcessEnds, Bootstrap, RevokeDevice, vault
<1>9. CASE Create(f) \/ CreateAdditional(f) \/ Join(f) \/ JoinAdditional(f) \/ Promote(f)
  BY <1>1, <1>9 DEF Create, CreateAdditional, Join, JoinAdditional, Promote, Exchange, vault
<1>10. CASE Store(f) \/ DeleteKey(f) \/ Forget(f) \/ CredentialState(f)
  BY <1>1, <1>10 DEF Store, PutDevice, DeleteKey, Forget, DeleteDevice, CredentialState, Get
<1>11. QED
  BY <1>3, <1>4, <1>5, <1>6, <1>7, <1>8, <1>9, <1>10 DEF Step

LEMMA StepRuns ==
  ASSUME NEW f \in Flows, Step(f) \/ CallFails(f) \/ ProcessEnds(f)
  PROVE  flow[f].pc # "idle"
<1>1. CASE Create(f) \/ CreateAdditional(f) \/ Join(f) \/ JoinAdditional(f) \/ Promote(f)
  BY <1>1 DEF Create, CreateAdditional, Join, JoinAdditional, Promote, Exchange, At
<1>2. CASE StorePending(f) \/ Rebind(f) \/ Unpend(f) \/ CredentialState(f) \/ Forget(f) \/ SaveReset(f)
  BY <1>2 DEF StorePending, Rebind, Unpend, CredentialState, Forget, SaveReset, At
<1>3. CASE Bootstrap(f) \/ Store(f) \/ Register(f) \/ DeleteKey(f) \/ RevokeDevice(f) \/ CallFails(f) \/ ProcessEnds(f)
  BY <1>3 DEF Bootstrap, Store, Register, DeleteKey, RevokeDevice, CallFails, ProcessEnds, At
<1>4. QED
  BY <1>1, <1>2, <1>3 DEF Step

LEMMA RollsBackOwnKept ==
  ASSUME MoveInv, RollsBackOwn, NEW f \in Flows, Step(f) \/ CallFails(f) \/ ProcessEnds(f)
  PROVE  RollsBackOwn'
<1>0. flow \in [Flows -> FlowRecord]
  BY DEF MoveInv, Typed
<1>1. flow'[f].pc \in {"store", "delete", "revoke"} => flow'[f].first
  <2>1. CASE End(f)
    BY <1>0, <2>1, EndEffect, NoFlowTyped
  <2>2. ASSUME NEW pc \in PCs, Go(f, pc), pc \in {"store", "delete", "revoke"} => flow[f].first
        PROVE  flow'[f].pc \in {"store", "delete", "revoke"} => flow'[f].first
    BY <1>0, <2>2, GoEffect
  <2>3. ASSUME Go(f, "bootstrap") \/ Go(f, "call") \/ Go(f, "unpend") \/ Go(f, "forget") \/ Go(f, "save")
        PROVE  flow'[f].pc \in {"store", "delete", "revoke"} => flow'[f].first
    BY <1>0, <2>3, GoEffect DEF PCs
  <2>4. CASE Create(f) \/ CreateAdditional(f) \/ Join(f) \/ JoinAdditional(f) \/ Promote(f)
    BY <2>1, <2>3, <2>4 DEF Create, CreateAdditional, Join, JoinAdditional, Promote, Exchange
  <2>5. CASE StorePending(f) \/ Rebind(f) \/ Unpend(f) \/ CredentialState(f) \/ Forget(f) \/ SaveReset(f)
    BY <2>1, <2>3, <2>5 DEF StorePending, Rebind, Unpend, CredentialState, Forget, SaveReset
  <2>6. CASE CallFails(f) \/ ProcessEnds(f) \/ RevokeDevice(f)
    BY <2>1, <2>6 DEF CallFails, ProcessEnds, RevokeDevice
  <2>7. CASE Bootstrap(f)
    <3>1. End(f) \/ (flow[f].first /\ Go(f, "store")) \/ Go(f, "register")
      BY <2>7 DEF Bootstrap
    <3>2. QED
      BY <2>1, <2>2, <3>1 DEF PCs
  <2>8. CASE Store(f)
    <3>1. flow[f].first
      BY <2>8 DEF Store, At, RollsBackOwn
    <3>2. End(f) \/ Go(f, "rebind") \/ Go(f, "register") \/ Go(f, "revoke")
      BY <2>8 DEF Store
    <3>3. QED
      BY <2>1, <2>2, <3>1, <3>2 DEF PCs
  <2>9. CASE Register(f)
    <3>1. End(f) \/ (flow[f].first /\ Go(f, "delete"))
      BY <2>9 DEF Register, RollBack
    <3>2. QED
      BY <2>1, <2>2, <3>1 DEF PCs
  <2>10. CASE DeleteKey(f)
    <3>1. flow[f].first /\ Go(f, "revoke")
      BY <2>10 DEF DeleteKey, At, RollsBackOwn
    <3>2. QED
      BY <2>2, <3>1 DEF PCs
  <2>11. QED
    BY <2>4, <2>5, <2>6, <2>7, <2>8, <2>9, <2>10 DEF Step
<1>2. \A g \in Flows : g # f => flow'[g] = flow[g]
  BY StepFlows
<1>3. QED
  BY <1>1, <1>2 DEF RollsBackOwn

\* A reset that was not forced learns that its credential is gone or refused,
\* and nothing else runs that could change it.
LEMMA ResetRejectedKept ==
  ASSUME ~Unread, MoveInv, ResetRejected, NEW f \in Flows, Step(f) \/ CallFails(f) \/ ProcessEnds(f)
  PROVE  ResetRejected'
<1>0. flow \in [Flows -> FlowRecord]
  BY DEF MoveInv, Typed
<1> SUFFICES ASSUME NEW g \in Flows, flow'[g].kind = "reset", flow'[g].pc = "forget"
             PROVE  flow'[g].t \notin keys' \/ dev'[flow'[g].t] # "live"
  BY DEF ResetRejected
<1>1. g = f
  <2>1. SUFFICES ASSUME g # f PROVE FALSE
    OBVIOUS
  <2>2. flow'[g] = flow[g] /\ InReset(g)
    BY <2>1, StepFlows DEF InReset
  <2>3. QED
    BY <2>1, <2>2, StepRuns DEF MoveInv, ResetAlone
<1>2. flow[f].kind = "reset" /\ flow'[f].t = flow[f].t
  BY <1>1, StepFlows, NoFlowTyped
<1>3. flow[f].pc \in {"check", "forget", "save"}
  BY <1>2 DEF MoveInv, Stages, InReset
<1>4. CredentialState(f)
  <2>1. ~End(f)
    BY <1>0, <1>1, EndEffect, NoFlowTyped
  <2>2. ~Go(f, "save")
    BY <1>0, <1>1, GoEffect DEF PCs
  <2>3. ~(Forget(f) \/ SaveReset(f) \/ CallFails(f) \/ ProcessEnds(f))
    BY <2>1, <2>2 DEF Forget, SaveReset, CallFails, ProcessEnds
  <2>4. ~(Create(f) \/ CreateAdditional(f) \/ Join(f) \/ JoinAdditional(f) \/ Promote(f))
    BY <1>2 DEF Create, CreateAdditional, Join, JoinAdditional, Promote
  <2>5. ~(StorePending(f) \/ Bootstrap(f) \/ Store(f) \/ Register(f) \/ DeleteKey(f) \/ RevokeDevice(f)
          \/ Rebind(f) \/ Unpend(f))
    BY <1>3 DEF StorePending, Bootstrap, Store, Register, DeleteKey, RevokeDevice, Rebind, Unpend, At
  <2>6. QED
    BY <2>3, <2>4, <2>5 DEF Step
<1>5. UNCHANGED <<keys, dev>>
  BY <1>4 DEF CredentialState, Get, server
<1>6. flow[f].t \notin keys \/ dev[flow[f].t] # "live"
  <2>1. ~End(f)
    BY <1>0, <1>1, EndEffect, NoFlowTyped
  <2>2. QED
    BY <1>2, <1>4, <2>1 DEF CredentialState, Rejected
<1>7. QED
  BY <1>1, <1>2, <1>5, <1>6

\* A flow that starts is at no stage that stores, rolls back or forgets.
LEMMA StartKeeps ==
  ASSUME DeviceInv, NEW f \in Flows, OwnDevice',
         \A g \in Flows : g # f => flow'[g] = flow[g],
         flow'[f].pc \in {"call", "pending", "check"}, UNCHANGED <<keys, dev>>
  PROVE  DeviceInv'
  BY DEF DeviceInv, RollsBackOwn, ResetRejected

LEMMA NewFlowKeeps ==
  ASSUME MoveInv, DeviceInv, NEW f \in Flows,
         (\E o \in Origins, p \in Own : CreateOnNewBackend(f, o, p)) \/ JoinOnNewBackend(f)
  PROVE  DeviceInv'
<1>1. /\ \E kind \in {"create", "join"}, o \in Origins, p \in Projects :
           Mint(f, kind, o, p) \/ DeviceToken(f, kind, o, p)
      /\ UNCHANGED <<cfg, dev>>
  <2>1. CASE \E o \in Origins, p \in Own : CreateOnNewBackend(f, o, p)
    <3>1. PICK o \in Origins, p \in Own : CreateOnNewBackend(f, o, p)
      BY <2>1
    <3>2. p \in Projects
      BY DEF Projects
    <3>3. QED
      BY <3>1, <3>2 DEF CreateOnNewBackend, server
  <2>2. CASE JoinOnNewBackend(f)
    <3>1. "team" \in Origins /\ Shared \in Projects
      BY DEF Origins, Projects
    <3>2. QED
      BY <2>2, <3>1 DEF JoinOnNewBackend, server
  <2>3. QED
    BY <2>1, <2>2
<1>2. PICK kind \in {"create", "join"}, o \in Origins, p \in Projects :
        Mint(f, kind, o, p) \/ DeviceToken(f, kind, o, p)
  BY <1>1
<1>3. /\ OwnDevice' /\ flow'[f].pc = "call"
      /\ \A g \in Flows : g # f => flow'[g] = flow[g]
  BY <1>1, <1>2, MintIsOwn
<1>4. UNCHANGED keys
  BY <1>2, MintOrReuse
<1>5. QED
  BY <1>1, <1>3, <1>4, StartKeeps

LEMMA PromoteStartKeeps ==
  ASSUME MoveInv, DeviceInv, NEW p \in Own, StartPromote(p)
  PROVE  DeviceInv'
<1>1. PICK f \in Flows : f = "desktop"
  BY DEF Flows
<1>2. UNCHANGED <<cfg, keys, pending, dev>>
  BY DEF StartPromote, Get, server
<1>3. flow \in [Flows -> FlowRecord] /\ pending[p] \in Nat /\ minted + 1 \in Nat
      /\ p \in Projects /\ "team" \in Origins
  BY Counted DEF MoveInv, Typed, Projects, Origins
<1>4. PICK pc \in {"call", "pending"}, t \in Nat, first \in BOOLEAN :
        Begin(f, pc, "promote", "team", p, t, first) /\ (t = pending[p] \/ t = minted + 1)
  BY <1>1, <1>3 DEF StartPromote
<1>5. /\ flow'[f].pc = pc /\ flow'[f].kind = "promote" /\ flow'[f].t = t
      /\ \A g \in Flows : g # f => flow'[g] = flow[g]
  <2>1. pc \in PCs /\ "promote" \in Kinds
    BY DEF PCs, Kinds
  <2>2. Begin(f, pc, "promote", "team", p, t, first)
    BY <1>4
  <2>3. QED
    BY <1>3, <2>1, <2>2, BeginEffect
<1>6. ~Enrolling(f)'
  BY <1>5 DEF Enrolling
<1>7. OwnDevice'
  BY <1>2, <1>4, <1>5, <1>6, OwnDeviceBegins DEF DeviceInv
<1>8. QED
  BY <1>2, <1>5, <1>7, StartKeeps

LEMMA ResetStartKeeps ==
  ASSUME MoveInv, DeviceInv, NEW f \in Flows, NEW kind \in {"reset", "force"}, NEW o \in Origins,
         Reset(f, kind, o)
  PROVE  DeviceInv'
<1>1. UNCHANGED <<cfg, keys, pending, dev>>
  BY DEF Reset, vault, server
<1>2. flow \in [Flows -> FlowRecord]
  BY DEF MoveInv, Typed
<1>3. /\ flow'[f].pc = "check" /\ flow'[f].kind = kind /\ flow'[f].t = cfg.device[o]
      /\ \A g \in Flows : g # f => flow'[g] = flow[g]
  BY <1>2 DEF Reset
<1>4. ~Enrolling(f)'
  BY <1>3 DEF Enrolling
<1>5. OwnDevice'
  BY <1>1, <1>3, <1>4, OwnDeviceBegins DEF DeviceInv
<1>6. QED
  BY <1>1, <1>3, <1>5, StartKeeps

LEMMA DeviceStep ==
  ASSUME ~Overlap, ~LostReply, ~Unread, MoveInv, DeviceInv, [Next]_vars
  PROVE  DeviceInv'
<1>0. "desktop" \in Flows /\ "cli" \in Flows
  BY DEF Flows
<1>1. CASE UNCHANGED vars \/ ServiceStartsOrStops \/ KeyringLocks
  <2>1. UNCHANGED <<cfg, keys, pending, dev, flow>>
    BY <1>1 DEF vars, vault, server, ServiceStartsOrStops, KeyringLocks, Lock
  <2>2. QED
    BY <2>1 DEF DeviceInv, OwnDevice, RollsBackOwn, ResetRejected, Enrolling
<1>2. ASSUME NEW t \in Tokens, OwnerRevokes(t)
      PROVE  DeviceInv'
  <2>1. UNCHANGED <<cfg, keys, pending, flow>> /\ dev' = [dev EXCEPT ![t] = "revoked"]
        /\ dev \in [Tokens -> {"none", "live", "revoked"}]
    BY <1>2 DEF OwnerRevokes, vault, MoveInv, Typed
  <2>2. \A f \in Flows : dev[flow[f].t] # "live" /\ flow[f].t \in keys => dev'[flow[f].t] # "live"
    BY <2>1 DEF MoveInv, Typed
  <2>3. QED
    BY <2>1, <2>2 DEF DeviceInv, OwnDevice, RollsBackOwn, ResetRejected, Enrolling
<1>3. CASE AddProject \/ CreateCommand \/ ConnectCommand
  BY <1>0, <1>3, NewFlowKeeps DEF AddProject, CreateCommand, ConnectCommand
<1>4. ASSUME NEW f \in Flows, Step(f) \/ CallFails(f) \/ ProcessEnds(f)
      PROVE  DeviceInv'
  <2>1. RollsBackOwn' /\ ResetRejected'
    BY <1>4, RollsBackOwnKept, ResetRejectedKept DEF DeviceInv
  <2>2. OwnDevice'
    BY <1>4, StepFlows, StepNames, OwnDeviceKept DEF DeviceInv
  <2>3. QED
    BY <2>1, <2>2 DEF DeviceInv
<1>5. ASSUME NEW f \in Flows, NEW p \in Projects, Disconnect(f, p)
      PROVE  DeviceInv'
  <2>1. UNCHANGED <<keys, pending, dev, flow>> /\ cfg'.device = cfg.device
    BY <1>5 DEF Disconnect, vault, server, MoveInv, Typed, Profile
  <2>2. QED
    BY <2>1 DEF DeviceInv, OwnDevice, RollsBackOwn, ResetRejected, Enrolling
<1>6. ASSUME NEW o \in Origins, ResetEnrollment(o) \/ ResetCommand(o)
      PROVE  DeviceInv'
  BY <1>0, <1>6, ResetStartKeeps DEF ResetEnrollment, ResetCommand
<1>7. ASSUME NEW p \in Own, StartPromote(p)
      PROVE  DeviceInv'
  BY <1>7, PromoteStartKeeps
<1>8. QED
  BY <1>1, <1>2, <1>3, <1>4, <1>5, <1>6, <1>7 DEF Next

LEMMA DeviceInit == Init => DeviceInv
  BY NoFlowTyped DEF Init, DeviceInv, OwnDevice, RollsBackOwn, ResetRejected, Enrolling

LEMMA DeviceInvariant ==
  ASSUME ~Overlap, ~LostReply, ~Unread
  PROVE  Spec => [](MoveInv /\ DeviceInv)
<1>1. MoveInv /\ DeviceInv /\ [Next]_vars => (MoveInv /\ DeviceInv)'
  BY MoveStep, DeviceStep
<1>2. QED
  BY MoveInit, DeviceInit, <1>1, PTL DEF Spec

-----------------------------------------------------------------------------
\* Devices in the profile.

\* A step of a flow deletes the credential or revokes the device of a first
\* enrollment that is rolled back, or deletes the one a reset found refused.
LEMMA StepSpares ==
  ASSUME MoveInv, DeviceInv, NEW f \in Flows, flow[f].kind # "force",
         Step(f) \/ CallFails(f) \/ ProcessEnds(f),
         NEW o \in Origins, cfg.device[o] # 0, cfg.device[o] \in keys, dev[cfg.device[o]] = "live"
  PROVE  cfg.device[o] \in keys' /\ dev'[cfg.device[o]] = "live"
<1> DEFINE d == cfg.device[o]
<1>0. d \in Tokens /\ dev \in [Tokens -> {"none", "live", "revoked"}] /\ d \in keys /\ dev[d] = "live"
  BY DEF MoveInv, Typed
<1>1. flow[f].pc \in {"delete", "revoke"} => flow[f].t # d
  BY StageKind DEF DeviceInv, RollsBackOwn, OwnDevice, Enrolling
<1>2. flow[f].pc = "forget" => flow[f].t # d
  BY <1>0, StageKind DEF DeviceInv, ResetRejected, InReset
<1> HIDE DEF d
<1>3. CASE UNCHANGED <<keys, dev>>
  BY <1>0, <1>3 DEF d
<1>4. CASE DeleteKey(f) \/ Forget(f)
  <2>1. UNCHANGED dev /\ (keys' = keys \/ keys' = keys \ {flow[f].t}) /\ flow[f].t # d
    BY <1>1, <1>2, <1>4 DEF DeleteKey, Forget, DeleteDevice, At, server
  <2>2. QED
    BY <1>0, <2>1 DEF d
<1>5. CASE RevokeDevice(f)
  <2>1. UNCHANGED keys /\ (dev' = dev \/ dev' = [dev EXCEPT ![flow[f].t] = "revoked"]) /\ flow[f].t # d
    BY <1>1, <1>5 DEF RevokeDevice, At, vault
  <2>2. QED
    BY <1>0, <2>1 DEF d
<1>6. CASE Create(f) \/ CreateAdditional(f) \/ Join(f) \/ JoinAdditional(f) \/ Promote(f)
  <2>1. UNCHANGED keys /\ (dev' = dev \/ dev' = [dev EXCEPT ![flow[f].t] = "live"])
    BY <1>6 DEF Create, CreateAdditional, Join, JoinAdditional, Promote, Exchange, CreateProject, Redeem, vault, server
  <2>2. QED
    BY <1>0, <2>1 DEF d
<1>7. CASE Store(f)
  <2>1. UNCHANGED dev /\ keys \subseteq keys'
    BY <1>7 DEF Store, PutDevice, server
  <2>2. QED
    BY <1>0, <2>1 DEF d
<1>8. CASE StorePending(f) \/ Unpend(f) \/ Rebind(f) \/ CredentialState(f) \/ SaveReset(f) \/ Register(f) \/ Bootstrap(f)
           \/ CallFails(f) \/ ProcessEnds(f)
  BY <1>3, <1>8 DEF StorePending, PutPending, Unpend, DeletePending, Rebind, CredentialState, Get, SaveReset,
                     Register, Bootstrap, CallFails, ProcessEnds, vault, server
<1>9. QED
  BY <1>4, <1>5, <1>6, <1>7, <1>8 DEF Step

\* "a local registration failure must never revoke the shared device and strand
\* its existing Projects" (JoinAdditional), and a reset "refuses unless that
\* backend has actually rejected the credential": no flow deletes the credential
\* or revokes the device of a backend in the profile that still accepts it, unless
\* it was told to, for every number of Projects, identities and faults.
THEOREM SharedDeviceNeverLost ==
  ASSUME ~Overlap, ~LostReply, ~Unread
  PROVE  Spec => SharedDeviceKept
<1>1. MoveInv /\ DeviceInv /\ [Next]_vars =>
        [flow' # flow /\ (\A f \in Flows : flow[f].kind # "force") =>
           \A o \in Origins :
             LET d == cfg.device[o]
             IN d # 0 /\ d \in keys /\ dev[d] = "live" => d \in keys' /\ dev'[d] = "live"]_vars
  <2> SUFFICES ASSUME MoveInv, DeviceInv, Next, flow' # flow, \A f \in Flows : flow[f].kind # "force",
                      NEW o \in Origins,
                      cfg.device[o] # 0, cfg.device[o] \in keys, dev[cfg.device[o]] = "live"
               PROVE  cfg.device[o] \in keys' /\ dev'[cfg.device[o]] = "live"
    OBVIOUS
  <2>1. CASE \E f \in Flows : Step(f) \/ CallFails(f) \/ ProcessEnds(f)
    BY <2>1, StepSpares
  <2>2. CASE UNCHANGED <<keys, dev>>
    BY <2>2
  <2>3. CASE \E f \in Flows, x \in Origins, p \in Projects :
               CreateOnNewBackend(f, x, p) \/ JoinOnNewBackend(f)
    BY <2>2, <2>3 DEF CreateOnNewBackend, JoinOnNewBackend, Mint, DeviceToken, Get, vault, server
  <2>4. CASE AddProject \/ CreateCommand \/ ConnectCommand
    <3>1. "desktop" \in Flows /\ "cli" \in Flows /\ "team" \in Origins /\ Shared \in Projects
          /\ \A p \in Own : p \in Projects
      BY DEF Flows, Origins, Projects
    <3>2. QED
      BY <2>3, <2>4, <3>1 DEF AddProject, CreateCommand, ConnectCommand
  <2>5. CASE \/ \E x \in Origins : ResetEnrollment(x) \/ ResetCommand(x)
             \/ \E p \in Own : StartPromote(p)
             \/ \E f \in Flows, p \in Projects : Disconnect(f, p)
             \/ ServiceStartsOrStops
    BY <2>2, <2>5 DEF ResetEnrollment, ResetCommand, Reset, StartPromote, Get, Disconnect, ServiceStartsOrStops, vault, server
  <2>6. CASE KeyringLocks \/ \E t \in Tokens : OwnerRevokes(t)
    BY <2>6 DEF KeyringLocks, OwnerRevokes
  <2>7. QED
    BY <2>1, <2>4, <2>5, <2>6 DEF Next
<1>2. QED
  BY <1>1, DeviceInvariant, PTL DEF Spec, SharedDeviceKept
=============================================================================
