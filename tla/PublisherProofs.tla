-------------------------- MODULE PublisherProofs ---------------------------
(***************************************************************************)
(* Safety of the publisher, for every number of workspaces, Projects and   *)
(* backends, every batch size and every bound: the state is well typed;    *)
(* UpsertWorkspace never meets a unique key of event_queue at boot; what    *)
(* the store counts as delivered was accepted by the backend it was queued *)
(* for; no window, retry, pass that ends half way, crash, move or removal   *)
(* lets the cursor of a workspace pass an event that is still to be         *)
(* published; events arrive in an order that makes no backend ignore one    *)
(* the device still counts as queued or delivered; and the publisher, its   *)
(* store, the network and the backends implement Outbox.  As long as no     *)
(* move is cut short, no registration is forgotten, and as long as no       *)
(* Project moves, an event is quarantined only for a reason of its own.     *)
(***************************************************************************)
EXTENDS PublisherRefines, WellFoundedInduction, FiniteSetTheorems, TLAPS

-----------------------------------------------------------------------------
\* The inductive invariant Sound: TypeOK, and a backend or a workspace named
\* wherever the next step needs one.
ConfigOK(c) == \A w \in c.ws : BackendForWorkspace(c, w) \in Backends

OpOK ==
  /\ op.kind \in {"add", "addCommit", "rebind", "rebindUpsert"} => op.target \in Backends
  /\ op.kind \in {"add", "addCommit", "rebindUpsert"} => op.ws \in Workspaces

RowOK == \A w \in Workspaces : row[w].present => row[w].backend \in Backends

FlushOK ==
  /\ pc \in PCs \ {"idle", "loaded", "pick"} => via \in Backends /\ cur \in Workspaces
  /\ pc \in {"singleAck", "singleQuarantine"} => win # {}

\* The sequences the device or the network holds of one workspace are bounded,
\* so the backend's new lastProjectedSequence is the maximum of a bounded set.
Limited(S) == \A w \in Workspaces : \E n \in Nat : \A e \in S : e.ws = w => e.seq <= n

InFlight == {e \in Event : \E m \in late : e \in m.batch}

StoreOK == StoreTypeOK /\ RowOK /\ Limited(queue)

AdminOK == AdminTypeOK /\ ConfigOK(cfgDisk) /\ ConfigOK(cfgMem) /\ OpOK

PassOK == FlushTypeOK /\ FlushOK /\ Limited(todo) /\ Limited(win) /\ Limited(InFlight)

Sound == StoreOK /\ BackendTypeOK /\ AdminOK /\ PassOK

-----------------------------------------------------------------------------
\* Numbers and sets of events.

\* A non-empty set of naturals has a least element.
LEMMA LeastNatural ==
  ASSUME NEW T, T \subseteq Nat, T # {}
  PROVE  \E m \in T : \A n \in T : m <= n
<1>1. PICK m \in T : \A n \in T : ~(<<n, m>> \in OpToRel(<, Nat))
  BY WFMin, NatLessThanWellFounded
<1>2. \A n \in T : ~(n < m)
  BY <1>1 DEF OpToRel
<1> QED
  BY <1>2

\* A non-empty bounded set of naturals has a greatest element.
LEMMA GreatestNatural ==
  ASSUME NEW T, T \subseteq Nat, T # {}, NEW b \in Nat, \A n \in T : n <= b
  PROVE  \E m \in T : \A n \in T : n <= m
<1> DEFINE U == {u \in Nat : \A n \in T : n <= u}
<1>1. PICK m \in U : \A u \in U : m <= u
  <2>1. U \subseteq Nat /\ b \in U
    OBVIOUS
  <2> QED
    BY <2>1, LeastNatural
<1>2. m \in T
  <2> SUFFICES ASSUME m \notin T PROVE FALSE
    OBVIOUS
  <2>1. \A n \in T : n < m
    BY <1>1
  <2>2. m # 0
    <3>1. PICK k \in T : k \in Nat
      OBVIOUS
    <3> QED
      BY <3>1, <2>1
  <2>3. m - 1 \in U
    BY <2>1, <2>2, <1>1
  <2> QED
    BY <2>3, <1>1
<1> QED
  BY <1>1, <1>2

\* FirstOf picks the event of the set with the least sequence.
LEMMA FirstOfInSet ==
  ASSUME NEW S, S \subseteq Event, S # {}
  PROVE  FirstOf(S) \in S /\ \A f \in S : FirstOf(S).seq <= f.seq
<1> DEFINE T == {e.seq : e \in S}
<1>1. T \subseteq Nat /\ T # {}
  BY DEF Event
<1>2. PICK m \in T : \A n \in T : m <= n
  BY <1>1, LeastNatural
<1>3. \E e \in S : \A f \in S : e.seq <= f.seq
  BY <1>2
<1> QED
  BY <1>3 DEF FirstOf

\* A subset of a bounded set of events is bounded.
LEMMA LimitedSubset == ASSUME NEW S, Limited(S), NEW T, T \subseteq S PROVE Limited(T)
<1> SUFFICES ASSUME NEW w \in Workspaces
             PROVE  \E n \in Nat : \A e \in T : e.ws = w => e.seq <= n
  BY DEF Limited
<1>1. PICK n \in Nat : \A e \in S : e.ws = w => e.seq <= n
  BY DEF Limited
<1> QED
  BY <1>1

\* So is the union of two bounded sets.
LEMMA LimitedUnion ==
  ASSUME NEW S, S \subseteq Event, Limited(S), NEW T, T \subseteq Event, Limited(T)
  PROVE  Limited(S \cup T)
<1> SUFFICES ASSUME NEW w \in Workspaces
             PROVE  \E n \in Nat : \A e \in S \cup T : e.ws = w => e.seq <= n
  BY DEF Limited
<1>1. PICK m \in Nat : \A e \in S : e.ws = w => e.seq <= m
  BY DEF Limited
<1>2. PICK n \in Nat : \A e \in T : e.ws = w => e.seq <= n
  BY DEF Limited
<1>3. m + n \in Nat
  OBVIOUS
<1>4. \A e \in S \cup T : e.ws = w => e.seq <= m + n
  BY <1>1, <1>2 DEF Event
<1> QED
  BY <1>3, <1>4

\* The new lastProjectedSequence is the old one, or a sequence of the batch, and
\* the largest of them.
LEMMA NewHighType ==
  ASSUME BackendTypeOK, NEW b \in Backends, NEW w \in Workspaces,
         NEW batch, batch \subseteq Event, Limited(batch)
  PROVE  /\ NewHigh(b, w, batch) \in Nat
         /\ \/ NewHigh(b, w, batch) = high[b][w]
            \/ \E e \in Fresh(b, batch) : e.ws = w /\ e.seq = NewHigh(b, w, batch)
         /\ high[b][w] <= NewHigh(b, w, batch)
         /\ \A e \in Fresh(b, batch) : e.ws = w /\ e.kind # "mft" => e.seq <= NewHigh(b, w, batch)
<1> DEFINE mine == {f \in Fresh(b, batch) : f.ws = w /\ f.kind # "mft"}
           seqs == {high[b][w]} \cup {e.seq : e \in mine}
<1>1. high[b][w] \in Nat
  BY DEF BackendTypeOK
<1>2. PICK n \in Nat : \A e \in batch : e.ws = w => e.seq <= n
  BY DEF Limited
<1>3. \A e \in mine : e.seq \in Nat /\ e.seq <= n
  BY <1>2 DEF Fresh, Event
<1>4. seqs \subseteq Nat /\ seqs # {}
  BY <1>1, <1>3
<1>5. \A s \in seqs : s <= high[b][w] + n
  BY <1>1, <1>3
<1>6. high[b][w] + n \in Nat
  BY <1>1
<1>7. \E s \in seqs : \A t \in seqs : t <= s
  BY <1>4, <1>5, <1>6, GreatestNatural
<1>8. LET m == CHOOSE s \in seqs : \A t \in seqs : t <= s IN m \in seqs /\ \A t \in seqs : t <= m
  BY <1>7
<1>9. NewHigh(b, w, batch) \in seqs /\ \A t \in seqs : t <= NewHigh(b, w, batch)
  BY <1>8 DEF NewHigh
<1> QED
  BY <1>4, <1>9

\* publishEvents keeps the types of the backend's state.
LEMMA PublishEventsType ==
  ASSUME BackendTypeOK, NEW b \in Backends,
         NEW batch, batch \subseteq Event, Limited(batch),
         PublishEvents(b, batch)
  PROVE  BackendTypeOK'
<1>1. Fresh(b, batch) \subseteq Event
  BY DEF Fresh
<1>2. \A w \in Workspaces : NewHigh(b, w, batch) \in Nat
  BY NewHighType
<1>3. log' \in [Backends -> SUBSET Event]
  BY <1>1 DEF PublishEvents, BackendTypeOK
<1>4. stale' \in [Backends -> SUBSET Event]
  BY <1>1 DEF PublishEvents, BackendTypeOK
<1>5. high' \in [Backends -> [Workspaces -> Nat]]
  BY <1>2 DEF PublishEvents, BackendTypeOK
<1> QED
  BY <1>3, <1>4, <1>5 DEF PublishEvents, BackendTypeOK

-----------------------------------------------------------------------------
\* The store's transactions.

\* UpsertWorkspace keeps the store sound.
LEMMA UpsertStoreOK ==
  ASSUME StoreOK, NEW c \in Config, NEW S, S \subseteq Workspaces,
         \A w \in S : BackendForWorkspace(c, w) \in Backends,
         UpsertWorkspaces(c, S)
  PROVE  StoreOK'
<1> USE DEF StoreOK, StoreTypeOK
<1> DEFINE new == {RegistrationEvent(c, w) : w \in {v \in S : NeedsRegistration(v)}}
<1>1. \A w \in Workspaces : row[w] \in Row
  OBVIOUS
<1>2. \A w \in S : UpsertedRow(c, w) \in Row
  BY <1>1 DEF UpsertedRow, Row
<1>3. row' \in [Workspaces -> Row]
  BY <1>1, <1>2 DEF UpsertWorkspaces, Row, NoRow
<1>4. new \subseteq Event
  BY <1>1 DEF RegistrationEvent, Event, Row, Kinds
<1>5. Limited(new)
  <2> SUFFICES ASSUME NEW w \in Workspaces
               PROVE  \E n \in Nat : \A e \in new : e.ws = w => e.seq <= n
    BY DEF Limited
  <2>1. row[w].seq + 1 \in Nat
    BY <1>1 DEF Row
  <2>2. \A e \in new : e.ws = w => e.seq <= row[w].seq + 1
    BY <2>1 DEF RegistrationEvent
  <2> QED
    BY <2>1, <2>2
<1>6. queue' = queue \cup new /\ UNCHANGED <<acked, quarantined, cursor>>
  BY DEF UpsertWorkspaces
<1>7. Limited(queue \cup new)
  BY <1>4, <1>5, LimitedUnion
<1>8. Limited(queue)'
  BY <1>6, <1>7 DEF Limited
<1>9. RowOK'
  BY DEF RowOK, UpsertWorkspaces, UpsertedRow, NoRow
<1> QED
  BY <1>3, <1>4, <1>6, <1>8, <1>9

\* RebindWorkspace keeps the store sound.
LEMMA RebindStoreOK ==
  ASSUME StoreOK, NEW w \in Workspaces, NEW b \in Backends, RebindWorkspace(w, b)
  PROVE  StoreOK'
<1> USE DEF StoreOK, StoreTypeOK, RebindWorkspace, DropQueue
<1>1. row' \in [Workspaces -> Row]
  BY DEF Row
<1>2. queue' \subseteq queue
  OBVIOUS
<1>3. Limited(queue)'
  BY <1>2, LimitedSubset DEF Limited
<1>4. RowOK'
  BY DEF RowOK, Row
<1>5. acked' \subseteq queue' /\ quarantined' \subseteq queue'
  BY DEF EventsOf
<1> QED
  BY <1>1, <1>2, <1>3, <1>4, <1>5

\* DeleteWorkspace keeps the store sound.
LEMMA DeleteStoreOK ==
  ASSUME StoreOK, NEW w \in Workspaces, DeleteWorkspace(w)
  PROVE  StoreOK'
<1> USE DEF StoreOK, StoreTypeOK, DeleteWorkspace, DropQueue
<1>1. row' \in [Workspaces -> Row]
  BY DEF Row, NoRow
<1>2. queue' \subseteq queue
  OBVIOUS
<1>3. Limited(queue)'
  BY <1>2, LimitedSubset DEF Limited
<1>4. RowOK'
  BY DEF RowOK, Row, NoRow
<1>5. acked' \subseteq queue' /\ quarantined' \subseteq queue'
  BY DEF EventsOf
<1> QED
  BY <1>1, <1>2, <1>3, <1>4, <1>5

\* EnqueueEvent, PublishLifecycle and PublishManifest keep the store sound.
LEMMA EnqueueStoreOK ==
  ASSUME StoreOK, NEW w \in Workspaces, NEW kind \in Kinds, NEW k \in Nat,
         EnqueueEvents(w, kind, k)
  PROVE  StoreOK'
<1> USE DEF StoreOK, StoreTypeOK
<1> DEFINE new == {[ws |-> w, seq |-> row[w].seq + i, dev |-> row[w].backend, kind |-> kind] : i \in 1..k}
<1>1. row[w] \in Row /\ row[w].present /\ row[w].backend \in Backends
  BY DEF EnqueueEvents, RowOK
<1>2. row' \in [Workspaces -> Row]
  BY <1>1 DEF EnqueueEvents, Row
<1>3. new \subseteq Event
  BY <1>1 DEF Event, Row
<1>4. Limited(new)
  <2>1. row[w].seq + k \in Nat
    BY <1>1 DEF Row
  <2>2. \A e \in new : e.seq <= row[w].seq + k
    BY <1>1 DEF Row
  <2> QED
    BY <2>1, <2>2 DEF Limited
<1>5. queue' = queue \cup new /\ UNCHANGED <<acked, quarantined, cursor>>
  BY DEF EnqueueEvents
<1>6. Limited(queue \cup new)
  BY <1>3, <1>4, LimitedUnion
<1>7. Limited(queue)'
  BY <1>5, <1>6 DEF Limited
<1>8. RowOK'
  BY <1>1 DEF RowOK, EnqueueEvents, Row
<1> QED
  BY <1>2, <1>3, <1>5, <1>7, <1>8

\* pause and resume keep the store sound.
LEMMA PauseStoreOK ==
  ASSUME StoreOK, NEW S, NEW v \in BOOLEAN, SetPaused(S, v)
  PROVE  StoreOK'
<1> USE DEF StoreOK, StoreTypeOK, SetPaused
<1>1. row' \in [Workspaces -> Row]
  BY DEF Row
<1>2. RowOK'
  BY DEF RowOK, Row
<1> QED
  BY <1>1, <1>2 DEF Limited

\* The row Ack finds has the event's id, and is a row.
LEMMA AckRowFound ==
  ASSUME NEW e, CanAck(e)
  PROVE  AckRow(e) \in queue /\ SameId(e, AckRow(e))
BY DEF CanAck, AckRow

\* Ack keeps the store sound.
LEMMA AckStoreOK ==
  ASSUME StoreOK, NEW e, Ack(e)
  PROVE  StoreOK'
<1> USE DEF StoreOK, StoreTypeOK
<1>1. AckRow(e) \in queue
  BY AckRowFound DEF Ack
<1>2. AckRow(e).seq \in Nat
  BY <1>1 DEF Event
<1>3. \A m \in Nat : Larger(m, AckRow(e).seq) \in Nat
  BY <1>2 DEF Larger
<1>4. cursor' \in [Workspaces -> Nat]
  BY <1>3 DEF Ack
<1> QED
  BY <1>1, <1>4 DEF Ack, Limited, RowOK

\* Quarantine keeps the store sound.
LEMMA QuarantineStoreOK ==
  ASSUME StoreOK, NEW e, Quarantine(e)
  PROVE  StoreOK'
BY DEF StoreOK, StoreTypeOK, Quarantine, Limited, RowOK

-----------------------------------------------------------------------------
\* Configurations.

\* AddToConfig, RebindInConfig, RemoveProject and RemoveBackend keep every
\* workspace of the configuration bound to a backend.
LEMMA ConfigOps ==
  ASSUME NEW c \in Config, ConfigOK(c), NEW p \in Projects, NEW b \in Backends
  PROVE  /\ \A w \in Workspaces : AddToConfig(c, w, b) \in Config /\ ConfigOK(AddToConfig(c, w, b))
         /\ RebindInConfig(c, p, b) \in Config /\ ConfigOK(RebindInConfig(c, p, b))
         /\ RemoveProject(c, p) \in Config /\ ConfigOK(RemoveProject(c, p))
         /\ RemoveBackend(c, b) \in Config /\ ConfigOK(RemoveBackend(c, b))
<1> USE ProjectOfAssumption, BackendsAssumption
    DEF Config, ConfigOK, BackendForWorkspace, BackendForProject, UpsertBackend, BindProject
<1>1. ASSUME NEW w \in Workspaces
      PROVE  AddToConfig(c, w, b) \in Config /\ ConfigOK(AddToConfig(c, w, b))
  BY DEF AddToConfig
<1>2. RebindInConfig(c, p, b) \in Config /\ ConfigOK(RebindInConfig(c, p, b))
  BY DEF RebindInConfig
<1>3. RemoveProject(c, p) \in Config /\ ConfigOK(RemoveProject(c, p))
  BY DEF RemoveProject, WorkspacesForProject
<1>4. RemoveBackend(c, b) \in Config /\ ConfigOK(RemoveBackend(c, b))
  BY DEF RemoveBackend
<1> QED
  BY <1>1, <1>2, <1>3, <1>4

\* The empty configuration is one.
LEMMA EmptyConfigOK == EmptyConfig \in Config /\ ConfigOK(EmptyConfig)
BY DEF EmptyConfig, Config, ConfigOK

-----------------------------------------------------------------------------
\* Every step keeps the state sound.

\* A step that leaves a part of the state alone keeps that part sound.
LEMMA UnchangedParts ==
  /\ StoreOK /\ UNCHANGED storeVars => StoreOK'
  /\ BackendTypeOK /\ UNCHANGED backendVars => BackendTypeOK'
  /\ AdminOK /\ UNCHANGED adminVars => AdminOK'
  /\ PassOK /\ UNCHANGED <<flushVars, late>> => PassOK'
<1>1. StoreOK /\ UNCHANGED storeVars => StoreOK'
  BY DEF StoreOK, StoreTypeOK, RowOK, Limited, storeVars
<1>2. BackendTypeOK /\ UNCHANGED backendVars => BackendTypeOK'
  BY DEF BackendTypeOK, backendVars
<1>3. AdminOK /\ UNCHANGED adminVars => AdminOK'
  BY DEF AdminOK, AdminTypeOK, ConfigOK, OpOK, adminVars
<1>4. PassOK /\ UNCHANGED <<flushVars, late>> => PassOK'
  BY DEF PassOK, FlushTypeOK, FlushOK, Limited, InFlight, flushVars
<1> QED
  BY <1>1, <1>2, <1>3, <1>4

\* The initial state is sound.
LEMMA SoundInit == Init => Sound
<1> SUFFICES ASSUME Init PROVE Sound
  OBVIOUS
<1> USE DEF Init
<1>1. StoreOK
  BY DEF StoreOK, StoreTypeOK, StoreInit, Row, NoRow, RowOK, Limited
<1>2. BackendTypeOK
  BY DEF BackendTypeOK, BackendInit
<1>3. AdminOK
  <2>1. InitialConfig \in Config /\ ConfigOK(InitialConfig)
    BY InitialConfigAssumption DEF WellFormed, Config, ConfigOK
  <2>2. op \in Op /\ OpOK
    BY DEF NoOp, Op, OpKinds, OpOK
  <2>3. InitialConfig.ws \subseteq Workspaces /\ InitialConfig.known \subseteq Backends
    BY <2>1 DEF Config
  <2> QED
    BY <2>1, <2>2, <2>3, EmptyConfigOK DEF AdminOK, AdminTypeOK
<1>4. PassOK
  BY DEF PassOK, FlushTypeOK, FlushOK, Limited, InFlight, PCs
<1> QED
  BY <1>1, <1>2, <1>3, <1>4 DEF Sound

\* SaveConfig of a sound configuration keeps both copies sound.
LEMMA SaveConfigOK ==
  ASSUME AdminOK, NEW c \in Config, ConfigOK(c), SaveConfig(c)
  PROVE  /\ cfgDisk' \in Config /\ ConfigOK(cfgDisk)'
         /\ cfgMem' \in Config /\ ConfigOK(cfgMem)'
BY DEF AdminOK, AdminTypeOK, SaveConfig, ConfigOK

\* What an administrative call reads is a sound configuration.
LEMMA CurrentConfigOK ==
  ASSUME AdminOK
  PROVE  CurrentConfig \in Config /\ ConfigOK(CurrentConfig)
BY DEF AdminOK, AdminTypeOK, CurrentConfig

\* The administrative calls and their steps keep the configuration and the call
\* in progress sound.
LEMMA AdminCallSound == AdminOK /\ AdminCall => AdminOK'
<1> SUFFICES ASSUME AdminOK, AdminCall PROVE AdminOK'
  OBVIOUS
<1> USE DEF AdminOK, StartAdmin
<1>1. ASSUME NEW w \in Workspaces, NEW b \in Backends, AddWorkspace(w, b)
      PROVE  AdminOK'
  <2>1. AddToConfig(cfgMem, w, b) \in Config /\ ConfigOK(AddToConfig(cfgMem, w, b))
    BY ConfigOps, ProjectOfAssumption DEF AdminTypeOK
  <2>2. op' \in Op /\ OpOK'
    BY <1>1 DEF AddWorkspace, Op, OpKinds, OpOK
  <2>3. ConfigOK(cfgDisk)' /\ ConfigOK(cfgMem)'
    BY <1>1, <2>1 DEF AddWorkspace, ConfigOK
  <2> QED
    BY <1>1, <2>1, <2>2, <2>3 DEF AddWorkspace, AdminTypeOK
<1>2. ASSUME NEW w \in Workspaces, NEW b \in Backends, Register(w, b)
      PROVE  AdminOK'
  <2>1. AddToConfig(cfgDisk, w, b) \in Config /\ ConfigOK(AddToConfig(cfgDisk, w, b))
    BY ConfigOps, ProjectOfAssumption DEF AdminTypeOK
  <2>2. ConfigOK(cfgDisk)' /\ ConfigOK(cfgMem)'
    BY <1>2, <2>1 DEF Register, ConfigOK
  <2> QED
    BY <1>2, <2>1, <2>2 DEF Register, AdminTypeOK, OpOK
<1>3. ASSUME NEW p \in Projects, RemoveProjectWorkspaces(p)
      PROVE  AdminOK'
  <2>1. CurrentConfig \in Config /\ ConfigOK(CurrentConfig)
    BY CurrentConfigOK
  <2>2. BackendForProject(CurrentConfig, p) \in Backends
    BY <1>3, <2>1 DEF RemoveProjectWorkspaces, Config, BackendForProject
  <2>3. RemoveProject(CurrentConfig, p) \in Config /\ ConfigOK(RemoveProject(CurrentConfig, p))
    BY <2>1, <2>2, ConfigOps
  <2>4. SaveConfig(RemoveProject(CurrentConfig, p))
    BY <1>3 DEF RemoveProjectWorkspaces
  <2>5. /\ cfgDisk' \in Config /\ ConfigOK(cfgDisk)'
        /\ cfgMem' \in Config /\ ConfigOK(cfgMem)'
    BY <2>3, <2>4, SaveConfigOK
  <2>6. op' \in Op /\ OpOK'
    BY <1>3, <2>1 DEF RemoveProjectWorkspaces, WorkspacesForProject, Config, Op, OpKinds, OpOK
  <2> QED
    BY <1>3, <2>5, <2>6 DEF RemoveProjectWorkspaces, AdminTypeOK
<1>4. ASSUME NEW p \in Projects, NEW b \in Backends, RebindProject(p, b)
      PROVE  AdminOK'
  <2>1. CurrentConfig \in Config /\ ConfigOK(CurrentConfig)
    BY CurrentConfigOK
  <2>2. RebindInConfig(CurrentConfig, p, b) \in Config /\ ConfigOK(RebindInConfig(CurrentConfig, p, b))
    BY <2>1, ConfigOps
  <2>3. SaveConfig(RebindInConfig(CurrentConfig, p, b))
    BY <1>4 DEF RebindProject
  <2>4. /\ cfgDisk' \in Config /\ ConfigOK(cfgDisk)'
        /\ cfgMem' \in Config /\ ConfigOK(cfgMem)'
    BY <2>2, <2>3, SaveConfigOK
  <2>5. op' \in Op /\ OpOK'
    BY <1>4, <2>1 DEF RebindProject, WorkspacesForProject, Config, Op, OpKinds, OpOK
  <2> QED
    BY <1>4, <2>4, <2>5 DEF RebindProject, AdminTypeOK
<1>5. ASSUME NEW b \in Backends, ResetBackend(b)
      PROVE  AdminOK'
  <2>1. RemoveBackend(cfgDisk, b) \in Config /\ ConfigOK(RemoveBackend(cfgDisk, b))
    <3>1. CASE Projects = {}
      BY <3>1, ProjectOfAssumption, <1>5
         DEF RemoveBackend, Config, ConfigOK, AdminTypeOK, BackendForWorkspace, BackendForProject
    <3>2. CASE Projects # {}
      BY <3>2, ConfigOps DEF AdminTypeOK
    <3> QED
      BY <3>1, <3>2
  <2>2. ConfigOK(cfgDisk)' /\ ConfigOK(cfgMem)'
    BY <1>5, <2>1 DEF ResetBackend, ConfigOK
  <2> QED
    BY <1>5, <2>1, <2>2 DEF ResetBackend, AdminTypeOK, OpOK
<1> QED
  BY <1>1, <1>2, <1>3, <1>4, <1>5 DEF AdminCall

\* The store transactions of the administrative calls keep the store and the
\* call in progress sound.
LEMMA OpStepSound == StoreOK /\ AdminOK /\ OpStep => StoreOK' /\ AdminOK'
<1> SUFFICES ASSUME StoreOK, AdminOK, OpStep PROVE StoreOK' /\ AdminOK'
  OBVIOUS
<1>1. cfgDisk \in Config /\ cfgMem \in Config /\ op \in Op
  BY DEF AdminOK, AdminTypeOK
<1>2. CASE AddUpsert
  <2> DEFINE next == AddToConfig(cfgMem, op.ws, op.target)
  <2>1. op.ws \in Workspaces /\ op.target \in Backends
    BY <1>2 DEF AddUpsert, AdminOK, OpOK
  <2>2. next \in Config /\ BackendForWorkspace(next, op.ws) \in Backends
    <3>1. next \in Config
      BY <1>1, <2>1, ConfigOps, ProjectOfAssumption DEF AdminOK
    <3>2. BackendForWorkspace(next, op.ws) \in Backends
      BY <1>1, <2>1, ProjectOfAssumption
         DEF AddToConfig, BindProject, UpsertBackend, Config, BackendForWorkspace, BackendForProject
    <3> QED
      BY <3>1, <3>2
  <2>3. UpsertWorkspaces(next, {op.ws})
    BY <1>2 DEF AddUpsert
  <2>4. StoreOK'
    <3> HIDE DEF next
    <3> QED
      BY <2>1, <2>2, <2>3, UpsertStoreOK
  <2>5. AdminOK'
    BY <1>2, <2>1 DEF AddUpsert, AdminOK, AdminTypeOK, OpOK, ConfigOK, Op, OpKinds
  <2> QED
    BY <2>4, <2>5
<1>3. CASE AddCommit
  <2>1. op.ws \in Workspaces /\ op.target \in Backends
    BY <1>3 DEF AddCommit, AdminOK, OpOK
  <2>2. cfgMem' \in Config /\ ConfigOK(cfgMem)'
    BY <1>1, <1>3, <2>1, ConfigOps, ProjectOfAssumption DEF AddCommit, AdminOK, ConfigOK
  <2>3. op' \in Op /\ OpOK'
    BY <1>3 DEF AddCommit, EndOp, NoOp, Op, OpKinds, OpOK
  <2> QED
    BY <1>3, <2>2, <2>3, UnchangedParts DEF AddCommit, AdminOK, AdminTypeOK, ConfigOK
<1>4. CASE RemoveStored
  <2>1. PICK w \in op.rest : DeleteWorkspace(w) /\ op' = [op EXCEPT !.rest = @ \ {w}]
    BY <1>4 DEF RemoveStored
  <2>2. w \in Workspaces
    BY <1>1 DEF Op
  <2>3. StoreOK'
    BY <2>1, <2>2, DeleteStoreOK
  <2>4. op' \in Op /\ OpOK'
    BY <1>1, <1>4, <2>1 DEF RemoveStored, Op, OpOK
  <2> QED
    BY <1>4, <2>3, <2>4 DEF RemoveStored, AdminOK, AdminTypeOK, ConfigOK
<1>5. CASE RebindStored
  <2>1. PICK w \in op.rest :
          /\ RebindWorkspace(w, op.target)
          /\ op' = [op EXCEPT !.kind = "rebindUpsert", !.ws = w, !.rest = @ \ {w}]
    BY <1>5 DEF RebindStored
  <2>2. w \in Workspaces /\ op.target \in Backends
    BY <1>1, <1>5 DEF Op, RebindStored, AdminOK, OpOK
  <2>3. StoreOK'
    BY <2>1, <2>2, RebindStoreOK
  <2>4. op' \in Op /\ OpOK'
    BY <1>1, <2>1, <2>2 DEF Op, OpKinds, OpOK
  <2> QED
    BY <1>5, <2>3, <2>4 DEF RebindStored, AdminOK, AdminTypeOK, ConfigOK
<1>6. CASE RebindUpsert
  <2> DEFINE next == RebindInConfig(CurrentConfig, ProjectOf[op.ws], op.target)
  <2>1. op.ws \in Workspaces /\ op.target \in Backends
    BY <1>6 DEF RebindUpsert, AdminOK, OpOK
  <2>2. CurrentConfig \in Config /\ ConfigOK(CurrentConfig)
    BY CurrentConfigOK
  <2>3. next \in Config
    BY <2>1, <2>2, ConfigOps, ProjectOfAssumption
  <2>4. BackendForWorkspace(next, op.ws) \in Backends
    BY <2>1, <2>2, ProjectOfAssumption
       DEF RebindInConfig, BindProject, UpsertBackend, Config, BackendForWorkspace, BackendForProject
  <2>5. UpsertWorkspaces(next, {op.ws})
    BY <1>6 DEF RebindUpsert
  <2>6. StoreOK'
    <3> HIDE DEF next
    <3> QED
      BY <2>1, <2>3, <2>4, <2>5, UpsertStoreOK
  <2>7. op' \in Op /\ OpOK'
    BY <1>1, <1>6, <2>1 DEF RebindUpsert, Op, OpKinds, OpOK
  <2> QED
    BY <1>6, <2>6, <2>7 DEF RebindUpsert, AdminOK, AdminTypeOK, ConfigOK
<1>7. CASE RebindMissing \/ FinishOp
  <2>1. op' \in Op /\ OpOK'
    BY <1>7 DEF RebindMissing, FinishOp, EndOp, NoOp, Op, OpKinds, OpOK
  <2> QED
    BY <1>7, <2>1, UnchangedParts DEF RebindMissing, FinishOp, AdminOK, AdminTypeOK, ConfigOK
<1> QED
  BY <1>2, <1>3, <1>4, <1>5, <1>6, <1>7 DEF OpStep

\* A boot, whole or cut off, keeps the store and the configuration sound.
LEMMA BootSound == StoreOK /\ AdminOK /\ (Boot \/ BootCut) => StoreOK' /\ AdminOK'
<1> SUFFICES ASSUME StoreOK, AdminOK, Boot \/ BootCut PROVE StoreOK' /\ AdminOK'
  OBVIOUS
<1>1. cfgDisk \in Config /\ cfgDisk.ws \subseteq Workspaces
  BY DEF AdminOK, AdminTypeOK, Config
<1>2. PICK S \in SUBSET cfgDisk.ws : UpsertWorkspaces(cfgDisk, S)
  BY DEF Boot, BootCut
<1>3. StoreOK'
  BY <1>1, <1>2, UpsertStoreOK DEF AdminOK, ConfigOK
<1>4. CASE Boot
  BY <1>3, <1>4 DEF Boot, AdminOK, AdminTypeOK, ConfigOK, OpOK
<1>5. CASE BootCut
  <2>1. UNCHANGED <<up, cfgDisk, cfgMem, op, used, enrolled, admin>> /\ faults' = faults + 1
    BY <1>5 DEF BootCut
  <2> QED
    BY <1>3, <2>1 DEF AdminOK, AdminTypeOK, ConfigOK, OpOK
<1> QED
  BY <1>4, <1>5

\* The window is a part of what is left of the pass.
LEMMA WindowInTodo == Window \subseteq EventsOf(todo, cur) /\ EventsOf(todo, cur) \subseteq todo
BY DEF Window, FirstBySeq, EventsOf

\* Giving up on a backend keeps the pass sound.
LEMMA GiveUpSound ==
  ASSUME PassOK, cur \in Workspaces, GiveUpOnBackend,
         late' \subseteq [to : Backends, batch : SUBSET Event], Limited(InFlight)'
  PROVE  PassOK'
<1> USE DEF PassOK, FlushTypeOK, GiveUpOnBackend, SkipWorkspace
<1>1. todo' \subseteq todo /\ win' = {}
  OBVIOUS
<1>2. Limited(todo)' /\ Limited(win)'
  BY <1>1, LimitedSubset DEF Limited
<1>3. failed' \subseteq Backends \cup {NoBackend}
  OBVIOUS
<1> QED
  BY <1>1, <1>2, <1>3 DEF FlushOK, PCs

\* A failed request leaves the backends sound, whether it never arrived, arrived
\* and lost its reply, or is still on its way.
LEMMA TransientFailureSound ==
  ASSUME PassOK, BackendTypeOK, via \in Backends,
         NEW batch, batch \subseteq Event, Limited(batch), TransientFailure(batch)
  PROVE  /\ BackendTypeOK'
         /\ late' \subseteq [to : Backends, batch : SUBSET Event]
         /\ Limited(InFlight)'
<1> USE DEF PassOK, FlushTypeOK
<1>1. CASE UNCHANGED <<backendVars, late>>
  BY <1>1, UnchangedParts DEF Limited, InFlight
<1>2. CASE PublishEvents(via, batch) /\ UNCHANGED late
  BY <1>2, PublishEventsType DEF Limited, InFlight
<1>3. CASE late' = late \cup {[to |-> via, batch |-> batch]} /\ UNCHANGED backendVars
  <2>1. late' \subseteq [to : Backends, batch : SUBSET Event]
    BY <1>3
  <2>2. InFlight' \subseteq InFlight \cup batch
    <3> SUFFICES ASSUME NEW e \in Event, NEW m \in late', e \in m.batch
                 PROVE  e \in InFlight \cup batch
      BY DEF InFlight
    <3>1. m \in late \/ m = [to |-> via, batch |-> batch]
      BY <1>3
    <3> QED
      BY <3>1 DEF InFlight
  <2>3. InFlight \subseteq Event
    BY DEF InFlight
  <2>4. Limited(InFlight \cup batch)
    BY <2>3, LimitedUnion
  <2>5. Limited(InFlight)'
    BY <2>2, <2>4, LimitedSubset DEF Limited
  <2> QED
    BY <1>3, <2>1, <2>5, UnchangedParts
<1> QED
  BY <1>1, <1>2, <1>3 DEF TransientFailure

\* Every step of the flush pass keeps the state sound.
LEMMA FlushStepSound == Sound /\ FlushStep => Sound'
<1> SUFFICES ASSUME Sound, FlushStep PROVE Sound'
  OBVIOUS
<1> USE DEF Sound, FlushUnchanged
<1>1. AdminOK'
  BY UnchangedParts DEF FlushStep, LoadPending, LoadWorkspaces, PickSkip, PickUnconfigured,
     PickSender, FinishFlush, SendWindow, SendRejected, SendFails, Drained, AckNext, AckMissing,
     NextWindow, RetryAccepted, RetryRefused, RetryFails, RetryAck, RetryAckMissing, RetryQuarantine
<1>2. /\ todo \subseteq Event /\ win \subseteq Event /\ Limited(todo) /\ Limited(win)
      /\ queue \subseteq Event /\ Limited(queue)
  BY DEF PassOK, FlushTypeOK, StoreOK, StoreTypeOK
<1>3. ASSUME NEW T, T \subseteq todo PROVE T \subseteq Event /\ Limited(T)
  BY <1>2, <1>3, LimitedSubset
<1>4. ASSUME NEW T, T \subseteq win PROVE T \subseteq Event /\ Limited(T)
  BY <1>2, <1>4, LimitedSubset
<1>5. Window \subseteq Event /\ Limited(Window) /\ Window \subseteq todo
  BY <1>3, WindowInTodo
<1>6. win # {} => FirstOf(win) \in win /\ {FirstOf(win)} \subseteq Event /\ Limited({FirstOf(win)})
  BY <1>2, <1>4, FirstOfInSet
<1>7. CASE LoadPending
  <2>1. Pending \subseteq queue
    BY DEF Pending
  <2>2. todo' \subseteq Event /\ Limited(todo)'
    BY <1>2, <1>7, <2>1, LimitedSubset DEF LoadPending, Limited
  <2> QED
    BY <1>1, <1>7, <2>2, UnchangedParts
       DEF LoadPending, PassOK, FlushTypeOK, FlushOK, PCs, Limited, InFlight
<1>8. CASE LoadWorkspaces
  <2>1. todo' \subseteq Event /\ Limited(todo)'
    BY <1>3, <1>8 DEF LoadWorkspaces, Limited
  <2>2. snap' \in [Workspaces -> Backends \cup {NoBackend}]
    BY <1>8 DEF LoadWorkspaces, StoreOK, StoreTypeOK, Row
  <2> QED
    BY <1>1, <1>8, <2>1, <2>2, UnchangedParts
       DEF LoadWorkspaces, PassOK, FlushTypeOK, FlushOK, PCs, Limited, InFlight
<1>9. CASE PickSkip \/ PickUnconfigured \/ PickSender \/ FinishFlush \/ Drained \/ NextWindow
           \/ AckMissing \/ RetryRefused
  <2>1. StoreOK' /\ BackendTypeOK'
    BY <1>9, UnchangedParts DEF PickSkip, PickUnconfigured, PickSender, FinishFlush, Drained,
       NextWindow, AckMissing, RetryRefused
  <2>2. todo' \subseteq todo /\ win' \subseteq win /\ UNCHANGED late
    BY <1>9 DEF PickSkip, PickUnconfigured, PickSender, FinishFlush, Drained,
       NextWindow, AckMissing, RetryRefused, SkipWorkspace
  <2>3. /\ todo' \subseteq Event /\ Limited(todo)' /\ win' \subseteq Event /\ Limited(win)'
        /\ Limited(InFlight)'
    BY <2>2, <1>3, <1>4 DEF Limited, InFlight, PassOK
  <2> DEFINE Rest == /\ pc' \in PCs
                     /\ snap' \in [Workspaces -> Backends \cup {NoBackend}]
                     /\ failed' \subseteq Backends \cup {NoBackend}
                     /\ cur' \in Workspaces \cup {0}
                     /\ via' \in Backends \cup {NoBackend}
                     /\ late' \subseteq [to : Backends, batch : SUBSET Event]
                     /\ FlushOK'
  <2>4. todo # {} => NextWorkspace \in Workspaces
    <3> SUFFICES ASSUME todo # {} PROVE NextWorkspace \in Workspaces
      OBVIOUS
    <3> DEFINE T == {e.ws : e \in todo}
    <3>1. T \subseteq Workspaces /\ T # {}
      BY <1>2 DEF Event
    <3>2. \E w \in T : \A v \in T : w <= v
      BY <3>1, LeastNatural, WorkspacesAssumption
    <3>3. \E w \in T : \A e \in todo : w <= e.ws
      BY <3>2
    <3> QED
      BY <3>1, <3>3 DEF NextWorkspace
  <2>5. CASE PickSkip \/ PickUnconfigured \/ FinishFlush
    <3>1. Rest
      BY <2>4, <2>5 DEF PickSkip, PickUnconfigured, FinishFlush, PassOK, FlushTypeOK, FlushOK, PCs
    <3> QED
      BY <1>1, <2>1, <2>3, <3>1 DEF PassOK, FlushTypeOK
  <2>6. CASE PickSender
    <3>1. Sender(NextWorkspace) \in Backends
      BY <2>6 DEF PickSender, Sender, AdminOK, ConfigOK
    <3>2. Rest
      BY <2>4, <2>6, <3>1 DEF PickSender, PassOK, FlushTypeOK, FlushOK, PCs
    <3> QED
      BY <1>1, <2>1, <2>3, <3>2 DEF PassOK, FlushTypeOK
  <2>7. CASE Drained \/ NextWindow \/ AckMissing \/ RetryRefused
    <3>1. Rest
      BY <2>7 DEF Drained, NextWindow, AckMissing, RetryRefused, PassOK, FlushTypeOK, FlushOK, PCs
    <3> QED
      BY <1>1, <2>1, <2>3, <3>1 DEF PassOK, FlushTypeOK
  <2> QED
    BY <1>9, <2>5, <2>6, <2>7
<1>10. CASE SendWindow \/ SendRejected
  <2>1. via \in Backends /\ cur \in Workspaces
    BY <1>10 DEF SendWindow, SendRejected, PassOK, FlushOK, PCs
  <2>2. BackendTypeOK'
    BY <1>5, <1>10, <2>1, PublishEventsType, UnchangedParts DEF SendWindow, SendRejected
  <2>3. StoreOK'
    BY <1>10, UnchangedParts DEF SendWindow, SendRejected
  <2>4. /\ todo' = todo \ Window /\ win' = Window /\ pc' \in {"ack", "single"}
        /\ UNCHANGED <<snap, failed, cur, via, late>>
    BY <1>10 DEF SendWindow, SendRejected
  <2>5. /\ todo' \subseteq Event /\ Limited(todo)' /\ win' \subseteq Event /\ Limited(win)'
        /\ Limited(InFlight)'
    BY <1>3, <1>5, <2>4 DEF Limited, InFlight, PassOK
  <2> QED
    BY <1>1, <2>1, <2>2, <2>3, <2>4, <2>5 DEF PassOK, FlushTypeOK, FlushOK, PCs
<1>11. CASE SendFails \/ RetryFails
  <2>1. via \in Backends /\ cur \in Workspaces /\ GiveUpOnBackend /\ StoreOK'
    BY <1>11, UnchangedParts DEF SendFails, RetryFails, PassOK, FlushOK, PCs
  <2>2. PICK batch : batch \subseteq Event /\ Limited(batch) /\ TransientFailure(batch)
    BY <1>5, <1>6, <1>11 DEF SendFails, RetryFails
  <2> QED
    BY <1>1, <2>1, <2>2, TransientFailureSound, GiveUpSound
<1>12. CASE RetryAccepted
  <2>1. via \in Backends
    BY <1>12 DEF RetryAccepted, PassOK, FlushOK, PCs
  <2>2. BackendTypeOK' /\ StoreOK'
    BY <1>6, <1>12, <2>1, PublishEventsType, UnchangedParts DEF RetryAccepted
  <2> QED
    BY <1>1, <1>12, <2>2 DEF RetryAccepted, PassOK, FlushTypeOK, FlushOK, PCs, Limited, InFlight
<1>13. CASE AckNext \/ RetryAck \/ RetryQuarantine
  <2>1. StoreOK' /\ BackendTypeOK'
    BY <1>13, AckStoreOK, QuarantineStoreOK, UnchangedParts DEF AckNext, RetryAck, RetryQuarantine
  <2>2. /\ win' \subseteq win /\ pc' \in {"ack", "single"}
        /\ pc \in {"ack", "singleAck", "singleQuarantine"}
        /\ UNCHANGED <<todo, snap, failed, cur, via, late>>
    BY <1>13 DEF AckNext, RetryAck, RetryQuarantine
  <2>3. win' \subseteq Event /\ Limited(win)' /\ Limited(todo)' /\ Limited(InFlight)'
    BY <1>4, <2>2 DEF Limited, InFlight, PassOK
  <2> QED
    BY <1>1, <2>1, <2>2, <2>3 DEF PassOK, FlushTypeOK, FlushOK, PCs
<1>14. CASE RetryAckMissing
  <2>1. cur \in Workspaces /\ GiveUpOnBackend /\ StoreOK' /\ BackendTypeOK' /\ UNCHANGED late
    BY <1>14, UnchangedParts DEF RetryAckMissing, PassOK, FlushOK, PCs
  <2> QED
    BY <1>1, <2>1, GiveUpSound DEF PassOK, FlushTypeOK, Limited, InFlight
<1> QED
  BY <1>7, <1>8, <1>9, <1>10, <1>11, <1>12, <1>13, <1>14 DEF FlushStep

\* The handlers keep the state sound.
LEMMA HandlerSound == Sound /\ Handler => Sound'
<1> SUFFICES ASSUME Sound, Handler PROVE Sound'
  OBVIOUS
<1> USE DEF Sound
<1>1. UNCHANGED <<backendVars, adminVars, flushVars, late>>
  BY DEF Handler, Observe, PauseResume
<1>2. BackendTypeOK' /\ AdminOK' /\ PassOK'
  BY <1>1, UnchangedParts
<1>3. ASSUME NEW w \in Workspaces, NEW kind \in {"obs", "mft"}, NEW n \in 1..MaxBurst,
             Observe(w, kind, n)
      PROVE  StoreOK'
  <2>1. n \in Nat /\ kind \in Kinds
    BY BoundsAssumption DEF Kinds
  <2> QED
    BY <1>3, <2>1, EnqueueStoreOK DEF Observe
<1>4. ASSUME NEW S, NEW v \in BOOLEAN, PauseResume(S, v)
      PROVE  StoreOK'
  BY <1>4, PauseStoreOK DEF PauseResume
<1> QED
  BY <1>2, <1>3, <1>4 DEF Handler

\* Crashes, failing store transactions, late requests and revocations keep the
\* state sound.
LEMMA EnvironmentSound == Sound /\ Environment => Sound'
<1> SUFFICES ASSUME Sound, Environment PROVE Sound'
  OBVIOUS
<1> USE DEF Sound
<1>1. CASE Crash
  <2>1. AdminOK'
    <3>1. op' \in Op /\ OpOK'
      BY <1>1 DEF Crash, NoOp, Op, OpKinds, OpOK
    <3>2. cfgMem' \in Config /\ ConfigOK(cfgMem)'
      BY <1>1, EmptyConfigOK DEF Crash, ConfigOK
    <3>3. up' = FALSE /\ faults' = faults + 1 /\ UNCHANGED <<cfgDisk, used, enrolled, admin>>
      BY <1>1 DEF Crash
    <3>4. AdminTypeOK'
      <4>1. up' \in BOOLEAN
        BY <3>3
      <4>2. faults' \in Nat
        BY <3>3 DEF AdminOK, AdminTypeOK
      <4>3. cfgDisk' \in Config /\ used' \subseteq Workspaces /\ enrolled' \subseteq Backends /\ admin' \in Nat
        BY <3>3 DEF AdminOK, AdminTypeOK
      <4> QED
        BY <3>1, <3>2, <4>1, <4>2, <4>3 DEF AdminTypeOK
    <3>5. ConfigOK(cfgDisk)'
      BY <3>3 DEF AdminOK, ConfigOK
    <3> QED
      BY <3>1, <3>2, <3>4, <3>5 DEF AdminOK
  <2>2. PassOK'
    BY <1>1 DEF Crash, PassOK, FlushTypeOK, FlushOK, PCs, Limited, InFlight
  <2> QED
    BY <1>1, <2>1, <2>2, UnchangedParts DEF Crash
<1>2. CASE BootCut
  BY <1>2, BootSound, UnchangedParts DEF BootCut
<1>3. CASE StoreFails
  <2>1. op' \in Op /\ OpOK'
    <3>1. op \in Op
      BY DEF AdminOK, AdminTypeOK
    <3>2. CASE op' = NoOp
      BY <3>2 DEF NoOp, Op, OpKinds, OpOK
    <3>3. CASE \E w \in op.rest : op' = [op EXCEPT !.rest = @ \ {w}]
      BY <3>1, <3>3 DEF Op, OpOK, AdminOK
    <3> QED
      BY <1>3, <3>2, <3>3 DEF StoreFails, EndOp
  <2>2. cfgDisk' \in {cfgDisk, cfgMem} /\ faults' = faults + 1 /\ UNCHANGED <<up, cfgMem, used, enrolled, admin>>
    BY <1>3 DEF StoreFails
  <2>3. AdminOK'
    BY <2>1, <2>2 DEF AdminOK, AdminTypeOK, ConfigOK
  <2> QED
    BY <1>3, <2>3, UnchangedParts DEF StoreFails
<1>4. CASE FlushStoreFails
  <2>1. faults' = faults + 1 /\ UNCHANGED <<up, cfgDisk, cfgMem, op, used, enrolled, admin>>
    BY <1>4 DEF FlushStoreFails
  <2>2. AdminOK'
    BY <2>1 DEF AdminOK, AdminTypeOK, ConfigOK, OpOK
  <2>3. StoreOK' /\ BackendTypeOK' /\ UNCHANGED late
    BY <1>4, UnchangedParts DEF FlushStoreFails
  <2>4. CASE pc' = "idle" /\ todo' = {} /\ win' = {} /\ UNCHANGED <<snap, failed, cur, via>>
    BY <2>2, <2>3, <2>4 DEF PassOK, FlushTypeOK, FlushOK, PCs, Limited, InFlight
  <2>5. CASE pc \in {"singleAck", "singleQuarantine"} /\ GiveUpOnBackend
    <3>1. cur \in Workspaces
      BY <2>5 DEF PassOK, FlushOK, PCs
    <3> QED
      BY <2>2, <2>3, <2>5, <3>1, GiveUpSound DEF PassOK, FlushTypeOK, Limited, InFlight
  <2> QED
    BY <1>4, <2>4, <2>5 DEF FlushStoreFails
<1>5. CASE DeliverLate
  <2>1. PICK m \in late :
          /\ late' = late \ {m}
          /\ PublishEvents(m.to, m.batch) \/ UNCHANGED backendVars
    BY <1>5 DEF DeliverLate
  <2>2. m.to \in Backends /\ m.batch \subseteq Event
    BY DEF PassOK, FlushTypeOK
  <2>3. m.batch \subseteq InFlight
    BY <2>2 DEF InFlight
  <2>4. Limited(m.batch)
    BY <2>3, LimitedSubset DEF PassOK
  <2>5. BackendTypeOK'
    BY <2>1, <2>2, <2>4, PublishEventsType, UnchangedParts
  <2>6. UNCHANGED <<storeVars, adminVars, flushVars>>
    BY <1>5 DEF DeliverLate
  <2>7. PassOK'
    <3>1. InFlight' \subseteq InFlight
      BY <2>1 DEF InFlight
    <3>2. Limited(InFlight)'
      BY <3>1, LimitedSubset DEF PassOK, Limited
    <3> QED
      BY <2>1, <2>6, <3>2 DEF PassOK, FlushTypeOK, FlushOK, Limited, flushVars
  <2> QED
    BY <2>5, <2>6, <2>7, UnchangedParts
<1>6. ASSUME NEW p \in Projects, NEW b \in Backends, Revoke(p, b)
      PROVE  Sound'
  <2>1. BackendTypeOK'
    BY <1>6 DEF Revoke, Deny, BackendTypeOK
  <2>2. admin' = admin + 1 /\ UNCHANGED <<up, cfgDisk, cfgMem, op, used, enrolled, faults>>
    BY <1>6 DEF Revoke
  <2>3. AdminOK'
    BY <2>2 DEF AdminOK, AdminTypeOK, ConfigOK, OpOK
  <2> QED
    BY <1>6, <2>1, <2>3, UnchangedParts DEF Revoke
<1> QED
  BY <1>1, <1>2, <1>3, <1>4, <1>5, <1>6 DEF Environment

\* Every step keeps the state sound.
LEMMA SoundStep == Sound /\ [Next]_vars => Sound'
<1> SUFFICES ASSUME Sound, [Next]_vars PROVE Sound'
  OBVIOUS
<1>1. CASE Boot
  BY <1>1, BootSound, UnchangedParts DEF Boot, Sound
<1>2. CASE FlushStep
  BY <1>2, FlushStepSound
<1>3. CASE OpStep
  <2>1. UNCHANGED <<backendVars, flushVars, late>>
    BY <1>3 DEF OpStep, AddUpsert, AddCommit, RemoveStored, RebindStored, RebindUpsert,
       RebindMissing, FinishOp
  <2> QED
    BY <1>3, <2>1, OpStepSound, UnchangedParts DEF Sound
<1>4. CASE AdminCall
  <2>1. UNCHANGED <<storeVars, backendVars, flushVars, late>>
    BY <1>4 DEF AdminCall, AddWorkspace, Register, RemoveProjectWorkspaces, RebindProject, ResetBackend
  <2> QED
    BY <1>4, <2>1, AdminCallSound, UnchangedParts DEF Sound
<1>5. CASE Handler
  BY <1>5, HandlerSound
<1>6. CASE Environment
  BY <1>6, EnvironmentSound
<1>7. CASE UNCHANGED vars
  BY <1>7, UnchangedParts DEF vars, Sound
<1> QED
  BY <1>1, <1>2, <1>3, <1>4, <1>5, <1>6, <1>7 DEF Next

\* Every reachable state of the publisher is sound.
LEMMA SoundInvariant == Spec => []Sound
BY SoundInit, SoundStep, PTL DEF Spec

\* Type correctness of the whole composition, whatever the profile, the
\* backends and the bounds are.
THEOREM TypeInvariant == Spec => []TypeOK
<1>1. Sound => TypeOK
  BY DEF Sound, StoreOK, AdminOK, PassOK, TypeOK
<1> QED
  BY <1>1, SoundInvariant, PTL

-----------------------------------------------------------------------------
\* The inductive invariant, beside Sound.

\* Events the device keeps.
Kept == queue \cup todo \cup win

\* Events a backend has accepted.
Logged == {e \in Event : \E b \in Backends : e \in log[b]}

\* Events that exist: in the queue, in the memory of the flush pass, on the
\* network or at a backend.
Held == queue \cup todo \cup win \cup Logged \cup InFlight

Configured == cfgDisk.ws \cup cfgMem.ws

\* Workspaces the call in progress may still write a row for.
Active ==
  (IF op.kind \in {"add", "addCommit", "rebindUpsert"} THEN {op.ws} ELSE {})
    \cup (IF op.kind \in {"rebind", "rebindUpsert"} THEN op.rest ELSE {})

DistinctRoots(S) == \A v, w \in S : RootOf[v] = RootOf[w] => v = w

\* One root, one workspace: writing a row for a workspace never deletes the row
\* of another one that is configured.
RootsOK ==
  /\ ~up => cfgMem.ws = {} /\ op.kind \notin {"add", "addCommit"}
  /\ DistinctRoots(cfgDisk.ws)
  /\ DistinctRoots(cfgMem.ws)
  /\ \A v \in Active, w \in Configured : RootOf[v] = RootOf[w] => v = w
  /\ op.kind = "remove" => op.rest \cap Configured = {}
  /\ op.kind \in {"addCommit", "rebindUpsert"} => row[op.ws].present

\* Whatever exists of a workspace, its id was minted.
UsedOK ==
  /\ Configured \subseteq used
  /\ Active \subseteq used
  /\ \A w \in Workspaces : row[w].present => w \in used
  /\ \A e \in Held : e.ws \in used

\* Whatever exists of a workspace is numbered up to its row's sequence.
SeqOK == \A e \in Held : row[e.ws].present => e.seq <= row[e.ws].seq

\* A workspace whose row is gone while events of it exist never gets a row
\* again.
GoneOK ==
  \A e \in Held : ~row[e.ws].present =>
    e.ws \notin Configured /\ ~(op.kind = "add" /\ op.ws = e.ws)

\* A workspace and a sequence name one event.
DistinctEvents == \A e \in Held, f \in queue : e.ws = f.ws /\ e.seq = f.seq => e = f

\* While a registration is in the queue, the row remembers it.
FlagOK == \A e \in queue : e.kind = "reg" /\ row[e.ws].present => row[e.ws].reg

EventsOK == SeqOK /\ DistinctEvents /\ FlagOK

Identity == RootsOK /\ UsedOK /\ GoneOK /\ EventsOK

\* What the pass is about to acknowledge was accepted.
SentOK ==
  /\ pc = "ack" => \A e \in win : Known(e.dev, e)
  /\ pc = "singleAck" => Known(FirstOf(win).dev, FirstOf(win))

-----------------------------------------------------------------------------
\* Transactions and the identity of events.

\* What UpsertWorkspace does to rows and events when every workspace it writes
\* has a row or no event.
LEMMA UpsertIdentity ==
  ASSUME StoreOK, todo \subseteq Event, win \subseteq Event, EventsOK,
         NEW c, NEW S, S \subseteq Workspaces,
         \A e \in Held : e.ws \in S => row[e.ws].present,
         UpsertWorkspaces(c, S), UNCHANGED <<todo, win, late, log>>
  PROVE  /\ EventsOK'
         /\ \A w \in S : row[w].present'
         /\ \A w \in Workspaces : row[w].present' => w \in S \/ row[w].present
         /\ \A w \in Workspaces \ S : row[w].present /\ ~row[w].present' =>
              \E v \in S : RootOf[v] = RootOf[w]
         /\ \A e \in Held' : e \in Held \/ e.ws \in S
<1> DEFINE new == {RegistrationEvent(c, w) : w \in {v \in S : NeedsRegistration(v)}}
<1>1. queue' = queue \cup new /\ Held' = Held \cup new
  BY DEF UpsertWorkspaces, Held, Logged, InFlight
<1>2. \A e \in Held : e \in Event /\ e.ws \in Workspaces /\ e.seq \in Nat
  BY DEF Held, Logged, InFlight, StoreOK, StoreTypeOK, Event
<1>3. \A w \in Workspaces : row[w] \in Row /\ row[w].seq \in Nat
  BY DEF StoreOK, StoreTypeOK, Row
<1>4. /\ \A w \in S : /\ row'[w].present /\ row'[w].reg
                      /\ row'[w].seq = IF ~row[w].reg THEN row[w].seq + 1 ELSE row[w].seq
      /\ \A w \in Workspaces \ S : row'[w] = row[w] \/ ~row'[w].present
      /\ \A w \in Workspaces \ S : row[w].present /\ ~row'[w].present =>
           \E v \in S : RootOf[v] = RootOf[w]
  BY DEF UpsertWorkspaces, UpsertedRow, NoRow, NeedsRegistration
<1>5. \A e \in new : /\ e.ws \in S /\ ~row[e.ws].reg
                     /\ e.seq = row[e.ws].seq + 1 /\ e.kind = "reg"
  BY DEF RegistrationEvent, NeedsRegistration
<1>6. \A e \in Held, f \in new : e.ws = f.ws => e.seq < f.seq
  BY <1>2, <1>3, <1>5 DEF EventsOK, SeqOK
<1>7. SeqOK'
  <2> SUFFICES ASSUME NEW e \in Held', row'[e.ws].present PROVE e.seq <= row'[e.ws].seq
    BY DEF SeqOK
  <2>1. CASE e \in new
    BY <1>3, <1>4, <1>5, <2>1
  <2>2. CASE e \in Held /\ e.ws \in S
    BY <1>2, <1>3, <1>4, <2>2 DEF EventsOK, SeqOK
  <2>3. CASE e \in Held /\ e.ws \notin S
    BY <1>2, <1>4, <2>3 DEF EventsOK, SeqOK
  <2> QED
    BY <1>1, <2>1, <2>2, <2>3
<1>8. DistinctEvents'
  <2> SUFFICES ASSUME NEW e \in Held', NEW f \in queue', e.ws = f.ws, e.seq = f.seq PROVE e = f
    BY DEF DistinctEvents
  <2>1. CASE e \in Held /\ f \in queue
    BY <2>1 DEF EventsOK, DistinctEvents
  <2>2. CASE e \in new /\ f \in new
    <3>1. e = RegistrationEvent(c, e.ws) /\ f = RegistrationEvent(c, f.ws)
      BY <2>2 DEF RegistrationEvent
    <3> QED
      BY <3>1
  <2>3. CASE e \in Held /\ f \in new
    BY <1>2, <1>3, <1>5, <1>6, <2>3
  <2>4. CASE e \in new /\ f \in queue
    <3>1. f \in Held
      BY <2>4 DEF Held
    <3> QED
      BY <1>2, <1>3, <1>5, <1>6, <2>4, <3>1
  <2> QED
    BY <1>1, <2>1, <2>2, <2>3, <2>4
<1>9. FlagOK'
  <2> SUFFICES ASSUME NEW e \in queue', e.kind = "reg", row'[e.ws].present PROVE row'[e.ws].reg
    BY DEF FlagOK
  <2>1. CASE e.ws \in S
    BY <1>4, <2>1
  <2>2. CASE e.ws \notin S
    <3>1. e \in queue /\ e.ws \in Workspaces
      BY <1>1, <1>2, <1>5, <2>2 DEF Held
    <3> QED
      BY <1>4, <2>2, <3>1 DEF EventsOK, FlagOK
  <2> QED
    BY <2>1, <2>2
<1> QED
  BY <1>1, <1>4, <1>5, <1>7, <1>8, <1>9 DEF EventsOK

\* EnqueueEvents numbers its events past everything held of the workspace.
LEMMA EnqueueIdentity ==
  ASSUME StoreOK, todo \subseteq Event, win \subseteq Event, EventsOK,
         NEW w \in Workspaces, NEW kind \in {"obs", "mft"}, NEW k \in Nat,
         EnqueueEvents(w, kind, k), UNCHANGED <<todo, win, late, log>>
  PROVE  /\ EventsOK'
         /\ \A v \in Workspaces : row[v].present' <=> row[v].present
         /\ \A e \in Held' : e \in Held \/ e.ws = w
<1> DEFINE new == {[ws |-> w, seq |-> row[w].seq + i, dev |-> row[w].backend, kind |-> kind] : i \in 1..k}
<1>1. queue' = queue \cup new /\ Held' = Held \cup new
  BY DEF EnqueueEvents, Held, Logged, InFlight
<1>2. \A e \in Held : e \in Event /\ e.ws \in Workspaces /\ e.seq \in Nat
  BY DEF Held, Logged, InFlight, StoreOK, StoreTypeOK, Event
<1>3. row[w] \in Row /\ row[w].seq \in Nat /\ row[w].present
  BY DEF StoreOK, StoreTypeOK, Row, EnqueueEvents
<1>4. /\ row'[w].present = row[w].present /\ row'[w].reg = row[w].reg
      /\ row'[w].seq = row[w].seq + k
      /\ \A v \in Workspaces \ {w} : row'[v] = row[v]
  BY <1>3 DEF EnqueueEvents, Row, StoreOK, StoreTypeOK
<1>5. \A e \in new : /\ e.ws = w /\ e.kind # "reg" /\ e.seq \in Nat
                     /\ e.seq > row[w].seq /\ e.seq <= row[w].seq + k
  BY <1>3
<1>6. \A e \in Held : e.ws = w => e.seq <= row[w].seq
  BY <1>3 DEF EventsOK, SeqOK
<1>7. SeqOK'
  BY <1>1, <1>2, <1>3, <1>4, <1>5, <1>6 DEF EventsOK, SeqOK
<1>8. DistinctEvents'
  <2> SUFFICES ASSUME NEW e \in Held', NEW f \in queue', e.ws = f.ws, e.seq = f.seq PROVE e = f
    BY DEF DistinctEvents
  <2>1. CASE e \in Held /\ f \in queue
    BY <2>1 DEF EventsOK, DistinctEvents
  <2>2. CASE e \in new /\ f \in new
    BY <2>2
  <2>3. CASE e \in Held /\ f \in new
    BY <1>2, <1>3, <1>5, <1>6, <2>3
  <2>4. CASE e \in new /\ f \in queue
    <3>1. f \in Held
      BY <2>4 DEF Held
    <3> QED
      BY <1>2, <1>3, <1>5, <1>6, <2>4, <3>1
  <2> QED
    BY <1>1, <2>1, <2>2, <2>3, <2>4
<1>9. FlagOK'
  <2> SUFFICES ASSUME NEW e \in queue', e.kind = "reg", row'[e.ws].present PROVE row'[e.ws].reg
    BY DEF FlagOK
  <2>1. e \in queue /\ e \in Held /\ e.ws \in Workspaces
    BY <1>1, <1>2, <1>5 DEF Held
  <2> QED
    BY <1>4, <2>1 DEF EventsOK, FlagOK
<1> QED
  BY <1>1, <1>4, <1>5, <1>7, <1>8, <1>9 DEF EventsOK

\* A step that leaves rows, queue, configuration and call alone, and brings no
\* event into the pass that was not held, keeps identities.
LEMMA IdentityFrame ==
  ASSUME Identity, UNCHANGED <<row, queue, up, cfgDisk, cfgMem, op, used>>,
         todo' \subseteq Held, win' \subseteq Held, Logged' \subseteq Held, InFlight' \subseteq Held
  PROVE  Identity'
<1>1. Held' \subseteq Held
  BY DEF Held
<1>2. RootsOK'
  BY DEF Identity, RootsOK, DistinctRoots, Active, Configured
<1>3. UsedOK'
  BY <1>1 DEF Identity, UsedOK, Active, Configured
<1>4. GoneOK'
  BY <1>1 DEF Identity, GoneOK, Configured
<1>5. EventsOK'
  BY <1>1 DEF Identity, EventsOK, SeqOK, DistinctEvents, FlagOK
<1> QED
  BY <1>2, <1>3, <1>4, <1>5 DEF Identity

\* No step of the flush pass touches rows or queue, or invents an event.
LEMMA FlushFrame ==
  ASSUME FlushStep \/ FlushStoreFails
  PROVE  /\ UNCHANGED <<row, queue, up, cfgDisk, cfgMem, op, used>>
         /\ todo' \subseteq Kept /\ win' \subseteq Kept
<1> USE DEF FlushUnchanged, adminVars, storeVars, Kept
<1>1. CASE LoadPending \/ LoadWorkspaces
  BY <1>1 DEF LoadPending, LoadWorkspaces, Pending
<1>2. CASE PickSkip \/ PickUnconfigured \/ PickSender \/ FinishFlush \/ Drained \/ NextWindow
  BY <1>2 DEF PickSkip, PickUnconfigured, PickSender, FinishFlush, Drained, NextWindow, SkipWorkspace
<1>3. CASE SendWindow \/ SendRejected
  BY <1>3, WindowInTodo DEF SendWindow, SendRejected
<1>4. CASE SendFails \/ RetryFails \/ RetryAckMissing
  BY <1>4 DEF SendFails, RetryFails, RetryAckMissing, GiveUpOnBackend, SkipWorkspace
<1>5. CASE AckNext \/ RetryAck \/ RetryQuarantine
  BY <1>5 DEF AckNext, RetryAck, RetryQuarantine, Ack, Quarantine
<1>6. CASE AckMissing \/ RetryAccepted \/ RetryRefused
  BY <1>6 DEF AckMissing, RetryAccepted, RetryRefused
<1>7. CASE FlushStoreFails
  BY <1>7 DEF FlushStoreFails, GiveUpOnBackend, SkipWorkspace
<1> QED
  BY <1>1, <1>2, <1>3, <1>4, <1>5, <1>6, <1>7 DEF FlushStep

\* A published batch is what the backend's log grows by.
LEMMA PublishEventsLogged ==
  ASSUME BackendTypeOK, NEW b \in Backends, NEW batch, PublishEvents(b, batch)
  PROVE  \A c \in Backends : log[c] \subseteq log'[c] /\ log'[c] \subseteq log[c] \cup batch
<1>1. log \in [Backends -> SUBSET Event] /\ log' = [log EXCEPT ![b] = @ \cup Fresh(b, batch)]
  BY DEF BackendTypeOK, PublishEvents
<1>2. Fresh(b, batch) \subseteq batch
  BY DEF Fresh
<1> QED
  BY <1>1, <1>2

\* A failed request puts nothing but its batch on the network or in a log.
LEMMA TransientFailureHolds ==
  ASSUME BackendTypeOK, via \in Backends, NEW batch, batch \subseteq Event, TransientFailure(batch)
  PROVE  Logged' \subseteq Logged \cup batch /\ InFlight' \subseteq InFlight \cup batch
<1>1. CASE UNCHANGED <<backendVars, late>>
  BY <1>1 DEF backendVars, Logged, InFlight
<1>2. CASE PublishEvents(via, batch) /\ UNCHANGED late
  BY <1>2, PublishEventsLogged DEF Logged, InFlight
<1>3. CASE late' = late \cup {[to |-> via, batch |-> batch]} /\ UNCHANGED backendVars
  <2>1. Logged' = Logged
    BY <1>3 DEF backendVars, Logged
  <2>2. \A m \in late' : m \in late \/ m.batch = batch
    BY <1>3
  <2> QED
    BY <2>1, <2>2 DEF InFlight
<1> QED
  BY <1>1, <1>2, <1>3 DEF TransientFailure

\* The pass and the network send only events that exist.
LEMMA NetworkHolds ==
  ASSUME Sound, FlushStep \/ FlushStoreFails \/ DeliverLate
  PROVE  Logged' \subseteq Held /\ InFlight' \subseteq Held
<1>1. /\ BackendTypeOK /\ todo \subseteq Event /\ win \subseteq Event
      /\ pc \in {"send", "single"} => via \in Backends
      /\ late \subseteq [to : Backends, batch : SUBSET Event]
  BY DEF Sound, PassOK, FlushTypeOK, FlushOK, PCs
<1>2. Window \subseteq todo
  BY WindowInTodo
<1>3. win # {} => {FirstOf(win)} \subseteq win
  BY <1>1, FirstOfInSet
<1>4. CASE SendWindow \/ RetryAccepted
  <2>1. PICK batch : PublishEvents(via, batch) /\ batch \subseteq todo \cup win
    BY <1>2, <1>3, <1>4 DEF SendWindow, RetryAccepted
  <2>2. UNCHANGED late /\ via \in Backends
    BY <1>1, <1>4 DEF SendWindow, RetryAccepted
  <2> QED
    BY <1>1, <2>1, <2>2, PublishEventsLogged DEF Logged, InFlight, Held
<1>5. CASE SendFails \/ RetryFails
  <2>1. PICK batch : TransientFailure(batch) /\ batch \subseteq todo \cup win
    BY <1>2, <1>3, <1>5 DEF SendFails, RetryFails
  <2>2. via \in Backends /\ batch \subseteq Event
    BY <1>1, <1>5, <2>1 DEF SendFails, RetryFails
  <2> QED
    BY <1>1, <2>1, <2>2, TransientFailureHolds DEF Held
<1>6. CASE DeliverLate
  <2>1. PICK m \in late : /\ late' = late \ {m}
                          /\ PublishEvents(m.to, m.batch) \/ UNCHANGED backendVars
    BY <1>6 DEF DeliverLate
  <2>2. m.to \in Backends /\ m.batch \subseteq InFlight
    BY <1>1 DEF InFlight
  <2>3. InFlight' \subseteq InFlight
    BY <2>1 DEF InFlight
  <2>4. Logged' \subseteq Logged \cup InFlight
    BY <1>1, <2>1, <2>2, PublishEventsLogged DEF Logged, backendVars
  <2> QED
    BY <2>3, <2>4 DEF Held
<1>7. CASE ~(SendWindow \/ RetryAccepted \/ SendFails \/ RetryFails \/ DeliverLate)
  <2>1. UNCHANGED <<late, log>>
    BY <1>7 DEF FlushStep, FlushStoreFails, LoadPending, LoadWorkspaces, PickSkip, PickUnconfigured,
       PickSender, FinishFlush, SendRejected, Drained, AckNext, AckMissing, NextWindow, RetryRefused,
       RetryAck, RetryAckMissing, RetryQuarantine, backendVars
  <2> QED
    BY <2>1 DEF Held, Logged, InFlight
<1> QED
  BY <1>4, <1>5, <1>6, <1>7

\* The identities hold initially.
LEMMA IdentityInit == Init => Identity
<1> SUFFICES ASSUME Init PROVE Identity
  OBVIOUS
<1> USE DEF Init, StoreInit
<1>1. Held = {} /\ queue = {} /\ Configured = InitialConfig.ws /\ Active = {}
  BY DEF Held, Logged, InFlight, BackendInit, Configured, EmptyConfig, Active, NoOp
<1>2. DistinctRoots(InitialConfig.ws)
  BY InitialConfigAssumption DEF WellFormed, DistinctRoots
<1>3. RootsOK
  BY <1>1, <1>2 DEF RootsOK, EmptyConfig, NoOp, DistinctRoots
<1>4. UsedOK
  BY <1>1 DEF UsedOK, NoRow
<1> QED
  BY <1>1, <1>3, <1>4 DEF Identity, GoneOK, EventsOK, SeqOK, DistinctEvents, FlagOK

\* A boot, whole or cut off, keeps identities.
LEMMA BootIdentity == Sound /\ Identity /\ (Boot \/ BootCut) => Identity'
<1> SUFFICES ASSUME Sound, Identity, Boot \/ BootCut PROVE Identity'
  OBVIOUS
<1>1. cfgDisk.ws \subseteq Workspaces /\ todo \subseteq Event /\ win \subseteq Event /\ StoreOK
  BY DEF Sound, AdminOK, AdminTypeOK, Config, PassOK, FlushTypeOK
<1>2. /\ ~up /\ op.kind = "none" /\ UNCHANGED <<cfgDisk, op, used, todo, win, late, log>>
      /\ (up' /\ cfgMem' = cfgDisk) \/ (~up' /\ cfgMem' = cfgMem)
  <2>1. CASE Boot
    BY <2>1 DEF Boot, flushVars, backendVars
  <2>2. CASE BootCut
    BY <2>2 DEF BootCut, flushVars, backendVars
  <2> QED
    BY <2>1, <2>2
<1>3. PICK S \in SUBSET cfgDisk.ws : UpsertWorkspaces(cfgDisk, S) /\ (up' => S = cfgDisk.ws)
  BY DEF Boot, BootCut
<1>4. \A e \in Held : e.ws \in S => row[e.ws].present
  BY <1>3 DEF Identity, GoneOK, Configured
<1>5. /\ EventsOK'
      /\ \A w \in S : row[w].present'
      /\ \A w \in Workspaces : row[w].present' => w \in S \/ row[w].present
      /\ \A w \in Workspaces \ S : row[w].present /\ ~row[w].present' =>
           \E v \in S : RootOf[v] = RootOf[w]
      /\ \A e \in Held' : e \in Held \/ e.ws \in S
  BY <1>1, <1>2, <1>3, <1>4, UpsertIdentity DEF Identity
<1>6. Configured = cfgDisk.ws /\ Configured' = cfgDisk.ws /\ Active = {} /\ Active' = {}
  BY <1>2 DEF Identity, RootsOK, Configured, Active
<1>7. RootsOK'
  BY <1>2, <1>6 DEF Identity, RootsOK, DistinctRoots
<1>8. UsedOK'
  BY <1>2, <1>3, <1>5, <1>6 DEF Identity, UsedOK
<1>9. GoneOK'
  <2> SUFFICES ASSUME NEW e \in Held', ~row'[e.ws].present PROVE e.ws \notin cfgDisk.ws
    BY <1>2, <1>6 DEF GoneOK
  <2>1. e \in Held /\ e.ws \notin S /\ e.ws \in Workspaces
    BY <1>1, <1>5 DEF Held, Logged, InFlight, StoreOK, StoreTypeOK, Event
  <2>2. CASE row[e.ws].present
    BY <1>3, <1>5, <2>1, <2>2 DEF Identity, RootsOK, DistinctRoots
  <2>3. CASE ~row[e.ws].present
    BY <2>1, <2>3 DEF Identity, GoneOK, Configured
  <2> QED
    BY <2>2, <2>3
<1> QED
  BY <1>5, <1>7, <1>8, <1>9 DEF Identity

\* The administrative calls that only write configurations keep identities: a
\* workspace added is new, a workspace removed stays away.
LEMMA AdminCallIdentity == Sound /\ Identity /\ AdminCall => Identity'
<1> SUFFICES ASSUME Sound, Identity, AdminCall PROVE Identity'
  OBVIOUS
<1>1. UNCHANGED <<row, queue, todo, win, late, log>>
  BY DEF AdminCall, AddWorkspace, Register, RemoveProjectWorkspaces, RebindProject, ResetBackend,
     storeVars, flushVars, backendVars
<1>2. Held' = Held /\ EventsOK'
  BY <1>1 DEF Identity, EventsOK, SeqOK, DistinctEvents, FlagOK, Held, Logged, InFlight
<1>3. /\ cfgDisk \in Config /\ cfgMem \in Config /\ cfgDisk.ws \subseteq Workspaces
      /\ cfgMem.ws \subseteq Workspaces /\ op \in Op
  BY DEF Sound, AdminOK, AdminTypeOK, Config
<1>4. ASSUME NEW w \in Workspaces, NEW b \in Backends, AddWorkspace(w, b)
      PROVE  Identity'
  <2>1. /\ cfgDisk'.ws = cfgMem.ws \cup {w} /\ cfgMem' = cfgMem /\ used' = used \cup {w}
        /\ up /\ UNCHANGED up
        /\ op' = [kind |-> "add", rest |-> {}, ws |-> w, target |-> b]
    BY <1>3, <1>4 DEF AddWorkspace, AddToConfig, BindProject, UpsertBackend, Config
  <2>2. w \notin used /\ \A v \in cfgMem.ws : RootOf[v] # RootOf[w]
    BY <1>4 DEF AddWorkspace, AlreadyRegistered
  <2>3. Active' = {w} /\ Configured' = cfgMem.ws \cup {w}
    BY <2>1 DEF Active, Configured
  <2>4. RootsOK'
    BY <2>1, <2>2, <2>3 DEF Identity, RootsOK, DistinctRoots
  <2>5. UsedOK'
    BY <1>1, <1>2, <2>1, <2>3 DEF Identity, UsedOK, Configured
  <2>6. GoneOK'
    BY <1>1, <1>2, <2>1, <2>2, <2>3 DEF Identity, GoneOK, UsedOK, Configured
  <2> QED
    BY <1>2, <2>4, <2>5, <2>6 DEF Identity
<1>5. ASSUME NEW w \in Workspaces, NEW b \in Backends, Register(w, b)
      PROVE  Identity'
  <2>1. /\ cfgDisk'.ws = cfgDisk.ws \cup {w} /\ cfgMem' = cfgMem /\ used' = used \cup {w}
        /\ ~up /\ UNCHANGED <<up, op>> /\ op.kind = "none"
    BY <1>3, <1>5 DEF Register, StartAdmin, AddToConfig, BindProject, UpsertBackend, Config
  <2>2. w \notin used /\ \A v \in cfgDisk.ws : RootOf[v] # RootOf[w]
    BY <1>5 DEF Register, AlreadyRegistered
  <2>3. Active' = {} /\ Configured' = Configured \cup {w}
    BY <2>1 DEF Active, Configured
  <2>4. RootsOK'
    BY <2>1, <2>2, <2>3 DEF Identity, RootsOK, DistinctRoots
  <2>5. UsedOK'
    BY <1>1, <1>2, <2>1, <2>3 DEF Identity, UsedOK
  <2>6. GoneOK'
    BY <1>1, <1>2, <2>1, <2>2, <2>3 DEF Identity, GoneOK, UsedOK
  <2> QED
    BY <1>2, <2>4, <2>5, <2>6 DEF Identity
<1>6. ASSUME NEW p \in Projects, RemoveProjectWorkspaces(p)
      PROVE  Identity'
  <2> DEFINE gone == WorkspacesForProject(CurrentConfig, p)
  <2>1. CurrentConfig \in {cfgDisk, cfgMem} /\ (up => CurrentConfig = cfgMem)
    BY DEF CurrentConfig
  <2>2. /\ cfgDisk'.ws = CurrentConfig.ws \ gone
        /\ cfgMem'.ws = IF up THEN CurrentConfig.ws \ gone ELSE cfgMem.ws
        /\ UNCHANGED <<up, used>>
        /\ op' = [kind |-> "remove", rest |-> gone, ws |-> 0, target |-> NoBackend]
    BY <1>3, <1>6, <2>1 DEF RemoveProjectWorkspaces, SaveConfig, RemoveProject, Config
  <2>3. Active' = {} /\ Configured' \subseteq Configured /\ Configured' \cap gone = {}
    BY <2>1, <2>2 DEF Active, Configured, Identity, RootsOK
  <2>4. RootsOK'
    BY <2>1, <2>2, <2>3 DEF Identity, RootsOK, DistinctRoots
  <2>5. UsedOK'
    BY <1>1, <1>2, <2>2, <2>3 DEF Identity, UsedOK
  <2>6. GoneOK'
    BY <1>1, <1>2, <2>2, <2>3 DEF Identity, GoneOK
  <2> QED
    BY <1>2, <2>4, <2>5, <2>6 DEF Identity
<1>7. ASSUME NEW p \in Projects, NEW b \in Backends, RebindProject(p, b)
      PROVE  Identity'
  <2> DEFINE moved == WorkspacesForProject(CurrentConfig, p)
  <2>1. CurrentConfig \in {cfgDisk, cfgMem} /\ (up => CurrentConfig = cfgMem) /\ (~up => CurrentConfig = cfgDisk)
    BY DEF CurrentConfig
  <2>2. /\ cfgDisk'.ws = CurrentConfig.ws
        /\ cfgMem'.ws = IF up THEN CurrentConfig.ws ELSE cfgMem.ws
        /\ UNCHANGED <<up, used>>
        /\ op' = [kind |-> "rebind", rest |-> moved, ws |-> 0, target |-> b]
    BY <1>3, <1>7, <2>1 DEF RebindProject, SaveConfig, RebindInConfig, BindProject, UpsertBackend, Config
  <2>3. moved \subseteq CurrentConfig.ws
    BY DEF WorkspacesForProject
  <2>4. Active' = moved /\ Configured' = CurrentConfig.ws
    BY <2>1, <2>2 DEF Active, Configured, Identity, RootsOK
  <2>5. RootsOK'
    BY <2>1, <2>2, <2>3, <2>4 DEF Identity, RootsOK, DistinctRoots
  <2>6. UsedOK'
    BY <1>1, <1>2, <2>1, <2>2, <2>3, <2>4 DEF Identity, UsedOK, Configured
  <2>7. GoneOK'
    BY <1>1, <1>2, <2>1, <2>2, <2>4 DEF Identity, GoneOK, Configured
  <2> QED
    BY <1>2, <2>5, <2>6, <2>7 DEF Identity
<1>8. ASSUME NEW b \in Backends, ResetBackend(b)
      PROVE  Identity'
  <2>1. cfgDisk'.ws \subseteq cfgDisk.ws /\ UNCHANGED <<cfgMem, up, op, used>>
    BY <1>8 DEF ResetBackend, RemoveBackend
  <2>2. Active' = Active /\ Configured' \subseteq Configured
    BY <2>1 DEF Active, Configured
  <2>3. RootsOK'
    BY <1>1, <2>1, <2>2 DEF Identity, RootsOK, DistinctRoots
  <2>4. UsedOK'
    BY <1>1, <1>2, <2>1, <2>2 DEF Identity, UsedOK
  <2>5. GoneOK'
    BY <1>1, <1>2, <2>1, <2>2 DEF Identity, GoneOK
  <2> QED
    BY <1>2, <2>3, <2>4, <2>5 DEF Identity
<1> QED
  BY <1>4, <1>5, <1>6, <1>7, <1>8 DEF AdminCall

\* UpsertWorkspace for the workspace of the call in progress.
LEMMA UpsertActive ==
  ASSUME Sound, Identity, NEW c, op.ws \in Active, op.ws \in Workspaces,
         op.kind \in {"add", "rebindUpsert"},
         UpsertWorkspaces(c, {op.ws}),
         UNCHANGED <<up, cfgDisk, cfgMem, used, todo, win, late, log>>,
         Active' \subseteq Active, op'.kind \in {"addCommit", "rebind"},
         op'.kind = "addCommit" => op.kind = "add" /\ op'.ws = op.ws
  PROVE  Identity'
<1>1. StoreOK /\ todo \subseteq Event /\ win \subseteq Event
  BY DEF Sound, PassOK, FlushTypeOK
<1>2. \A e \in Held : e.ws \in {op.ws} => row[e.ws].present
  BY DEF Identity, GoneOK, RootsOK
<1>3. /\ EventsOK'
      /\ \A w \in {op.ws} : row[w].present'
      /\ \A w \in Workspaces : row[w].present' => w \in {op.ws} \/ row[w].present
      /\ \A w \in Workspaces \ {op.ws} : row[w].present /\ ~row[w].present' =>
           \E v \in {op.ws} : RootOf[v] = RootOf[w]
      /\ \A e \in Held' : e \in Held \/ e.ws \in {op.ws}
  BY <1>1, <1>2, UpsertIdentity DEF Identity
<1>4. Configured' = Configured
  BY DEF Configured
<1>5. RootsOK'
  BY <1>3, <1>4 DEF Identity, RootsOK, DistinctRoots
<1>6. UsedOK'
  BY <1>3, <1>4 DEF Identity, UsedOK
<1>7. GoneOK'
  <2> SUFFICES ASSUME NEW e \in Held', ~row'[e.ws].present PROVE e.ws \notin Configured
    BY <1>4 DEF GoneOK
  <2>1. e \in Held /\ e.ws # op.ws /\ e.ws \in Workspaces
    BY <1>1, <1>3 DEF Held, Logged, InFlight, StoreOK, StoreTypeOK, Event
  <2>2. CASE row[e.ws].present
    BY <1>3, <2>1, <2>2 DEF Identity, RootsOK
  <2>3. CASE ~row[e.ws].present
    BY <2>1, <2>3 DEF Identity, GoneOK
  <2> QED
    BY <2>2, <2>3
<1> QED
  BY <1>3, <1>5, <1>6, <1>7 DEF Identity

\* The transactions of an administrative call keep identities.
LEMMA OpStepIdentity == Sound /\ Identity /\ OpStep => Identity'
<1> SUFFICES ASSUME Sound, Identity, OpStep PROVE Identity'
  OBVIOUS
<1>1. /\ op \in Op /\ cfgMem \in Config /\ cfgMem.ws \subseteq Workspaces
      /\ StoreOK /\ row \in [Workspaces -> Row] /\ queue \subseteq Event
      /\ todo \subseteq Event /\ win \subseteq Event
  BY DEF Sound, AdminOK, AdminTypeOK, Config, StoreOK, StoreTypeOK, PassOK, FlushTypeOK
<1>2. \A e \in Held : e \in Event /\ e.ws \in Workspaces
  BY <1>1 DEF Held, Logged, InFlight, Event
<1>3. UNCHANGED <<up, cfgDisk, used, todo, win, late, log>>
  BY DEF OpStep, AddUpsert, AddCommit, RemoveStored, RebindStored, RebindUpsert, RebindMissing,
     FinishOp, flushVars, backendVars
<1>4. CASE AddUpsert
  <2>1. /\ op.kind = "add" /\ op' = [op EXCEPT !.kind = "addCommit"] /\ UNCHANGED cfgMem
        /\ UpsertWorkspaces(AddToConfig(cfgMem, op.ws, op.target), {op.ws})
    BY <1>4 DEF AddUpsert
  <2>2. Active' = Active /\ op.ws \in Active /\ op'.kind = "addCommit" /\ op'.ws = op.ws
    BY <1>1, <2>1 DEF Active, Op
  <2>3. op.ws \in Workspaces
    BY <2>1, <2>2 DEF Sound, AdminOK, Identity, UsedOK, AdminTypeOK
  <2> QED
    BY <1>3, <2>1, <2>2, <2>3, UpsertActive
<1>5. CASE RebindUpsert
  <2> DEFINE next == RebindInConfig(CurrentConfig, ProjectOf[op.ws], op.target)
  <2>1. /\ op.kind = "rebindUpsert" /\ op' = [op EXCEPT !.kind = "rebind", !.ws = 0]
        /\ UNCHANGED cfgMem /\ UpsertWorkspaces(next, {op.ws})
    BY <1>5 DEF RebindUpsert
  <2>2. Active' \subseteq Active /\ op.ws \in Active /\ op'.kind = "rebind"
    BY <1>1, <2>1 DEF Active, Op
  <2>3. op.ws \in Workspaces
    BY <2>1, <2>2 DEF Sound, AdminOK, Identity, UsedOK, AdminTypeOK
  <2> HIDE DEF next
  <2> QED
    BY <1>3, <2>1, <2>2, <2>3, UpsertActive
<1>6. CASE AddCommit
  <2>1. /\ op.kind = "addCommit" /\ op' = NoOp /\ UNCHANGED <<row, queue>>
        /\ cfgMem'.ws = cfgMem.ws \cup {op.ws} /\ up
    BY <1>1, <1>6 DEF AddCommit, EndOp, storeVars, AddToConfig, BindProject, UpsertBackend, Config,
       Identity, RootsOK
  <2>2. Active' = {} /\ Active = {op.ws} /\ Configured' = Configured \cup {op.ws} /\ Held' = Held
    BY <1>3, <2>1 DEF Active, Configured, NoOp, Held, Logged, InFlight
  <2>3. RootsOK'
    BY <1>3, <2>1, <2>2 DEF Identity, RootsOK, DistinctRoots, Configured, NoOp
  <2>4. UsedOK'
    BY <1>3, <2>1, <2>2 DEF Identity, UsedOK
  <2>5. GoneOK'
    BY <2>1, <2>2 DEF Identity, GoneOK, RootsOK, NoOp
  <2>6. EventsOK'
    BY <2>1, <2>2 DEF Identity, EventsOK, SeqOK, DistinctEvents, FlagOK
  <2> QED
    BY <2>3, <2>4, <2>5, <2>6 DEF Identity
<1>7. CASE RemoveStored
  <2>1. PICK w \in op.rest : DeleteWorkspace(w) /\ op' = [op EXCEPT !.rest = @ \ {w}]
    BY <1>7 DEF RemoveStored
  <2>2. op.kind = "remove" /\ UNCHANGED cfgMem /\ w \in Workspaces /\ w \notin Configured
    BY <1>1, <1>7 DEF RemoveStored, Op, Identity, RootsOK
  <2>3. op'.kind = "remove" /\ op'.rest \subseteq op.rest
    BY <1>1, <2>1, <2>2 DEF Op
  <2>4. Active' = {} /\ Configured' = Configured
    BY <1>3, <2>2, <2>3 DEF Active, Configured
  <2>5. queue' \subseteq queue /\ Held' \subseteq Held
    BY <1>3, <2>1 DEF DeleteWorkspace, DropQueue, Held, Logged, InFlight
  <2>6. ~row'[w].present /\ \A v \in Workspaces \ {w} : row'[v] = row[v]
    BY <1>1, <2>1, <2>2 DEF DeleteWorkspace, NoRow
  <2>7. RootsOK'
    BY <1>3, <2>2, <2>3, <2>4 DEF Identity, RootsOK, DistinctRoots
  <2>8. UsedOK'
    BY <1>3, <2>4, <2>5, <2>6 DEF Identity, UsedOK
  <2>9. GoneOK'
    BY <1>2, <2>2, <2>3, <2>4, <2>5, <2>6 DEF Identity, GoneOK
  <2>10. EventsOK'
    BY <1>1, <1>2, <2>5, <2>6 DEF Identity, EventsOK, SeqOK, DistinctEvents, FlagOK, Event
  <2> QED
    BY <2>7, <2>8, <2>9, <2>10 DEF Identity
<1>8. CASE RebindStored
  <2>1. PICK w \in op.rest : /\ row[w].present /\ RebindWorkspace(w, op.target)
                             /\ op' = [op EXCEPT !.kind = "rebindUpsert", !.ws = w, !.rest = @ \ {w}]
    BY <1>8 DEF RebindStored
  <2>2. op.kind = "rebind" /\ UNCHANGED cfgMem /\ w \in Workspaces
    BY <1>1, <1>8 DEF RebindStored, Op
  <2>3. op'.kind = "rebindUpsert" /\ op'.ws = w /\ op'.rest = op.rest \ {w}
    BY <1>1, <2>1 DEF Op
  <2>4. Active' = Active /\ Configured' = Configured
    BY <1>3, <2>2, <2>3 DEF Active, Configured
  <2>5. /\ queue' = queue \ EventsOf(queue, w) /\ Held' \subseteq Held
        /\ \A e \in queue' : e \in queue /\ e.ws # w
    BY <1>3, <2>1 DEF RebindWorkspace, DropQueue, Held, Logged, InFlight, EventsOf
  <2>6. /\ row'[w].present /\ row'[w].seq = row[w].seq
        /\ \A v \in Workspaces \ {w} : row'[v] = row[v]
    BY <1>1, <2>1, <2>2 DEF RebindWorkspace, Row
  <2>7. RootsOK'
    BY <1>3, <2>2, <2>3, <2>4, <2>6 DEF Identity, RootsOK, DistinctRoots
  <2>8. UsedOK'
    BY <1>3, <2>1, <2>4, <2>5, <2>6 DEF Identity, UsedOK
  <2>9. GoneOK'
    BY <1>2, <2>1, <2>3, <2>4, <2>5, <2>6 DEF Identity, GoneOK
  <2>10. EventsOK'
    BY <1>1, <1>2, <2>1, <2>5, <2>6 DEF Identity, EventsOK, SeqOK, DistinctEvents, FlagOK, Event
  <2> QED
    BY <2>7, <2>8, <2>9, <2>10 DEF Identity
<1>9. CASE RebindMissing \/ FinishOp
  <2>1. op' = NoOp /\ UNCHANGED <<row, queue, cfgMem>>
    BY <1>9 DEF RebindMissing, FinishOp, EndOp, storeVars
  <2>2. Active' = {} /\ Configured' = Configured /\ Held' = Held
    BY <1>3, <2>1 DEF Active, Configured, NoOp, Held, Logged, InFlight
  <2>3. RootsOK'
    BY <1>3, <2>1, <2>2 DEF Identity, RootsOK, DistinctRoots, NoOp
  <2>4. UsedOK' /\ GoneOK'
    BY <1>3, <2>1, <2>2 DEF Identity, UsedOK, GoneOK, NoOp
  <2>5. EventsOK'
    BY <2>1, <2>2 DEF Identity, EventsOK, SeqOK, DistinctEvents, FlagOK
  <2> QED
    BY <2>3, <2>4, <2>5 DEF Identity
<1> QED
  BY <1>4, <1>5, <1>6, <1>7, <1>8, <1>9 DEF OpStep

\* The handlers keep identities: events are numbered past what is held, and a
\* pause touches neither sequences nor events.
LEMMA HandlerIdentity == Sound /\ Identity /\ Handler => Identity'
<1> SUFFICES ASSUME Sound, Identity, Handler PROVE Identity'
  OBVIOUS
<1>1. UNCHANGED <<up, cfgDisk, cfgMem, op, used, todo, win, late, log>>
  BY DEF Handler, Observe, PauseResume, adminVars, flushVars, backendVars
<1>2. /\ StoreOK /\ row \in [Workspaces -> Row] /\ queue \subseteq Event
      /\ todo \subseteq Event /\ win \subseteq Event
      /\ op.kind \in {"addCommit", "rebindUpsert"} => op.ws \in Workspaces
  BY DEF Sound, AdminOK, OpOK, StoreOK, StoreTypeOK, PassOK, FlushTypeOK
<1>3. Active' = Active /\ Configured' = Configured
  BY <1>1 DEF Active, Configured
<1>4. ASSUME NEW w \in Workspaces, NEW kind \in {"obs", "mft"}, NEW n \in 1..MaxBurst,
             Observe(w, kind, n)
      PROVE  Identity'
  <2>1. n \in Nat /\ w \in Configured /\ EnqueueEvents(w, kind, n)
    BY <1>4, BoundsAssumption DEF Observe, Configured
  <2>2. /\ EventsOK'
        /\ \A v \in Workspaces : row[v].present' <=> row[v].present
        /\ \A e \in Held' : e \in Held \/ e.ws = w
    BY <1>1, <1>2, <2>1, EnqueueIdentity DEF Identity
  <2>3. row[w].present
    BY <2>1 DEF EnqueueEvents
  <2>4. \A e \in Held : e.ws \in Workspaces
    BY <1>2 DEF Held, Logged, InFlight, Event
  <2>5. RootsOK'
    BY <1>1, <1>2, <1>3, <2>2 DEF Identity, RootsOK, DistinctRoots
  <2>6. UsedOK'
    BY <1>1, <1>3, <2>1, <2>2 DEF Identity, UsedOK
  <2>7. GoneOK'
    BY <1>1, <1>3, <2>2, <2>3, <2>4 DEF Identity, GoneOK
  <2> QED
    BY <2>2, <2>5, <2>6, <2>7 DEF Identity
<1>5. ASSUME NEW S, NEW v, PauseResume(S, v)
      PROVE  Identity'
  <2>1. \A w \in Workspaces : /\ row'[w].present = row[w].present /\ row'[w].reg = row[w].reg
                              /\ row'[w].seq = row[w].seq
    BY <1>2, <1>5 DEF PauseResume, SetPaused, Row
  <2>2. queue' = queue /\ Held' = Held
    BY <1>1, <1>5 DEF PauseResume, SetPaused, Held, Logged, InFlight
  <2>3. \A e \in Held : e.ws \in Workspaces
    BY <1>2 DEF Held, Logged, InFlight, Event
  <2>4. RootsOK'
    BY <1>1, <1>2, <1>3, <2>1 DEF Identity, RootsOK, DistinctRoots
  <2>5. UsedOK' /\ GoneOK'
    BY <1>1, <1>3, <2>1, <2>2, <2>3 DEF Identity, UsedOK, GoneOK
  <2>6. EventsOK'
    BY <1>2, <2>1, <2>2, <2>3 DEF Identity, EventsOK, SeqOK, DistinctEvents, FlagOK, Held
  <2> QED
    BY <2>4, <2>5, <2>6 DEF Identity
<1> QED
  BY <1>4, <1>5 DEF Handler

\* Crashes, failures, late requests and revocations keep identities.
LEMMA EnvironmentIdentity == Sound /\ Identity /\ Environment => Identity'
<1> SUFFICES ASSUME Sound, Identity, Environment PROVE Identity'
  OBVIOUS
<1>1. CASE Crash
  <2>1. /\ up' = FALSE /\ cfgMem'.ws = {} /\ op'.kind = "none" /\ todo' = {} /\ win' = {}
        /\ UNCHANGED <<row, queue, cfgDisk, used, late, log>>
    BY <1>1 DEF Crash, EmptyConfig, NoOp, storeVars, backendVars
  <2>2. Active' = {} /\ Configured' \subseteq Configured /\ Held' \subseteq Held
    BY <2>1 DEF Active, Configured, Held, Logged, InFlight
  <2>3. RootsOK'
    BY <2>1, <2>2 DEF Identity, RootsOK, DistinctRoots
  <2>4. UsedOK' /\ GoneOK'
    BY <2>1, <2>2 DEF Identity, UsedOK, GoneOK
  <2>5. EventsOK'
    BY <2>1, <2>2 DEF Identity, EventsOK, SeqOK, DistinctEvents, FlagOK
  <2> QED
    BY <2>3, <2>4, <2>5 DEF Identity
<1>2. CASE BootCut
  BY <1>2, BootIdentity
<1>3. CASE StoreFails
  <2>1. op \in Op /\ UNCHANGED <<row, queue, up, cfgMem, used, todo, win, late, log>>
    BY <1>3 DEF StoreFails, storeVars, flushVars, backendVars, Sound, AdminOK, AdminTypeOK
  <2>2. cfgDisk' \in {cfgDisk, cfgMem}
    BY <1>3 DEF StoreFails
  <2>3. op' = NoOp \/ (op.kind = "remove" /\ op'.kind = "remove" /\ op'.rest \subseteq op.rest)
    BY <1>3, <2>1 DEF StoreFails, EndOp, Op
  <2>4. Active' = {} /\ Configured' \subseteq Configured /\ Held' = Held
    BY <2>1, <2>2, <2>3 DEF Active, Configured, Held, Logged, InFlight, NoOp
  <2>5. RootsOK'
    BY <2>1, <2>2, <2>3, <2>4 DEF Identity, RootsOK, DistinctRoots, NoOp
  <2>6. UsedOK' /\ GoneOK'
    BY <2>1, <2>3, <2>4 DEF Identity, UsedOK, GoneOK, NoOp
  <2>7. EventsOK'
    BY <2>1, <2>4 DEF Identity, EventsOK, SeqOK, DistinctEvents, FlagOK
  <2> QED
    BY <2>5, <2>6, <2>7 DEF Identity
<1>4. CASE FlushStoreFails
  BY <1>4, FlushFrame, NetworkHolds, IdentityFrame DEF Kept, Held
<1>5. CASE DeliverLate \/ \E p \in Projects, b \in Backends : Revoke(p, b)
  <2>1. UNCHANGED <<row, queue, up, cfgDisk, cfgMem, op, used, todo, win>>
    BY <1>5 DEF DeliverLate, Revoke, storeVars, adminVars, flushVars
  <2>2. todo' \subseteq Held /\ win' \subseteq Held
    BY <2>1 DEF Held
  <2>3. Logged' \subseteq Held /\ InFlight' \subseteq Held
    <3>1. CASE DeliverLate
      BY <3>1, NetworkHolds
    <3>2. CASE \E p \in Projects, b \in Backends : Revoke(p, b)
      BY <3>2 DEF Revoke, Deny, Held, Logged, InFlight
    <3> QED
      BY <1>5, <3>1, <3>2
  <2> QED
    BY <2>1, <2>2, <2>3, IdentityFrame
<1> QED
  BY <1>1, <1>2, <1>3, <1>4, <1>5 DEF Environment

\* Every behaviour keeps identities.
LEMMA IdentityInvariant == Spec => [](Sound /\ Identity)
<1>1. Sound /\ Identity /\ [Next]_vars => Identity'
  <2> SUFFICES ASSUME Sound, Identity, [Next]_vars PROVE Identity'
    OBVIOUS
  <2>1. CASE FlushStep
    BY <2>1, FlushFrame, NetworkHolds, IdentityFrame DEF Kept, Held
  <2>2. CASE UNCHANGED vars
    <3>1. UNCHANGED <<row, queue, up, cfgDisk, cfgMem, op, used, todo, win, late, log>>
      BY <2>2 DEF vars, storeVars, adminVars, flushVars, backendVars
    <3>2. todo' \subseteq Held /\ win' \subseteq Held /\ Logged' \subseteq Held /\ InFlight' \subseteq Held
      BY <3>1 DEF Held, Logged, InFlight
    <3> QED
      BY <3>1, <3>2, IdentityFrame
  <2> QED
    BY <2>1, <2>2, BootIdentity, OpStepIdentity, AdminCallIdentity, HandlerIdentity,
       EnvironmentIdentity DEF Next
<1> QED
  BY <1>1, IdentityInit, SoundInvariant, PTL DEF Spec

-----------------------------------------------------------------------------
\* What follows.

\* Under the invariant no registration Run would queue meets a key of
\* event_queue.
LEMMA IdentityAvoidsConflict == Sound /\ Identity => BootNeverConflicts
<1> SUFFICES ASSUME Sound, Identity, NEW w \in cfgDisk.ws, ~row[w].reg, NEW f \in queue,
                    SameId(RegistrationEvent(cfgDisk, w), f)
                      \/ (f.ws = w /\ f.seq = row[w].seq + 1)
             PROVE  FALSE
  BY DEF BootNeverConflicts, UpsertConflict, NeedsRegistration, InsertConflict, RegistrationEvent
<1>1. w \in Workspaces /\ row[w].seq \in Nat /\ f.seq \in Nat
  BY DEF Sound, AdminOK, AdminTypeOK, Config, StoreOK, StoreTypeOK, Row, Event
<1>2. f.ws = w
  BY DEF SameId, RegistrationEvent
<1>3. row[w].present
  BY <1>2 DEF Identity, GoneOK, Held, Configured
<1>4. f.seq <= row[w].seq
  BY <1>2, <1>3 DEF Identity, EventsOK, SeqOK, Held
<1>5. f.kind # "reg"
  BY <1>2, <1>3 DEF Identity, EventsOK, FlagOK
<1> QED
  BY <1>1, <1>4, <1>5 DEF SameId, RegistrationEvent

\* Whatever is enrolled, removed, moved, reset, refused or cut off, the boot
\* loop of Run never meets a unique key of event_queue for a configured
\* workspace, so the store alone never keeps the service from starting.
THEOREM BootAlwaysPossible == Spec => []BootNeverConflicts
BY IdentityInvariant, IdentityAvoidsConflict, PTL

-----------------------------------------------------------------------------
\* Delivery.

Delivered == AckedWasAccepted /\ SentOK

\* A batch a backend accepts is known to it afterwards, each event under the
\* device it was queued for; what was known stays known.
LEMMA PublishEventsKnown ==
  ASSUME BackendTypeOK, NEW b \in Backends, NEW batch, PublishEvents(b, batch)
  PROVE  /\ Accepts(b, batch) => \A e \in batch : Known(e.dev, e)'
         /\ \A c \in Backends : log[c] \subseteq log'[c]
<1>1. log \in [Backends -> SUBSET Event] /\ log' = [log EXCEPT ![b] = @ \cup Fresh(b, batch)]
  BY DEF BackendTypeOK, PublishEvents
<1>2. log'[b] = log[b] \cup Fresh(b, batch) /\ \A c \in Backends : log[c] \subseteq log'[c]
  BY <1>1
<1>3. ASSUME Accepts(b, batch), NEW e \in batch PROVE Known(e.dev, e)'
  <2>1. e.dev = b
    BY <1>3 DEF Accepts, Refused
  <2>2. CASE Known(b, e)
    BY <1>2, <2>1, <2>2 DEF Known
  <2>3. CASE ~Known(b, e)
    <3>1. e \in log'[b] /\ SameId(e, e)
      BY <1>2, <2>3 DEF Fresh, SameId
    <3> QED
      BY <2>1, <3>1 DEF Known
  <2> QED
    BY <2>2, <2>3
<1> QED
  BY <1>2, <1>3

\* No backend forgets an event.
LEMMA LogGrows == Sound /\ Next => \A b \in Backends : log[b] \subseteq log'[b]
<1> SUFFICES ASSUME Sound, Next PROVE \A b \in Backends : log[b] \subseteq log'[b]
  OBVIOUS
<1>1. BackendTypeOK /\ (pc \in {"send", "single"} => via \in Backends)
      /\ late \subseteq [to : Backends, batch : SUBSET Event]
  BY DEF Sound, PassOK, FlushTypeOK, FlushOK, PCs
<1>2. CASE SendWindow \/ RetryAccepted
  BY <1>1, <1>2, PublishEventsKnown DEF SendWindow, RetryAccepted
<1>3. CASE SendFails \/ RetryFails
  BY <1>1, <1>3, PublishEventsKnown DEF SendFails, RetryFails, TransientFailure, backendVars
<1>4. CASE DeliverLate
  <2>1. PICK m \in late : IF Accepts(m.to, m.batch) THEN PublishEvents(m.to, m.batch)
                          ELSE UNCHANGED backendVars
    BY <1>4 DEF DeliverLate
  <2>2. m.to \in Backends
    BY <1>1
  <2> QED
    BY <1>1, <2>1, <2>2, PublishEventsKnown DEF backendVars
<1>5. CASE \E p \in Projects, b \in Backends : Revoke(p, b)
  BY <1>5 DEF Revoke, Deny
<1>6. CASE Boot \/ BootCut \/ OpStep \/ AdminCall \/ Handler \/ Crash \/ StoreFails \/ FlushStoreFails
  BY <1>6 DEF Boot, BootCut, OpStep, AddUpsert, AddCommit, RemoveStored, RebindStored, RebindUpsert,
     RebindMissing, FinishOp, AdminCall, AddWorkspace, Register, RemoveProjectWorkspaces,
     RebindProject, ResetBackend, Handler, Observe, PauseResume, Crash, StoreFails,
     FlushStoreFails, backendVars
<1>7. CASE LoadPending \/ LoadWorkspaces \/ PickSkip \/ PickUnconfigured \/ PickSender \/ FinishFlush
           \/ SendRejected \/ Drained \/ AckNext \/ AckMissing \/ NextWindow \/ RetryRefused
           \/ RetryAck \/ RetryAckMissing \/ RetryQuarantine
  BY <1>7 DEF LoadPending, LoadWorkspaces, PickSkip, PickUnconfigured, PickSender, FinishFlush,
     SendRejected, Drained, AckNext, AckMissing, NextWindow, RetryRefused, RetryAck,
     RetryAckMissing, RetryQuarantine, backendVars
<1> QED
  BY <1>2, <1>3, <1>4, <1>5, <1>6, <1>7 DEF Next, FlushStep, Environment

\* Acknowledging an event a backend knows flags an event its backend knows: the
\* row Ack finds by id is the event that was sent, or its registration.
LEMMA AckKnown ==
  ASSUME Sound, Identity, NEW e \in win, Known(e.dev, e), Ack(e)
  PROVE  Known(AckRow(e).dev, AckRow(e))
<1>1. AckRow(e) \in queue /\ SameId(e, AckRow(e))
  BY AckRowFound DEF Ack
<1>2. CASE e.kind = "reg"
  BY <1>1, <1>2 DEF Known, SameId
<1>3. CASE e.kind # "reg"
  <2>1. e = AckRow(e)
    BY <1>1, <1>3 DEF SameId, Identity, EventsOK, DistinctEvents, Held
  <2> QED
    BY <2>1
<1> QED
  BY <1>2, <1>3

\* What a step that adds nothing to acked leaves to show about the pass.
LEMMA DeliveredFrame ==
  ASSUME Sound, Delivered, \A b \in Backends : log[b] \subseteq log'[b],
         \A e \in acked' : e \in acked \/ (e \in queue /\ Known(e.dev, e))
  PROVE  /\ AckedWasAccepted'
         /\ \A e \in win : Known(e.dev, e) => Known(e.dev, e)'
<1>1. acked \subseteq Event /\ queue \subseteq Event /\ win \subseteq Event
  BY DEF Sound, StoreOK, StoreTypeOK, PassOK, FlushTypeOK
<1>2. \A b \in Backends : \A e : Known(b, e) => Known(b, e)'
  BY DEF Known
<1>3. \A e \in acked : e.dev \in Backends /\ Known(e.dev, e)'
  BY <1>1, <1>2 DEF Delivered, AckedWasAccepted, Event
<1>4. \A e \in queue : Known(e.dev, e) => Known(e.dev, e)'
  BY <1>1, <1>2 DEF Event
<1>5. \A e \in win : Known(e.dev, e) => Known(e.dev, e)'
  BY <1>1, <1>2 DEF Event
<1>6. AckedWasAccepted'
  BY <1>3, <1>4 DEF AckedWasAccepted
<1> QED
  BY <1>5, <1>6

\* The flush pass acknowledges only what a backend accepted.
LEMMA FlushStepDelivered == Sound /\ Identity /\ Delivered /\ FlushStep => Delivered'
<1> SUFFICES ASSUME Sound, Identity, Delivered, FlushStep PROVE Delivered'
  OBVIOUS
<1>1. \A b \in Backends : log[b] \subseteq log'[b]
  BY LogGrows DEF Next
<1>2. /\ BackendTypeOK /\ win \subseteq Event
      /\ pc \in {"send", "single"} => via \in Backends
      /\ pc = "singleAck" => win # {}
  BY DEF Sound, PassOK, FlushTypeOK, FlushOK, PCs
<1>3. CASE SendWindow
  <2>1. acked' = acked /\ pc' = "ack" /\ win' = Window
    BY <1>3 DEF SendWindow, storeVars
  <2>2. \A e \in Window : Known(e.dev, e)'
    BY <1>2, <1>3, PublishEventsKnown DEF SendWindow
  <2>3. AckedWasAccepted'
    BY <1>1, <2>1, DeliveredFrame
  <2> QED
    BY <2>1, <2>2, <2>3 DEF Delivered, SentOK, Known
<1>4. CASE RetryAccepted
  <2>1. acked' = acked /\ pc' = "singleAck" /\ win' = win
    BY <1>4 DEF RetryAccepted, storeVars
  <2>2. Known(FirstOf(win).dev, FirstOf(win))'
    <3>1. \A e \in {FirstOf(win)} : Known(e.dev, e)'
      BY <1>2, <1>4, PublishEventsKnown DEF RetryAccepted
    <3> QED
      BY <2>1, <3>1 DEF Known
  <2>3. AckedWasAccepted'
    BY <1>1, <2>1, DeliveredFrame
  <2> QED
    BY <2>1, <2>2, <2>3 DEF Delivered, SentOK
<1>5. CASE AckNext \/ RetryAck
  <2>1. /\ pc \in {"ack", "singleAck"} /\ Ack(FirstOf(win))
        /\ win' = win \ {FirstOf(win)} /\ win # {}
        /\ (pc' = pc /\ pc = "ack") \/ pc' = "single"
    BY <1>2, <1>5 DEF AckNext, RetryAck
  <2>2. FirstOf(win) \in win
    BY <1>2, <2>1, FirstOfInSet
  <2>3. Known(FirstOf(win).dev, FirstOf(win))
    BY <2>1, <2>2 DEF Delivered, SentOK
  <2>4. acked' = acked \cup {AckRow(FirstOf(win))} /\ AckRow(FirstOf(win)) \in queue
    BY <2>1, AckRowFound DEF Ack
  <2>5. Known(AckRow(FirstOf(win)).dev, AckRow(FirstOf(win)))
    BY <2>1, <2>2, <2>3, AckKnown
  <2>6. AckedWasAccepted' /\ \A e \in win : Known(e.dev, e) => Known(e.dev, e)'
    BY <1>1, <2>4, <2>5, DeliveredFrame
  <2>7. pc = "ack" => \A e \in win' : Known(e.dev, e)'
    BY <2>1, <2>6 DEF Delivered, SentOK
  <2> QED
    BY <2>1, <2>6, <2>7 DEF Delivered, SentOK, Known
<1>6. CASE ~(SendWindow \/ RetryAccepted \/ AckNext \/ RetryAck)
  <2>1. acked' = acked
    BY <1>6 DEF FlushStep, LoadPending, LoadWorkspaces, PickSkip, PickUnconfigured, PickSender,
       FinishFlush, SendRejected, SendFails, Drained, AckMissing, NextWindow, RetryRefused,
       RetryFails, RetryAckMissing, RetryQuarantine, Quarantine, storeVars
  <2>2. pc' \notin {"ack", "singleAck"}
    BY <1>6 DEF FlushStep, LoadPending, LoadWorkspaces, PickSkip, PickUnconfigured, PickSender,
       FinishFlush, SendRejected, SendFails, Drained, AckMissing, NextWindow, RetryRefused,
       RetryFails, RetryAckMissing, RetryQuarantine, GiveUpOnBackend
  <2>3. AckedWasAccepted'
    BY <1>1, <2>1, DeliveredFrame
  <2> QED
    BY <2>2, <2>3 DEF Delivered, SentOK
<1> QED
  BY <1>3, <1>4, <1>5, <1>6

\* Nothing else marks an event as delivered or starts an acknowledgement.
LEMMA OtherStepDelivered ==
  ASSUME Sound, Delivered, Next, ~FlushStep
  PROVE  Delivered'
<1>1. \A b \in Backends : log[b] \subseteq log'[b]
  BY LogGrows
<1>2. /\ acked' \subseteq acked
      /\ pc' \notin {"ack", "singleAck"} \/ UNCHANGED <<pc, win>>
  <2>1. CASE Boot \/ BootCut
    BY <2>1 DEF Boot, BootCut, UpsertWorkspaces, flushVars
  <2>2. CASE OpStep
    BY <2>2 DEF OpStep, AddUpsert, AddCommit, RemoveStored, RebindStored, RebindUpsert,
       RebindMissing, FinishOp, UpsertWorkspaces, DeleteWorkspace, RebindWorkspace, DropQueue,
       storeVars, flushVars
  <2>3. CASE AdminCall
    BY <2>3 DEF AdminCall, AddWorkspace, Register, RemoveProjectWorkspaces, RebindProject,
       ResetBackend, storeVars, flushVars
  <2>4. CASE Handler
    BY <2>4 DEF Handler, Observe, PauseResume, EnqueueEvents, SetPaused, flushVars
  <2>5. CASE Crash \/ StoreFails \/ FlushStoreFails \/ DeliverLate
             \/ \E p \in Projects, b \in Backends : Revoke(p, b)
    BY <2>5 DEF Crash, StoreFails, FlushStoreFails, GiveUpOnBackend, DeliverLate, Revoke,
       storeVars, flushVars
  <2> QED
    BY <2>1, <2>2, <2>3, <2>4, <2>5 DEF Next, Environment
<1>3. AckedWasAccepted' /\ \A e \in win : Known(e.dev, e) => Known(e.dev, e)'
  BY <1>1, <1>2, DeliveredFrame
<1>4. win \subseteq Event /\ (pc = "singleAck" => win # {})
  BY DEF Sound, PassOK, FlushTypeOK, FlushOK
<1>5. SentOK'
  <2>1. CASE pc' \notin {"ack", "singleAck"}
    BY <2>1 DEF SentOK
  <2>2. CASE UNCHANGED <<pc, win>>
    <3>1. pc = "singleAck" => FirstOf(win) \in win
      BY <1>4, FirstOfInSet
    <3>2. pc = "ack" => \A e \in win' : Known(e.dev, e)'
      BY <1>3, <2>2 DEF Delivered, SentOK
    <3>3. pc = "singleAck" => Known(FirstOf(win).dev, FirstOf(win))'
      <4>1. \A e \in win : Known(e.dev, e) => Known(e.dev, e)'
        BY <1>3
      <4> QED
        BY <2>2, <3>1, <4>1 DEF Delivered, SentOK, Known
    <3> QED
      BY <2>2, <3>2, <3>3 DEF SentOK, Known
  <2> QED
    BY <1>2, <2>1, <2>2
<1> QED
  BY <1>3, <1>5 DEF Delivered

\* Every reachable state is delivered in this sense.
LEMMA DeliveredInvariant == Spec => [](Sound /\ Identity /\ Delivered)
<1>1. Init => Delivered
  BY DEF Init, StoreInit, Delivered, AckedWasAccepted, SentOK
<1>2. Sound /\ Identity /\ Delivered /\ [Next]_vars => Delivered'
  <2> SUFFICES ASSUME Sound, Identity, Delivered, [Next]_vars PROVE Delivered'
    OBVIOUS
  <2>1. CASE UNCHANGED vars
    BY <2>1 DEF vars, storeVars, backendVars, flushVars, Delivered, AckedWasAccepted, SentOK, Known
  <2> QED
    BY <2>1, FlushStepDelivered, OtherStepDelivered
<1> QED
  BY <1>1, <1>2, IdentityInvariant, PTL DEF Spec

\* What event_queue marks as delivered is in the log of the backend it was queued
\* for, across lost replies, late requests, refusals, crashes, rebinds, removals
\* and re-enrollments.
THEOREM DeliveryIsHonest == Spec => []AckedWasAccepted
<1>1. Delivered => AckedWasAccepted
  BY DEF Delivered
<1> QED
  BY <1>1, DeliveredInvariant, PTL

-----------------------------------------------------------------------------
\* Moves: a registration is queued for a backend once.

InPass == todo \cup win

\* The configuration binds workspaces to backends this Mac has enrolled on.
EnrolledConfig(c) == \A w \in c.ws : BackendForWorkspace(c, w) \in enrolled

EnrolledOK ==
  /\ EnrolledConfig(cfgDisk) /\ EnrolledConfig(cfgMem)
  /\ op.kind \in {"add", "addCommit", "rebind", "rebindUpsert"} => op.target \in enrolled
  /\ \A e \in Kept : e.kind = "reg" => e.dev \in enrolled

\* A call that writes a registration finds none of the workspace for that
\* backend: the workspace is new, or the identity on the backend is.
MoveOK ==
  /\ op.kind = "add" => ~row[op.ws].present
  /\ op.kind = "rebindUpsert" => op.ws \notin op.rest
  /\ op.kind \in {"rebind", "rebindUpsert"} =>
       \A e \in Kept : e.kind = "reg" /\ e.ws \in Active => e.dev # op.target

\* What the pass holds at each of its stages.
PassStages ==
  /\ ~up => pc = "idle"
  /\ pc = "idle" => todo = {}
  /\ pc \in {"idle", "loaded", "pick", "send"} => win = {}

Moves == EnrolledOK /\ MoveOK /\ PassStages

\* The pass stays within its stages.
LEMMA StagesStep == Sound /\ PassStages /\ [Next]_vars => PassStages'
<1> SUFFICES ASSUME Sound, PassStages, [Next]_vars PROVE PassStages'
  OBVIOUS
<1> USE DEF PassStages
<1>1. CASE FlushStep
  <2>1. UNCHANGED up /\ (pc = "idle" => up)
    BY <1>1 DEF FlushStep, FlushUnchanged, adminVars, LoadPending, LoadWorkspaces, PickSkip,
       PickUnconfigured, PickSender, FinishFlush, SendWindow, SendRejected, SendFails, Drained,
       AckNext, AckMissing, NextWindow, RetryAccepted, RetryRefused, RetryFails, RetryAck,
       RetryAckMissing, RetryQuarantine
  <2>2. CASE LoadPending \/ LoadWorkspaces \/ PickSkip \/ PickUnconfigured \/ PickSender
             \/ FinishFlush \/ Drained \/ NextWindow
    BY <2>1, <2>2 DEF LoadPending, LoadWorkspaces, PickSkip, PickUnconfigured, PickSender,
       FinishFlush, Drained, NextWindow
  <2>3. CASE SendWindow \/ SendRejected \/ RetryAccepted \/ RetryRefused \/ AckNext \/ RetryAck
             \/ RetryQuarantine
    BY <2>1, <2>3 DEF SendWindow, SendRejected, RetryAccepted, RetryRefused, AckNext, RetryAck,
       RetryQuarantine
  <2>4. CASE SendFails \/ RetryFails \/ RetryAckMissing \/ AckMissing
    BY <2>1, <2>4 DEF SendFails, RetryFails, RetryAckMissing, AckMissing, GiveUpOnBackend
  <2> QED
    BY <1>1, <2>2, <2>3, <2>4 DEF FlushStep
<1>2. CASE FlushStoreFails
  BY <1>2 DEF FlushStoreFails, GiveUpOnBackend
<1>3. CASE Crash
  BY <1>3 DEF Crash
<1>4. CASE Boot \/ BootCut \/ Handler \/ StoreFails \/ DeliverLate
           \/ \E p \in Projects, b \in Backends : Revoke(p, b)
  <2>1. UNCHANGED <<pc, todo, win>> /\ (up' = TRUE \/ up' = up)
    BY <1>4 DEF Boot, BootCut, Handler, Observe, PauseResume, StoreFails, DeliverLate, Revoke,
       flushVars, adminVars
  <2> QED
    BY <2>1
<1>5. CASE AdminCall \/ OpStep
  <2>1. UNCHANGED <<up, pc, todo, win>>
    BY <1>5 DEF AdminCall, AddWorkspace, Register, RemoveProjectWorkspaces, RebindProject,
       ResetBackend, OpStep, AddUpsert, AddCommit, RemoveStored, RebindStored, RebindUpsert,
       RebindMissing, FinishOp, flushVars
  <2> QED
    BY <2>1
<1>6. CASE UNCHANGED vars
  BY <1>6 DEF vars, adminVars, flushVars
<1> QED
  BY <1>1, <1>2, <1>3, <1>4, <1>5, <1>6 DEF Next, Environment

\* The administrative calls bind workspaces to backends enrolled on, and a move
\* goes to a backend no registration is for.
LEMMA AdminCallMoves ==
  ASSUME Sound, Identity, EnrolledOK, MoveOK, AdminCall
  PROVE  EnrolledOK' /\ MoveOK'
<1> USE DEF EnrolledConfig
<1>1. UNCHANGED <<row, queue, todo, win>> /\ Kept' = Kept
  BY DEF AdminCall, AddWorkspace, Register, RemoveProjectWorkspaces, RebindProject, ResetBackend,
     storeVars, flushVars, Kept
<1>2. /\ cfgDisk \in Config /\ cfgMem \in Config /\ CurrentConfig \in Config
      /\ EnrolledConfig(CurrentConfig) /\ op \in Op
  BY CurrentConfigOK DEF Sound, AdminOK, AdminTypeOK, CurrentConfig, EnrolledOK
<1>3. \A c \in Config, w \in Workspaces, b \in Backends : EnrolledConfig(c) =>
        \A v \in AddToConfig(c, w, b).ws :
          BackendForWorkspace(AddToConfig(c, w, b), v) \in enrolled \cup {b}
  BY ProjectOfAssumption DEF AddToConfig, Config, BackendForWorkspace, BackendForProject,
     UpsertBackend, BindProject
<1>4. ASSUME NEW w \in Workspaces, NEW b \in Backends, AddWorkspace(w, b)
      PROVE  EnrolledOK' /\ MoveOK'
  <2>1. /\ cfgDisk' = AddToConfig(cfgMem, w, b) /\ UNCHANGED cfgMem /\ enrolled' = enrolled \cup {b}
        /\ op' = [kind |-> "add", rest |-> {}, ws |-> w, target |-> b] /\ w \notin used
    BY <1>4 DEF AddWorkspace
  <2>2. ~row[w].present
    BY <2>1 DEF Identity, UsedOK
  <2>3. EnrolledConfig(cfgDisk)' /\ EnrolledConfig(cfgMem)'
    BY <1>2, <1>3, <2>1 DEF EnrolledOK
  <2> QED
    BY <1>1, <2>1, <2>2, <2>3 DEF EnrolledOK, MoveOK
<1>5. ASSUME NEW w \in Workspaces, NEW b \in Backends, Register(w, b)
      PROVE  EnrolledOK' /\ MoveOK'
  <2>1. /\ cfgDisk' = AddToConfig(cfgDisk, w, b) /\ UNCHANGED <<cfgMem, op>>
        /\ enrolled' = enrolled \cup {b} /\ op.kind = "none"
    BY <1>5 DEF Register, StartAdmin
  <2>2. EnrolledConfig(cfgDisk)' /\ EnrolledConfig(cfgMem)'
    BY <1>2, <1>3, <2>1 DEF EnrolledOK
  <2> QED
    BY <1>1, <2>1, <2>2 DEF EnrolledOK, MoveOK
<1>6. ASSUME NEW p \in Projects, RemoveProjectWorkspaces(p)
      PROVE  EnrolledOK' /\ MoveOK'
  <2>1. /\ SaveConfig(RemoveProject(CurrentConfig, p)) /\ UNCHANGED enrolled
        /\ op'.kind = "remove"
    BY <1>6 DEF RemoveProjectWorkspaces
  <2>2. EnrolledConfig(RemoveProject(CurrentConfig, p))
    BY <1>2 DEF RemoveProject, WorkspacesForProject, Config, BackendForWorkspace, BackendForProject
  <2>3. EnrolledConfig(cfgDisk)' /\ EnrolledConfig(cfgMem)'
    BY <2>1, <2>2 DEF SaveConfig, EnrolledOK
  <2> QED
    BY <1>1, <2>1, <2>3 DEF EnrolledOK, MoveOK
<1>7. ASSUME NEW p \in Projects, NEW b \in Backends, RebindProject(p, b)
      PROVE  EnrolledOK' /\ MoveOK'
  <2>1. /\ SaveConfig(RebindInConfig(CurrentConfig, p, b)) /\ enrolled' = enrolled \cup {b}
        /\ op'.kind = "rebind" /\ op'.target = b /\ b \notin enrolled
    BY <1>7 DEF RebindProject, Promotable
  <2>2. \A v \in RebindInConfig(CurrentConfig, p, b).ws :
          BackendForWorkspace(RebindInConfig(CurrentConfig, p, b), v) \in enrolled'
    BY <1>2, <2>1, ProjectOfAssumption
       DEF RebindInConfig, BindProject, UpsertBackend, Config, BackendForWorkspace, BackendForProject
  <2>3. EnrolledConfig(cfgDisk)' /\ EnrolledConfig(cfgMem)'
    BY <2>1, <2>2 DEF SaveConfig, EnrolledOK
  <2> QED
    BY <1>1, <2>1, <2>3 DEF EnrolledOK, MoveOK
<1>8. ASSUME NEW b \in Backends, ResetBackend(b)
      PROVE  EnrolledOK' /\ MoveOK'
  <2>1. cfgDisk' = RemoveBackend(cfgDisk, b) /\ UNCHANGED <<cfgMem, op, enrolled>>
    BY <1>8 DEF ResetBackend
  <2>2. EnrolledConfig(cfgDisk)' /\ EnrolledConfig(cfgMem)'
    BY <1>2, <2>1, ProjectOfAssumption
       DEF EnrolledOK, RemoveBackend, Config, BackendForWorkspace, BackendForProject
  <2> QED
    BY <1>1, <2>1, <2>2 DEF EnrolledOK, MoveOK, Active
<1> QED
  BY <1>4, <1>5, <1>6, <1>7, <1>8 DEF AdminCall

\* What UpsertWorkspace queues: registrations of the workspaces it writes, for
\* the backends the configuration binds them to.
LEMMA UpsertKept ==
  ASSUME NEW c, NEW S, UpsertWorkspaces(c, S), UNCHANGED <<todo, win>>
  PROVE  \A e \in Kept' : e \in Kept \/ (e.ws \in S /\ e.dev = BackendForWorkspace(c, e.ws))
BY DEF UpsertWorkspaces, RegistrationEvent, Kept

\* The transactions of an administrative call keep to the backends enrolled on.
LEMMA OpStepMoves ==
  ASSUME Sound, Identity, EnrolledOK, MoveOK, OpStep
  PROVE  EnrolledOK' /\ MoveOK'
<1> USE DEF EnrolledConfig
<1>1. UNCHANGED <<up, cfgDisk, used, enrolled, todo, win>>
  BY DEF OpStep, AddUpsert, AddCommit, RemoveStored, RebindStored, RebindUpsert, RebindMissing,
     FinishOp, flushVars
<1>2. /\ op \in Op /\ cfgMem \in Config /\ cfgDisk \in Config /\ CurrentConfig \in Config
      /\ op.kind \in {"add", "addCommit", "rebindUpsert"} => op.ws \in Workspaces /\ op.target \in Backends
      /\ row \in [Workspaces -> Row]
  BY CurrentConfigOK DEF Sound, AdminOK, AdminTypeOK, OpOK, StoreOK, StoreTypeOK
<1>3. CASE AddUpsert
  <2> DEFINE next == AddToConfig(cfgMem, op.ws, op.target)
  <2>1. /\ op.kind = "add" /\ op' = [op EXCEPT !.kind = "addCommit"] /\ UNCHANGED cfgMem
        /\ UpsertWorkspaces(next, {op.ws})
    BY <1>3 DEF AddUpsert
  <2>2. BackendForWorkspace(next, op.ws) = op.target
    BY <1>2, <2>1, ProjectOfAssumption
       DEF AddToConfig, BindProject, UpsertBackend, Config, BackendForWorkspace, BackendForProject
  <2>3. op'.kind = "addCommit" /\ op'.target = op.target
    BY <1>2, <2>1 DEF Op
  <2>4. \A e \in Kept' : e \in Kept \/ e.dev = op.target
    <3> HIDE DEF next
    <3> QED
      BY <1>1, <2>1, <2>2, UpsertKept
  <2> QED
    BY <1>1, <2>1, <2>3, <2>4 DEF EnrolledOK, MoveOK
<1>4. CASE RebindUpsert
  <2> DEFINE next == RebindInConfig(CurrentConfig, ProjectOf[op.ws], op.target)
  <2>1. /\ op.kind = "rebindUpsert" /\ op' = [op EXCEPT !.kind = "rebind", !.ws = 0]
        /\ UNCHANGED cfgMem /\ UpsertWorkspaces(next, {op.ws})
    BY <1>4 DEF RebindUpsert
  <2>2. BackendForWorkspace(next, op.ws) = op.target
    BY <1>2, <2>1, ProjectOfAssumption
       DEF RebindInConfig, BindProject, UpsertBackend, Config, BackendForWorkspace, BackendForProject
  <2>3. op'.kind = "rebind" /\ op'.target = op.target /\ op'.rest = op.rest
    BY <1>2, <2>1 DEF Op
  <2>4. \A e \in Kept' : e \in Kept \/ (e.ws = op.ws /\ e.dev = op.target)
    <3> HIDE DEF next
    <3> QED
      BY <1>1, <2>1, <2>2, UpsertKept
  <2>5. op.ws \notin Active' /\ Active' \subseteq Active
    BY <2>1, <2>3 DEF MoveOK, Active
  <2> QED
    BY <1>1, <2>1, <2>3, <2>4, <2>5 DEF EnrolledOK, MoveOK
<1>5. CASE AddCommit
  <2>1. /\ op.kind = "addCommit" /\ op' = NoOp /\ UNCHANGED <<row, queue>>
        /\ cfgMem' = AddToConfig(cfgMem, op.ws, op.target)
    BY <1>5 DEF AddCommit, EndOp, storeVars
  <2>2. EnrolledConfig(cfgMem)'
    BY <1>1, <1>2, <2>1, ProjectOfAssumption
       DEF EnrolledOK, AddToConfig, BindProject, UpsertBackend, Config, BackendForWorkspace,
       BackendForProject
  <2> QED
    BY <1>1, <2>1, <2>2 DEF EnrolledOK, MoveOK, NoOp, Kept
<1>6. CASE RemoveStored
  <2>1. /\ queue' \subseteq queue /\ op.kind = "remove" /\ UNCHANGED cfgMem
        /\ op'.kind = "remove"
    BY <1>2, <1>6 DEF RemoveStored, DeleteWorkspace, DropQueue, Op
  <2> QED
    BY <1>1, <2>1 DEF EnrolledOK, MoveOK, Kept
<1>7. CASE RebindStored
  <2>1. PICK w \in op.rest : /\ RebindWorkspace(w, op.target)
                             /\ op' = [op EXCEPT !.kind = "rebindUpsert", !.ws = w, !.rest = @ \ {w}]
    BY <1>7 DEF RebindStored
  <2>2. op.kind = "rebind" /\ UNCHANGED cfgMem
    BY <1>7 DEF RebindStored
  <2>3. op'.kind = "rebindUpsert" /\ op'.ws = w /\ op'.rest = op.rest \ {w} /\ op'.target = op.target
    BY <1>2, <2>1 DEF Op
  <2>4. Active' = Active /\ Kept' \subseteq Kept
    BY <1>1, <2>1, <2>2, <2>3 DEF Active, Kept, RebindWorkspace, DropQueue
  <2> QED
    BY <1>1, <2>2, <2>3, <2>4 DEF EnrolledOK, MoveOK
<1>8. CASE RebindMissing \/ FinishOp
  <2>1. op' = NoOp /\ UNCHANGED <<row, queue, cfgMem>>
    BY <1>8 DEF RebindMissing, FinishOp, EndOp, storeVars
  <2> QED
    BY <1>1, <2>1 DEF EnrolledOK, MoveOK, NoOp, Kept
<1> QED
  BY <1>3, <1>4, <1>5, <1>6, <1>7, <1>8 DEF OpStep

\* A boot registers workspaces on the backends the file binds them to.
LEMMA BootMoves ==
  ASSUME Sound, EnrolledOK, MoveOK, Boot \/ BootCut
  PROVE  EnrolledOK' /\ MoveOK'
<1>1. PICK S \in SUBSET cfgDisk.ws : UpsertWorkspaces(cfgDisk, S)
  BY DEF Boot, BootCut
<1>2. /\ op.kind = "none" /\ UNCHANGED <<op, cfgDisk, enrolled, todo, win>>
      /\ cfgMem' \in {cfgMem, cfgDisk}
  BY DEF Boot, BootCut, flushVars
<1>3. \A e \in Kept' : e \in Kept \/ (e.ws \in S /\ e.dev = BackendForWorkspace(cfgDisk, e.ws))
  BY <1>1, <1>2, UpsertKept
<1>4. \A e \in Kept' : e.kind = "reg" => e.dev \in enrolled
  BY <1>3 DEF EnrolledOK, EnrolledConfig
<1> QED
  BY <1>2, <1>4 DEF EnrolledOK, EnrolledConfig, MoveOK

\* A step that leaves configuration and call alone and keeps no registration
\* that was not kept.
LEMMA MovesFrame ==
  ASSUME EnrolledOK, MoveOK, UNCHANGED <<cfgDisk, cfgMem, op, enrolled>>,
         \A w : row'[w].present = row[w].present,
         \A e \in Kept' : e \in Kept \/ e.kind # "reg"
  PROVE  EnrolledOK' /\ MoveOK'
BY DEF EnrolledOK, EnrolledConfig, MoveOK, Active

\* Every step keeps the backends of registrations apart.
LEMMA MovesStep == Sound /\ Identity /\ Moves /\ [Next]_vars => Moves'
<1> SUFFICES ASSUME Sound, Identity, Moves, [Next]_vars PROVE EnrolledOK' /\ MoveOK'
  BY StagesStep DEF Moves
<1> USE DEF Moves
<1>1. CASE FlushStep \/ FlushStoreFails
  <2>1. UNCHANGED enrolled
    BY <1>1 DEF FlushStep, FlushStoreFails, FlushUnchanged, adminVars, LoadPending, LoadWorkspaces,
       PickSkip, PickUnconfigured, PickSender, FinishFlush, SendWindow, SendRejected, SendFails,
       Drained, AckNext, AckMissing, NextWindow, RetryAccepted, RetryRefused, RetryFails, RetryAck,
       RetryAckMissing, RetryQuarantine
  <2>2. UNCHANGED <<row, queue, cfgDisk, cfgMem, op>> /\ Kept' \subseteq Kept
    BY <1>1, FlushFrame DEF Kept
  <2> QED
    BY <2>1, <2>2, MovesFrame
<1>2. CASE Handler
  <2>1. UNCHANGED <<cfgDisk, cfgMem, op, enrolled, todo, win>>
    BY <1>2 DEF Handler, Observe, PauseResume, adminVars, flushVars
  <2>2. op.kind = "add" => op.ws \in Workspaces
    BY DEF Sound, AdminOK, OpOK
  <2>3. row \in [Workspaces -> Row]
    BY DEF Sound, StoreOK, StoreTypeOK
  <2>4. ASSUME NEW w \in Workspaces, NEW kind \in {"obs", "mft"}, NEW n \in 1..MaxBurst,
               Observe(w, kind, n)
        PROVE  EnrolledOK' /\ MoveOK'
    <3>1. \A e \in Kept' : e \in Kept \/ e.kind # "reg"
      BY <2>1, <2>4 DEF Observe, EnqueueEvents, Kept
    <3>2. op.kind = "add" => row'[op.ws].present = row[op.ws].present
      BY <2>2, <2>3, <2>4 DEF Observe, EnqueueEvents, Row
    <3> QED
      BY <2>1, <3>1, <3>2 DEF EnrolledOK, EnrolledConfig, MoveOK, Active
  <2>5. ASSUME NEW S, NEW v, PauseResume(S, v)
        PROVE  EnrolledOK' /\ MoveOK'
    <3>1. Kept' = Kept
      BY <2>1, <2>5 DEF PauseResume, SetPaused, Kept
    <3>2. op.kind = "add" => row'[op.ws].present = row[op.ws].present
      BY <2>2, <2>3, <2>5 DEF PauseResume, SetPaused, Row
    <3> QED
      BY <2>1, <3>1, <3>2 DEF EnrolledOK, EnrolledConfig, MoveOK, Active
  <2> QED
    BY <1>2, <2>4, <2>5 DEF Handler
<1>3. CASE Crash
  <2>1. /\ cfgMem' = EmptyConfig /\ op' = NoOp /\ UNCHANGED <<cfgDisk, enrolled>> /\ Kept' \subseteq Kept
    BY <1>3 DEF Crash, storeVars, Kept
  <2> QED
    BY <2>1 DEF EnrolledOK, EnrolledConfig, MoveOK, EmptyConfig, NoOp
<1>4. CASE StoreFails
  <2>1. /\ cfgDisk' \in {cfgDisk, cfgMem} /\ UNCHANGED <<cfgMem, enrolled>> /\ Kept' = Kept
        /\ op'.kind \in {"none", "remove"}
    BY <1>4 DEF StoreFails, EndOp, NoOp, storeVars, flushVars, Kept, Sound, AdminOK, AdminTypeOK, Op
  <2> QED
    BY <2>1 DEF EnrolledOK, EnrolledConfig, MoveOK
<1>5. CASE DeliverLate \/ (\E p \in Projects, b \in Backends : Revoke(p, b)) \/ UNCHANGED vars
  <2>1. UNCHANGED <<row, cfgDisk, cfgMem, op, enrolled>> /\ Kept' = Kept
    BY <1>5 DEF DeliverLate, Revoke, vars, storeVars, adminVars, flushVars, Kept
  <2> QED
    BY <2>1, MovesFrame
<1> QED
  BY <1>1, <1>2, <1>3, <1>4, <1>5, BootMoves, OpStepMoves, AdminCallMoves DEF Next, Environment

\* Every reachable state keeps them apart.
LEMMA MovesInvariant == Spec => [](Sound /\ Identity /\ Moves)
<1>1. Init => Moves
  <2> SUFFICES ASSUME Init PROVE Moves
    OBVIOUS
  <2>1. \A w \in InitialConfig.ws : BackendForWorkspace(InitialConfig, w) \in InitialConfig.known
    BY InitialConfigAssumption DEF WellFormed
  <2> QED
    BY <2>1 DEF Init, StoreInit, Moves, EnrolledOK, EnrolledConfig, EmptyConfig, NoOp, MoveOK,
       PassStages, Kept
<1> QED
  BY <1>1, MovesStep, IdentityInvariant, PTL DEF Spec

-----------------------------------------------------------------------------
\* Order.

Earlier(e, f) == e.ws = f.ws /\ e.seq < f.seq

\* The window is of one workspace and precedes what the pass still has of it.
WindowFirst == \A e \in win : e.ws = cur /\ \A f \in todo : f.ws = cur => e.seq < f.seq

DistinctTodo == \A e, f \in todo : e.ws = f.ws /\ e.seq = f.seq => e = f

\* The pass has not left out an event before one it still has.
NoneSkipped == \A e \in Pending, f \in InPass : Earlier(e, f) => e \in InPass

\* What the pass still has is not settled.
Unsettled == InPass \cap queue \subseteq Pending

\* Ack and Quarantine find an event of the pass under its id, or none.
OwnRow == \A e \in Kept, f \in queue : SameId(e, f) => e = f

\* Events of a workspace are settled oldest first.
SettledFirst == \A e \in acked \cup quarantined, f \in Pending : e.ws = f.ws => e.seq < f.seq

\* The cursor is the sequence of an event that was acknowledged.
CursorOK ==
  \A w \in Workspaces : cursor[w] = 0 \/ \E e \in acked : e.ws = w /\ e.seq = cursor[w]

PositiveSeq == \A e \in queue : e.seq > 0

PassOrder == WindowFirst /\ DistinctTodo /\ NoneSkipped /\ Unsettled /\ OwnRow

QueueOrder == SettledFirst /\ CursorOK /\ PositiveSeq

Order == PassOrder /\ QueueOrder

\* New rows of event_queue, numbered past whatever exists of their workspaces.
Appended(new) ==
  /\ queue' = queue \cup new
  /\ \A f \in new : f.seq \in Nat /\ f.seq > 0
  /\ \A e \in Held, f \in new : e.ws = f.ws => e.seq < f.seq
  /\ \A e \in Kept, f \in new : ~SameId(e, f) /\ ~SameId(f, e)
  /\ \A e, f \in new : SameId(e, f) => e = f
  /\ UNCHANGED <<acked, quarantined, cursor, todo, win, cur, log, high, stale, late>>

\* UpsertWorkspace appends, where it finds a row for every workspace an event
\* exists of and no registration of the pass for the same backend.
LEMMA UpsertAppends ==
  ASSUME Sound, Identity, NEW c, NEW S, S \subseteq Workspaces,
         \A e \in Held : e.ws \in S => row[e.ws].present,
         \A e \in InPass : e.kind = "reg" /\ e.ws \in S => e.dev # BackendForWorkspace(c, e.ws),
         UpsertWorkspaces(c, S), UNCHANGED <<flushVars, late, backendVars>>
  PROVE  \E new : Appended(new)
<1> DEFINE new == {RegistrationEvent(c, w) : w \in {v \in S : NeedsRegistration(v)}}
<1>1. \A w \in Workspaces : row[w].seq \in Nat
  BY DEF Sound, StoreOK, StoreTypeOK, Row
<1>2. \A f \in new : /\ f.ws \in S /\ f.seq = row[f.ws].seq + 1 /\ f.kind = "reg"
                     /\ f.dev = BackendForWorkspace(c, f.ws)
  BY DEF RegistrationEvent
<1>3. \A e \in Held : e.seq \in Nat /\ (row[e.ws].present => e.seq <= row[e.ws].seq)
  BY DEF Held, Logged, InFlight, Sound, StoreOK, StoreTypeOK, PassOK, FlushTypeOK, Event,
     Identity, EventsOK, SeqOK
<1>4. \A f \in new : f.seq \in Nat /\ f.seq > 0
  BY <1>1, <1>2
<1>5. \A e \in Held, f \in new : e.ws = f.ws => e.seq < f.seq
  BY <1>1, <1>2, <1>3
<1>6. \A e \in Kept, f \in new : ~SameId(e, f) /\ ~SameId(f, e)
  <2> SUFFICES ASSUME NEW e \in Kept, NEW f \in new, SameId(e, f) \/ SameId(f, e) PROVE FALSE
    OBVIOUS
  <2>1. e.kind = "reg" /\ e.ws = f.ws /\ e.dev = f.dev
    BY <1>2 DEF SameId
  <2>2. CASE e \in InPass
    BY <1>2, <2>1, <2>2
  <2>3. CASE e \in queue
    <3>1. row[e.ws].present /\ ~row[e.ws].reg
      BY <1>2, <2>1, <2>3 DEF Held, RegistrationEvent, NeedsRegistration
    <3> QED
      BY <2>1, <2>3, <3>1 DEF Identity, EventsOK, FlagOK
  <2> QED
    BY <2>2, <2>3 DEF Kept, InPass
<1>7. \A e, f \in new : SameId(e, f) => e = f
  BY DEF SameId, RegistrationEvent
<1>8. queue' = queue \cup new /\ UNCHANGED <<acked, quarantined, cursor>>
  BY DEF UpsertWorkspaces
<1> HIDE DEF new
<1>9. Appended(new)
  BY <1>4, <1>5, <1>6, <1>7, <1>8 DEF Appended, flushVars, backendVars
<1> QED
  BY <1>9

\* Every step that queues events appends.
LEMMA StepAppends ==
  ASSUME Sound, Identity, Moves, Boot \/ BootCut \/ AddUpsert \/ RebindUpsert
           \/ \E w \in Workspaces, kind \in {"obs", "mft"}, n \in 1..MaxBurst : Observe(w, kind, n)
  PROVE  \E new : Appended(new)
<1>1. /\ op \in Op /\ cfgMem \in Config /\ cfgDisk \in Config /\ CurrentConfig \in Config
      /\ op.kind \in {"add", "addCommit", "rebindUpsert"} => op.ws \in Workspaces /\ op.target \in Backends
  BY CurrentConfigOK DEF Sound, AdminOK, AdminTypeOK, OpOK
<1>2. CASE Boot \/ BootCut
  <2>1. PICK S \in SUBSET cfgDisk.ws : UpsertWorkspaces(cfgDisk, S)
    BY <1>2 DEF Boot, BootCut
  <2>2. InPass = {} /\ UNCHANGED <<flushVars, late, backendVars>>
    BY <1>2 DEF Boot, BootCut, Moves, PassStages, InPass
  <2>3. S \subseteq Workspaces /\ \A e \in Held : e.ws \in S => row[e.ws].present
    BY <1>1 DEF Identity, GoneOK, Configured, Config
  <2> QED
    BY <2>1, <2>2, <2>3, UpsertAppends
<1>3. CASE AddUpsert
  <2> DEFINE next == AddToConfig(cfgMem, op.ws, op.target)
  <2>1. /\ op.kind = "add" /\ UpsertWorkspaces(next, {op.ws}) /\ UNCHANGED <<flushVars, late, backendVars>>
    BY <1>3 DEF AddUpsert
  <2>2. \A e \in Held : e.ws # op.ws
    BY <2>1 DEF Identity, GoneOK, Moves, MoveOK
  <2>3. \A e \in InPass : e.ws # op.ws
    BY <2>2 DEF InPass, Held
  <2> HIDE DEF next
  <2> QED
    BY <1>1, <2>1, <2>2, <2>3, UpsertAppends
<1>4. CASE RebindUpsert
  <2> DEFINE next == RebindInConfig(CurrentConfig, ProjectOf[op.ws], op.target)
  <2>1. /\ op.kind = "rebindUpsert" /\ UpsertWorkspaces(next, {op.ws})
        /\ UNCHANGED <<flushVars, late, backendVars>>
    BY <1>4 DEF RebindUpsert
  <2>2. BackendForWorkspace(next, op.ws) = op.target
    BY <1>1, <2>1, ProjectOfAssumption
       DEF RebindInConfig, BindProject, UpsertBackend, Config, BackendForWorkspace, BackendForProject
  <2>3. row[op.ws].present
    BY <2>1 DEF Identity, RootsOK
  <2>4. \A e \in InPass : e.kind = "reg" /\ e.ws = op.ws => e.dev # op.target
    BY <2>1 DEF Moves, MoveOK, InPass, Kept, Active
  <2> HIDE DEF next
  <2> QED
    BY <1>1, <2>1, <2>2, <2>3, <2>4, UpsertAppends
<1>5. ASSUME NEW w \in Workspaces, NEW kind \in {"obs", "mft"}, NEW n \in 1..MaxBurst,
             Observe(w, kind, n)
      PROVE  \E new : Appended(new)
  <2> DEFINE new == {[ws |-> w, seq |-> row[w].seq + i, dev |-> row[w].backend, kind |-> kind] : i \in 1..n}
  <2>1. row[w].seq \in Nat /\ row[w].present
    BY <1>5 DEF Sound, StoreOK, StoreTypeOK, Row, Observe, EnqueueEvents
  <2>2. \A f \in new : f.ws = w /\ f.seq \in Nat /\ f.seq > row[w].seq /\ f.seq > 0 /\ f.kind # "reg"
    BY <2>1
  <2>3. \A e \in Held : e.seq \in Nat /\ (e.ws = w => e.seq <= row[w].seq)
    BY <2>1 DEF Held, Logged, InFlight, Sound, StoreOK, StoreTypeOK, PassOK, FlushTypeOK, Event,
       Identity, EventsOK, SeqOK
  <2>4. \A e \in Held, f \in new : e.ws = f.ws => e.seq < f.seq
    BY <2>1, <2>2, <2>3
  <2>5. \A e \in Kept, f \in new : ~SameId(e, f) /\ ~SameId(f, e)
    <3> SUFFICES ASSUME NEW e \in Kept, NEW f \in new, SameId(e, f) \/ SameId(f, e) PROVE FALSE
      OBVIOUS
    <3>1. e \in Held /\ e.ws = f.ws /\ e.seq = f.seq
      BY <2>2 DEF SameId, Kept, Held
    <3> QED
      BY <2>2, <2>3, <2>4, <3>1
  <2>6. \A e, f \in new : SameId(e, f) => e = f
    BY DEF SameId
  <2>7. queue' = queue \cup new
    BY <1>5 DEF Observe, EnqueueEvents
  <2>8. UNCHANGED <<acked, quarantined, cursor, todo, win, cur, log, high, stale, late>>
    BY <1>5 DEF Observe, EnqueueEvents, flushVars, backendVars
  <2> HIDE DEF new
  <2>9. Appended(new)
    BY <2>2, <2>4, <2>5, <2>6, <2>7, <2>8 DEF Appended
  <2> QED
    BY <2>9
<1> QED
  BY <1>2, <1>3, <1>4, <1>5

\* Appending keeps the order.
LEMMA AppendOrder ==
  ASSUME Sound, Order, NEW new, Appended(new)
  PROVE  Order'
<1>1. /\ queue' = queue \cup new /\ InPass' = InPass
      /\ UNCHANGED <<acked, quarantined, cursor, todo, win, cur>>
      /\ acked \cup quarantined \subseteq queue /\ queue \subseteq Held /\ InPass \subseteq Held
  BY DEF Appended, InPass, Held, Sound, StoreOK, StoreTypeOK
<1>2. \A e \in Held, f \in new : e.ws = f.ws => e.seq < f.seq
  BY DEF Appended
<1>3. \A e \in Held : e.seq \in Nat
  BY DEF Held, Logged, InFlight, Sound, StoreOK, StoreTypeOK, PassOK, FlushTypeOK, Event
<1>4. Pending' \subseteq Pending \cup new /\ Pending \subseteq Pending'
  BY <1>1 DEF Pending
<1>5. WindowFirst' /\ DistinctTodo'
  BY <1>1 DEF Order, PassOrder, WindowFirst, DistinctTodo
<1>6. NoneSkipped'
  <2> SUFFICES ASSUME NEW e \in Pending', NEW f \in InPass, Earlier(e, f) PROVE e \in InPass
    BY <1>1 DEF NoneSkipped
  <2>1. CASE e \in Pending
    BY <2>1 DEF Order, PassOrder, NoneSkipped
  <2>2. CASE e \in new
    <3>1. f.ws = e.ws /\ f.seq < e.seq /\ e.seq < f.seq /\ f.seq \in Nat /\ e.seq \in Nat
      BY <1>1, <1>2, <1>3, <2>2 DEF Earlier, Appended
    <3> QED
      BY <3>1
  <2> QED
    BY <1>4, <2>1, <2>2
<1>7. Unsettled'
  <2> SUFFICES ASSUME NEW e \in InPass, e \in queue' PROVE e \in Pending'
    BY <1>1 DEF Unsettled
  <2>1. e \notin new
    BY <1>1, <1>2, <1>3
  <2> QED
    BY <1>1, <1>4, <2>1 DEF Order, PassOrder, Unsettled
<1>8. OwnRow'
  BY <1>1 DEF OwnRow, Order, PassOrder, Appended, Kept
<1>9. SettledFirst'
  BY <1>1, <1>2, <1>4 DEF SettledFirst, Order, QueueOrder
<1>10. CursorOK' /\ PositiveSeq'
  BY <1>1 DEF CursorOK, PositiveSeq, Order, QueueOrder, Appended
<1> QED
  BY <1>5, <1>6, <1>7, <1>8, <1>9, <1>10 DEF Order, PassOrder, QueueOrder

\* A workspace leaves the queue, whole.
Dropped(w) == DropQueue(w) /\ UNCHANGED <<todo, win, cur, log, high, stale, late>>

\* Dropping a workspace keeps the order.
LEMMA DropOrder ==
  ASSUME Sound, Order, NEW w \in Workspaces, Dropped(w)
  PROVE  Order'
<1>1. /\ queue' = {e \in queue : e.ws # w} /\ acked' = {e \in acked : e.ws # w}
      /\ quarantined' = {e \in quarantined : e.ws # w} /\ cursor' = [cursor EXCEPT ![w] = 0]
      /\ InPass' = InPass /\ UNCHANGED <<todo, win, cur>>
  BY DEF Dropped, DropQueue, EventsOf, InPass
<1>2. Pending' = {e \in Pending : e.ws # w}
  BY <1>1 DEF Pending
<1>3. cursor \in [Workspaces -> Nat]
  BY DEF Sound, StoreOK, StoreTypeOK
<1>4. WindowFirst' /\ DistinctTodo'
  BY <1>1 DEF Order, PassOrder, WindowFirst, DistinctTodo
<1>5. NoneSkipped' /\ Unsettled' /\ OwnRow'
  BY <1>1, <1>2 DEF Order, PassOrder, NoneSkipped, Unsettled, OwnRow, Kept
<1>6. SettledFirst' /\ PositiveSeq'
  BY <1>1, <1>2 DEF Order, QueueOrder, SettledFirst, PositiveSeq
<1>7. CursorOK'
  BY <1>1, <1>3 DEF Order, QueueOrder, CursorOK
<1> QED
  BY <1>4, <1>5, <1>6, <1>7 DEF Order, PassOrder, QueueOrder

\* The pass gives up the workspaces of D, whole.
Shed(D) ==
  /\ todo' = {e \in todo : e.ws \notin D}
  /\ win' = {e \in win : e.ws \notin D}
  /\ win' = {} \/ UNCHANGED cur
  /\ UNCHANGED <<queue, acked, quarantined, cursor>>

\* Giving up workspaces keeps the order.
LEMMA ShedOrder ==
  ASSUME Order, NEW D, Shed(D)
  PROVE  Order'
<1>1. /\ InPass' = {e \in InPass : e.ws \notin D} /\ Pending' = Pending
      /\ UNCHANGED <<queue, acked, quarantined, cursor>>
  BY DEF Shed, InPass, Pending
<1>2. WindowFirst' /\ DistinctTodo'
  BY DEF Shed, Order, PassOrder, WindowFirst, DistinctTodo
<1>3. NoneSkipped' /\ Unsettled' /\ OwnRow'
  BY <1>1 DEF Order, PassOrder, NoneSkipped, Unsettled, OwnRow, Earlier, Kept, Shed
<1>4. SettledFirst' /\ PositiveSeq' /\ CursorOK'
  BY <1>1 DEF Order, QueueOrder, SettledFirst, PositiveSeq, CursorOK
<1> QED
  BY <1>2, <1>3, <1>4 DEF Order, PassOrder, QueueOrder

\* The window is the first part of what the pass has of its workspace.
LEMMA WindowIsFirst ==
  ASSUME Sound, DistinctTodo, cur \in Workspaces
  PROVE  \A e \in Window, f \in EventsOf(todo, cur) \ Window : e.seq < f.seq
<1> DEFINE S == EventsOf(todo, cur)
           Below(e) == {f \in S : f.seq < e.seq}
<1>1. S \subseteq Event /\ \A e \in S : e.seq \in Nat /\ e.ws = cur /\ e \in todo
  BY DEF EventsOf, Sound, PassOK, FlushTypeOK, Event
<1>2. PICK n \in Nat : \A e \in S : e.seq <= n
  BY <1>1 DEF Sound, PassOK, Limited
<1>3. IsFiniteSet(S)
  <2> DEFINE g == [e \in S |-> e.seq]
  <2>1. g \in [S -> 0..n]
    BY <1>1, <1>2
  <2>2. \A e, f \in S : g[e] = g[f] => e = f
    BY <1>1 DEF DistinctTodo
  <2>3. g \in Injection(S, 0..n)
    BY <2>1, <2>2 DEF Injection, IsInjective
  <2>4. IsFiniteSet(0..n)
    BY FS_Interval
  <2> QED
    BY <2>3, <2>4, FS_Injection
<1>4. BatchSize \in Nat
  BY BoundsAssumption
<1> SUFFICES ASSUME NEW e \in Window, NEW f \in S \ Window, ~(e.seq < f.seq) PROVE FALSE
  OBVIOUS
<1>5. e \in S /\ Cardinality(Below(e)) < BatchSize /\ ~(Cardinality(Below(f)) < BatchSize)
  BY DEF Window, FirstBySeq
<1>6. Below(f) \subseteq Below(e)
  BY <1>1, <1>5
<1>7. IsFiniteSet(Below(e)) /\ IsFiniteSet(Below(f))
  BY <1>3, FS_Subset
<1>8. Cardinality(Below(f)) <= Cardinality(Below(e))
  BY <1>6, <1>7, FS_Subset
<1>9. Cardinality(Below(f)) \in Nat /\ Cardinality(Below(e)) \in Nat
  BY <1>7, FS_CardinalityType
<1> QED
  BY <1>4, <1>5, <1>8, <1>9

\* A window that is sent, or refused, leaves the pass in order.
LEMMA SendOrder ==
  ASSUME Sound, Order, PassStages, SendWindow \/ SendRejected
  PROVE  Order'
<1>1. /\ win = {} /\ win' = Window /\ todo' = todo \ Window /\ UNCHANGED cur
      /\ UNCHANGED <<queue, acked, quarantined, cursor>> /\ cur \in Workspaces
  BY DEF SendWindow, SendRejected, PassStages, storeVars, Sound, PassOK, FlushOK, PCs
<1>2. Window \subseteq EventsOf(todo, cur) /\ EventsOf(todo, cur) \subseteq todo
  BY WindowInTodo
<1>3. InPass' = InPass /\ Pending' = Pending
  BY <1>1, <1>2 DEF InPass, Pending
<1>4. WindowFirst'
  <2>1. \A e \in Window, f \in EventsOf(todo, cur) \ Window : e.seq < f.seq
    BY <1>1, WindowIsFirst DEF Order, PassOrder
  <2> QED
    BY <1>1, <1>2, <2>1 DEF WindowFirst, EventsOf
<1>5. DistinctTodo' /\ NoneSkipped' /\ Unsettled' /\ OwnRow'
  BY <1>1, <1>2, <1>3 DEF Order, PassOrder, DistinctTodo, NoneSkipped, Unsettled, OwnRow, Kept
<1>6. SettledFirst' /\ PositiveSeq' /\ CursorOK'
  BY <1>1, <1>3 DEF Order, QueueOrder, SettledFirst, PositiveSeq, CursorOK
<1> QED
  BY <1>4, <1>5, <1>6 DEF Order, PassOrder, QueueOrder

\* The first event of the window precedes whatever is pending of its workspace.
LEMMA FirstIsOldest ==
  ASSUME Sound, Identity, Order, win # {}
  PROVE  /\ FirstOf(win) \in win /\ FirstOf(win) \notin todo
         /\ \A f \in Pending : f.ws = FirstOf(win).ws => f = FirstOf(win) \/ FirstOf(win).seq < f.seq
<1> DEFINE e == FirstOf(win)
<1>1. win \subseteq Event /\ todo \subseteq Event /\ queue \subseteq Event
  BY DEF Sound, PassOK, FlushTypeOK, StoreOK, StoreTypeOK
<1>2. e \in win /\ \A f \in win : e.seq <= f.seq
  BY <1>1, FirstOfInSet
<1> HIDE DEF e
<1>3. \A f \in todo : f.ws = e.ws => e.seq < f.seq
  BY <1>2 DEF Order, PassOrder, WindowFirst
<1>4. e.seq \in Nat /\ e \notin todo
  BY <1>1, <1>2, <1>3 DEF Event
<1>5. ASSUME NEW f \in Pending, f.ws = e.ws PROVE f = e \/ e.seq < f.seq
  <2>1. f \in queue /\ f.seq \in Nat
    BY <1>1 DEF Pending, Event
  <2>2. CASE f.seq < e.seq
    <3>1. f \in InPass
      BY <1>2, <1>5, <2>2 DEF Order, PassOrder, NoneSkipped, Earlier, InPass
    <3> QED
      BY <1>2, <1>3, <1>4, <1>5, <2>1, <2>2, <3>1 DEF InPass
  <2>3. CASE f.seq = e.seq
    BY <1>2, <1>5, <2>1, <2>3 DEF Identity, EventsOK, DistinctEvents, Held
  <2> QED
    BY <1>4, <2>1, <2>2, <2>3
<1> QED
  BY <1>2, <1>4, <1>5 DEF e

\* Ack and Quarantine of the first event of the window settle that event, if it
\* still has a row.
LEMMA SettlesFirst ==
  ASSUME Sound, Order, win # {}, FirstOf(win) \in win, Ack(FirstOf(win)) \/ Quarantine(FirstOf(win))
  PROVE  /\ UNCHANGED <<row, queue>>
         /\ \/ /\ FirstOf(win) \in Pending
               /\ acked' = acked \cup {FirstOf(win)} /\ UNCHANGED quarantined
               /\ Ack(FirstOf(win))
               /\ cursor' = [cursor EXCEPT ![FirstOf(win).ws] = Larger(@, FirstOf(win).seq)]
            \/ /\ FirstOf(win) \in Pending
               /\ quarantined' = quarantined \cup {FirstOf(win)} /\ UNCHANGED <<acked, cursor>>
            \/ FirstOf(win) \notin queue /\ UNCHANGED <<acked, quarantined, cursor>>
<1> DEFINE e == FirstOf(win)
<1>1. \A f \in queue : SameId(e, f) => f = e
  BY DEF Order, PassOrder, OwnRow, Kept
<1>2. e \in queue => e \in Pending
  BY DEF Order, PassOrder, Unsettled, InPass
<1> HIDE DEF e
<1>3. CASE Ack(e)
  <2>1. AckRow(e) = e /\ e \in queue
    BY <1>1, <1>3, AckRowFound DEF Ack
  <2> QED
    BY <1>2, <1>3, <2>1 DEF Ack, e
<1>4. CASE Quarantine(e)
  <2>1. SameId(e, e)
    BY DEF SameId
  <2>2. CASE e \in queue
    <3>1. {f \in queue \ acked : SameId(e, f)} = {e}
      BY <1>1, <1>2, <2>1, <2>2 DEF Pending
    <3> QED
      BY <1>2, <1>4, <2>2, <3>1 DEF Quarantine, e
  <2>3. CASE e \notin queue
    <3>1. {f \in queue \ acked : SameId(e, f)} = {}
      BY <1>1, <2>3
    <3> QED
      BY <1>4, <2>3, <3>1 DEF Quarantine, e
  <2> QED
    BY <2>2, <2>3
<1> QED
  BY <1>3, <1>4 DEF e

\* Settling the first event of the window keeps the order.
LEMMA SettleOrder ==
  ASSUME Sound, Identity, Order, win # {}, Ack(FirstOf(win)) \/ Quarantine(FirstOf(win)),
         win' = win \ {FirstOf(win)}, UNCHANGED <<todo, cur>>
  PROVE  Order'
<1> DEFINE e == FirstOf(win)
<1>1. /\ e \in win /\ e \notin todo
      /\ \A f \in Pending : f.ws = e.ws => f = e \/ e.seq < f.seq
  BY FirstIsOldest
<1>2. /\ UNCHANGED queue
      /\ acked' \cup quarantined' = acked \cup quarantined \cup ({e} \cap queue)
      /\ acked \subseteq acked'
      /\ \/ UNCHANGED cursor
         \/ e \in acked' /\ cursor' = [cursor EXCEPT ![e.ws] = Larger(@, e.seq)]
  BY <1>1, SettlesFirst DEF Pending
<1>3. e.seq \in Nat /\ cursor \in [Workspaces -> Nat]
  BY <1>1 DEF Sound, StoreOK, StoreTypeOK, PassOK, FlushTypeOK, Event
<1>4. InPass' = InPass \ {e} /\ win' = win \ {e}
  BY <1>1 DEF InPass
<1> HIDE DEF e
<1>5. Pending' = Pending \ {e}
  BY <1>2 DEF Pending
<1>6. WindowFirst' /\ DistinctTodo'
  BY <1>4 DEF Order, PassOrder, WindowFirst, DistinctTodo
<1>7. NoneSkipped' /\ Unsettled' /\ OwnRow'
  BY <1>2, <1>4, <1>5 DEF Order, PassOrder, NoneSkipped, Unsettled, OwnRow, Kept
<1>8. SettledFirst' /\ PositiveSeq'
  BY <1>1, <1>2, <1>5 DEF Order, QueueOrder, SettledFirst, PositiveSeq
<1>9. CursorOK'
  <2> SUFFICES ASSUME NEW w \in Workspaces
               PROVE  cursor'[w] = 0 \/ \E f \in acked' : f.ws = w /\ f.seq = cursor'[w]
    BY DEF CursorOK
  <2>1. cursor'[w] = cursor[w] \/ (e \in acked' /\ e.ws = w /\ cursor'[w] = e.seq)
    BY <1>2, <1>3 DEF Larger
  <2> QED
    BY <1>2, <2>1 DEF Order, QueueOrder, CursorOK
<1> QED
  BY <1>6, <1>7, <1>8, <1>9 DEF Order, PassOrder, QueueOrder

\* A pass begins with everything that is pending.
LEMMA LoadOrder ==
  ASSUME Sound, Identity, PassStages, Order, LoadPending
  PROVE  Order'
<1>1. /\ todo' = Pending /\ win = {} /\ win' = {} /\ InPass' = Pending /\ Pending' = Pending
      /\ UNCHANGED <<queue, acked, quarantined, cursor>>
  BY DEF LoadPending, PassStages, InPass, Pending, storeVars
<1>2. Pending \subseteq queue /\ queue \subseteq Held
  BY DEF Pending, Held
<1>3. DistinctTodo'
  BY <1>1, <1>2 DEF DistinctTodo, Identity, EventsOK, DistinctEvents
<1>4. WindowFirst' /\ NoneSkipped' /\ Unsettled' /\ OwnRow'
  BY <1>1, <1>2 DEF WindowFirst, NoneSkipped, Unsettled, OwnRow, Order, PassOrder, Kept
<1>5. SettledFirst' /\ PositiveSeq' /\ CursorOK'
  BY <1>1 DEF Order, QueueOrder, SettledFirst, PositiveSeq, CursorOK
<1> QED
  BY <1>3, <1>4, <1>5 DEF Order, PassOrder, QueueOrder

\* The steps at which the pass gives up workspaces, or none.
LEMMA FlushSheds ==
  ASSUME Sound, PassStages, Order,
         \/ LoadWorkspaces \/ PickSkip \/ PickUnconfigured \/ PickSender \/ FinishFlush
         \/ SendFails \/ Drained \/ AckMissing \/ NextWindow \/ RetryAccepted \/ RetryRefused
         \/ RetryFails \/ RetryAckMissing \/ FlushStoreFails \/ Crash
  PROVE  \E D : Shed(D)
<1>1. todo \subseteq Event /\ win \subseteq Event /\ \A e \in todo \cup win : e.ws \in Workspaces
  BY DEF Sound, PassOK, FlushTypeOK, Event
<1>2. \A e \in win : e.ws = cur
  BY DEF Order, PassOrder, WindowFirst
<1> USE DEF Shed, storeVars, PassStages
<1>3. CASE LoadWorkspaces
  <2>1. Shed({w \in Workspaces : row[w].paused})
    BY <1>1, <1>3 DEF LoadWorkspaces
  <2> QED
    BY <2>1
<1>4. CASE PickSkip \/ PickUnconfigured
  <2>1. Shed({NextWorkspace})
    BY <1>4 DEF PickSkip, PickUnconfigured, SkipWorkspace, EventsOf
  <2> QED
    BY <2>1
<1>5. CASE PickSender \/ FinishFlush \/ Drained \/ NextWindow \/ RetryAccepted \/ RetryRefused
  <2>1. Shed({})
    BY <1>5 DEF PickSender, FinishFlush, Drained, NextWindow, RetryAccepted, RetryRefused
  <2> QED
    BY <2>1
<1>6. ASSUME GiveUpOnBackend, UNCHANGED <<queue, acked, quarantined, cursor>>
      PROVE  Shed({cur})
  BY <1>2, <1>6 DEF GiveUpOnBackend, SkipWorkspace, EventsOf
<1>7. CASE SendFails \/ RetryFails \/ RetryAckMissing
  <2>1. GiveUpOnBackend /\ UNCHANGED <<queue, acked, quarantined, cursor>>
    BY <1>7 DEF SendFails, RetryFails, RetryAckMissing
  <2> QED
    BY <1>6, <2>1
<1>8. ASSUME todo' = {}, win' = {}, UNCHANGED <<queue, acked, quarantined, cursor>>
      PROVE  Shed(Workspaces)
  BY <1>1, <1>8
<1>9. CASE AckMissing \/ Crash
  BY <1>8, <1>9 DEF AckMissing, Crash
<1>10. CASE FlushStoreFails
  <2>1. UNCHANGED <<queue, acked, quarantined, cursor>>
    BY <1>10 DEF FlushStoreFails
  <2>2. GiveUpOnBackend \/ (todo' = {} /\ win' = {})
    BY <1>10 DEF FlushStoreFails
  <2> QED
    BY <1>6, <1>8, <2>1, <2>2
<1> QED
  BY <1>3, <1>4, <1>5, <1>7, <1>9, <1>10

\* Steps that touch neither the queue nor the pass.
OrderVars == <<queue, acked, quarantined, cursor, todo, win, cur>>

LEMMA OrderFrame == Order /\ UNCHANGED OrderVars => Order'
BY DEF OrderVars, Order, PassOrder, QueueOrder, WindowFirst, DistinctTodo, NoneSkipped, Unsettled,
   OwnRow, SettledFirst, CursorOK, PositiveSeq, InPass, Kept, Pending

\* Every step that drops a workspace's queue.
LEMMA StepDrops ==
  ASSUME Sound, RemoveStored \/ RebindStored
  PROVE  \E w \in Workspaces : Dropped(w)
<1>1. op.rest \subseteq Workspaces
  BY DEF Sound, AdminOK, AdminTypeOK, Op
<1>2. UNCHANGED <<todo, win, cur, log, high, stale, late>>
  BY DEF RemoveStored, RebindStored, flushVars, backendVars
<1>3. \E w \in op.rest : DropQueue(w)
  BY DEF RemoveStored, RebindStored, DeleteWorkspace, RebindWorkspace
<1> QED
  BY <1>1, <1>2, <1>3 DEF Dropped

\* The other steps leave the queue, the pass and the backends' logs alone.
LEMMA QuietStep ==
  ASSUME \/ AdminCall \/ AddCommit \/ RebindMissing \/ FinishOp \/ StoreFails
         \/ (\E S, v : PauseResume(S, v))
         \/ (\E p \in Projects, b \in Backends : Revoke(p, b))
         \/ UNCHANGED vars
  PROVE  UNCHANGED OrderVars /\ UNCHANGED <<log, high, stale, late>>
<1>1. CASE AdminCall
  BY <1>1 DEF AdminCall, AddWorkspace, Register, RemoveProjectWorkspaces, RebindProject,
     ResetBackend, OrderVars, storeVars, flushVars, backendVars
<1>2. CASE AddCommit \/ RebindMissing \/ FinishOp \/ StoreFails
  BY <1>2 DEF AddCommit, RebindMissing, FinishOp, StoreFails, OrderVars, storeVars, flushVars,
     backendVars
<1>3. CASE \E S, v : PauseResume(S, v)
  BY <1>3 DEF PauseResume, SetPaused, OrderVars, flushVars, backendVars
<1>4. CASE \E p \in Projects, b \in Backends : Revoke(p, b)
  BY <1>4 DEF Revoke, Deny, OrderVars, storeVars, flushVars
<1>5. CASE UNCHANGED vars
  BY <1>5 DEF vars, OrderVars, storeVars, flushVars, backendVars
<1> QED
  BY <1>1, <1>2, <1>3, <1>4, <1>5

\* Every step keeps the order.
LEMMA OrderStep == Sound /\ Identity /\ Moves /\ Order /\ [Next]_vars => Order'
<1> SUFFICES ASSUME Sound, Identity, Moves, Order, [Next]_vars PROVE Order'
  OBVIOUS
<1>1. PassStages
  BY DEF Moves
<1>2. CASE FlushStep
  <2>1. CASE LoadPending
    BY <1>1, <2>1, LoadOrder
  <2>2. CASE SendWindow \/ SendRejected
    BY <1>1, <2>2, SendOrder
  <2>3. CASE AckNext \/ RetryAck \/ RetryQuarantine
    <3>1. win # {}
      BY <2>3 DEF AckNext, RetryAck, RetryQuarantine, Sound, PassOK, FlushOK
    <3>2. /\ Ack(FirstOf(win)) \/ Quarantine(FirstOf(win))
          /\ win' = win \ {FirstOf(win)} /\ UNCHANGED <<todo, cur>>
      BY <2>3 DEF AckNext, RetryAck, RetryQuarantine
    <3> QED
      BY <3>1, <3>2, SettleOrder
  <2>4. CASE ~(LoadPending \/ SendWindow \/ SendRejected \/ AckNext \/ RetryAck \/ RetryQuarantine)
    BY <1>1, <1>2, <2>4, FlushSheds, ShedOrder DEF FlushStep
  <2> QED
    BY <2>1, <2>2, <2>3, <2>4
<1>3. CASE FlushStoreFails \/ Crash
  BY <1>1, <1>3, FlushSheds, ShedOrder
<1>4. CASE Boot \/ BootCut
  BY <1>4, StepAppends, AppendOrder
<1>5. CASE OpStep
  BY <1>5, StepAppends, AppendOrder, StepDrops, DropOrder, QuietStep, OrderFrame DEF OpStep
<1>6. CASE Handler
  BY <1>6, StepAppends, AppendOrder, QuietStep, OrderFrame DEF Handler
<1>7. CASE DeliverLate
  BY <1>7, OrderFrame DEF DeliverLate, OrderVars, storeVars, flushVars
<1>8. CASE AdminCall \/ StoreFails \/ (\E p \in Projects, b \in Backends : Revoke(p, b))
           \/ UNCHANGED vars
  BY <1>8, QuietStep, OrderFrame
<1> QED
  BY <1>2, <1>3, <1>4, <1>5, <1>6, <1>7, <1>8 DEF Next, Environment

\* Every reachable state is in order.
LEMMA OrderInvariant == Spec => [](Sound /\ Identity /\ Moves /\ Order)
<1>1. Init => Order
  BY DEF Init, StoreInit, Order, PassOrder, QueueOrder, WindowFirst, DistinctTodo, NoneSkipped,
     Unsettled, OwnRow, SettledFirst, CursorOK, PositiveSeq, InPass, Kept, Pending
<1> QED
  BY <1>1, OrderStep, MovesInvariant, PTL DEF Spec

\* The cursor of a workspace never passes an event that is still to be published,
\* whatever the windows, single retries, refusals, crashes, moves and removals.
THEOREM CursorIsHonest == Spec => []CursorCoversNoPending
<1>1. Sound /\ Order => CursorCoversNoPending
  <2> SUFFICES ASSUME Sound, Order, NEW e \in Pending PROVE e.seq > cursor[e.ws]
    BY DEF CursorCoversNoPending
  <2>1. /\ e \in queue /\ e.ws \in Workspaces /\ e.seq \in Nat /\ e.seq > 0
        /\ acked \subseteq Event
    BY DEF Pending, Sound, StoreOK, StoreTypeOK, Event, Order, QueueOrder, PositiveSeq
  <2>2. CASE cursor[e.ws] = 0
    BY <2>1, <2>2
  <2>3. CASE \E f \in acked : f.ws = e.ws /\ f.seq = cursor[e.ws]
    BY <2>1, <2>3 DEF Order, QueueOrder, SettledFirst, Event
  <2> QED
    BY <2>1, <2>2, <2>3 DEF Order, QueueOrder, CursorOK
<1> QED
  BY <1>1, OrderInvariant, PTL

-----------------------------------------------------------------------------
\* The inductive invariant, beside Order and Delivered.

\* lastProjectedSequence is the sequence of an event the backend accepted.
HighOK ==
  \A b \in Backends, w \in Workspaces :
    high[b][w] = 0 \/ \E f \in log[b] : f.ws = w /\ f.seq = high[b][w]

\* Nothing of a batch overtakes an event that is still to be published.
Leads(b, batch) ==
  \A f \in batch, e \in Pending : Earlier(e, f) => e \in batch \/ Known(b, e)

ArrivalOrder == \A b \in Backends : \A f \in log[b], e \in Pending : Earlier(e, f) => Known(b, e)

LateOrder == \A m \in late : Leads(m.to, m.batch)

StaleOK == \A b \in Backends : stale[b] \subseteq log[b]

Arrival == HighOK /\ ArrivalOrder /\ LateOrder /\ StaleOK /\ NoSilentlyStaleEvent

\* A request reaches its backend, is lost, or stays on the network.
Sent(b, batch) ==
  /\ batch \subseteq Event /\ Limited(batch) /\ Leads(b, batch)
  /\ \/ Accepts(b, batch) /\ PublishEvents(b, batch) /\ late' \subseteq late
     \/ UNCHANGED backendVars /\ late' \subseteq late \cup {[to |-> b, batch |-> batch]}
  /\ UNCHANGED <<queue, acked, quarantined>>

-----------------------------------------------------------------------------
\* Requests.

\* The window leads: the pass has skipped nothing before it.
LEMMA WindowLeads ==
  ASSUME Sound, Order, PassStages, pc = "send"
  PROVE  Window \subseteq Event /\ Limited(Window) /\ Leads(via, Window)
<1>1. cur \in Workspaces /\ win = {} /\ todo \subseteq Event /\ Limited(todo)
  BY DEF Sound, PassOK, FlushTypeOK, FlushOK, PCs, PassStages
<1>2. Window \subseteq EventsOf(todo, cur) /\ EventsOf(todo, cur) \subseteq todo
  BY WindowInTodo
<1>3. Limited(Window)
  BY <1>1, <1>2, LimitedSubset
<1>4. \A e \in Window, f \in EventsOf(todo, cur) \ Window : e.seq < f.seq
  BY <1>1, WindowIsFirst DEF Order, PassOrder
<1>5. ASSUME NEW f \in Window, NEW e \in Pending, Earlier(e, f) PROVE e \in Window
  <2>1. e \in EventsOf(todo, cur)
    BY <1>1, <1>2, <1>5 DEF Order, PassOrder, NoneSkipped, InPass, Earlier, EventsOf
  <2>2. e.seq \in Nat /\ f.seq \in Nat
    BY <1>1, <1>2, <2>1 DEF Event
  <2> QED
    BY <1>4, <1>5, <2>1, <2>2 DEF Earlier
<1> QED
  BY <1>1, <1>2, <1>3, <1>5 DEF Leads

\* So does the first event of a window that is retried one by one.
LEMMA RetryLeads ==
  ASSUME Sound, Identity, Order, win # {}
  PROVE  /\ {FirstOf(win)} \subseteq Event /\ Limited({FirstOf(win)})
         /\ Leads(via, {FirstOf(win)})
<1>1. win \subseteq Event /\ Limited(win) /\ Pending \subseteq Event
  BY DEF Sound, PassOK, FlushTypeOK, StoreOK, StoreTypeOK, Pending
<1>2. /\ FirstOf(win) \in win
      /\ \A f \in Pending : f.ws = FirstOf(win).ws => f = FirstOf(win) \/ FirstOf(win).seq < f.seq
  BY FirstIsOldest
<1>3. Limited({FirstOf(win)})
  BY <1>1, <1>2, LimitedSubset
<1>4. \A e \in Pending : ~Earlier(e, FirstOf(win))
  BY <1>1, <1>2 DEF Earlier, Event
<1> QED
  BY <1>1, <1>2, <1>3, <1>4 DEF Leads

\* A failed request is a request.
LEMMA FailureSends ==
  ASSUME NEW batch, batch \subseteq Event, Limited(batch), Leads(via, batch),
         TransientFailure(batch), UNCHANGED <<queue, acked, quarantined>>
  PROVE  Sent(via, batch)
BY DEF TransientFailure, Sent

\* Every request the pass makes, and every one that arrives late, leads.
LEMMA StepSends ==
  ASSUME Sound, Identity, Order, PassStages, LateOrder,
         SendWindow \/ RetryAccepted \/ SendFails \/ RetryFails \/ DeliverLate
  PROVE  \E b \in Backends : \E batch : Sent(b, batch)
<1>1. /\ pc \in {"send", "single"} => via \in Backends
      /\ late \subseteq [to : Backends, batch : SUBSET Event]
  BY DEF Sound, PassOK, FlushTypeOK, FlushOK, PCs
<1>2. CASE SendWindow \/ SendFails
  <2>1. Window \subseteq Event /\ Limited(Window) /\ Leads(via, Window) /\ via \in Backends
    BY <1>1, <1>2, WindowLeads DEF SendWindow, SendFails
  <2>2. Sent(via, Window)
    <3>1. CASE SendWindow
      BY <2>1, <3>1 DEF SendWindow, Sent, storeVars
    <3>2. CASE SendFails
      BY <2>1, <3>2, FailureSends DEF SendFails, storeVars
    <3> QED
      BY <1>2, <3>1, <3>2
  <2> QED
    BY <2>1, <2>2
<1>3. CASE RetryAccepted \/ RetryFails
  <2>1. /\ {FirstOf(win)} \subseteq Event /\ Limited({FirstOf(win)})
        /\ Leads(via, {FirstOf(win)}) /\ via \in Backends
    BY <1>1, <1>3, RetryLeads DEF RetryAccepted, RetryFails
  <2>2. Sent(via, {FirstOf(win)})
    <3>1. CASE RetryAccepted
      BY <2>1, <3>1 DEF RetryAccepted, Sent, storeVars
    <3>2. CASE RetryFails
      BY <2>1, <3>2, FailureSends DEF RetryFails, storeVars
    <3> QED
      BY <1>3, <3>1, <3>2
  <2> QED
    BY <2>1, <2>2
<1>4. CASE DeliverLate
  <2>1. PICK m \in late : /\ late' = late \ {m}
                          /\ IF Accepts(m.to, m.batch) THEN PublishEvents(m.to, m.batch)
                             ELSE UNCHANGED backendVars
    BY <1>4 DEF DeliverLate
  <2>2. m.to \in Backends /\ m.batch \subseteq Event /\ m.batch \subseteq InFlight
    BY <1>1 DEF InFlight
  <2>3. Limited(m.batch)
    BY <2>2, LimitedSubset DEF Sound, PassOK
  <2>4. UNCHANGED <<queue, acked, quarantined>> /\ late' \subseteq late
    BY <1>4, <2>1 DEF DeliverLate, storeVars
  <2>5. Leads(m.to, m.batch)
    BY DEF LateOrder
  <2>6. Sent(m.to, m.batch)
    BY <2>1, <2>2, <2>3, <2>4, <2>5 DEF Sent
  <2> QED
    BY <2>2, <2>6
<1> QED
  BY <1>2, <1>3, <1>4

-----------------------------------------------------------------------------
\* What publishEvents does to the backend that accepts a leading batch.

\* The log takes in what the backend did not know.
LEMMA PublishedLog ==
  ASSUME BackendTypeOK, NEW b \in Backends, NEW batch, PublishEvents(b, batch)
  PROVE  /\ log'[b] = log[b] \cup Fresh(b, batch)
         /\ \A c \in Backends \ {b} : log'[c] = log[c] /\ stale'[c] = stale[c] /\ high'[c] = high[c]
         /\ stale'[b] = stale[b] \cup {e \in Fresh(b, batch) : e.kind = "obs" /\ e.seq <= high[b][e.ws]}
         /\ \A w \in Workspaces : high'[b][w] = NewHigh(b, w, batch)
         /\ Fresh(b, batch) \subseteq batch
         /\ \A e \in batch : Known(b, e)'
         /\ \A c \in Backends : \A e : Known(c, e) => Known(c, e)'
<1>1. /\ log \in [Backends -> SUBSET Event] /\ stale \in [Backends -> SUBSET Event]
      /\ high \in [Backends -> [Workspaces -> Nat]]
  BY DEF BackendTypeOK
<1>2. /\ log' = [log EXCEPT ![b] = @ \cup Fresh(b, batch)]
      /\ stale' = [stale EXCEPT ![b] = @ \cup
           {e \in Fresh(b, batch) : e.kind = "obs" /\ e.seq <= high[b][e.ws]}]
      /\ high' = [high EXCEPT ![b] = [w \in Workspaces |-> NewHigh(b, w, batch)]]
  BY DEF PublishEvents
<1>3. log'[b] = log[b] \cup Fresh(b, batch) /\ \A c \in Backends \ {b} : log'[c] = log[c]
  BY <1>1, <1>2
<1>4. /\ stale'[b] = stale[b] \cup {e \in Fresh(b, batch) : e.kind = "obs" /\ e.seq <= high[b][e.ws]}
      /\ \A c \in Backends \ {b} : stale'[c] = stale[c]
  BY <1>1, <1>2
<1>5. /\ \A w \in Workspaces : high'[b][w] = NewHigh(b, w, batch)
      /\ \A c \in Backends \ {b} : high'[c] = high[c]
  BY <1>1, <1>2
<1>6. Fresh(b, batch) \subseteq batch
  BY DEF Fresh
<1>7. \A c \in Backends : \A e : Known(c, e) => Known(c, e)'
  BY <1>3 DEF Known
<1>8. \A e \in batch : Known(b, e)'
  <2> SUFFICES ASSUME NEW e \in batch, ~Known(b, e) PROVE Known(b, e)'
    BY <1>7
  <2>1. e \in log'[b] /\ SameId(e, e)
    BY <1>3 DEF Fresh, SameId
  <2> QED
    BY <2>1 DEF Known
<1> QED
  BY <1>3, <1>4, <1>5, <1>6, <1>7, <1>8

\* What an accepted batch adds to the events the projection ignores was settled
\* without having been delivered.
LEMMA FreshIsNotStale ==
  ASSUME Sound, Identity, Order, Delivered, Arrival, NEW b \in Backends, NEW batch,
         batch \subseteq Event, Accepts(b, batch),
         NEW e \in Fresh(b, batch), e.seq <= high[b][e.ws], e \in queue
  PROVE  e \in quarantined
<1>1. /\ e \in batch /\ ~Known(b, e) /\ e.dev = b /\ e.ws \in Workspaces /\ e.seq \in Nat
      /\ high[b][e.ws] \in Nat /\ e.seq > 0
  BY DEF Fresh, Accepts, Refused, Event, Sound, BackendTypeOK, Order, QueueOrder, PositiveSeq
<1>2. PICK f \in log[b] : f.ws = e.ws /\ f.seq = high[b][e.ws]
  BY <1>1 DEF Arrival, HighOK
<1>3. f \in Held
  BY DEF Sound, BackendTypeOK, Held, Logged
<1>4. f.seq # e.seq
  <2>1. SUFFICES ASSUME f = e PROVE FALSE
    BY <1>2, <1>3 DEF Identity, EventsOK, DistinctEvents
  <2> QED
    BY <1>1, <2>1 DEF Known, SameId
<1>5. Earlier(e, f)
  BY <1>1, <1>2, <1>4 DEF Earlier
<1>6. e \notin Pending
  BY <1>1, <1>5 DEF Arrival, ArrivalOrder
<1>7. e \notin acked
  BY <1>1 DEF Delivered, AckedWasAccepted
<1> QED
  BY <1>6, <1>7 DEF Pending

\* A request keeps the order of arrival.
LEMMA SendArrival ==
  ASSUME Sound, Identity, Order, Delivered, Arrival, NEW b \in Backends, NEW batch, Sent(b, batch)
  PROVE  Arrival'
<1>1. Pending' = Pending /\ UNCHANGED <<queue, acked, quarantined>>
  BY DEF Sent, Pending
<1>2. late \subseteq [to : Backends, batch : SUBSET Event] /\ BackendTypeOK
  BY DEF Sound, PassOK, FlushTypeOK
<1>3. CASE UNCHANGED backendVars /\ late' \subseteq late \cup {[to |-> b, batch |-> batch]}
  <2>1. UNCHANGED <<log, high, stale>> /\ \A c, e : Known(c, e)' = Known(c, e)
    BY <1>3 DEF backendVars, Known
  <2>2. HighOK' /\ ArrivalOrder' /\ StaleOK' /\ NoSilentlyStaleEvent'
    BY <1>1, <2>1 DEF Arrival, HighOK, ArrivalOrder, StaleOK, NoSilentlyStaleEvent
  <2>3. LateOrder'
    <3>1. \A m \in late' : m \in late \/ (m.to = b /\ m.batch = batch)
      BY <1>3
    <3>2. \A m \in late' : Leads(m.to, m.batch)
      BY <3>1 DEF Sent, Arrival, LateOrder
    <3> QED
      BY <1>1, <2>1, <3>2 DEF LateOrder, Leads
  <2> QED
    BY <2>2, <2>3 DEF Arrival
<1>4. CASE Accepts(b, batch) /\ PublishEvents(b, batch) /\ late' \subseteq late
  <2> DEFINE fresh == Fresh(b, batch)
  <2>1. batch \subseteq Event /\ Limited(batch) /\ Leads(b, batch)
    BY DEF Sent
  <2>2. /\ log'[b] = log[b] \cup fresh
        /\ \A c \in Backends \ {b} : log'[c] = log[c] /\ stale'[c] = stale[c] /\ high'[c] = high[c]
        /\ stale'[b] = stale[b] \cup {e \in fresh : e.kind = "obs" /\ e.seq <= high[b][e.ws]}
        /\ \A w \in Workspaces : high'[b][w] = NewHigh(b, w, batch)
        /\ fresh \subseteq batch
        /\ \A e \in batch : Known(b, e)'
        /\ \A c \in Backends : \A e : Known(c, e) => Known(c, e)'
    BY <1>2, <1>4, PublishedLog
  <2> HIDE DEF fresh
  <2>3. HighOK'
    <3> SUFFICES ASSUME NEW c \in Backends, NEW w \in Workspaces
                 PROVE  high'[c][w] = 0 \/ \E f \in log'[c] : f.ws = w /\ f.seq = high'[c][w]
      BY DEF HighOK
    <3>1. CASE c # b
      BY <2>2, <3>1 DEF Arrival, HighOK
    <3>2. CASE c = b
      <4>1. \/ high'[b][w] = high[b][w]
            \/ \E e \in fresh : e.ws = w /\ e.seq = high'[b][w]
        BY <1>2, <2>1, <2>2, NewHighType DEF fresh
      <4> QED
        BY <2>2, <3>2, <4>1 DEF Arrival, HighOK
    <3> QED
      BY <3>1, <3>2
  <2>4. ArrivalOrder'
    <3> SUFFICES ASSUME NEW c \in Backends, NEW f \in log'[c], NEW e \in Pending, Earlier(e, f)
                 PROVE  Known(c, e)'
      BY <1>1 DEF ArrivalOrder, Earlier
    <3>1. CASE f \in log[c]
      BY <2>2, <3>1 DEF Arrival, ArrivalOrder
    <3>2. CASE f \notin log[c]
      <4>1. c = b /\ f \in batch
        BY <2>2, <3>2
      <4> QED
        BY <2>1, <2>2, <4>1 DEF Leads
    <3> QED
      BY <3>1, <3>2
  <2>5. LateOrder'
    <3> SUFFICES ASSUME NEW m \in late, NEW f \in m.batch, NEW e \in Pending, Earlier(e, f)
                 PROVE  e \in m.batch \/ Known(m.to, e)'
      BY <1>1, <1>4 DEF LateOrder, Leads, Earlier, Known
    <3>1. m.to \in Backends
      BY <1>2
    <3> QED
      BY <2>2, <3>1 DEF Arrival, LateOrder, Leads
  <2>6. StaleOK'
    BY <2>2 DEF Arrival, StaleOK
  <2>7. NoSilentlyStaleEvent'
    <3> SUFFICES ASSUME NEW c \in Backends, NEW e \in stale'[c], e \in queue
                 PROVE  e \in quarantined
      BY <1>1 DEF NoSilentlyStaleEvent
    <3>1. CASE e \in stale[c]
      BY <3>1 DEF Arrival, NoSilentlyStaleEvent
    <3>2. CASE e \notin stale[c]
      <4>1. e \in fresh /\ e.seq <= high[b][e.ws]
        BY <2>2, <3>2
      <4> QED
        BY <1>4, <2>1, <4>1, FreshIsNotStale DEF fresh
    <3> QED
      BY <3>1, <3>2
  <2> QED
    BY <2>3, <2>4, <2>5, <2>6, <2>7 DEF Arrival
<1> QED
  BY <1>3, <1>4 DEF Sent

-----------------------------------------------------------------------------
\* The other steps.

\* What the backends and the network hold.
ArrivalVars == <<log, high, stale, late>>

\* A step that leaves backends and network alone, and adds no event to what is
\* pending or still queued.
LEMMA ArrivalFrame ==
  ASSUME Arrival, UNCHANGED ArrivalVars, Pending' \subseteq Pending, queue' \subseteq queue,
         quarantined \cap queue' \subseteq quarantined'
  PROVE  Arrival'
<1>1. \A c, e : Known(c, e)' = Known(c, e)
  BY DEF Known, ArrivalVars
<1>2. HighOK' /\ StaleOK' /\ NoSilentlyStaleEvent'
  BY DEF Arrival, ArrivalVars, HighOK, StaleOK, NoSilentlyStaleEvent
<1>3. ArrivalOrder' /\ LateOrder'
  BY <1>1 DEF Arrival, ArrivalVars, ArrivalOrder, LateOrder, Leads
<1> QED
  BY <1>2, <1>3 DEF Arrival

\* New events come after whatever the backends and the network hold.
LEMMA AppendArrival ==
  ASSUME Sound, Arrival, NEW new, Appended(new)
  PROVE  Arrival'
<1>1. /\ queue' = queue \cup new /\ UNCHANGED <<acked, quarantined, log, high, stale, late>>
      /\ \A e \in Held, f \in new : e.ws = f.ws => e.seq < f.seq
      /\ \A f \in new : f.seq \in Nat
  BY DEF Appended
<1>2. /\ late \subseteq [to : Backends, batch : SUBSET Event]
      /\ \A b \in Backends : log[b] \subseteq Event
  BY DEF Sound, PassOK, FlushTypeOK, BackendTypeOK
<1>3. /\ \A b \in Backends : \A f \in log[b] : f \in Held /\ f.seq \in Nat
      /\ \A m \in late : \A f \in m.batch : f \in Held /\ f.seq \in Nat
  <2>1. \A m \in late : \A f \in m.batch : f \in Event
    BY <1>2
  <2> QED
    BY <1>2, <2>1 DEF Held, Logged, InFlight, Event
<1>4. Pending' \subseteq Pending \cup new
  BY <1>1 DEF Pending
<1>5. \A e \in new, f \in Held : f.seq \in Nat => ~Earlier(e, f)
  BY <1>1 DEF Earlier
<1>6. HighOK' /\ StaleOK'
  BY <1>1 DEF Arrival, HighOK, StaleOK
<1>7. \A c, e : Known(c, e)' = Known(c, e)
  BY <1>1 DEF Known
<1>8. ArrivalOrder'
  BY <1>1, <1>3, <1>4, <1>5, <1>7 DEF Arrival, ArrivalOrder
<1>9. LateOrder'
  BY <1>1, <1>3, <1>4, <1>5, <1>7 DEF Arrival, LateOrder, Leads
<1>10. NoSilentlyStaleEvent'
  <2> SUFFICES ASSUME NEW b \in Backends, NEW e \in stale[b], e \in queue' PROVE e \in quarantined
    BY <1>1 DEF NoSilentlyStaleEvent
  <2>1. e \in Held /\ e.seq \in Nat
    BY <1>3 DEF Arrival, StaleOK
  <2>2. e \notin new
    BY <1>1, <2>1
  <2> QED
    BY <1>1, <2>2 DEF Arrival, NoSilentlyStaleEvent
<1> QED
  BY <1>6, <1>8, <1>9, <1>10 DEF Arrival

\* Steps of the pass that send nothing leave the backends and the network alone.
LEMMA SilentStep ==
  ASSUME FlushStep \/ FlushStoreFails \/ Crash,
         ~(SendWindow \/ RetryAccepted \/ SendFails \/ RetryFails)
  PROVE  UNCHANGED ArrivalVars
BY DEF FlushStep, FlushStoreFails, Crash, LoadPending, LoadWorkspaces, PickSkip, PickUnconfigured,
   PickSender, FinishFlush, SendRejected, Drained, AckNext, AckMissing, NextWindow, RetryRefused,
   RetryAck, RetryAckMissing, RetryQuarantine, backendVars, ArrivalVars

\* Every step keeps the order of arrival.
LEMMA ArrivalStep ==
  Sound /\ Identity /\ Moves /\ Order /\ Delivered /\ Arrival /\ [Next]_vars => Arrival'
<1> SUFFICES ASSUME Sound, Identity, Moves, Order, Delivered, Arrival, [Next]_vars PROVE Arrival'
  OBVIOUS
<1>1. PassStages /\ LateOrder
  BY DEF Moves, Arrival
<1>2. CASE SendWindow \/ RetryAccepted \/ SendFails \/ RetryFails \/ DeliverLate
  BY <1>1, <1>2, StepSends, SendArrival
<1>3. CASE /\ FlushStep \/ FlushStoreFails \/ Crash
           /\ ~(SendWindow \/ RetryAccepted \/ SendFails \/ RetryFails)
  <2>1. UNCHANGED ArrivalVars
    BY <1>3, SilentStep
  <2>2. queue' = queue /\ quarantined \subseteq quarantined' /\ acked \subseteq acked'
    BY <1>3 DEF FlushStep, FlushStoreFails, Crash, LoadPending, LoadWorkspaces, PickSkip,
       PickUnconfigured, PickSender, FinishFlush, SendRejected, Drained, AckNext, AckMissing,
       NextWindow, RetryRefused, RetryAck, RetryAckMissing, RetryQuarantine, storeVars, Ack, Quarantine
  <2> QED
    BY <2>1, <2>2, ArrivalFrame DEF Pending
<1>4. CASE Boot \/ BootCut \/ AddUpsert \/ RebindUpsert
           \/ \E w \in Workspaces, kind \in {"obs", "mft"}, n \in 1..MaxBurst : Observe(w, kind, n)
  BY <1>4, StepAppends, AppendArrival
<1>5. CASE RemoveStored \/ RebindStored
  <2>1. PICK w \in Workspaces : Dropped(w)
    BY <1>5, StepDrops
  <2>2. /\ Pending' \subseteq Pending /\ queue' \subseteq queue /\ UNCHANGED ArrivalVars
        /\ quarantined \cap queue' \subseteq quarantined'
    BY <2>1 DEF Dropped, DropQueue, EventsOf, Pending, ArrivalVars
  <2> QED
    BY <2>2, ArrivalFrame
<1>6. CASE AdminCall \/ AddCommit \/ RebindMissing \/ FinishOp \/ StoreFails
           \/ (\E S, v : PauseResume(S, v))
           \/ (\E p \in Projects, b \in Backends : Revoke(p, b)) \/ UNCHANGED vars
  <2>1. UNCHANGED OrderVars /\ UNCHANGED ArrivalVars
    BY <1>6, QuietStep DEF ArrivalVars
  <2> QED
    BY <2>1, ArrivalFrame DEF OrderVars, Pending
<1> QED
  BY <1>2, <1>3, <1>4, <1>5, <1>6 DEF Next, OpStep, Handler, Environment

\* Every reachable state has it.
LEMMA ArrivalInvariant == Spec => [](Sound /\ Identity /\ Moves /\ Order /\ Delivered /\ Arrival)
<1>1. Init => Arrival
  BY DEF Init, StoreInit, BackendInit, Arrival, HighOK, ArrivalOrder, LateOrder, StaleOK,
     NoSilentlyStaleEvent
<1> QED
  BY <1>1, ArrivalStep, OrderInvariant, DeliveredInvariant, PTL DEF Spec

\* applyProjection ignores no event that the device still holds as queued or
\* delivered: whatever is retried, lost, delivered late, moved or cut off by a
\* crash, what arrives too late was quarantined or dropped before.
THEOREM NothingSilentlyStale == Spec => []NoSilentlyStaleEvent
<1>1. Arrival => NoSilentlyStaleEvent
  BY DEF Arrival
<1> QED
  BY <1>1, ArrivalInvariant, PTL

-----------------------------------------------------------------------------
\* The outbox.

Arrived == {e \in queue : Known(e.dev, e)}

\* The outbox holds the rows of event_queue.
LEMMA BoxHolds == Sound => Box!Held = queue
BY DEF Box!Held, Pending, Sound, StoreOK, StoreTypeOK

\* Appending is a submission.
LEMMA AppendSubmits ==
  ASSUME Sound, NEW new, Appended(new)
  PROVE  Box!Submit
<1>1. /\ queue' = queue \cup new /\ UNCHANGED <<acked, quarantined, log>>
      /\ \A f \in new : f.seq \in Nat
      /\ \A e \in queue, f \in new : e.ws = f.ws => e.seq < f.seq
      /\ queue \subseteq Event /\ acked \cup quarantined \subseteq queue
  BY DEF Appended, Held, Sound, StoreOK, StoreTypeOK
<1>2. \A f \in new : f \notin queue
  BY <1>1
<1>3. Pending' = Pending \cup new /\ Pending \subseteq queue
  BY <1>1, <1>2 DEF Pending
<1>4. \A e \in new, f \in queue : ~(e.ws = f.ws /\ e.seq < f.seq)
  BY <1>1 DEF Event
<1>5. Arrived \subseteq Arrived' /\ Arrived' \subseteq Arrived \cup new
  BY <1>1 DEF Arrived, Known
<1>6. new \subseteq Pending' \ Pending /\ Pending' \ Pending \subseteq new
  BY <1>2, <1>3
<1> QED
  BY <1>1, <1>2, <1>3, <1>4, <1>5, <1>6, BoxHolds DEF Box!Submit, Box!Earlier, Arrived

\* Dropping the queue of a workspace withdraws its items, if it has any.
LEMMA DropWithdraws ==
  ASSUME Sound, NEW w \in Workspaces, Dropped(w)
  PROVE  Box!OutboxNext \/ UNCHANGED Box!outboxVars
<1>1. /\ queue' = {e \in queue : e.ws # w} /\ acked' = {e \in acked : e.ws # w}
      /\ quarantined' = {e \in quarantined : e.ws # w} /\ UNCHANGED log
      /\ acked \cup quarantined \subseteq queue
  BY DEF Dropped, DropQueue, EventsOf, Sound, StoreOK, StoreTypeOK
<1>2. /\ Pending' = {e \in Pending : e.ws # w}
      /\ (quarantined \ acked)' = {e \in quarantined \ acked : e.ws # w}
      /\ Arrived' = {e \in Arrived : e.ws # w}
  BY <1>1 DEF Pending, Arrived, Known
<1>3. Box!Withdraw(w)
  BY <1>1, <1>2 DEF Box!Withdraw, Arrived
<1>4. CASE \E e \in queue : e.ws = w
  <2>1. w \in {e.ws : e \in Box!Held}
    BY <1>4, BoxHolds
  <2> QED
    BY <1>3, <2>1 DEF Box!OutboxNext
<1>5. CASE \A e \in queue : e.ws # w
  <2>1. /\ Pending' = Pending /\ acked' = acked /\ (quarantined \ acked)' = quarantined \ acked
        /\ Arrived' = Arrived
    BY <1>1, <1>2, <1>5 DEF Pending, Arrived
  <2> QED
    BY <2>1 DEF Box!outboxVars, Arrived
<1> QED
  BY <1>4, <1>5

\* A request is an arrival.
LEMMA SendArrives ==
  ASSUME Sound, NEW b \in Backends, NEW batch, Sent(b, batch)
  PROVE  Box!Arrive
<1>1. UNCHANGED <<queue, acked, quarantined>> /\ Pending' = Pending /\ queue \subseteq Event
  BY DEF Sent, Pending, Sound, StoreOK, StoreTypeOK
<1>2. \A c \in Backends : \A e : Known(c, e) => Known(c, e)'
  BY PublishedLog DEF Sent, Sound, backendVars, Known
<1>3. Arrived \subseteq Arrived' /\ Arrived' \subseteq queue
  BY <1>1, <1>2 DEF Arrived, Event
<1> QED
  BY <1>1, <1>3, BoxHolds DEF Box!Arrive, Arrived

\* Settling the first event of the window delivers or refuses the oldest item, or
\* finds it withdrawn.
LEMMA SettleDelivers ==
  ASSUME Sound, Identity, Order, Delivered, AckNext \/ RetryAck \/ RetryQuarantine
  PROVE  Box!OutboxNext \/ UNCHANGED Box!outboxVars
<1> DEFINE e == FirstOf(win)
<1>1. win # {} /\ (Ack(e) \/ Quarantine(e)) /\ UNCHANGED log
  BY DEF AckNext, RetryAck, RetryQuarantine, Sound, PassOK, FlushOK, backendVars
<1>2. e \in win /\ \A f \in Pending : f.ws = e.ws => f = e \/ e.seq < f.seq
  BY <1>1, FirstIsOldest
<1>3. AckNext \/ RetryAck => Known(e.dev, e)
  BY <1>2 DEF Delivered, SentOK, AckNext, RetryAck
<1>4. UNCHANGED queue /\ Pending \subseteq queue /\ e.seq \in Nat /\ queue \subseteq Event
  BY <1>1, <1>2 DEF Ack, Quarantine, Pending, Sound, StoreOK, StoreTypeOK, PassOK, FlushTypeOK, Event
<1>5. Arrived' = Arrived
  BY <1>1, <1>4 DEF Arrived, Known
<1> HIDE DEF e
<1>6. e \in Pending => Box!Oldest(e)
  BY <1>2, <1>4 DEF Box!Oldest, Box!Earlier, Event
<1>7. CASE AckNext \/ RetryAck
  <2>1. e \in Pending /\ acked' = acked \cup {e} /\ UNCHANGED quarantined
    <3>1. Ack(FirstOf(win)) /\ FirstOf(win) \in win
      BY <1>2, <1>7 DEF AckNext, RetryAck, e
    <3>2. CanAck(e)
      BY <3>1 DEF Ack, e
    <3>3. AckRow(e) = e
      BY <1>2, <3>2, AckRowFound DEF Order, PassOrder, OwnRow, Kept
    <3> QED
      BY <1>2, <3>1, <3>2, <3>3, AckRowFound DEF Ack, e, Order, PassOrder, Unsettled, InPass
  <2>2. /\ Pending' = Pending \ {e} /\ (quarantined \ acked)' = quarantined \ acked
        /\ e \in Arrived
    BY <1>3, <1>4, <1>7, <2>1 DEF Pending, Arrived
  <2>3. Box!Deliver(e)
    BY <1>5, <1>6, <2>1, <2>2 DEF Box!Deliver, Arrived
  <2> QED
    BY <2>1, <2>3 DEF Box!OutboxNext
<1>8. CASE RetryQuarantine
  <2>1. \/ e \in Pending /\ quarantined' = quarantined \cup {e} /\ UNCHANGED acked
        \/ UNCHANGED <<acked, quarantined>>
    <3>1. Quarantine(e) /\ UNCHANGED acked
      BY <1>8 DEF RetryQuarantine, Quarantine, e
    <3>2. \A f \in queue : SameId(e, f) => f = e
      BY <1>2 DEF Order, PassOrder, OwnRow, Kept
    <3>3. e \in queue => e \in Pending
      BY <1>2 DEF Order, PassOrder, Unsettled, InPass
    <3>4. SameId(e, e)
      BY DEF SameId
    <3>5. {f \in queue \ acked : SameId(e, f)} = IF e \in queue THEN {e} ELSE {}
      BY <3>2, <3>3, <3>4 DEF Pending
    <3> QED
      BY <3>1, <3>3, <3>5 DEF Quarantine
  <2>2. CASE e \in Pending /\ quarantined' = quarantined \cup {e} /\ UNCHANGED acked
    <3>1. /\ Pending' = Pending \ {e}
          /\ (quarantined \ acked)' = (quarantined \ acked) \cup {e}
      BY <1>4, <2>2 DEF Pending
    <3>2. Box!Refuse(e)
      BY <1>5, <1>6, <2>2, <3>1 DEF Box!Refuse, Arrived
    <3> QED
      BY <2>2, <3>2 DEF Box!OutboxNext
  <2>3. CASE UNCHANGED <<acked, quarantined>>
    BY <1>4, <1>5, <2>3 DEF Box!outboxVars, Pending, Arrived
  <2> QED
    BY <2>1, <2>2, <2>3
<1> QED
  BY <1>7, <1>8

\* Every step is a step of the outbox, or none.
LEMMA BoxStep ==
  Sound /\ Identity /\ Moves /\ Order /\ Delivered /\ Arrival /\ [Next]_vars
    => [Box!OutboxNext]_(Box!outboxVars)
<1> SUFFICES ASSUME Sound, Identity, Moves, Order, Delivered, Arrival, [Next]_vars
             PROVE  Box!OutboxNext \/ UNCHANGED Box!outboxVars
  OBVIOUS
<1>1. PassStages /\ LateOrder
  BY DEF Moves, Arrival
<1>2. UNCHANGED <<queue, acked, quarantined, log>> => UNCHANGED Box!outboxVars
  BY DEF Box!outboxVars, Pending, Known
<1>3. CASE SendWindow \/ RetryAccepted \/ SendFails \/ RetryFails \/ DeliverLate
  BY <1>1, <1>3, StepSends, SendArrives DEF Box!OutboxNext
<1>4. CASE AckNext \/ RetryAck \/ RetryQuarantine
  BY <1>4, SettleDelivers
<1>5. CASE /\ FlushStep \/ FlushStoreFails \/ Crash
           /\ ~(SendWindow \/ RetryAccepted \/ SendFails \/ RetryFails)
           /\ ~(AckNext \/ RetryAck \/ RetryQuarantine)
  BY <1>2, <1>5 DEF FlushStep, FlushStoreFails, Crash, LoadPending, LoadWorkspaces, PickSkip,
     PickUnconfigured, PickSender, FinishFlush, SendRejected, Drained, AckMissing, NextWindow,
     RetryRefused, RetryAckMissing, storeVars, backendVars
<1>6. CASE Boot \/ BootCut \/ AddUpsert \/ RebindUpsert
           \/ \E w \in Workspaces, kind \in {"obs", "mft"}, n \in 1..MaxBurst : Observe(w, kind, n)
  BY <1>6, StepAppends, AppendSubmits DEF Box!OutboxNext
<1>7. CASE RemoveStored \/ RebindStored
  BY <1>7, StepDrops, DropWithdraws
<1>8. CASE AdminCall \/ AddCommit \/ RebindMissing \/ FinishOp \/ StoreFails
           \/ (\E S, v : PauseResume(S, v))
           \/ (\E p \in Projects, b \in Backends : Revoke(p, b)) \/ UNCHANGED vars
  BY <1>2, <1>8, QuietStep DEF OrderVars
<1> QED
  BY <1>3, <1>4, <1>5, <1>6, <1>7, <1>8 DEF Next, OpStep, Handler, Environment

\* The publisher, its store, the network and the backends implement Outbox: an
\* event waits until it is settled, the events of a workspace are settled oldest
\* first, one counts as delivered only once it has arrived, and leaves the queue
\* only with all of its workspace.
THEOREM PublisherIsAnOutbox == Spec => ImplementsOutbox
<1>1. Init => Box!OutboxInit
  BY DEF Init, StoreInit, Pending, Box!OutboxInit
<1> QED
  BY <1>1, BoxStep, ArrivalInvariant, PTL DEF Spec, ImplementsOutbox, Box!OutboxSpec

-----------------------------------------------------------------------------
\* Moves that run to their end.

Moving == op.kind \in {"rebind", "rebindUpsert"}

\* No move is cut short, by a stop of its process, a failed transaction or a
\* workspace the store does not have, and a workspace is added with the origin
\* its Project has: the other way of moving a Project, which rewrites no row.
WholeMoves ==
  /\ Moving => ~(Crash \/ StoreFails \/ RebindMissing)
  /\ \A w \in Workspaces, b \in Backends :
       AddWorkspace(w, b) => BackendForWorkspace(cfgMem, w) \in {NoBackend, b}

\* Workspaces whose row a move has still to rewrite.
Unmoved == IF Moving THEN op.rest ELSE {}

\* A registered workspace is on the backend its row names.
Agrees(c) == \A w \in c.ws \ Unmoved : row[w].reg => BackendForWorkspace(c, w) = row[w].backend

\* The call in progress goes where the configuration already is.
OpAgrees ==
  /\ op.kind \in {"add", "addCommit"} =>
       /\ op.ws \notin cfgMem.ws
       /\ op.ws \in cfgDisk.ws => BackendForWorkspace(cfgDisk, op.ws) = op.target
       /\ BackendForWorkspace(cfgMem, op.ws) \in {NoBackend, op.target}
  /\ op.kind = "addCommit" /\ row[op.ws].reg => row[op.ws].backend = op.target
  /\ op.kind = "rebindUpsert" => ~row[op.ws].reg
  /\ Moving => \A w \in Active :
       /\ w \in cfgDisk.ws => BackendForWorkspace(cfgDisk, w) = op.target
       /\ w \in cfgMem.ws => BackendForWorkspace(cfgMem, w) = op.target

\* A row that remembers a registration has it in the queue, for its backend.
Introduced ==
  \A w \in Workspaces : row[w].reg =>
    /\ row[w].present
    /\ \E r \in queue : r.ws = w /\ r.kind = "reg" /\ r.dev = row[w].backend

Agreement == Agrees(cfgDisk) /\ Agrees(cfgMem) /\ OpAgrees

\* What adding a workspace leaves of the configuration.
LEMMA AddKeepsBackends ==
  ASSUME NEW c \in Config, ConfigOK(c), NEW w \in Workspaces, NEW b \in Backends,
         BackendForWorkspace(c, w) \in {NoBackend, b}
  PROVE  \A v \in AddToConfig(c, w, b).ws :
           /\ v = w \/ v \in c.ws
           /\ v = w => BackendForWorkspace(AddToConfig(c, w, b), v) = b
           /\ v \in c.ws => BackendForWorkspace(AddToConfig(c, w, b), v) = BackendForWorkspace(c, v)
<1> USE ProjectOfAssumption, BackendsAssumption
    DEF Config, ConfigOK, BackendForWorkspace, BackendForProject
<1> DEFINE d == AddToConfig(c, w, b)
<1>1. d.ws = c.ws \cup {w} /\ d.bind = [c.bind EXCEPT ![ProjectOf[w]] = b]
  BY DEF AddToConfig, BindProject, UpsertBackend
<1>2. c.bind \in [Projects -> Backends \cup {NoBackend}] /\ c.ws \subseteq Workspaces
  OBVIOUS
<1> HIDE DEF d
<1>3. ASSUME NEW v \in c.ws PROVE d.bind[ProjectOf[v]] = c.bind[ProjectOf[v]]
  BY <1>1, <1>2
<1>4. d.bind[ProjectOf[w]] = b
  BY <1>1, <1>2
<1> QED
  BY <1>1, <1>3, <1>4 DEF d

\* Removing leaves the backends of what remains.
LEMMA RemoveKeepsBackends ==
  ASSUME NEW c \in Config
  PROVE  /\ \A p \in Projects : \A v \in RemoveProject(c, p).ws :
              v \in c.ws /\ BackendForWorkspace(RemoveProject(c, p), v) = BackendForWorkspace(c, v)
         /\ \A b \in Backends : \A v \in RemoveBackend(c, b).ws :
              v \in c.ws /\ BackendForWorkspace(RemoveBackend(c, b), v) = BackendForWorkspace(c, v)
BY ProjectOfAssumption DEF Config, BackendForWorkspace, BackendForProject, RemoveProject,
   WorkspacesForProject, RemoveBackend

\* Steps that leave what rows, queue, configuration and call say of backends.
LEMMA AgreementFrame ==
  ASSUME Sound, Agreement, Introduced, UNCHANGED <<cfgDisk, cfgMem, op>>, queue \subseteq queue',
         \A w \in Workspaces : /\ row'[w].present = row[w].present /\ row'[w].reg = row[w].reg
                               /\ row'[w].backend = row[w].backend
  PROVE  Agreement' /\ Introduced'
<1>1. Unmoved' = Unmoved /\ Active' = Active /\ Moving' = Moving
  BY DEF Unmoved, Active, Moving
<1>2. /\ cfgDisk.ws \subseteq Workspaces /\ cfgMem.ws \subseteq Workspaces
      /\ op.kind \in {"addCommit", "rebindUpsert"} => op.ws \in Workspaces
  BY DEF Sound, AdminOK, AdminTypeOK, OpOK, Config
<1>3. Agrees(cfgDisk)' /\ Agrees(cfgMem)'
  BY <1>1, <1>2 DEF Agreement, Agrees
<1>4. OpAgrees'
  BY <1>1, <1>2 DEF Agreement, OpAgrees
<1>5. Introduced'
  BY DEF Introduced
<1> QED
  BY <1>3, <1>4, <1>5 DEF Agreement

\* The administrative calls, a move included, keep rows and configuration in
\* agreement.
LEMMA AdminCallAgrees ==
  ASSUME Sound, Identity, Agreement, Introduced, WholeMoves, AdminCall
  PROVE  Agreement'
<1>1. /\ cfgMem \in Config /\ cfgDisk \in Config /\ ConfigOK(cfgMem) /\ ConfigOK(cfgDisk)
      /\ CurrentConfig \in Config /\ op \in Op
      /\ ~up => CurrentConfig = cfgDisk /\ cfgMem.ws = {}
      /\ up => CurrentConfig = cfgMem
  BY CurrentConfigOK DEF Sound, AdminOK, AdminTypeOK, Identity, RootsOK, CurrentConfig
<1>2. UNCHANGED row
  BY DEF AdminCall, AddWorkspace, Register, RemoveProjectWorkspaces, RebindProject, ResetBackend,
     storeVars
<1>3. Agrees(cfgDisk) /\ Agrees(cfgMem) /\ OpAgrees
  BY DEF Agreement
<1>4. ASSUME NEW w \in Workspaces \ used
      PROVE  w \notin cfgDisk.ws /\ w \notin cfgMem.ws /\ ~row[w].reg
  BY DEF Identity, UsedOK, Configured, Introduced
<1>5. ASSUME NEW b \in Backends, ResetBackend(b)
      PROVE  Agreement'
  <2>1. cfgDisk' = RemoveBackend(cfgDisk, b) /\ UNCHANGED <<cfgMem, op>>
    BY <1>5 DEF ResetBackend
  <2>2. \A v \in cfgDisk'.ws : v \in cfgDisk.ws /\ BackendForWorkspace(cfgDisk', v) = BackendForWorkspace(cfgDisk, v)
    BY <1>1, <2>1, RemoveKeepsBackends
  <2>3. Unmoved' = Unmoved /\ Active' = Active /\ Moving' = Moving
    BY <2>1 DEF Unmoved, Active, Moving
  <2>4. Agrees(cfgDisk)' /\ Agrees(cfgMem)'
    BY <1>2, <1>3, <2>1, <2>2, <2>3 DEF Agrees
  <2>5. OpAgrees'
    BY <1>2, <1>3, <2>1, <2>2, <2>3 DEF OpAgrees
  <2> QED
    BY <2>4, <2>5 DEF Agreement
<1>6. CASE op.kind = "none"
  <2>1. Unmoved = {} /\ ~Moving
    BY <1>6 DEF Unmoved, Moving
  <2>2. /\ \A v \in cfgDisk.ws : row[v].reg => BackendForWorkspace(cfgDisk, v) = row[v].backend
        /\ \A v \in cfgMem.ws : row[v].reg => BackendForWorkspace(cfgMem, v) = row[v].backend
    BY <1>3, <2>1 DEF Agrees
  <2>3. ASSUME NEW w \in Workspaces, NEW b \in Backends, AddWorkspace(w, b)
        PROVE  Agreement'
    <3>1. /\ w \in Workspaces \ used /\ cfgDisk' = AddToConfig(cfgMem, w, b) /\ UNCHANGED cfgMem
          /\ op' = [kind |-> "add", rest |-> {}, ws |-> w, target |-> b]
      BY <2>3 DEF AddWorkspace
    <3>2. BackendForWorkspace(cfgMem, w) \in {NoBackend, b}
      BY <2>3 DEF WholeMoves
    <3>3. \A v \in cfgDisk'.ws :
             /\ v = w \/ v \in cfgMem.ws
             /\ v = w => BackendForWorkspace(cfgDisk', v) = b
             /\ v \in cfgMem.ws => BackendForWorkspace(cfgDisk', v) = BackendForWorkspace(cfgMem, v)
      BY <1>1, <3>1, <3>2, AddKeepsBackends
    <3>4. Agrees(cfgDisk)' /\ Agrees(cfgMem)'
      BY <1>2, <1>4, <2>2, <3>1, <3>3 DEF Agrees
    <3>5. OpAgrees'
      BY <1>4, <3>1, <3>2, <3>3 DEF OpAgrees, Moving
    <3> QED
      BY <3>4, <3>5 DEF Agreement
  <2>4. ASSUME NEW w \in Workspaces, NEW b \in Backends, Register(w, b)
        PROVE  Agreement'
    <3>1. /\ w \in Workspaces \ used /\ cfgDisk' = AddToConfig(cfgDisk, w, b) /\ UNCHANGED <<cfgMem, op>>
          /\ BackendForWorkspace(cfgDisk, w) \in {NoBackend, b}
      BY <2>4 DEF Register
    <3>2. \A v \in cfgDisk'.ws :
             /\ v = w \/ v \in cfgDisk.ws
             /\ v = w => BackendForWorkspace(cfgDisk', v) = b
             /\ v \in cfgDisk.ws => BackendForWorkspace(cfgDisk', v) = BackendForWorkspace(cfgDisk, v)
      BY <1>1, <3>1, AddKeepsBackends
    <3>3. Agrees(cfgDisk)' /\ Agrees(cfgMem)'
      BY <1>2, <1>4, <2>2, <3>1, <3>2 DEF Agrees
    <3>4. OpAgrees'
      BY <1>6, <3>1 DEF OpAgrees, Moving
    <3> QED
      BY <3>3, <3>4 DEF Agreement
  <2>5. ASSUME NEW p \in Projects, RemoveProjectWorkspaces(p)
        PROVE  Agreement'
    <3>1. /\ cfgDisk' = RemoveProject(CurrentConfig, p)
          /\ cfgMem' = IF up THEN RemoveProject(CurrentConfig, p) ELSE cfgMem
          /\ op'.kind = "remove"
      BY <2>5 DEF RemoveProjectWorkspaces, SaveConfig
    <3>2. \A v \in RemoveProject(CurrentConfig, p).ws :
            /\ v \in CurrentConfig.ws
            /\ BackendForWorkspace(RemoveProject(CurrentConfig, p), v) = BackendForWorkspace(CurrentConfig, v)
      BY <1>1, RemoveKeepsBackends
    <3>3. Agrees(cfgDisk)' /\ Agrees(cfgMem)'
      BY <1>1, <1>2, <2>2, <3>1, <3>2 DEF Agrees
    <3>4. OpAgrees'
      BY <3>1 DEF OpAgrees, Moving
    <3> QED
      BY <3>3, <3>4 DEF Agreement
  <2>6. ASSUME NEW p \in Projects, NEW b \in Backends, RebindProject(p, b)
        PROVE  Agreement'
    <3> DEFINE next == RebindInConfig(CurrentConfig, p, b)
    <3>1. /\ cfgDisk' = next /\ cfgMem' = IF up THEN next ELSE cfgMem
          /\ op' = [kind |-> "rebind", rest |-> WorkspacesForProject(CurrentConfig, p),
                    ws |-> 0, target |-> b]
      BY <2>6 DEF RebindProject, SaveConfig
    <3>2. next.ws = CurrentConfig.ws
      BY DEF RebindInConfig, BindProject, UpsertBackend
    <3>3. ASSUME NEW v \in CurrentConfig.ws
          PROVE  /\ v \in WorkspacesForProject(CurrentConfig, p) => BackendForWorkspace(next, v) = b
                 /\ v \notin WorkspacesForProject(CurrentConfig, p)
                      => BackendForWorkspace(next, v) = BackendForWorkspace(CurrentConfig, v)
      BY <1>1, ProjectOfAssumption DEF RebindInConfig, BindProject, UpsertBackend, Config,
         BackendForWorkspace, BackendForProject, WorkspacesForProject
    <3> HIDE DEF next
    <3>4. /\ Unmoved' = WorkspacesForProject(CurrentConfig, p)
          /\ Active' = WorkspacesForProject(CurrentConfig, p)
      BY <3>1 DEF Unmoved, Active, Moving
    <3>5. Agrees(cfgDisk)' /\ Agrees(cfgMem)'
      BY <1>1, <1>2, <2>2, <3>1, <3>2, <3>3, <3>4 DEF Agrees
    <3>6. OpAgrees'
      BY <1>1, <3>1, <3>2, <3>3, <3>4 DEF OpAgrees
    <3> QED
      BY <3>5, <3>6 DEF Agreement
  <2> QED
    BY <1>5, <2>3, <2>4, <2>5, <2>6 DEF AdminCall
<1> QED
  BY <1>5, <1>6 DEF AdminCall, AddWorkspace, Register, RemoveProjectWorkspaces, RebindProject, StartAdmin

\* UpsertWorkspace under a configuration that agrees with the rows.
LEMMA UpsertIntroduces ==
  ASSUME Introduced, NEW c, NEW S, S \subseteq Workspaces,
         \A w \in S : row[w].reg => BackendForWorkspace(c, w) = row[w].backend,
         UpsertWorkspaces(c, S)
  PROVE  /\ Introduced'
         /\ \A w \in Workspaces : row'[w].reg =>
              (w \in S /\ row'[w].backend = BackendForWorkspace(c, w)) \/ (w \notin S /\ row'[w] = row[w])
<1>1. /\ \A w \in Workspaces : row'[w] = IF w \in S THEN UpsertedRow(c, w)
              ELSE IF \E v \in S : RootOf[v] = RootOf[w] THEN NoRow ELSE row[w]
      /\ queue' = queue \cup {RegistrationEvent(c, w) : w \in {v \in S : NeedsRegistration(v)}}
  BY DEF UpsertWorkspaces
<1>2. \A w \in Workspaces : /\ UpsertedRow(c, w).present = TRUE
                            /\ UpsertedRow(c, w).backend = BackendForWorkspace(c, w)
                            /\ NoRow.reg = FALSE
  BY DEF UpsertedRow, NoRow
<1>3. ASSUME NEW w \in Workspaces, row'[w].reg
      PROVE  (w \in S /\ row'[w] = UpsertedRow(c, w)) \/ (w \notin S /\ row'[w] = row[w])
  BY <1>1, <1>2, <1>3
<1>4. ASSUME NEW w \in Workspaces, row'[w].reg
      PROVE  /\ row'[w].present
             /\ \E r \in queue' : r.ws = w /\ r.kind = "reg" /\ r.dev = row'[w].backend
  <2>1. CASE w \in S /\ NeedsRegistration(w)
    <3>1. RegistrationEvent(c, w) \in queue'
      BY <1>1, <2>1
    <3> QED
      BY <1>2, <1>3, <1>4, <2>1, <3>1 DEF RegistrationEvent
  <2>2. CASE w \in S /\ ~NeedsRegistration(w)
    <3>1. row[w].reg /\ BackendForWorkspace(c, w) = row[w].backend
      BY <2>2 DEF NeedsRegistration
    <3> QED
      BY <1>1, <1>2, <1>3, <1>4, <2>2, <3>1 DEF Introduced
  <2>3. CASE w \notin S
    BY <1>1, <1>3, <1>4, <2>3 DEF Introduced
  <2> QED
    BY <2>1, <2>2, <2>3
<1> QED
  BY <1>2, <1>3, <1>4 DEF Introduced

\* A workspace that loses its queue loses what its row remembers.
LEMMA DropIntroduces ==
  ASSUME Introduced, NEW w \in Workspaces, DropQueue(w), ~row'[w].reg,
         \A v \in Workspaces \ {w} : row'[v] = row[v]
  PROVE  Introduced'
<1>1. queue' = {e \in queue : e.ws # w}
  BY DEF DropQueue, EventsOf
<1> QED
  BY <1>1 DEF Introduced

\* The transactions of a call keep rows, queue and configuration in agreement.
LEMMA OpStepAgrees ==
  ASSUME Sound, Identity, Moves, Agreement, Introduced, WholeMoves, OpStep
  PROVE  Agreement' /\ Introduced'
<1>1. /\ op \in Op /\ cfgMem \in Config /\ ConfigOK(cfgMem) /\ row \in [Workspaces -> Row]
      /\ op.kind \in {"add", "addCommit", "rebindUpsert"} => op.ws \in Workspaces /\ op.target \in Backends
      /\ cfgMem.ws \subseteq Workspaces /\ cfgDisk.ws \subseteq Workspaces /\ op.rest \subseteq Workspaces
      /\ CurrentConfig \in Config
  BY CurrentConfigOK DEF Sound, AdminOK, AdminTypeOK, OpOK, StoreOK, StoreTypeOK, Config, Op
<1>2. UNCHANGED cfgDisk
  BY DEF OpStep, AddUpsert, AddCommit, RemoveStored, RebindStored, RebindUpsert, RebindMissing, FinishOp
<1>3. Agrees(cfgDisk) /\ Agrees(cfgMem) /\ OpAgrees
  BY DEF Agreement
<1>4. CASE AddUpsert
  <2> DEFINE next == AddToConfig(cfgMem, op.ws, op.target)
  <2>1. /\ op.kind = "add" /\ UpsertWorkspaces(next, {op.ws}) /\ UNCHANGED cfgMem
        /\ op' = [op EXCEPT !.kind = "addCommit"]
    BY <1>4 DEF AddUpsert
  <2>2. op'.kind = "addCommit" /\ op'.ws = op.ws /\ op'.target = op.target
    BY <1>1, <2>1 DEF Op
  <2>3. BackendForWorkspace(next, op.ws) = op.target
    BY <1>1, <2>1, ProjectOfAssumption
       DEF AddToConfig, BindProject, UpsertBackend, Config, BackendForWorkspace, BackendForProject
  <2> HIDE DEF next
  <2>4. ~row[op.ws].reg
    BY <1>1, <2>1 DEF Moves, MoveOK, Introduced
  <2>5. /\ Introduced'
        /\ \A w \in Workspaces : row'[w].reg =>
             (w = op.ws /\ row'[w].backend = op.target) \/ (w # op.ws /\ row'[w] = row[w])
    BY <1>1, <2>1, <2>3, <2>4, UpsertIntroduces
  <2>6. Unmoved = {} /\ Unmoved' = {} /\ ~Moving'
    BY <2>1, <2>2 DEF Unmoved, Moving
  <2>7. Agrees(cfgDisk)' /\ Agrees(cfgMem)'
    BY <1>1, <1>2, <1>3, <2>1, <2>5, <2>6 DEF Agrees, OpAgrees
  <2>8. OpAgrees'
    BY <1>1, <1>2, <1>3, <2>1, <2>2, <2>5, <2>6 DEF OpAgrees
  <2> QED
    BY <2>5, <2>7, <2>8 DEF Agreement
<1>5. CASE AddCommit
  <2>1. /\ op.kind = "addCommit" /\ cfgMem' = AddToConfig(cfgMem, op.ws, op.target) /\ op'.kind = "none"
        /\ UNCHANGED <<row, queue>>
    BY <1>5 DEF AddCommit, EndOp, NoOp, storeVars
  <2>2. \A v \in cfgMem'.ws :
           /\ v = op.ws \/ v \in cfgMem.ws
           /\ v = op.ws => BackendForWorkspace(cfgMem', v) = op.target
           /\ v \in cfgMem.ws => BackendForWorkspace(cfgMem', v) = BackendForWorkspace(cfgMem, v)
    BY <1>1, <1>3, <2>1, AddKeepsBackends DEF OpAgrees
  <2>3. Unmoved = {} /\ Unmoved' = {} /\ ~Moving'
    BY <2>1 DEF Unmoved, Moving
  <2>4. row[op.ws].reg => row[op.ws].backend = op.target
    BY <1>3, <2>1 DEF OpAgrees
  <2>5. Agrees(cfgDisk)' /\ Agrees(cfgMem)'
    BY <1>2, <1>3, <2>1, <2>2, <2>3, <2>4 DEF Agrees
  <2>6. OpAgrees' /\ Introduced'
    BY <2>1, <2>3 DEF OpAgrees, Introduced
  <2> QED
    BY <2>5, <2>6 DEF Agreement
<1>6. CASE RemoveStored
  <2>1. PICK w \in op.rest : DeleteWorkspace(w) /\ op' = [op EXCEPT !.rest = @ \ {w}]
    BY <1>6 DEF RemoveStored
  <2>2. op.kind = "remove" /\ UNCHANGED cfgMem
    BY <1>6 DEF RemoveStored
  <2>3. op'.kind = "remove"
    BY <1>1, <2>1, <2>2 DEF Op
  <2>4. ~row'[w].reg /\ \A v \in Workspaces \ {w} : row'[v] = row[v]
    BY <1>1, <2>1 DEF DeleteWorkspace, NoRow
  <2>5. Introduced'
    BY <1>1, <2>1, <2>4, DropIntroduces DEF DeleteWorkspace
  <2>6. Unmoved = {} /\ Unmoved' = {} /\ ~Moving'
    BY <2>2, <2>3 DEF Unmoved, Moving
  <2>7. Agrees(cfgDisk)' /\ Agrees(cfgMem)'
    BY <1>1, <1>2, <1>3, <2>2, <2>4, <2>6 DEF Agrees
  <2>8. OpAgrees'
    BY <2>3, <2>6 DEF OpAgrees
  <2> QED
    BY <2>5, <2>7, <2>8 DEF Agreement
<1>7. CASE RebindStored
  <2>1. PICK w \in op.rest : /\ RebindWorkspace(w, op.target)
                             /\ op' = [op EXCEPT !.kind = "rebindUpsert", !.ws = w, !.rest = @ \ {w}]
    BY <1>7 DEF RebindStored
  <2>2. op.kind = "rebind" /\ UNCHANGED cfgMem
    BY <1>7 DEF RebindStored
  <2>3. op'.kind = "rebindUpsert" /\ op'.ws = w /\ op'.rest = op.rest \ {w} /\ op'.target = op.target
    BY <1>1, <2>1 DEF Op
  <2>4. ~row'[w].reg /\ row'[w].backend = op.target /\ \A v \in Workspaces \ {w} : row'[v] = row[v]
    BY <1>1, <2>1 DEF RebindWorkspace, Row
  <2>5. Introduced'
    BY <1>1, <2>1, <2>4, DropIntroduces DEF RebindWorkspace
  <2>6. /\ Unmoved = op.rest /\ Unmoved' = op.rest \ {w} /\ Moving /\ Moving'
        /\ Active = op.rest /\ Active' = op.rest
    BY <2>2, <2>3 DEF Unmoved, Moving, Active
  <2>7. Agrees(cfgDisk)' /\ Agrees(cfgMem)'
    BY <1>1, <1>2, <1>3, <2>2, <2>4, <2>6 DEF Agrees
  <2>8. OpAgrees'
    BY <1>2, <1>3, <2>2, <2>3, <2>4, <2>6 DEF OpAgrees
  <2> QED
    BY <2>5, <2>7, <2>8 DEF Agreement
<1>8. CASE RebindUpsert
  <2> DEFINE next == RebindInConfig(CurrentConfig, ProjectOf[op.ws], op.target)
  <2>1. /\ op.kind = "rebindUpsert" /\ UpsertWorkspaces(next, {op.ws}) /\ UNCHANGED cfgMem
        /\ op' = [op EXCEPT !.kind = "rebind", !.ws = 0]
    BY <1>8 DEF RebindUpsert
  <2>2. op'.kind = "rebind" /\ op'.rest = op.rest /\ op'.target = op.target
    BY <1>1, <2>1 DEF Op
  <2>3. BackendForWorkspace(next, op.ws) = op.target
    BY <1>1, <2>1, ProjectOfAssumption
       DEF RebindInConfig, BindProject, UpsertBackend, Config, BackendForWorkspace, BackendForProject
  <2> HIDE DEF next
  <2>4. ~row[op.ws].reg
    BY <1>3, <2>1 DEF OpAgrees
  <2>5. /\ Introduced'
        /\ \A w \in Workspaces : row'[w].reg =>
             (w = op.ws /\ row'[w].backend = op.target) \/ (w # op.ws /\ row'[w] = row[w])
    BY <1>1, <2>1, <2>3, <2>4, UpsertIntroduces
  <2>6. /\ Unmoved = op.rest /\ Unmoved' = op.rest /\ Moving /\ Moving'
        /\ Active = op.rest \cup {op.ws} /\ Active' = op.rest
    BY <2>1, <2>2 DEF Unmoved, Moving, Active
  <2>7. Agrees(cfgDisk)' /\ Agrees(cfgMem)'
    BY <1>1, <1>2, <1>3, <2>1, <2>5, <2>6 DEF Agrees, OpAgrees
  <2>8. OpAgrees'
    BY <1>2, <1>3, <2>1, <2>2, <2>6 DEF OpAgrees
  <2> QED
    BY <2>5, <2>7, <2>8 DEF Agreement
<1>9. CASE FinishOp
  <2>1. UNCHANGED <<row, queue, cfgMem>> /\ op'.kind = "none" /\ op.rest = {}
    BY <1>9 DEF FinishOp, EndOp, NoOp, storeVars
  <2>2. Unmoved = {} /\ Unmoved' = {} /\ ~Moving'
    BY <2>1 DEF Unmoved, Moving
  <2>3. Agrees(cfgDisk)' /\ Agrees(cfgMem)'
    BY <1>2, <1>3, <2>1, <2>2 DEF Agrees
  <2> QED
    BY <2>1, <2>2, <2>3 DEF OpAgrees, Introduced, Agreement
<1>10. CASE RebindMissing
  BY <1>10 DEF WholeMoves, Moving, RebindMissing
<1> QED
  BY <1>4, <1>5, <1>6, <1>7, <1>8, <1>9, <1>10 DEF OpStep

\* Every step keeps them in agreement, when no move is cut short.
LEMMA AgreementStep ==
  ASSUME Sound, Identity, Moves, Agreement, Introduced, WholeMoves, Next
  PROVE  Agreement' /\ Introduced'
<1>1. /\ row \in [Workspaces -> Row] /\ op \in Op
      /\ cfgMem.ws \subseteq Workspaces /\ cfgDisk.ws \subseteq Workspaces
  BY DEF Sound, StoreOK, StoreTypeOK, AdminOK, AdminTypeOK, Config
<1>2. Agrees(cfgDisk) /\ Agrees(cfgMem) /\ OpAgrees
  BY DEF Agreement
<1>3. CASE FlushStep \/ FlushStoreFails
  BY <1>3, FlushFrame, AgreementFrame
<1>4. CASE Handler
  <2>1. UNCHANGED <<cfgDisk, cfgMem, op>>
    BY <1>4 DEF Handler, Observe, PauseResume, adminVars
  <2>2. queue \subseteq queue' /\ \A w \in Workspaces : /\ row'[w].present = row[w].present
                                                        /\ row'[w].reg = row[w].reg
                                                        /\ row'[w].backend = row[w].backend
    <3>1. ASSUME NEW w \in Workspaces, NEW kind \in {"obs", "mft"}, NEW n \in 1..MaxBurst,
                 Observe(w, kind, n)
          PROVE  queue \subseteq queue' /\ \A v \in Workspaces : /\ row'[v].present = row[v].present
                                                                 /\ row'[v].reg = row[v].reg
                                                                 /\ row'[v].backend = row[v].backend
      BY <1>1, <3>1 DEF Observe, EnqueueEvents, Row
    <3>2. ASSUME NEW S, NEW x, PauseResume(S, x)
          PROVE  queue \subseteq queue' /\ \A v \in Workspaces : /\ row'[v].present = row[v].present
                                                                 /\ row'[v].reg = row[v].reg
                                                                 /\ row'[v].backend = row[v].backend
      BY <1>1, <3>2 DEF PauseResume, SetPaused, Row
    <3> QED
      BY <1>4, <3>1, <3>2 DEF Handler
  <2> QED
    BY <2>1, <2>2, AgreementFrame
<1>5. CASE Boot \/ BootCut
  <2>1. PICK S \in SUBSET cfgDisk.ws : UpsertWorkspaces(cfgDisk, S)
    BY <1>5 DEF Boot, BootCut
  <2>2. UNCHANGED <<op, cfgDisk>> /\ cfgMem' \in {cfgMem, cfgDisk} /\ op.kind = "none" /\ ~up
    BY <1>5 DEF Boot, BootCut
  <2>3. cfgMem.ws = {} /\ S \subseteq Workspaces
    BY <1>1, <2>2 DEF Identity, RootsOK
  <2>4. Unmoved = {} /\ Unmoved' = {} /\ ~Moving'
    BY <2>2 DEF Unmoved, Moving
  <2>5. \A w \in cfgDisk.ws : row[w].reg => BackendForWorkspace(cfgDisk, w) = row[w].backend
    BY <1>2, <2>4 DEF Agrees
  <2>6. /\ Introduced'
        /\ \A w \in Workspaces : row'[w].reg =>
             (w \in S /\ row'[w].backend = BackendForWorkspace(cfgDisk, w)) \/ (w \notin S /\ row'[w] = row[w])
    BY <2>1, <2>3, <2>5, UpsertIntroduces
  <2>7. Agrees(cfgDisk)' /\ Agrees(cfgMem)'
    BY <1>1, <2>2, <2>3, <2>5, <2>6 DEF Agrees
  <2>8. OpAgrees'
    BY <2>2, <2>4 DEF OpAgrees
  <2> QED
    BY <2>6, <2>7, <2>8 DEF Agreement
<1>6. CASE Crash \/ StoreFails
  <2>1. /\ cfgDisk' \in {cfgDisk, cfgMem} /\ cfgMem' \in {EmptyConfig, cfgMem} /\ UNCHANGED <<row, queue>>
        /\ ~Moving /\ op'.kind \in {"none", "remove"}
    BY <1>1, <1>6 DEF WholeMoves, Moving, Crash, StoreFails, EndOp, NoOp, storeVars, Op
  <2>2. Unmoved = {} /\ Unmoved' = {} /\ ~Moving'
    BY <2>1 DEF Unmoved, Moving
  <2>3. Agrees(cfgDisk)' /\ Agrees(cfgMem)'
    BY <1>2, <2>1, <2>2 DEF Agrees, EmptyConfig
  <2> QED
    BY <2>1, <2>2, <2>3 DEF OpAgrees, Introduced, Agreement
<1>7. CASE DeliverLate \/ \E p \in Projects, b \in Backends : Revoke(p, b)
  <2>1. UNCHANGED <<row, queue, cfgDisk, cfgMem, op>>
    BY <1>7 DEF DeliverLate, Revoke, storeVars, adminVars
  <2> QED
    BY <2>1, AgreementFrame
<1>8. CASE AdminCall
  <2>1. UNCHANGED <<row, queue>>
    BY <1>8 DEF AdminCall, AddWorkspace, Register, RemoveProjectWorkspaces, RebindProject,
       ResetBackend, storeVars
  <2> QED
    BY <1>8, <2>1, AdminCallAgrees DEF Introduced
<1> QED
  BY <1>3, <1>4, <1>5, <1>6, <1>7, <1>8, OpStepAgrees DEF Next, Environment

\* registration_enqueued means what RebindWorkspace says it remembers, whatever
\* is added, removed, moved, reset, re-enrolled, refused or cut off by a crash,
\* as long as no move is cut short.
THEOREM RegistrationNeverForgotten == Spec /\ [][WholeMoves]_vars => []RegistrationRemembered
<1>1. Init => Agreement /\ Introduced
  <2> SUFFICES ASSUME Init PROVE Agreement /\ Introduced
    OBVIOUS
  <2>1. InitialConfig.ws \subseteq Workspaces
    BY InitialConfigAssumption DEF WellFormed, Config
  <2> QED
    BY <2>1 DEF Init, StoreInit, EmptyConfig, NoOp, NoRow, Agreement, Agrees, OpAgrees, Introduced,
       Moving, Active
<1>2. Sound /\ Identity /\ Moves /\ Agreement /\ Introduced /\ [Next]_vars /\ [WholeMoves]_vars
        => Agreement' /\ Introduced'
  <2> SUFFICES ASSUME Sound, Identity, Moves, Agreement, Introduced, [Next]_vars, [WholeMoves]_vars
               PROVE  Agreement' /\ Introduced'
    OBVIOUS
  <2>1. CASE UNCHANGED vars
    BY <2>1, AgreementFrame DEF vars, storeVars, adminVars
  <2>2. CASE ~UNCHANGED vars
    BY <2>2, AgreementStep
  <2> QED
    BY <2>1, <2>2
<1>3. Introduced => RegistrationRemembered
  BY DEF Introduced, RegistrationRemembered
<1> QED
  BY <1>1, <1>2, <1>3, MovesInvariant, PTL DEF Spec

-----------------------------------------------------------------------------
\* Projects that stay on their backends.

\* Nobody moves a Project: none is promoted, and a workspace is added with the
\* origin its Project has.  Even a move that runs to its end lets a handler queue
\* an event between the two transactions of a workspace, ahead of its
\* registration, and the new backend refuses it for that.
Stays ==
  /\ \A p \in Projects, b \in Backends : ~RebindProject(p, b)
  /\ \A w \in Workspaces, b \in Backends :
       AddWorkspace(w, b) => BackendForWorkspace(cfgMem, w) \in {NoBackend, b}

\* Whatever names a backend for w names h.
HomeIs(w, h) ==
  /\ w \in cfgDisk.ws => BackendForWorkspace(cfgDisk, w) = h
  /\ w \in cfgMem.ws => BackendForWorkspace(cfgMem, w) = h
  /\ op.kind \in {"add", "addCommit"} /\ op.ws = w => op.target = h
  /\ row[w].present => row[w].backend = h
  /\ \A e \in Kept : e.ws = w => e.dev = h

OneHome == \A w \in Workspaces : \E h \in Backends \cup {NoBackend} : HomeIs(w, h)

\* The call in progress moves nothing.
StaysOp ==
  /\ op.kind \notin {"rebind", "rebindUpsert"}
  /\ op.kind \in {"add", "addCommit"} =>
       BackendForWorkspace(cfgMem, op.ws) \in {NoBackend, op.target}

\* Its registration is the first event queued for a workspace, and stays.
RegisteredFirst ==
  /\ \A w \in Workspaces : row[w].reg <=> row[w].present
  /\ \A w \in Workspaces : row[w].present => \E r \in queue : r.ws = w /\ r.kind = "reg"
  /\ \A e \in queue : e.kind # "reg" =>
       \E r \in queue : r.ws = e.ws /\ r.kind = "reg" /\ r.seq < e.seq

Homes == OneHome /\ StaysOp /\ RegisteredFirst

\* Steps that write no backend anywhere.
LEMMA HomesFrame ==
  ASSUME OneHome, StaysOp, UNCHANGED <<cfgDisk, cfgMem, op>>,
         \A w \in Workspaces : row'[w].present => row[w].present /\ row'[w].backend = row[w].backend,
         Kept' \subseteq Kept
  PROVE  OneHome' /\ StaysOp'
<1>1. \A w \in Workspaces : \A h : HomeIs(w, h) => HomeIs(w, h)'
  BY DEF HomeIs
<1> QED
  BY <1>1 DEF OneHome, StaysOp

\* UpsertWorkspace under a configuration that agrees with the homes.
LEMMA UpsertHomes ==
  ASSUME Sound, NEW w \in Workspaces, NEW h, HomeIs(w, h), NEW c, NEW S, S \subseteq Workspaces,
         w \in S => BackendForWorkspace(c, w) = h,
         UpsertWorkspaces(c, S), UNCHANGED <<todo, win>>
  PROVE  /\ row'[w].present => row'[w].backend = h
         /\ \A e \in Kept' : e.ws = w => e.dev = h
<1>1. \A e \in Kept' : e \in Kept \/ (e.ws \in S /\ e.dev = BackendForWorkspace(c, e.ws))
  BY UpsertKept
<1>2. row'[w] = IF w \in S THEN UpsertedRow(c, w)
                ELSE IF \E v \in S : RootOf[v] = RootOf[w] THEN NoRow ELSE row[w]
  BY DEF UpsertWorkspaces
<1>3. row'[w].present => row'[w].backend = h
  BY <1>2 DEF UpsertedRow, NoRow, HomeIs
<1> QED
  BY <1>1, <1>3 DEF HomeIs

\* The administrative calls keep workspaces at home, when no Project moves.
LEMMA AdminCallHomes ==
  ASSUME Sound, Identity, OneHome, StaysOp, Stays, AdminCall
  PROVE  OneHome' /\ StaysOp'
<1>1. /\ cfgMem \in Config /\ cfgDisk \in Config /\ ConfigOK(cfgMem) /\ ConfigOK(cfgDisk)
      /\ CurrentConfig \in Config
  BY CurrentConfigOK DEF Sound, AdminOK, AdminTypeOK
<1>2. UNCHANGED <<row, queue, todo, win>> /\ Kept' = Kept
  BY DEF AdminCall, AddWorkspace, Register, RemoveProjectWorkspaces, RebindProject, ResetBackend,
     storeVars, flushVars, Kept
<1>3. ASSUME NEW w \in Workspaces \ used
      PROVE  /\ w \notin cfgDisk.ws /\ w \notin cfgMem.ws /\ ~row[w].present
             /\ \A e \in Kept : e.ws # w
             /\ ~(op.kind \in {"add", "addCommit"} /\ op.ws = w)
  BY DEF Identity, UsedOK, Configured, Kept, Held, Active
<1>4. ASSUME NEW w \in Workspaces, NEW b \in Backends, AddWorkspace(w, b)
      PROVE  OneHome' /\ StaysOp'
  <2>1. /\ w \in Workspaces \ used /\ cfgDisk' = AddToConfig(cfgMem, w, b) /\ UNCHANGED cfgMem
        /\ op' = [kind |-> "add", rest |-> {}, ws |-> w, target |-> b]
    BY <1>4 DEF AddWorkspace
  <2>2. BackendForWorkspace(cfgMem, w) \in {NoBackend, b}
    BY <1>4 DEF Stays
  <2>3. \A v \in cfgDisk'.ws :
           /\ v = w \/ v \in cfgMem.ws
           /\ v = w => BackendForWorkspace(cfgDisk', v) = b
           /\ v \in cfgMem.ws => BackendForWorkspace(cfgDisk', v) = BackendForWorkspace(cfgMem, v)
    BY <1>1, <2>1, <2>2, AddKeepsBackends
  <2>4. HomeIs(w, b)'
    BY <1>2, <1>3, <2>1, <2>3 DEF HomeIs
  <2>5. ASSUME NEW v \in Workspaces \ {w}, NEW h, HomeIs(v, h) PROVE HomeIs(v, h)'
    BY <1>2, <2>1, <2>3, <2>5 DEF HomeIs
  <2>6. StaysOp'
    BY <2>1, <2>2 DEF StaysOp
  <2> QED
    BY <2>4, <2>5, <2>6 DEF OneHome
<1>5. ASSUME NEW w \in Workspaces, NEW b \in Backends, Register(w, b)
      PROVE  OneHome' /\ StaysOp'
  <2>1. /\ w \in Workspaces \ used /\ cfgDisk' = AddToConfig(cfgDisk, w, b) /\ UNCHANGED <<cfgMem, op>>
        /\ BackendForWorkspace(cfgDisk, w) \in {NoBackend, b}
    BY <1>5 DEF Register
  <2>2. \A v \in cfgDisk'.ws :
           /\ v = w \/ v \in cfgDisk.ws
           /\ v = w => BackendForWorkspace(cfgDisk', v) = b
           /\ v \in cfgDisk.ws => BackendForWorkspace(cfgDisk', v) = BackendForWorkspace(cfgDisk, v)
    BY <1>1, <2>1, AddKeepsBackends
  <2>3. HomeIs(w, b)'
    BY <1>2, <1>3, <2>1, <2>2 DEF HomeIs
  <2>4. ASSUME NEW v \in Workspaces \ {w}, NEW h, HomeIs(v, h) PROVE HomeIs(v, h)'
    BY <1>2, <2>1, <2>2, <2>4 DEF HomeIs
  <2>5. StaysOp'
    BY <2>1 DEF StaysOp
  <2> QED
    BY <2>3, <2>4, <2>5 DEF OneHome
<1>6. ASSUME NEW p \in Projects, RemoveProjectWorkspaces(p)
      PROVE  OneHome' /\ StaysOp'
  <2>1. /\ cfgDisk' = RemoveProject(CurrentConfig, p) /\ cfgMem' \in {cfgMem, RemoveProject(CurrentConfig, p)}
        /\ op'.kind = "remove"
    BY <1>6 DEF RemoveProjectWorkspaces, SaveConfig
  <2>2. \A v \in RemoveProject(CurrentConfig, p).ws :
          /\ v \in CurrentConfig.ws
          /\ BackendForWorkspace(RemoveProject(CurrentConfig, p), v) = BackendForWorkspace(CurrentConfig, v)
    BY <1>1, RemoveKeepsBackends
  <2>3. CurrentConfig \in {cfgMem, cfgDisk}
    BY DEF CurrentConfig
  <2>4. ASSUME NEW v \in Workspaces, NEW h, HomeIs(v, h) PROVE HomeIs(v, h)'
    BY <1>2, <2>1, <2>2, <2>3, <2>4 DEF HomeIs
  <2> QED
    BY <2>1, <2>4 DEF OneHome, StaysOp
<1>7. ASSUME NEW b \in Backends, ResetBackend(b)
      PROVE  OneHome' /\ StaysOp'
  <2>1. cfgDisk' = RemoveBackend(cfgDisk, b) /\ UNCHANGED <<cfgMem, op>>
    BY <1>7 DEF ResetBackend
  <2>2. \A v \in cfgDisk'.ws : v \in cfgDisk.ws /\ BackendForWorkspace(cfgDisk', v) = BackendForWorkspace(cfgDisk, v)
    BY <1>1, <2>1, RemoveKeepsBackends
  <2>3. ASSUME NEW v \in Workspaces, NEW h, HomeIs(v, h) PROVE HomeIs(v, h)'
    BY <1>2, <2>1, <2>2, <2>3 DEF HomeIs
  <2> QED
    BY <2>1, <2>3 DEF OneHome, StaysOp
<1> QED
  BY <1>4, <1>5, <1>6, <1>7 DEF AdminCall, Stays

\* The transactions of a call, and a boot, write the home of each workspace.
LEMMA OpStepHomes ==
  ASSUME Sound, Identity, OneHome, StaysOp, OpStep
  PROVE  OneHome' /\ StaysOp'
<1>1. /\ op \in Op /\ cfgMem \in Config /\ ConfigOK(cfgMem) /\ row \in [Workspaces -> Row]
      /\ op.kind \in {"add", "addCommit"} => op.ws \in Workspaces /\ op.target \in Backends
  BY DEF Sound, AdminOK, AdminTypeOK, OpOK, StoreOK, StoreTypeOK
<1>2. UNCHANGED <<cfgDisk, todo, win>>
  BY DEF OpStep, AddUpsert, AddCommit, RemoveStored, RebindStored, RebindUpsert, RebindMissing,
     FinishOp, flushVars
<1>3. ASSUME op.kind \in {"add", "addCommit"}
      PROVE  \A v \in AddToConfig(cfgMem, op.ws, op.target).ws :
               /\ v = op.ws \/ v \in cfgMem.ws
               /\ v = op.ws => BackendForWorkspace(AddToConfig(cfgMem, op.ws, op.target), v) = op.target
               /\ v \in cfgMem.ws => BackendForWorkspace(AddToConfig(cfgMem, op.ws, op.target), v)
                                       = BackendForWorkspace(cfgMem, v)
  BY <1>1, <1>3, AddKeepsBackends DEF StaysOp
<1>4. CASE AddUpsert
  <2> DEFINE next == AddToConfig(cfgMem, op.ws, op.target)
  <2>1. /\ op.kind = "add" /\ UpsertWorkspaces(next, {op.ws}) /\ UNCHANGED cfgMem
        /\ op' = [op EXCEPT !.kind = "addCommit"]
    BY <1>4 DEF AddUpsert
  <2>2. op'.kind = "addCommit" /\ op'.ws = op.ws /\ op'.target = op.target
    BY <1>1, <2>1 DEF Op
  <2>3. op.ws \in next.ws
    BY DEF AddToConfig
  <2>4. BackendForWorkspace(next, op.ws) = op.target
    BY <1>3, <2>1, <2>3
  <2> HIDE DEF next
  <2>5. ASSUME NEW v \in Workspaces, NEW h, HomeIs(v, h) PROVE HomeIs(v, h)'
    <3>1. v \in {op.ws} => BackendForWorkspace(next, v) = h
      BY <2>1, <2>4, <2>5 DEF HomeIs
    <3>2. /\ row'[v].present => row'[v].backend = h
          /\ \A e \in Kept' : e.ws = v => e.dev = h
      BY <1>1, <1>2, <2>1, <2>5, <3>1, UpsertHomes
    <3> QED
      BY <1>2, <2>1, <2>2, <2>5, <3>2 DEF HomeIs
  <2> QED
    BY <2>1, <2>2, <2>5 DEF OneHome, StaysOp
<1>5. CASE AddCommit
  <2>1. /\ op.kind = "addCommit" /\ cfgMem' = AddToConfig(cfgMem, op.ws, op.target) /\ op'.kind = "none"
        /\ UNCHANGED <<row, queue>>
    BY <1>5 DEF AddCommit, EndOp, NoOp, storeVars
  <2>2. ASSUME NEW v \in Workspaces, NEW h, HomeIs(v, h) PROVE HomeIs(v, h)'
    BY <1>2, <1>3, <2>1, <2>2 DEF HomeIs, Kept
  <2> QED
    BY <2>1, <2>2 DEF OneHome, StaysOp
<1>6. CASE RemoveStored \/ FinishOp
  <2>1. /\ op'.kind \in {"none", "remove"} /\ UNCHANGED cfgMem /\ queue' \subseteq queue
        /\ \A w \in Workspaces : row'[w].present => row'[w] = row[w]
    BY <1>1, <1>6 DEF RemoveStored, FinishOp, EndOp, NoOp, StaysOp, DeleteWorkspace, DropQueue, NoRow,
       Op, storeVars
  <2>2. ASSUME NEW v \in Workspaces, NEW h, HomeIs(v, h) PROVE HomeIs(v, h)'
    BY <1>2, <2>1, <2>2 DEF HomeIs, Kept
  <2> QED
    BY <2>1, <2>2 DEF OneHome, StaysOp
<1> QED
  BY <1>4, <1>5, <1>6 DEF OpStep, StaysOp, RebindStored, RebindUpsert, RebindMissing

\* Every step keeps workspaces at home, when no Project moves.
LEMMA HomesStep ==
  ASSUME Sound, Identity, OneHome, StaysOp, Next, Stays
  PROVE  OneHome' /\ StaysOp'
<1>1. row \in [Workspaces -> Row] /\ op \in Op
  BY DEF Sound, StoreOK, StoreTypeOK, AdminOK, AdminTypeOK
<1>2. CASE FlushStep \/ FlushStoreFails
  <2>1. UNCHANGED <<row, queue, cfgDisk, cfgMem, op>> /\ todo' \subseteq Kept /\ win' \subseteq Kept
    BY <1>2, FlushFrame
  <2> QED
    BY <2>1, HomesFrame DEF Kept
<1>3. CASE Crash
  <2>1. /\ cfgMem' = EmptyConfig /\ op' = NoOp /\ UNCHANGED <<cfgDisk, row>> /\ Kept' \subseteq Kept
    BY <1>3 DEF Crash, storeVars, Kept
  <2>2. \A w \in Workspaces : \A h : HomeIs(w, h) => HomeIs(w, h)'
    BY <2>1 DEF HomeIs, EmptyConfig, NoOp
  <2> QED
    BY <2>1, <2>2 DEF OneHome, StaysOp, NoOp
<1>4. CASE Handler
  <2>1. UNCHANGED <<cfgDisk, cfgMem, op, todo, win>>
    BY <1>4 DEF Handler, Observe, PauseResume, adminVars, flushVars
  <2>2. ASSUME NEW w \in Workspaces, NEW kind \in {"obs", "mft"}, NEW n \in 1..MaxBurst,
               Observe(w, kind, n)
        PROVE  OneHome' /\ StaysOp'
    <3>1. row[w].present /\ \A e \in Kept' : e \in Kept \/ (e.ws = w /\ e.dev = row[w].backend)
      BY <2>1, <2>2 DEF Observe, EnqueueEvents, Kept
    <3>2. \A v \in Workspaces : row'[v].present = row[v].present /\ row'[v].backend = row[v].backend
      BY <1>1, <2>2 DEF Observe, EnqueueEvents, Row
    <3>3. ASSUME NEW v \in Workspaces, NEW h, HomeIs(v, h) PROVE HomeIs(v, h)'
      BY <2>1, <3>1, <3>2, <3>3 DEF HomeIs
    <3> QED
      BY <2>1, <3>3 DEF OneHome, StaysOp
  <2>3. ASSUME NEW S, NEW v, PauseResume(S, v)
        PROVE  OneHome' /\ StaysOp'
    <3>1. \A w \in Workspaces : row'[w].present = row[w].present /\ row'[w].backend = row[w].backend
      BY <1>1, <2>3 DEF PauseResume, SetPaused, Row
    <3>2. Kept' = Kept
      BY <2>1, <2>3 DEF PauseResume, SetPaused, Kept
    <3> QED
      BY <2>1, <3>1, <3>2, HomesFrame
  <2> QED
    BY <1>4, <2>2, <2>3 DEF Handler
<1>5. CASE Boot \/ BootCut
  <2>1. PICK S \in SUBSET cfgDisk.ws : UpsertWorkspaces(cfgDisk, S)
    BY <1>5 DEF Boot, BootCut
  <2>2. UNCHANGED <<op, cfgDisk, todo, win>> /\ cfgMem' \in {cfgMem, cfgDisk} /\ op.kind = "none"
    BY <1>5 DEF Boot, BootCut, flushVars
  <2>3. S \subseteq Workspaces
    BY DEF Sound, AdminOK, AdminTypeOK, Config
  <2>4. ASSUME NEW v \in Workspaces, NEW h, HomeIs(v, h) PROVE HomeIs(v, h)'
    <3>1. v \in S => BackendForWorkspace(cfgDisk, v) = h
      BY <2>4 DEF HomeIs
    <3>2. /\ row'[v].present => row'[v].backend = h
          /\ \A e \in Kept' : e.ws = v => e.dev = h
      BY <2>1, <2>2, <2>3, <2>4, <3>1, UpsertHomes
    <3> QED
      BY <2>2, <2>4, <3>2 DEF HomeIs
  <2> QED
    BY <2>2, <2>4 DEF OneHome, StaysOp
<1>6. CASE StoreFails
  <2>1. /\ cfgDisk' \in {cfgDisk, cfgMem} /\ UNCHANGED <<cfgMem, row>> /\ Kept' = Kept
        /\ op'.kind \in {"none", "remove"}
    BY <1>1, <1>6 DEF StoreFails, EndOp, NoOp, storeVars, flushVars, Kept, Op
  <2>2. \A w \in Workspaces : \A h : HomeIs(w, h) => HomeIs(w, h)'
    BY <2>1 DEF HomeIs
  <2> QED
    BY <2>1, <2>2 DEF OneHome, StaysOp
<1>7. CASE DeliverLate \/ \E p \in Projects, b \in Backends : Revoke(p, b)
  <2>1. UNCHANGED <<row, cfgDisk, cfgMem, op>> /\ Kept' = Kept
    BY <1>7 DEF DeliverLate, Revoke, storeVars, adminVars, flushVars, Kept
  <2> QED
    BY <2>1, HomesFrame
<1> QED
  BY <1>2, <1>3, <1>4, <1>5, <1>6, <1>7, OpStepHomes, AdminCallHomes DEF Next, Environment

\* Every step keeps the registration of a workspace ahead of its other events.
LEMMA RegisteredFirstStep ==
  ASSUME Sound, Identity, Moves, Order, StaysOp, RegisteredFirst, Next, Stays
  PROVE  RegisteredFirst'
<1>1. row \in [Workspaces -> Row] /\ queue \subseteq Event /\ op \in Op
  BY DEF Sound, StoreOK, StoreTypeOK, AdminOK, AdminTypeOK
<1>2. ASSUME NEW c, NEW S, S \subseteq Workspaces, UpsertWorkspaces(c, S), NEW new, Appended(new)
      PROVE  RegisteredFirst'
  <2>1. /\ \A w \in Workspaces : row'[w] = IF w \in S THEN UpsertedRow(c, w)
                ELSE IF \E v \in S : RootOf[v] = RootOf[w] THEN NoRow ELSE row[w]
        /\ queue' = queue \cup {RegistrationEvent(c, w) : w \in {v \in S : NeedsRegistration(v)}}
    BY <1>2 DEF UpsertWorkspaces
  <2>2. ASSUME NEW w \in Workspaces PROVE row'[w].reg <=> row'[w].present
    <3>1. /\ UpsertedRow(c, w).reg = TRUE /\ UpsertedRow(c, w).present = TRUE
          /\ NoRow.reg = FALSE /\ NoRow.present = FALSE
      BY DEF UpsertedRow, NoRow
    <3>2. row'[w] = UpsertedRow(c, w) \/ row'[w] = NoRow \/ row'[w] = row[w]
      BY <2>1
    <3> QED
      BY <3>1, <3>2 DEF RegisteredFirst
  <2>3. ASSUME NEW w \in Workspaces, row'[w].present PROVE \E r \in queue' : r.ws = w /\ r.kind = "reg"
    <3>1. CASE w \in S /\ NeedsRegistration(w)
      <4>1. RegistrationEvent(c, w) \in queue'
        BY <2>1, <3>1
      <4> QED
        BY <4>1 DEF RegistrationEvent
    <3>2. CASE ~(w \in S /\ NeedsRegistration(w))
      <4>1. row[w].present
        BY <2>1, <2>3, <3>2 DEF NeedsRegistration, NoRow, RegisteredFirst
      <4> QED
        BY <2>1, <4>1 DEF RegisteredFirst
    <3> QED
      BY <3>1, <3>2
  <2>4. \A e \in queue' : e \in queue \/ e.kind = "reg"
    BY <2>1 DEF RegistrationEvent
  <2> QED
    BY <2>1, <2>2, <2>3, <2>4 DEF RegisteredFirst
<1>3. CASE Boot \/ BootCut \/ AddUpsert
  <2>1. PICK new : Appended(new)
    BY <1>3, StepAppends
  <2>2. \E c : \E S : S \subseteq Workspaces /\ UpsertWorkspaces(c, S)
    BY <1>3 DEF Boot, BootCut, AddUpsert, Sound, AdminOK, AdminTypeOK, Config, OpOK
  <2> QED
    BY <1>2, <2>1, <2>2
<1>4. ASSUME NEW w \in Workspaces, NEW kind \in {"obs", "mft"}, NEW n \in 1..MaxBurst,
             Observe(w, kind, n)
      PROVE  RegisteredFirst'
  <2>1. PICK new : Appended(new)
    BY <1>4, StepAppends
  <2>2. /\ row[w].present /\ queue' = queue \cup new /\ queue \subseteq Held
        /\ \A e \in Held, f \in new : e.ws = f.ws => e.seq < f.seq
    BY <1>4, <2>1 DEF Observe, EnqueueEvents, Appended, Held
  <2>3. \A e \in queue' : e \in queue \/ e.ws = w
    BY <1>4 DEF Observe, EnqueueEvents
  <2>4. \A v \in Workspaces : row'[v].present = row[v].present /\ row'[v].reg = row[v].reg
    BY <1>1, <1>4 DEF Observe, EnqueueEvents, Row
  <2>5. ASSUME NEW e \in queue', e \notin queue
        PROVE  \E r \in queue' : r.ws = e.ws /\ r.kind = "reg" /\ r.seq < e.seq
    BY <2>2, <2>3, <2>5 DEF RegisteredFirst
  <2> QED
    BY <2>2, <2>4, <2>5 DEF RegisteredFirst
<1>5. CASE RemoveStored
  <2>1. PICK w \in op.rest : DeleteWorkspace(w)
    BY <1>5 DEF RemoveStored
  <2>2. /\ queue' = {e \in queue : e.ws # w}
        /\ \A v \in Workspaces : row'[v] = IF v = w THEN NoRow ELSE row[v]
    BY <1>1, <2>1 DEF DeleteWorkspace, DropQueue, EventsOf
  <2> QED
    BY <2>2 DEF RegisteredFirst, NoRow
<1>6. ASSUME UNCHANGED queue,
             \A v \in Workspaces : row'[v].present = row[v].present /\ row'[v].reg = row[v].reg
      PROVE  RegisteredFirst'
  BY <1>6 DEF RegisteredFirst
<1>7. CASE FlushStep \/ FlushStoreFails
  BY <1>6, <1>7, FlushFrame
<1>8. ASSUME NEW S, NEW v, PauseResume(S, v) PROVE RegisteredFirst'
  <2>1. UNCHANGED queue /\ \A w \in Workspaces : row'[w].present = row[w].present /\ row'[w].reg = row[w].reg
    BY <1>1, <1>8 DEF PauseResume, SetPaused, Row
  <2> QED
    BY <1>6, <2>1
<1>9. CASE AdminCall \/ AddCommit \/ FinishOp \/ StoreFails \/ Crash \/ DeliverLate
           \/ \E p \in Projects, b \in Backends : Revoke(p, b)
  <2>1. UNCHANGED <<row, queue>>
    BY <1>9 DEF AdminCall, AddWorkspace, Register, RemoveProjectWorkspaces, RebindProject,
       ResetBackend, AddCommit, FinishOp, StoreFails, Crash, DeliverLate, Revoke, storeVars
  <2> QED
    BY <1>6, <2>1
<1> QED
  BY <1>3, <1>4, <1>5, <1>7, <1>8, <1>9
     DEF Next, OpStep, StaysOp, RebindStored, RebindUpsert, RebindMissing, Handler, Environment

\* Every state reachable without a move has homes.
LEMMA HomesInvariant ==
  Spec /\ [][Stays]_vars => [](Sound /\ Identity /\ Moves /\ Order /\ Delivered /\ Arrival /\ Homes)
<1>1. Init => Homes
  <2> SUFFICES ASSUME Init PROVE Homes
    OBVIOUS
  <2>1. InitialConfig \in Config /\ \A w \in InitialConfig.ws : BackendForWorkspace(InitialConfig, w) \in Backends
    BY InitialConfigAssumption DEF WellFormed, Config
  <2>2. \A w \in Workspaces : HomeIs(w, IF w \in InitialConfig.ws THEN BackendForWorkspace(InitialConfig, w)
                                        ELSE NoBackend)
    BY DEF Init, StoreInit, EmptyConfig, NoOp, NoRow, HomeIs, Kept
  <2> QED
    BY <2>1, <2>2 DEF Homes, OneHome, StaysOp, RegisteredFirst, Init, StoreInit, NoOp, NoRow
<1>2. Sound /\ Identity /\ Moves /\ Order /\ Homes /\ [Next]_vars /\ [Stays]_vars => Homes'
  <2> SUFFICES ASSUME Sound, Identity, Moves, Order, Homes, [Next]_vars, [Stays]_vars PROVE Homes'
    OBVIOUS
  <2>1. CASE UNCHANGED vars
    BY <2>1 DEF vars, storeVars, adminVars, flushVars, Homes, OneHome, HomeIs, Kept, StaysOp,
       RegisteredFirst
  <2>2. CASE ~UNCHANGED vars
    BY <2>2, HomesStep, RegisteredFirstStep DEF Homes
  <2> QED
    BY <2>1, <2>2
<1> QED
  BY <1>1, <1>2, ArrivalInvariant, PTL DEF Spec

-----------------------------------------------------------------------------
\* Refusals, when Projects stay on their backends.

\* Events are numbered from one.
Positive == \A e \in Held : e.seq > 0

\* What the pass has of its workspace is addressed to the backend it talks to.
ViaHome == pc \notin {"idle", "loaded", "pick"} => \A e \in InPass : e.ws = cur => e.dev = via

\* A backend that accepted the registration of a workspace knows the workspace.
Registers == \A b \in Backends : \A f \in log[b] : f.kind = "reg" => Registered(b, f.ws)

\* The backend of e has a reason to refuse it.
Excused(e) == Malformed(e) \/ <<ProjectOf[e.ws], e.dev>> \in denied

OnlyExcused ==
  /\ \A e \in quarantined : Excused(e)
  /\ pc = "singleQuarantine" /\ FirstOf(win) \in queue => Excused(FirstOf(win))

Refusals == Positive /\ ViaHome /\ Registers /\ OnlyExcused

\* No step invents an event but by appending it.
LEMMA StepHolds ==
  ASSUME Sound, Identity, Moves, Next
  PROVE  Held' \subseteq Held \/ \E new : Appended(new) /\ Held' \subseteq Held \cup new
<1>1. CASE FlushStep \/ FlushStoreFails
  <2>1. queue' = queue /\ todo' \subseteq Kept /\ win' \subseteq Kept
    BY <1>1, FlushFrame
  <2>2. Logged' \subseteq Held /\ InFlight' \subseteq Held
    BY <1>1, NetworkHolds
  <2> QED
    BY <2>1, <2>2 DEF Held, Kept
<1>2. CASE DeliverLate
  <2>1. Logged' \subseteq Held /\ InFlight' \subseteq Held
    BY <1>2, NetworkHolds
  <2>2. UNCHANGED <<queue, todo, win>>
    BY <1>2 DEF DeliverLate, storeVars, flushVars
  <2> QED
    BY <2>1, <2>2 DEF Held
<1>3. CASE Boot \/ BootCut \/ AddUpsert \/ RebindUpsert
           \/ \E w \in Workspaces, kind \in {"obs", "mft"}, n \in 1..MaxBurst : Observe(w, kind, n)
  <2>1. PICK new : Appended(new)
    BY <1>3, StepAppends
  <2>2. Held' \subseteq Held \cup new
    BY <2>1 DEF Appended, Held, Logged, InFlight
  <2> QED
    BY <2>1, <2>2
<1>4. CASE RemoveStored \/ RebindStored
  <2>1. PICK w \in Workspaces : Dropped(w)
    BY <1>4, StepDrops
  <2> QED
    BY <2>1 DEF Dropped, DropQueue, Held, Logged, InFlight
<1>5. CASE AdminCall \/ AddCommit \/ RebindMissing \/ FinishOp \/ StoreFails
           \/ (\E S, v : PauseResume(S, v))
           \/ \E p \in Projects, b \in Backends : Revoke(p, b)
  <2>1. UNCHANGED OrderVars /\ UNCHANGED <<log, high, stale, late>>
    BY <1>5, QuietStep
  <2> QED
    BY <2>1 DEF OrderVars, Held, Logged, InFlight
<1>6. CASE Crash
  BY <1>6 DEF Crash, storeVars, backendVars, Held, Logged, InFlight
<1> QED
  BY <1>1, <1>2, <1>3, <1>4, <1>5, <1>6 DEF Next, OpStep, Handler, Environment

LEMMA PositiveStep == Sound /\ Identity /\ Moves /\ Positive /\ Next => Positive'
BY StepHolds DEF Positive, Appended

\* A registration that is accepted makes the workspace known.
LEMMA RegistersStep ==
  ASSUME Sound, Identity, Moves, Order, Arrival, Positive, Registers, Next
  PROVE  Registers'
<1>1. CASE SendWindow \/ RetryAccepted \/ SendFails \/ RetryFails \/ DeliverLate
  <2>1. PICK b \in Backends : \E batch : Sent(b, batch)
    BY <1>1, StepSends DEF Moves, Arrival
  <2>2. PICK batch : Sent(b, batch)
    BY <2>1
  <2>3. CASE UNCHANGED backendVars
    BY <2>3 DEF Registers, Registered, backendVars
  <2>4. CASE PublishEvents(b, batch)
    <3>1. BackendTypeOK /\ BackendTypeOK' /\ batch \subseteq Event /\ Limited(batch)
      BY <2>2, <2>4, PublishEventsType DEF Sound, Sent
    <3>2. /\ log'[b] = log[b] \cup Fresh(b, batch)
          /\ \A c \in Backends \ {b} : log'[c] = log[c] /\ high'[c] = high[c]
          /\ \A w \in Workspaces : high'[b][w] = NewHigh(b, w, batch)
      BY <2>4, <3>1, PublishedLog
    <3>3. \A w \in Workspaces :
            /\ high[b][w] \in Nat /\ NewHigh(b, w, batch) \in Nat /\ high[b][w] <= NewHigh(b, w, batch)
            /\ \A e \in Fresh(b, batch) : e.ws = w /\ e.kind # "mft" => e.seq <= NewHigh(b, w, batch)
      BY <3>1, NewHighType DEF BackendTypeOK
    <3>4. ASSUME NEW f \in log'[b], f.kind = "reg" PROVE high'[b][f.ws] > 0
      <4>1. f \in Event /\ f.ws \in Workspaces /\ f.seq \in Nat
        BY <3>1 DEF BackendTypeOK, Event
      <4>2. CASE f \in log[b]
        BY <3>2, <3>3, <3>4, <4>1, <4>2 DEF Registers, Registered
      <4>3. CASE f \in Fresh(b, batch)
        <5>1. f.seq > 0
          <6>1. f \in Logged' /\ Logged' \subseteq Held
            <7>1. Logged' \subseteq Held
              BY <1>1, NetworkHolds DEF FlushStep
            <7> QED
              BY <4>1, <7>1 DEF Logged
          <6> QED
            BY <6>1 DEF Positive
        <5>2. f.seq <= NewHigh(b, f.ws, batch)
          BY <3>3, <3>4, <4>1, <4>3
        <5> QED
          BY <3>2, <3>3, <4>1, <5>1, <5>2
      <4> QED
        BY <3>2, <4>2, <4>3
    <3> QED
      BY <3>2, <3>4 DEF Registers, Registered
  <2> QED
    BY <2>2, <2>3, <2>4 DEF Sent
<1>2. ASSUME UNCHANGED <<log, high>> PROVE Registers'
  BY <1>2 DEF Registers, Registered
<1>3. CASE FlushStep \/ FlushStoreFails \/ Crash
  BY <1>1, <1>2, <1>3, SilentStep DEF ArrivalVars
<1>4. CASE Boot \/ BootCut \/ AddUpsert \/ RebindUpsert \/ RemoveStored \/ RebindStored
           \/ \E w \in Workspaces, kind \in {"obs", "mft"}, n \in 1..MaxBurst : Observe(w, kind, n)
  BY <1>2, <1>4, StepAppends, StepDrops DEF Appended, Dropped
<1>5. CASE AdminCall \/ AddCommit \/ RebindMissing \/ FinishOp \/ StoreFails
           \/ (\E S, v : PauseResume(S, v))
           \/ \E p \in Projects, b \in Backends : Revoke(p, b)
  BY <1>2, <1>5, QuietStep
<1> QED
  BY <1>1, <1>3, <1>4, <1>5 DEF Next, OpStep, Handler, Environment

\* The pass talks to the home of the workspace it drains.
LEMMA ViaHomeStep ==
  ASSUME Sound, Moves, OneHome, ViaHome, Next
  PROVE  ViaHome'
<1>1. CASE PickSender
  <2>1. /\ cur' \in cfgMem.ws /\ via' = BackendForWorkspace(cfgMem, cur')
        /\ UNCHANGED <<todo, win>>
    BY <1>1 DEF PickSender, Sender
  <2>2. cur' \in Workspaces
    BY <2>1 DEF Sound, AdminOK, AdminTypeOK, Config
  <2>3. PICK h : HomeIs(cur', h)
    BY <2>2 DEF OneHome
  <2> QED
    BY <2>1, <2>3 DEF HomeIs, ViaHome, InPass, Kept
<1>2. CASE FlushStep /\ ~PickSender
  <2>1. pc' \in {"idle", "loaded", "pick"}
          \/ (UNCHANGED <<cur, via>> /\ pc \notin {"idle", "loaded", "pick"} /\ InPass' \subseteq InPass)
    <3>1. CASE LoadPending \/ LoadWorkspaces \/ PickSkip \/ PickUnconfigured \/ FinishFlush \/ Drained
               \/ SendFails \/ AckMissing \/ RetryFails \/ RetryAckMissing
      BY <3>1 DEF LoadPending, LoadWorkspaces, PickSkip, PickUnconfigured, FinishFlush, Drained,
         SendFails, AckMissing, RetryFails, RetryAckMissing, GiveUpOnBackend
    <3>2. CASE SendWindow \/ SendRejected
      BY <3>2, WindowInTodo DEF SendWindow, SendRejected, InPass
    <3>3. CASE AckNext \/ NextWindow \/ RetryAccepted \/ RetryRefused \/ RetryAck \/ RetryQuarantine
      BY <3>3 DEF AckNext, NextWindow, RetryAccepted, RetryRefused, RetryAck, RetryQuarantine, InPass
    <3> QED
      BY <1>2, <3>1, <3>2, <3>3 DEF FlushStep
  <2> QED
    BY <2>1 DEF ViaHome
<1>3. CASE FlushStoreFails \/ Crash
  BY <1>3 DEF FlushStoreFails, Crash, GiveUpOnBackend, ViaHome
<1>4. CASE Boot \/ BootCut \/ OpStep \/ AdminCall \/ Handler \/ StoreFails \/ DeliverLate
           \/ \E p \in Projects, b \in Backends : Revoke(p, b)
  <2>1. UNCHANGED flushVars
    BY <1>4 DEF Boot, BootCut, OpStep, AdminCall, Handler, StoreFails, DeliverLate, Revoke,
       AddUpsert, AddCommit, RemoveStored, RebindStored, RebindUpsert, RebindMissing, FinishOp,
       AddWorkspace, Register, RemoveProjectWorkspaces, RebindProject, ResetBackend, Observe, PauseResume
  <2> QED
    BY <2>1 DEF flushVars, ViaHome, InPass
<1> QED
  BY <1>1, <1>2, <1>3, <1>4 DEF Next, Environment

\* A single retry is refused for what the event contains or because the device
\* lost its place: the registration before it is not the reason, it was accepted
\* or refused for a reason that holds for the event too.
LEMMA RefusedIsExcused ==
  ASSUME Sound, Identity, Order, Delivered, Homes, Refusals,
         pc = "single", win # {}, ~Accepts(via, {FirstOf(win)}), FirstOf(win) \in queue
  PROVE  Excused(FirstOf(win))
<1> DEFINE e == FirstOf(win)
<1>1. /\ e \in win /\ \A f \in Pending : f.ws = e.ws => f = e \/ e.seq < f.seq
  BY FirstIsOldest
<1>2. e \in queue /\ Refused(via, e, {e})
  BY DEF Accepts
<1> HIDE DEF e
<1> SUFFICES Excused(e)
  BY DEF e
<1>3. e.dev = via /\ queue \subseteq Event /\ via \in Backends
  BY <1>1 DEF Order, PassOrder, WindowFirst, Refusals, ViaHome, InPass, Sound, StoreOK, StoreTypeOK,
     PassOK, FlushOK, PCs
<1>4. CASE ~Malformed(e) /\ <<ProjectOf[e.ws], via>> \notin denied
  <2>1. e.kind # "reg" /\ ~Registered(via, e.ws)
    BY <1>2, <1>3, <1>4 DEF Refused, Unregistered
  <2>2. PICK r \in queue : r.ws = e.ws /\ r.kind = "reg" /\ r.seq < e.seq
    BY <1>2, <2>1 DEF Homes, RegisteredFirst
  <2>3. e.ws \in Workspaces /\ e.seq \in Nat /\ r.seq \in Nat
    BY <1>2, <1>3 DEF Event
  <2>4. r.dev = via
    <3>1. PICK h : HomeIs(e.ws, h)
      BY <2>3 DEF Homes, OneHome
    <3> QED
      BY <1>2, <1>3, <2>2, <3>1 DEF HomeIs, Kept
  <2>5. r \notin Pending
    BY <1>1, <2>2, <2>3, <2>1
  <2>6. r \notin acked
    <3> SUFFICES ASSUME r \in acked PROVE FALSE
      OBVIOUS
    <3>1. Known(via, r)
      BY <2>4 DEF Delivered, AckedWasAccepted
    <3>2. PICK f \in log[via] : f.ws = r.ws /\ f.kind = "reg"
      BY <2>2, <3>1 DEF Known, SameId
    <3> QED
      BY <1>3, <2>1, <2>2, <3>2 DEF Refusals, Registers
  <2>7. Excused(r)
    BY <2>2, <2>5, <2>6 DEF Pending, Refusals, OnlyExcused
  <2> QED
    BY <1>4, <2>2, <2>4, <2>7 DEF Excused, Malformed
<1>5. CASE ~(~Malformed(e) /\ <<ProjectOf[e.ws], via>> \notin denied)
  BY <1>3, <1>5 DEF Excused
<1> QED
  BY <1>4, <1>5

\* Every step quarantines only what is excused.
LEMMA OnlyExcusedStep ==
  ASSUME Sound, Identity, Moves, Order, Delivered, Arrival, Homes, Refusals, Next
  PROVE  OnlyExcused'
<1>1. denied \subseteq denied'
  BY DEF Next, FlushStep, OpStep, AdminCall, Handler, Environment, Boot, BootCut, LoadPending,
     LoadWorkspaces, PickSkip, PickUnconfigured, PickSender, FinishFlush, SendWindow, SendRejected,
     SendFails, Drained, AckNext, AckMissing, NextWindow, RetryAccepted, RetryRefused, RetryFails,
     RetryAck, RetryAckMissing, RetryQuarantine, TransientFailure, AddUpsert, AddCommit, RemoveStored,
     RebindStored, RebindUpsert, RebindMissing, FinishOp, AddWorkspace, Register,
     RemoveProjectWorkspaces, RebindProject, ResetBackend, Observe, PauseResume, Crash, StoreFails,
     FlushStoreFails, DeliverLate, Revoke, Deny, PublishEvents, backendVars
<1>2. \A e : Excused(e) => Excused(e)'
  BY <1>1 DEF Excused
<1>3. OnlyExcused
  BY DEF Refusals
<1>4. pc = "singleQuarantine" => FirstOf(win) \in win
  BY FirstOfInSet DEF Sound, PassOK, FlushTypeOK, FlushOK
<1>5. CASE RetryQuarantine
  <2>1. win # {} /\ Quarantine(FirstOf(win)) /\ pc = "singleQuarantine" /\ pc' = "single"
    BY <1>5 DEF RetryQuarantine, Sound, PassOK, FlushOK
  <2>2. \A e \in quarantined' : e \in quarantined \/ (e = FirstOf(win) /\ e \in queue)
    BY <1>4, <2>1, SettlesFirst DEF Pending
  <2>3. \A e \in quarantined' : Excused(e)
    BY <1>3, <2>1, <2>2 DEF OnlyExcused
  <2> QED
    BY <1>2, <2>1, <2>3 DEF OnlyExcused
<1>6. CASE RetryRefused
  <2>1. FirstOf(win) \in queue => Excused(FirstOf(win))
    BY <1>6, RefusedIsExcused DEF RetryRefused
  <2>2. UNCHANGED <<win, queue, quarantined, denied>>
    BY <1>6 DEF RetryRefused, storeVars, backendVars
  <2> QED
    BY <1>3, <2>1, <2>2 DEF OnlyExcused, Excused
<1>7. ASSUME quarantined' \subseteq quarantined,
             pc' = "singleQuarantine" => pc = "singleQuarantine" /\ win' = win
                                           /\ (FirstOf(win) \in queue' => FirstOf(win) \in queue)
      PROVE  OnlyExcused'
  BY <1>2, <1>3, <1>7 DEF OnlyExcused
<1>8. CASE FlushStep /\ ~RetryQuarantine /\ ~RetryRefused
  <2>1. quarantined' = quarantined /\ pc' # "singleQuarantine"
    BY <1>8 DEF FlushStep, LoadPending, LoadWorkspaces, PickSkip, PickUnconfigured, PickSender,
       FinishFlush, SendWindow, SendRejected, SendFails, Drained, AckNext, AckMissing, NextWindow,
       RetryAccepted, RetryFails, RetryAck, RetryAckMissing, GiveUpOnBackend, Ack, storeVars
  <2> QED
    BY <1>7, <2>1
<1>9. CASE FlushStoreFails \/ Crash
  BY <1>7, <1>9 DEF FlushStoreFails, Crash, GiveUpOnBackend, storeVars
<1>10. CASE Boot \/ BootCut \/ AddUpsert \/ RebindUpsert
            \/ \E w \in Workspaces, kind \in {"obs", "mft"}, n \in 1..MaxBurst : Observe(w, kind, n)
  <2>1. PICK new : Appended(new)
    BY <1>10, StepAppends
  <2>2. pc' = pc
    BY <1>10 DEF Boot, BootCut, AddUpsert, RebindUpsert, Observe, flushVars
  <2>3. \A e \in win : e \in Held /\ e.seq \in Nat
    BY DEF Held, Sound, PassOK, FlushTypeOK, Event
  <2>4. \A e \in win : e \in queue' => e \in queue
    BY <2>1, <2>3 DEF Appended
  <2> QED
    BY <1>4, <1>7, <2>1, <2>2, <2>4 DEF Appended
<1>11. CASE RemoveStored \/ RebindStored
  <2>1. PICK w \in Workspaces : Dropped(w)
    BY <1>11, StepDrops
  <2>2. pc' = pc
    BY <1>11 DEF RemoveStored, RebindStored, flushVars
  <2> QED
    BY <1>7, <2>1, <2>2 DEF Dropped, DropQueue
<1>12. CASE AdminCall \/ AddCommit \/ RebindMissing \/ FinishOp \/ StoreFails
            \/ (\E S, v : PauseResume(S, v))
            \/ \E p \in Projects, b \in Backends : Revoke(p, b)
  <2>1. UNCHANGED OrderVars
    BY <1>12, QuietStep
  <2>2. pc' = pc
    BY <1>12 DEF AdminCall, AddWorkspace, Register, RemoveProjectWorkspaces, RebindProject,
       ResetBackend, AddCommit, RebindMissing, FinishOp, StoreFails, PauseResume, Revoke, flushVars
  <2> QED
    BY <1>7, <2>1, <2>2 DEF OrderVars
<1>13. CASE DeliverLate
  BY <1>7, <1>13 DEF DeliverLate, storeVars, flushVars
<1> QED
  BY <1>5, <1>6, <1>8, <1>9, <1>10, <1>11, <1>12, <1>13 DEF Next, OpStep, Handler, Environment

\* Every state reachable without a move has them.
LEMMA RefusalsInvariant == Spec /\ [][Stays]_vars => [](Sound /\ Homes /\ Refusals)
<1>1. Init => Refusals
  BY DEF Init, StoreInit, BackendInit, Refusals, Positive, ViaHome, Registers, OnlyExcused, Held,
     Logged, InFlight
<1>2. Sound /\ Identity /\ Moves /\ Order /\ Delivered /\ Arrival /\ Homes /\ Refusals /\ [Next]_vars
        => Refusals'
  <2> SUFFICES ASSUME Sound, Identity, Moves, Order, Delivered, Arrival, Homes, Refusals, [Next]_vars
               PROVE  Refusals'
    OBVIOUS
  <2>1. CASE UNCHANGED vars
    BY <2>1 DEF vars, storeVars, backendVars, flushVars, Refusals, Positive, Held, Logged, InFlight,
       ViaHome, InPass, Registers, Registered, OnlyExcused, Excused
  <2>2. CASE Next
    BY <2>2, PositiveStep, RegistersStep, ViaHomeStep, OnlyExcusedStep DEF Refusals, Homes
  <2> QED
    BY <2>1, <2>2
<1> QED
  BY <1>1, <1>2, HomesInvariant, PTL DEF Spec

\* retryIndividually quarantines exactly the refused events: as long as no
\* Project moves, an event is given up only for what it contains or because the
\* device lost its place in the Project, whatever else of its window, and however
\* many requests and replies, were lost or arrived late.
THEOREM QuarantineIsJustified == Spec /\ [][Stays]_vars => []OnlyRefusedQuarantined
<1>1. Refusals => OnlyRefusedQuarantined
  BY DEF Refusals, OnlyExcused, Excused, OnlyRefusedQuarantined
<1> QED
  BY <1>1, RefusalsInvariant, PTL

=============================================================================
