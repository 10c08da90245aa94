---------------------------- MODULE EventBackend ----------------------------
(***************************************************************************)
(* What one backend does with a published batch: the publishEvents mutation *)
(* and the sequence rules of applyProjection (convex/functions/service.ts). *)
(* A mutation is one transaction, so a batch is applied whole or refused    *)
(* whole.                                                                   *)
(***************************************************************************)
EXTENDS EventStore

CONSTANT RefusedSeqs  \* sequences whose payload request validation refuses

ASSUME RefusedSeqsAssumption == RefusedSeqs \subseteq Nat

VARIABLES
  log,     \* log[b]: activityEvents, the events b has accepted
  high,    \* high[b][w]: lastProjectedSequence; 0 while w is not registered
  stale,   \* stale[b]: accepted events the projection returned early on
  denied   \* <<Project, backend>> pairs this device may no longer publish to

backendVars == <<log, high, stale, denied>>

BackendInit ==
  /\ log = [b \in Backends |-> {}]
  /\ high = [b \in Backends |-> [w \in Workspaces |-> 0]]
  /\ stale = [b \in Backends |-> {}]
  /\ denied = {}

Registered(b, w) == high[b][w] > 0

\* The eventId duplicate check.
Known(b, e) == \E f \in log[b] : SameId(e, f)

\* Mutant: a resent event is applied again.
FreshAll(b, batch) == batch

Fresh(b, batch) == {e \in batch : ~Known(b, e)}

Malformed(e) == e.kind # "reg" /\ e.seq \in RefusedSeqs

\* workspace_not_registered: neither an earlier request nor an earlier event of
\* this batch introduced the workspace.
Unregistered(b, e, batch) ==
  /\ e.kind # "reg"
  /\ ~Registered(b, e.ws)
  /\ ~\E f \in Fresh(b, batch) : f.kind = "reg" /\ f.ws = e.ws /\ f.seq < e.seq

\* One event a permanent (4xx) refusal of the whole batch follows from.
Refused(b, e, batch) ==
  \/ Malformed(e)
  \/ e.dev # b
  \/ <<ProjectOf[e.ws], b>> \in denied
  \/ ~Known(b, e) /\ Unregistered(b, e, batch)

Accepts(b, batch) == \A e \in batch : ~Refused(b, e, batch)

\* The new lastProjectedSequence of w: manifests leave it alone.
NewHigh(b, w, batch) ==
  LET seqs == {high[b][w]} \cup {e.seq : e \in {f \in Fresh(b, batch) : f.ws = w /\ f.kind # "mft"}}
  IN CHOOSE s \in seqs : \A t \in seqs : t <= s

\* publishEvents on a batch it accepts.
PublishEvents(b, batch) ==
  /\ log' = [log EXCEPT ![b] = @ \cup Fresh(b, batch)]
  /\ stale' = [stale EXCEPT ![b] = @ \cup
       {e \in Fresh(b, batch) : e.kind = "obs" /\ e.seq <= high[b][e.ws]}]
  /\ high' = [high EXCEPT ![b] = [w \in Workspaces |-> NewHigh(b, w, batch)]]
  /\ UNCHANGED denied

\* removeProjectMember, beginMemberDataDeletion or beginProjectDeletion: the
\* backend refuses this device's events for the Project from now on.
Deny(p, b) ==
  /\ <<p, b>> \notin denied
  /\ denied' = denied \cup {<<p, b>>}
  /\ UNCHANGED <<log, high, stale>>

-----------------------------------------------------------------------------
BackendTypeOK ==
  /\ log \in [Backends -> SUBSET Event]
  /\ high \in [Backends -> [Workspaces -> Nat]]
  /\ stale \in [Backends -> SUBSET Event]
  /\ denied \subseteq Projects \X Backends

=============================================================================
