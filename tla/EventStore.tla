----------------------------- MODULE EventStore -----------------------------
(***************************************************************************)
(* The durable half of the publisher (internal/store/store.go): the        *)
(* `workspaces` rows, the `event_queue` table and the `cursors` table.     *)
(* Each operator is one SQLite transaction, so one atomic step.            *)
(*                                                                         *)
(* An event is a row of event_queue together with the part of its envelope *)
(* the backend decides on: the workspace, the sequence, the device it was  *)
(* queued under and its kind.  Payloads are left out.                      *)
(***************************************************************************)
EXTENDS ProfileConfig

VARIABLES
  row,          \* row[w]: the workspaces row of w
  queue,        \* the rows of event_queue
  acked,        \* rows with acked_at set
  quarantined,  \* rows with quarantined_at set
  cursor        \* cursor[w]: last_acked_sequence, 0 when there is no row

storeVars == <<row, queue, acked, quarantined, cursor>>

\* "reg" is workspace.registered; "mft" the three manifest events, which the
\* backend neither orders by nor advances lastProjectedSequence with; "obs"
\* every other event (context.acknowledged, which it never ignores as old, too).
Kinds == {"reg", "obs", "mft"}

Event == [ws : Workspaces, seq : Nat, dev : Backends, kind : Kinds]

Row == [present : BOOLEAN, backend : Backends \cup {NoBackend},
        reg : BOOLEAN, paused : BOOLEAN, seq : Nat]

NoRow == [present |-> FALSE, backend |-> NoBackend, reg |-> FALSE,
          paused |-> FALSE, seq |-> 0]

\* Event ids: a registration's id is a hash of Project, device and workspace;
\* every other id is random, and (workspace, sequence) is as good a name.
SameId(e, f) ==
  /\ e.ws = f.ws
  /\ (e.kind = "reg") <=> (f.kind = "reg")
  /\ IF e.kind = "reg" THEN e.dev = f.dev ELSE e.seq = f.seq

Pending == queue \ (acked \cup quarantined)

EventsOf(S, w) == {e \in S : e.ws = w}

StoreInit ==
  /\ row = [w \in Workspaces |-> NoRow]
  /\ queue = {}
  /\ acked = {}
  /\ quarantined = {}
  /\ cursor = [w \in Workspaces |-> 0]

-----------------------------------------------------------------------------
\* The registration UpsertWorkspace queues for w when the row does not
\* remember having queued one.
RegistrationEvent(c, w) ==
  [ws |-> w, seq |-> row[w].seq + 1, dev |-> BackendForWorkspace(c, w), kind |-> "reg"]

NeedsRegistration(w) == ~row[w].reg

\* The primary key and UNIQUE(workspace_id,sequence) of event_queue.
InsertConflict(e) == \E f \in queue : SameId(e, f) \/ (f.ws = e.ws /\ f.seq = e.seq)

UpsertConflict(c, w) ==
  NeedsRegistration(w) /\ InsertConflict(RegistrationEvent(c, w))

\* Mutant: the flag is never set.
UpsertedRowForgetful(c, w) ==
  [present |-> TRUE,
   backend |-> BackendForWorkspace(c, w),
   reg     |-> FALSE,
   paused  |-> row[w].paused,
   seq     |-> IF NeedsRegistration(w) THEN row[w].seq + 1 ELSE row[w].seq]

UpsertedRow(c, w) ==
  [present |-> TRUE,
   backend |-> BackendForWorkspace(c, w),
   reg     |-> TRUE,
   paused  |-> row[w].paused,
   seq     |-> IF NeedsRegistration(w) THEN row[w].seq + 1 ELSE row[w].seq]

\* UpsertWorkspace for every w in S under configuration c.  A row of another
\* workspace with the same root is deleted (re-enrollment); its queued events
\* are not.
UpsertWorkspaces(c, S) ==
  /\ row' = [w \in Workspaces |->
               IF w \in S THEN UpsertedRow(c, w)
               ELSE IF \E v \in S : RootOf[v] = RootOf[w] THEN NoRow
               ELSE row[w]]
  /\ queue' = queue \cup {RegistrationEvent(c, w) : w \in {v \in S : NeedsRegistration(v)}}
  /\ UNCHANGED <<acked, quarantined, cursor>>

DropQueue(w) ==
  /\ queue' = queue \ EventsOf(queue, w)
  /\ acked' = acked \ EventsOf(acked, w)
  /\ quarantined' = quarantined \ EventsOf(quarantined, w)
  /\ cursor' = [cursor EXCEPT ![w] = 0]

\* Mutant: the sequence starts from scratch, the queue is carried over.
RebindWorkspaceFromScratch(w, b) ==
  /\ row' = [row EXCEPT ![w].backend = b, ![w].reg = FALSE, ![w].seq = 0]
  /\ UNCHANGED <<queue, acked, quarantined, cursor>>

RebindWorkspace(w, b) ==
  /\ row' = [row EXCEPT ![w].backend = b, ![w].reg = FALSE]
  /\ DropQueue(w)

\* Mutant: the workspaces row stays.
DeleteWorkspaceKeepsRow(w) ==
  /\ UNCHANGED row
  /\ DropQueue(w)

DeleteWorkspace(w) ==
  /\ row' = [row EXCEPT ![w] = NoRow]
  /\ DropQueue(w)

\* EnqueueEvent, PublishLifecycle and PublishManifest: n consecutive events in
\* one transaction, stamped with the device the row names.
EnqueueEvents(w, kind, n) ==
  /\ row[w].present
  /\ queue' = queue \cup
       {[ws |-> w, seq |-> row[w].seq + i, dev |-> row[w].backend, kind |-> kind] : i \in 1..n}
  /\ row' = [row EXCEPT ![w].seq = @ + n]
  /\ UNCHANGED <<acked, quarantined, cursor>>

SetPaused(S, p) ==
  /\ row' = [w \in Workspaces |->
               IF w \in S /\ row[w].present THEN [row[w] EXCEPT !.paused = p] ELSE row[w]]
  /\ UNCHANGED <<queue, acked, quarantined, cursor>>

\* Ack finds the row by event id and takes the sequence from the row it finds.
AckRow(e) == CHOOSE f \in queue : SameId(e, f)

CanAck(e) == \E f \in queue : SameId(e, f)

Larger(m, n) == IF m >= n THEN m ELSE n

Ack(e) ==
  /\ CanAck(e)
  /\ acked' = acked \cup {AckRow(e)}
  /\ cursor' = [cursor EXCEPT ![e.ws] = Larger(@, AckRow(e).seq)]
  /\ UNCHANGED <<row, queue, quarantined>>

\* Mutant: the event is recorded whether or not its row is still there.
QuarantineAlways(e) ==
  /\ quarantined' = quarantined \cup {e}
  /\ UNCHANGED <<row, queue, acked, cursor>>

\* UPDATE ... WHERE id=? AND acked_at IS NULL: no row, no effect, no error.
Quarantine(e) ==
  /\ quarantined' = quarantined \cup {f \in queue \ acked : SameId(e, f)}
  /\ UNCHANGED <<row, queue, acked, cursor>>

-----------------------------------------------------------------------------
StoreTypeOK ==
  /\ row \in [Workspaces -> Row]
  /\ queue \subseteq Event
  /\ acked \subseteq queue
  /\ quarantined \subseteq queue
  /\ cursor \in [Workspaces -> Nat]

=============================================================================
