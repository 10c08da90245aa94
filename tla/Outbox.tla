------------------------------- MODULE Outbox -------------------------------
(***************************************************************************)
(* What the publisher promises of the events it is handed, whatever the     *)
(* windows, retries, passes, crashes and lost replies in between: an event  *)
(* waits until it is settled; the events of a workspace are settled oldest  *)
(* first; one counts as delivered only once it has arrived, and keeps what  *)
(* it was settled as; all events of a workspace are withdrawn together.     *)
(*                                                                          *)
(* An item has a workspace (ws) and a place in its order (seq).             *)
(***************************************************************************)
EXTENDS Naturals

VARIABLES
  waiting,    \* items not settled yet
  delivered,  \* items settled as delivered
  refused,    \* items settled as refused
  arrived     \* items that are where they are addressed to

outboxVars == <<waiting, delivered, refused, arrived>>

Held == waiting \cup delivered \cup refused

Earlier(e, f) == e.ws = f.ws /\ e.seq < f.seq

Oldest(e) == e \in waiting /\ \A f \in waiting : ~Earlier(f, e)

OutboxInit == waiting = {} /\ delivered = {} /\ refused = {} /\ arrived = {}

\* New items take their places after those that wait.  An item handed in again
\* may have arrived the first time.
Submit ==
  /\ waiting \subseteq waiting'
  /\ \A e \in waiting' \ waiting : e \notin Held /\ \A f \in waiting : ~Earlier(e, f)
  /\ arrived \subseteq arrived' /\ arrived' \subseteq arrived \cup (waiting' \ waiting)
  /\ UNCHANGED <<delivered, refused>>

\* The sender learns of an arrival later, or never.
Arrive ==
  /\ arrived \subseteq arrived' /\ arrived' \subseteq arrived \cup Held
  /\ UNCHANGED <<waiting, delivered, refused>>

Deliver(e) ==
  /\ Oldest(e) /\ e \in arrived
  /\ waiting' = waiting \ {e}
  /\ delivered' = delivered \cup {e}
  /\ UNCHANGED <<refused, arrived>>

Refuse(e) ==
  /\ Oldest(e)
  /\ waiting' = waiting \ {e}
  /\ refused' = refused \cup {e}
  /\ UNCHANGED <<delivered, arrived>>

\* A workspace is removed, or moves away.
Withdraw(w) ==
  LET kept(S) == {e \in S : e.ws # w}
  IN /\ waiting' = kept(waiting) /\ delivered' = kept(delivered)
     /\ refused' = kept(refused) /\ arrived' = kept(arrived)

OutboxNext ==
  \/ Submit \/ Arrive
  \/ \E e \in waiting : Deliver(e) \/ Refuse(e)
  \/ \E w \in {e.ws : e \in Held} : Withdraw(w)

OutboxSpec == OutboxInit /\ [][OutboxNext]_outboxVars

=============================================================================
