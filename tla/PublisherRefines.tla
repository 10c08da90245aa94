-------------------------- MODULE PublisherRefines --------------------------
(* The publisher, its store and the backends implement Outbox. *)
EXTENDS Publisher

Box == INSTANCE Outbox WITH
  waiting   <- Pending,
  delivered <- acked,
  refused   <- quarantined \ acked,
  arrived   <- {e \in queue : Known(e.dev, e)}

\* Every step of the composition (windows, single retries, crashes between an
\* answer and its acknowledgement, lost replies and late requests, moves and
\* removals under a running pass) is one step of the outbox or none.
ImplementsOutbox == Box!OutboxSpec

=============================================================================
