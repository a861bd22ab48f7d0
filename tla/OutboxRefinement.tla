-------------------------- MODULE OutboxRefinement --------------------------
(***************************************************************************)
(* The outbox implements at-least-once delivery: a row is an event, its    *)
(* status is the event's outcome, and the handlers that have returned      *)
(* normally are the subscribers that have handled it.                      *)
(***************************************************************************)
EXTENDS Outbox

OutcomeOf(r) ==
    CASE r.status = "none" -> "none"
      [] r.status \in Open -> "open"
      [] r.status = "processed" -> "done"
      [] r.status = "dead_letter" -> "dead"

OutcomeMap == [i \in RowId |-> OutcomeOf(row[i])]

Abstract == INSTANCE AtLeastOnce WITH
    Event <- RowId, Subscriber <- Handler,
    outcome <- OutcomeMap, handled <- effects

\* Every behaviour of the outbox, whatever its workers, crashes, timeouts and
\* takeovers do, is a behaviour of at-least-once delivery.
ImplementsAtLeastOnce == Abstract!AlSpec
=============================================================================
