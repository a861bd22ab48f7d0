---------------------------- MODULE AtLeastOnce ----------------------------
(***************************************************************************)
(* What the outbox promises to those who publish and those who subscribe,  *)
(* with no table, lease or worker in it: an accepted event stays open      *)
(* until it is done or given up; done means that every handler has         *)
(* returned normally for it at least once; it may be handled again at any  *)
(* time, even after that, so handlers have to be idempotent.               *)
(***************************************************************************)
EXTENDS Integers

CONSTANTS Event, Subscriber

VARIABLES
    outcome,   \* "none" before the event is accepted
    handled    \* the subscribers that have handled the event, by event

alVars == <<outcome, handled>>

AlInit ==
    /\ outcome = [e \in Event |-> "none"]
    /\ handled = [e \in Event |-> {}]

Accept(e) ==
    /\ outcome[e] = "none"
    /\ outcome' = [outcome EXCEPT ![e] = "open"]
    /\ UNCHANGED handled

Handle(e, s) ==
    /\ outcome[e] # "none"
    /\ handled' = [handled EXCEPT ![e] = @ \cup {s}]
    /\ UNCHANGED outcome

Acknowledge(e) ==
    /\ outcome[e] # "none"
    /\ handled[e] = Subscriber
    /\ outcome' = [outcome EXCEPT ![e] = "done"]
    /\ UNCHANGED handled

GiveUp(e) ==
    /\ outcome[e] # "none"
    /\ outcome' = [outcome EXCEPT ![e] = "dead"]
    /\ UNCHANGED handled

\* A late worker fails an event that another one has settled.
Reopen(e) ==
    /\ outcome[e] \in {"done", "dead"}
    /\ outcome' = [outcome EXCEPT ![e] = "open"]
    /\ UNCHANGED handled

AlNext ==
    \E e \in Event :
        \/ Accept(e) \/ Acknowledge(e) \/ GiveUp(e) \/ Reopen(e)
        \/ \E s \in Subscriber : Handle(e, s)

AlSpec == AlInit /\ [][AlNext]_alVars
=============================================================================
