---------------------------- MODULE Subscription ----------------------------
(***************************************************************************)
(* The subscription of one tenant: the billing cycle, the owner's changes  *)
(* and purchases, the payment provider's events and the guarded requests,  *)
(* beside each other.                                                      *)
(*                                                                         *)
(*   day      the date                                                     *)
(*   active   the tenant is active                                         *)
(*   row      the billing_subscriptions row: plan, status, ends            *)
(*            (trial_ends_at: the next billing date), extra (knowledge     *)
(*            bases bought), sched (scheduled_plan_code) and eff (its      *)
(*            effective period); upd stands for updated_at: the failed     *)
(*            invoices there were when it was written                      *)
(*   config   plan and extra in the tenant's configuration                 *)
(*   paid     monthly_subscription invoices, by period_key                 *)
(*   failed   monthly_subscription_failed invoices, in the order of their  *)
(*            issue: period_key and due date                               *)
(*   settled  the failed invoices there were when the last paid one was    *)
(*            issued                                                       *)
(*   event    payment events: how often one was applied (history), or      *)
(*            Never when it is not recorded                                *)
(*   proc     the handlers: Worker is the billing worker's thread, the     *)
(*            others serve requests                                        *)
(*                                                                         *)
(* Every repository call is a transaction. upsert_subscription writes all  *)
(* columns, those the handler does not change from the copy (sub) it read. *)
(* The billing cycle over all tenants is run by the worker, and at the     *)
(* beginning of every request for the access status or the overview, of    *)
(* this tenant or of another.                                              *)
(* Cancellations are the subject of the module Cancellation.               *)
(***************************************************************************)
EXTENDS Integers, FiniteSets, Sequences

CONSTANTS
    Process,      \* handlers
    Worker,       \* the one that is the billing worker
    Event,        \* payment events: checkouts of the higher plan
    Never,        \* NULL
    Paid,         \* days of a billing period
    Month,        \* days of a calendar period (fifth business day to the next)
    Window,       \* how many of them lie in the month the period is named for
    Grace,        \* days from the due date of a failed invoice to the deactivation
    MaxDay,       \* bound: the last day
    MaxFailed,    \* bound: failed invoices
    MaxOps,       \* bound: operations of the owner, the users and the provider
    MaxCrashes    \* bound: handlers that die

ASSUME SubscriptionAssumption ==
    /\ IsFiniteSet(Process) /\ Worker \in Process
    /\ Never \notin Int \cup STRING \cup Event
    /\ {Paid, Month} \subseteq Nat \ {0}
    /\ {Window, Grace, MaxFailed, MaxOps, MaxCrashes} \subseteq Nat
    /\ MaxDay \in Nat \ {0}

VARIABLES day, active, row, config, paid, failed, settled, event, ops,
          crashes, proc

vars == <<day, active, row, config, paid, failed, settled, event, ops,
          crashes, proc>>
invoices == <<paid, failed, settled>>
counts == <<ops, crashes>>

Plan == {"free", "low", "high"}
Rank(p) == CASE p = "free" -> 0 [] p = "low" -> 1 [] p = "high" -> 2
Date == 0 .. MaxDay + Paid * (MaxOps + 1)
Period == 0 .. MaxDay + 1

Row == [plan : Plan, status : {"trial", "active", "restricted"},
        ends : Date \cup {Never}, extra : 0 .. MaxOps, sched : Plan \cup {Never},
        eff : Period, upd : 0 .. MaxFailed]

\* Where a handler is. Billing cycle: renew, sync, status, due, billing, key,
\* invoice, extend, config (in a request: cycled, and access after it); a failed
\* settlement: fail; an event or a purchase that has been recorded or paid: load;
\* a new row to be written: write; the first plan of a tenant that had the free
\* one: first (its configuration), checkout.
Place == {"idle", "renew", "sync", "status", "due", "billing", "key", "invoice",
          "extend", "config", "cycled", "access", "fail", "load", "write",
          "first", "checkout"}

\* sub: its copy of the row; new: the row it goes on with; next: what it does
\* after the status check or the write; due and key: the billing date and the
\* period key of the invoice; found: there was one; ok: the payment succeeded;
\* event: the event it applies, or Never.
Handler == [at : Place, sub : Row, new : Row, next : Place, due : Date, key : Date,
            found : BOOLEAN, ok : BOOLEAN, event : Event \cup {Never}]

TypeOK ==
    /\ day \in 0 .. MaxDay
    /\ active \in BOOLEAN
    /\ row \in Row
    /\ config \in [plan : Plan, extra : 0 .. MaxOps]
    /\ paid \subseteq Date
    /\ failed \in Seq([key : Date, due : Date])
    /\ settled \in 0 .. MaxFailed
    /\ event \in [Event -> {Never} \cup Nat]
    /\ ops \in 0 .. MaxOps
    /\ crashes \in 0 .. MaxCrashes
    /\ proc \in [Process -> Handler]

-----------------------------------------------------------------------------
\* Subscribed on day 0 and paid for until the first billing date.
FirstRow == [plan |-> "low", status |-> "active", ends |-> Paid, extra |-> 0,
             sched |-> Never, eff |-> 0, upd |-> 0]

Idle == [at |-> "idle", sub |-> FirstRow, new |-> FirstRow, next |-> "idle", due |-> 0,
         key |-> 0, found |-> FALSE, ok |-> FALSE, event |-> Never]

Limits(s) == [plan |-> s.plan, extra |-> s.extra]

Init ==
    /\ day = 1
    /\ active = TRUE
    /\ row = FirstRow
    /\ config = Limits(FirstRow)
    /\ paid = {} /\ failed = <<>> /\ settled = 0
    /\ event = [e \in Event |-> Never]
    /\ ops = 0 /\ crashes = 0
    /\ proc = [p \in Process |-> Idle]

PeriodOf(d) == d \div Month
InOwnMonth(d) == d % Month < Window

\* The next billing date; without trial_ends_at, one period after the creation.
BillingDate(s) == IF s.ends # Never THEN s.ends ELSE Paid

\* Is the latest failed invoice newer than every paid one?
FailedOpen == settled < Len(failed)
LastFailed == failed[Len(failed)]

Written(s) == [s EXCEPT !.upd = Len(failed)]

\* The handler h at its next place, without what it has no more use for there.
Moved(h, place) ==
    CASE place = "idle" -> Idle
      [] place = "access" -> [Idle EXCEPT !.at = "access"]
      [] place \in {"config", "cycled", "first"} -> [Idle EXCEPT !.at = place, !.new = h.new]
      [] place = "due" -> [Idle EXCEPT !.at = "due", !.sub = h.sub]
      [] OTHER -> [h EXCEPT !.at = place]

Goto(p, place) == proc' = [proc EXCEPT ![p] = Moved(@, place)]
Done(p) == proc' = [proc EXCEPT ![p] = Idle]

\* The handler p upserts the row s and goes on with it, as sub.
Upsert(p, s, place) ==
    /\ row' = Written(s)
    /\ proc' = [proc EXCEPT ![p] = Moved([@ EXCEPT !.sub = Written(s)], place)]

\* Mutant: the schedule is cleared before the plan is taken from it.
ScheduledUntyped(s) ==
    [s EXCEPT !.sched = Never, !.eff = 0, !.plan = Never]

\* A scheduled plan takes effect; the date of the next billing is cleared.
Scheduled(s) ==
    [s EXCEPT !.plan = s.sched,
              !.status = IF s.sched = "free" THEN "trial" ELSE "active",
              !.ends = IF s.sched = "free" THEN s.ends ELSE Never,
              !.sched = Never, !.eff = 0]

DueNow(s) == s.sched # Never /\ s.eff = PeriodOf(day)

-----------------------------------------------------------------------------
(* The billing cycle.                                                      *)

BeginCycle(p) ==
    /\ proc[p].at = "idle"
    /\ active
    /\ proc' = [proc EXCEPT ![p] = [Idle EXCEPT !.at = "renew", !.sub = row, !.next = "due"]]
    /\ UNCHANGED <<day, active, row, config, invoices, event, counts>>

Renew(p) ==
    /\ proc[p].at = "renew"
    /\ IF InOwnMonth(day) /\ DueNow(proc[p].sub)
       THEN Upsert(p, Scheduled(proc[p].sub), "sync")
       ELSE Goto(p, "sync") /\ UNCHANGED row
    /\ UNCHANGED <<day, active, config, invoices, event, counts>>

\* A failed invoice restricts once its due date is past, unless the row has been
\* written since it was issued.
Overdue(s) == FailedOpen /\ LastFailed.due < day /\ s.upd < Len(failed)

\* Mutant: a restriction is never lifted here.
ResolvedForGood(s) ==
    IF Overdue(s) \/ s.status = "restricted" THEN "restricted"
    ELSE IF s.plan = "free" THEN "trial" ELSE "active"

Resolved(s) ==
    IF Overdue(s) \/ (s.plan = "free" /\ s.ends # Never /\ s.ends <= day) THEN "restricted"
    ELSE IF s.plan = "free" THEN "trial" ELSE "active"

\* The next status is settled on one reading of the invoices; a deactivation is
\* done at once.
SyncStatus(p) ==
    /\ proc[p].at = "sync"
    /\ active' = (active /\ ~(Overdue(proc[p].sub) /\ LastFailed.due + Grace <= day))
    /\ LET s == proc[p].sub
       IN  IF Resolved(s) = s.status
           THEN proc' = [proc EXCEPT ![p] = Moved([@ EXCEPT !.new = s], @.next)]
           ELSE proc' = [proc EXCEPT ![p].at = "status", ![p].new = [s EXCEPT !.status = Resolved(s)]]
    /\ UNCHANGED <<day, row, config, invoices, event, counts>>

WriteStatus(p) ==
    /\ proc[p].at = "status"
    /\ Upsert(p, proc[p].new, proc[p].next)
    /\ UNCHANGED <<day, active, config, invoices, event, counts>>

\* Nothing is billed for a date that has its invoice; the configuration is
\* written from the row as it was before the billing (new).
CheckDue(p) ==
    /\ proc[p].at = "due"
    /\ LET s == proc[p].sub
           billed == /\ s.plan # "free"
                     /\ s.status # "restricted"
                     /\ BillingDate(s) <= day
                     /\ BillingDate(s) \notin paid
           last == IF p = Worker THEN "config" ELSE "cycled"
       IN  proc' = [proc EXCEPT ![p] =
                     Moved([@ EXCEPT !.new = s, !.due = BillingDate(s), !.ok = TRUE,
                                     !.next = last],
                           IF billed THEN "billing" ELSE last)]
    /\ UNCHANGED <<day, active, row, config, invoices, event, counts>>

\* complete_subscription_billing: a plan scheduled for this period comes first.
\* Then the users are counted, in the schema of the tenant that asks: the worker
\* has none, the query raises and ends its cycle.
ApplyScheduled(p) ==
    /\ proc[p].at = "billing"
    /\ LET place == IF p = Worker THEN "idle" ELSE IF proc[p].ok THEN "key" ELSE "fail"
       IN  IF DueNow(proc[p].sub)
           THEN Upsert(p, Scheduled(proc[p].sub), place)
           ELSE Goto(p, place) /\ UNCHANGED row
    /\ UNCHANGED <<day, active, config, invoices, event, counts>>

\* The invoice settles the failed one that is open, under its period key.
ReadInvoices(p) ==
    /\ proc[p].at = "key"
    /\ LET key == IF FailedOpen THEN LastFailed.key ELSE proc[p].due
       IN  proc' = [proc EXCEPT ![p].at = "invoice", ![p].key = key,
                                ![p].found = key \in paid]
    /\ UNCHANGED <<day, active, row, config, invoices, event, counts>>

\* A second invoice of the same key violates the unique constraint, and the
\* exception ends the handler.
CreateInvoice(p) ==
    /\ proc[p].at = "invoice"
    /\ IF proc[p].found
       THEN Goto(p, "extend") /\ UNCHANGED invoices
       ELSE IF proc[p].key \in paid
       THEN Done(p) /\ UNCHANGED invoices
       ELSE /\ paid' = paid \cup {proc[p].key}
            /\ settled' = Len(failed)
            /\ Goto(p, "extend")
            /\ UNCHANGED failed
    /\ UNCHANGED <<day, active, row, config, event, counts>>

Extend(p) ==
    /\ proc[p].at = "extend"
    /\ LET s == proc[p].sub
       IN  Upsert(p, [s EXCEPT !.plan = IF s.sched # Never THEN s.sched ELSE s.plan,
                               !.status = "active", !.ends = proc[p].due + Paid,
                               !.sched = Never, !.eff = 0], proc[p].next)
    /\ UNCHANGED <<day, active, config, invoices, event, counts>>

AfterConfig(place) ==
    CASE place = "cycled" -> "access" [] place = "first" -> "checkout" [] OTHER -> "idle"

\* Mutant: the configuration is left alone.
KeepConfig(p) ==
    /\ proc[p].at \in {"config", "cycled", "first"}
    /\ Goto(p, AfterConfig(proc[p].at))
    /\ UNCHANGED <<day, active, row, config, invoices, event, counts>>

SyncConfig(p) ==
    /\ proc[p].at \in {"config", "cycled", "first"}
    /\ config' = Limits(proc[p].new)
    /\ Goto(p, AfterConfig(proc[p].at))
    /\ UNCHANGED <<day, active, row, invoices, event, counts>>

-----------------------------------------------------------------------------
(* The status check of a request: access status and overview make it after *)
(* the cycle and write the configuration after it, the guards of other     *)
(* operations do not.                                                      *)

Access(p) ==
    /\ proc[p].at = "access"
    /\ proc' = [proc EXCEPT ![p] = [Idle EXCEPT !.at = "sync", !.sub = row, !.next = "config"]]
    /\ UNCHANGED <<day, active, row, config, invoices, event, counts>>

\* The request was another tenant's.
Elsewhere(p) ==
    /\ proc[p].at = "access"
    /\ Done(p)
    /\ UNCHANGED <<day, active, row, config, invoices, event, counts>>

BeginCheck(p) ==
    /\ proc[p].at = "idle" /\ p # Worker
    /\ active
    /\ proc' = [proc EXCEPT ![p] = [Idle EXCEPT !.at = "sync", !.sub = row, !.next = "idle"]]
    /\ UNCHANGED <<day, active, row, config, invoices, event, counts>>

-----------------------------------------------------------------------------
(* Operations of the owner and the users.                                  *)

Begin(p) ==
    /\ proc[p].at = "idle" /\ p # Worker
    /\ active
    /\ ops < MaxOps
    /\ ops' = ops + 1
    /\ UNCHANGED <<day, active, row, config, invoices, event, crashes>>

\* A row to be written, made of the one there is.
Change(p, s, next) ==
    proc' = [proc EXCEPT ![p] = [Idle EXCEPT !.at = "write", !.new = s, !.next = next]]

\* A lower plan is scheduled for the next calendar period.
SchedulePlan(p, plan) ==
    /\ Begin(p)
    /\ Rank(plan) < Rank(row.plan)
    /\ Change(p, [row EXCEPT !.sched = plan, !.eff = PeriodOf(day) + 1], "config")

\* A higher one is changed to at once. Only the change from the free plan comes
\* with a date, and with an invoice.
ChangePlan(p, plan) ==
    /\ Begin(p)
    /\ Rank(plan) > Rank(row.plan)
    /\ Change(p, [row EXCEPT !.plan = plan, !.status = "active",
                             !.ends = IF row.plan = "free" THEN day + Paid ELSE Never,
                             !.sched = Never, !.eff = 0],
              IF row.plan = "free" THEN "first" ELSE "config")

\* Its key is the time of day; it settles whatever is open.
Checkout(p) ==
    /\ proc[p].at = "checkout"
    /\ settled' = Len(failed)
    /\ Done(p)
    /\ UNCHANGED <<day, active, row, config, paid, failed, event, counts>>

\* The warning that few questions are left changes no column modelled here.
WarnQuestions(p) ==
    /\ Begin(p)
    /\ Change(p, row, "idle")

\* The card is charged before the row is read.
PurchaseAddon(p) ==
    /\ Begin(p)
    /\ proc' = [proc EXCEPT ![p] = [Idle EXCEPT !.at = "load"]]

LoadForAddon(p) ==
    /\ proc[p].at = "load" /\ proc[p].event = Never
    /\ Change(p, [row EXCEPT !.extra = row.extra + 1], "config")
    /\ UNCHANGED <<day, active, row, config, invoices, event, counts>>

\* Handlers of a payment that failed, whose invoice is still to be issued.
Failing == {q \in Process :
              proc[q].at = "fail" \/ (proc[q].at = "billing" /\ ~proc[q].ok)}

SettleSubscription(p) ==
    /\ Begin(p)
    /\ \E ok \in BOOLEAN :
        /\ ok \/ Len(failed) + Cardinality(Failing) < MaxFailed
        /\ proc' = [proc EXCEPT ![p] =
                     [Idle EXCEPT !.at = "billing", !.sub = row, !.due = BillingDate(row),
                                  !.ok = ok]]

\* A payment that failed: the grace of an open failed invoice goes on.
RecordFailure(p) ==
    /\ proc[p].at = "fail"
    /\ failed' = IF \E i \in 1 .. Len(failed) : failed[i].key = proc[p].due
                 THEN failed
                 ELSE Append(failed, [key |-> proc[p].due,
                                      due |-> IF FailedOpen THEN LastFailed.due
                                              ELSE proc[p].due])
    /\ Done(p)
    /\ UNCHANGED <<day, active, row, config, paid, settled, event, counts>>

WriteRow(p) ==
    /\ proc[p].at = "write"
    /\ Upsert(p, proc[p].new, proc[p].next)
    /\ event' = IF proc[p].event = Never THEN event ELSE [event EXCEPT ![proc[p].event] = @ + 1]
    /\ UNCHANGED <<day, active, config, invoices, counts>>

-----------------------------------------------------------------------------
(* The payment provider: an event can be delivered again and again.        *)

\* Mutant: an event that is there already is taken for a new one (its redelivery
\* is not counted as an operation).
RecordEventAgain(p, e) ==
    /\ proc[p].at = "idle" /\ p # Worker
    /\ event[e] = Never => ops < MaxOps
    /\ event' = [event EXCEPT ![e] = IF @ = Never THEN 0 ELSE @]
    /\ ops' = IF event[e] = Never THEN ops + 1 ELSE ops
    /\ proc' = [proc EXCEPT ![p] = [Idle EXCEPT !.at = "load", !.event = e]]
    /\ UNCHANGED <<day, active, row, config, invoices, crashes>>

\* Recorded as processed, before anything is done about it.
RecordEvent(p, e) ==
    /\ proc[p].at = "idle" /\ p # Worker
    /\ event[e] = Never /\ ops < MaxOps
    /\ event' = [event EXCEPT ![e] = 0]
    /\ ops' = ops + 1
    /\ proc' = [proc EXCEPT ![p] = [Idle EXCEPT !.at = "load", !.event = e]]
    /\ UNCHANGED <<day, active, row, config, invoices, crashes>>

\* A checkout of the plan the tenant has is an error.
LoadForEvent(p) ==
    /\ proc[p].at = "load" /\ proc[p].event # Never
    /\ IF row.plan = "high" THEN Done(p)
       ELSE proc' = [proc EXCEPT ![p] =
                      [@ EXCEPT !.at = "write", !.next = "config",
                                !.new = [row EXCEPT !.plan = "high", !.status = "active",
                                                    !.ends = day + Paid,
                                                    !.sched = Never, !.eff = 0]]]
    /\ UNCHANGED <<day, active, row, config, invoices, event, counts>>

-----------------------------------------------------------------------------
Midnight ==
    /\ day < MaxDay
    /\ day' = day + 1
    /\ UNCHANGED <<active, row, config, invoices, event, counts, proc>>

\* The process dies, or an exception ends the handler.
Crash(p) ==
    /\ proc[p].at # "idle"
    /\ crashes < MaxCrashes
    /\ crashes' = crashes + 1
    /\ Done(p)
    /\ UNCHANGED <<day, active, row, config, invoices, event, ops>>

Continue(p) ==
    \/ Renew(p) \/ SyncStatus(p) \/ WriteStatus(p) \/ CheckDue(p)
    \/ ApplyScheduled(p) \/ ReadInvoices(p) \/ CreateInvoice(p) \/ Extend(p)
    \/ SyncConfig(p) \/ Access(p) \/ Elsewhere(p) \/ Checkout(p)
    \/ LoadForAddon(p) \/ LoadForEvent(p) \/ WriteRow(p) \/ RecordFailure(p)

Next ==
    \/ \E p \in Process :
        \/ BeginCycle(p) \/ BeginCheck(p)
        \/ \E plan \in Plan : SchedulePlan(p, plan) \/ ChangePlan(p, plan)
        \/ WarnQuestions(p) \/ PurchaseAddon(p) \/ SettleSubscription(p)
        \/ \E e \in Event : RecordEvent(p, e)
        \/ Continue(p) \/ Crash(p)
    \/ Midnight

Spec == Init /\ [][Next]_vars

\* A handler that has begun goes on, and the tenant is used: its users' clients ask
\* for the access status again and again. The worker's loop runs too, but a tenant
\* that is due, this one or one before it, ends the run, so nothing rests on it.
Fairness ==
    /\ WF_vars(Midnight)
    /\ \A p \in Process : WF_vars(Continue(p))
    /\ SF_vars(\E p \in Process \ {Worker} : BeginCycle(p))
    /\ SF_vars(\E p \in Process : Access(p))

FairSpec == Spec /\ Fairness

-----------------------------------------------------------------------------
(* Properties.                                                             *)

\* A payment event changes the plan at most once, however often and wherever it
\* is delivered (record_payment_event_once).
EventAppliedOnce == \A e \in Event : event[e] \in {Never, 0, 1}

\* Whatever handlers have overwritten, the configuration in the end shows the
\* plan and the add-ons of the row, as long as the tenant is active and used. The
\* requests for the access status see to that (BillingService.get_access_status):
\* the worker's cycle ends at the first tenant that is due, before it writes.
LimitsConverge == <>[](active => config = Limits(row))

\* A tenant that pays and is used is in the end not restricted, though a handler
\* may write the row it read while it was (RestrictionUseCase.sync_status).
PayerIsServed ==
    <>[](active /\ row.plan # "free" /\ ~FailedOpen => row.status # "restricted")

=============================================================================
