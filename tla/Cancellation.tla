---------------------------- MODULE Cancellation ----------------------------
(***************************************************************************)
(* The end of one tenant: the owner cancels, restores the renewal or gives *)
(* up the access at once, the billing worker disables the tenant and later *)
(* drops its schema and its row, an administrator restores or purges it.   *)
(*                                                                         *)
(*   tenant    the tenants row: active, inactive or erased                 *)
(*   schema    the tenant's schema: present, or dropped by the lifecycle   *)
(*             (expired) or by an administrator (purged)                   *)
(*   request   tenant_cancellation_requests rows in the order of           *)
(*             requested_at. Dates are relative to today: left, the days   *)
(*             until the deactivation is due (effective_at and Notice      *)
(*             days); off, the days since deactivated_at, no more than     *)
(*             Grace of them; given (history): the owner gave it up        *)
(*   filed     requests so far                                             *)
(*   crashes   handlers that died                                          *)
(*   proc      the handlers, each where it is: Worker is the billing       *)
(*             worker's thread, the others are HTTP requests, which run    *)
(*             the lifecycle too (overview, access status)                 *)
(*                                                                         *)
(* Every repository call is a transaction of its own; a handler works on   *)
(* the rows as it read them and with the date it took when it started.     *)
(* Notices by e-mail and the subscription's own status are left out.       *)
(***************************************************************************)
EXTENDS Integers, FiniteSets

CONSTANTS
    Process,      \* handlers
    Worker,       \* the one that is the billing worker
    Never,        \* a date that is NULL
    Notice,       \* days from effective_at to the deactivation
    Grace,        \* days from the deactivation to the deletion
    Ahead,        \* bound: how far ahead a cancellation takes effect
    MaxRequests,  \* bound: cancellation requests
    MaxCrashes    \* bound: handlers that die

ASSUME CancellationAssumption ==
    /\ IsFiniteSet(Process) /\ Worker \in Process
    /\ Never \notin Nat
    /\ Notice \in Nat /\ Grace \in Nat \ {0} /\ Ahead \in Nat
    /\ MaxRequests \in Nat /\ MaxCrashes \in Nat

VARIABLES tenant, schema, request, filed, crashes, proc

vars == <<tenant, schema, request, filed, crashes, proc>>
counts == <<filed, crashes>>

RequestId == 1 .. MaxRequests

\* Where a handler is: at a row of the lifecycle (row), about to disable the
\* tenant, to mark the request id, to drop the schema or to erase the row; at
\* the cycle's status check (sync); about to restore a renewal; purging.
Place == {"idle", "row", "disable", "mark", "drop", "erase", "sync", "restore",
          "purge", "purged"}

RequestRow == [state : {"none", "requested", "renewed", "restored"},
               left : 0 .. Ahead + Notice, off : (0 .. Grace) \cup {Never},
               given : BOOLEAN]

\* life: it is in the lifecycle; disable and erase: the rows still to be dealt
\* with; late: a midnight has passed since the handler took the date.
Handler == [at : Place, life : BOOLEAN, late : BOOLEAN,
            disable : SUBSET RequestId, erase : SUBSET RequestId, id : 0 .. MaxRequests]

TypeOK ==
    /\ tenant \in {"active", "inactive", "erased"}
    /\ schema \in {"present", "expired", "purged"}
    /\ request \in [RequestId -> RequestRow]
    /\ filed \in 0 .. MaxRequests
    /\ crashes \in 0 .. MaxCrashes
    /\ proc \in [Process -> Handler]

-----------------------------------------------------------------------------
Idle == [at |-> "idle", life |-> FALSE, late |-> FALSE, disable |-> {}, erase |-> {},
         id |-> 0]

Init ==
    /\ tenant = "active"
    /\ schema = "present"
    /\ request = [r \in RequestId |-> [state |-> "none", left |-> 0, off |-> Never,
                                       given |-> FALSE]]
    /\ filed = 0
    /\ crashes = 0
    /\ proc = [p \in Process |-> Idle]

\* The rows of an erased tenant are deleted with it; they stay as history.
Requested ==
    {r \in RequestId : request[r].state = "requested" /\ tenant # "erased"}

\* The latest request is the last one filed; is it still a cancellation?
LatestRequested == filed \in Requested

Goto(p, place) == proc' = [proc EXCEPT ![p].at = place]
Done(p) == proc' = [proc EXCEPT ![p] = Idle]

\* The handler p, at work on request r from now on.
Start(p, place, r) == proc' = [proc EXCEPT ![p] = [Idle EXCEPT !.at = place, !.id = r]]

-----------------------------------------------------------------------------
(* The owner. A tenant that is not active is not routed to.                *)

\* The access ends the day after the paid period. No earlier request is looked
\* for.
CancelSubscription(days) ==
    /\ tenant = "active"
    /\ filed < MaxRequests
    /\ filed' = filed + 1
    /\ request' = [request EXCEPT ![filed + 1] =
                     [state |-> "requested", left |-> days + Notice, off |-> Never,
                      given |-> FALSE]]
    /\ UNCHANGED <<tenant, schema, crashes, proc>>

BeginRestoreRenewal(p) ==
    /\ proc[p].at = "idle" /\ p # Worker
    /\ tenant = "active"
    /\ LatestRequested
    /\ request[filed].off = Never
    /\ Start(p, "restore", 0)
    /\ UNCHANGED <<counts, tenant, schema, request>>

\* The latest of the requests still open, unless it is deactivated by now.
CommitRestoreRenewal(p) ==
    /\ proc[p].at = "restore"
    /\ request' = [r \in RequestId |->
                     IF /\ r \in Requested
                        /\ \A s \in Requested : s <= r
                        /\ request[r].off = Never
                     THEN [request[r] EXCEPT !.state = "renewed"]
                     ELSE request[r]]
    /\ Done(p)
    /\ UNCHANGED <<counts, tenant, schema>>

\* Only when no knowledge base is left.
DeleteServiceAccess(p) ==
    /\ proc[p].at = "idle" /\ p # Worker
    /\ tenant = "active"
    /\ LatestRequested
    /\ request[filed].off = Never
    /\ request' = [request EXCEPT ![filed].given = TRUE]
    /\ Start(p, "disable", filed)
    /\ UNCHANGED <<counts, tenant, schema>>

-----------------------------------------------------------------------------
(* The lifecycle: process_due_cycles of the worker and of HTTP requests.   *)

\* What is due for a row.
DisableDue(r) == request[r].off = Never /\ request[r].left = 0

\* Mutant: the days of the deletion too are counted from effective_at.
EraseDueEarly(r) == request[r].off # Never /\ request[r].left = 0

EraseDue(r) == request[r].off = Grace

BeginLifecycle(p) ==
    /\ proc[p].at = "idle"
    /\ p = Worker \/ tenant = "active"
    /\ proc' = [proc EXCEPT ![p] =
                  [Idle EXCEPT !.at = "row", !.life = TRUE,
                               !.disable = {r \in Requested : DisableDue(r)},
                               !.erase = {r \in Requested : EraseDue(r)}]]
    /\ UNCHANGED <<counts, tenant, schema, request>>

\* The rows are gone through in the order in which they were requested.
NextRow(p) ==
    /\ proc[p].at = "row"
    /\ \E r \in proc[p].disable \cup proc[p].erase :
        /\ \A s \in proc[p].disable \cup proc[p].erase : r <= s
        /\ proc' = [proc EXCEPT
             ![p].id = r,
             ![p].at = IF r \in proc[p].disable THEN "disable" ELSE "drop",
             ![p].disable = @ \ {r},
             ![p].erase = @ \ {r}]
    /\ UNCHANGED <<counts, tenant, schema, request>>

\* The billing cycle comes next, for tenants that are active.
EndLifecycle(p) ==
    /\ proc[p].at = "row"
    /\ proc[p].disable = {} /\ proc[p].erase = {}
    /\ IF tenant = "active" THEN Start(p, "sync", 0) ELSE Done(p)
    /\ UNCHANGED <<counts, tenant, schema, request>>

\* After a request is marked, the lifecycle has its next row.
Marked(p) == IF proc[p].life THEN Goto(p, "row") ELSE Done(p)

\* Mutant: nothing is marked for a tenant that was inactive already.
DisableOnce(p) ==
    /\ proc[p].at = "disable"
    /\ tenant' = IF tenant = "active" THEN "inactive" ELSE tenant
    /\ IF tenant = "active" THEN Goto(p, "mark") ELSE Marked(p)
    /\ UNCHANGED <<counts, schema, request>>

Disable(p) ==
    /\ proc[p].at = "disable"
    /\ tenant' = IF tenant = "active" THEN "inactive" ELSE tenant
    /\ Goto(p, "mark")
    /\ UNCHANGED <<counts, schema, request>>

\* WHERE deactivated_at IS NULL: whether the request is still open is not asked.
Mark(p) ==
    /\ proc[p].at = "mark"
    /\ LET r == proc[p].id
       IN  request' = IF request[r].off = Never /\ tenant # "erased"
                      THEN [request EXCEPT ![r].off = IF proc[p].late THEN 1 ELSE 0]
                      ELSE request
    /\ Marked(p)
    /\ UNCHANGED <<counts, tenant, schema>>

DropSchema(p) ==
    /\ proc[p].at = "drop"
    /\ schema' = IF schema = "present" THEN "expired" ELSE schema
    /\ Goto(p, "erase")
    /\ UNCHANGED <<counts, tenant, request>>

\* A schema that cannot be dropped now is left for the next run.
DropFails(p) ==
    /\ proc[p].at = "drop"
    /\ Goto(p, "row")
    /\ UNCHANGED <<counts, tenant, schema, request>>

HardDelete(p) ==
    /\ proc[p].at = "erase"
    /\ tenant' = "erased"
    /\ Goto(p, "row")
    /\ UNCHANGED <<counts, schema, request>>

-----------------------------------------------------------------------------
(* The status check of the billing cycle, and of every guarded request.    *)

BeginSync(p) ==
    /\ proc[p].at = "idle" /\ p # Worker
    /\ tenant = "active"
    /\ Start(p, "sync", 0)
    /\ UNCHANGED <<counts, tenant, schema, request>>

SyncStatus(p) ==
    /\ proc[p].at = "sync"
    /\ IF /\ LatestRequested
          /\ DisableDue(filed)
       THEN Start(p, "disable", filed)
       ELSE Done(p)
    /\ UNCHANGED <<counts, tenant, schema, request>>

-----------------------------------------------------------------------------
(* The platform administrator.                                             *)

\* Mutant: a status the requests do not have.
RestoreUnknownStatus ==
    /\ tenant = "inactive"
    /\ LatestRequested
    /\ tenant' = "active"
    /\ request' = [request EXCEPT ![filed].state = "active"]
    /\ UNCHANGED <<counts, schema, proc>>

\* One transaction; the latest request is taken back, whatever its date of
\* deactivation, and no other.
RestoreCancelledTenant ==
    /\ tenant = "inactive"
    /\ LatestRequested
    /\ tenant' = "active"
    /\ request' = [request EXCEPT ![filed].state = "restored"]
    /\ UNCHANGED <<counts, schema, proc>>

BeginPurge(p) ==
    /\ proc[p].at = "idle" /\ p # Worker
    /\ tenant = "inactive"
    /\ LatestRequested
    /\ Start(p, "purge", 0)
    /\ UNCHANGED <<counts, tenant, schema, request>>

PurgeSchema(p) ==
    /\ proc[p].at = "purge"
    /\ schema' = IF schema = "present" THEN "purged" ELSE schema
    /\ Goto(p, "purged")
    /\ UNCHANGED <<counts, tenant, request>>

\* An error when the tenant is active again.
PurgeTenant(p) ==
    /\ proc[p].at = "purged"
    /\ tenant' = IF tenant = "inactive" THEN "erased" ELSE tenant
    /\ Done(p)
    /\ UNCHANGED <<counts, schema, request>>

-----------------------------------------------------------------------------
\* A handler sees at most one midnight.
Midnight ==
    /\ \A p \in Process : ~proc[p].late
    /\ request' = [r \in RequestId |->
                     [request[r] EXCEPT !.left = IF @ > 0 THEN @ - 1 ELSE 0,
                                        !.off = IF @ \in 0 .. Grace - 1 THEN @ + 1 ELSE @]]
    /\ proc' = [p \in Process |-> [proc[p] EXCEPT !.late = proc[p].at # "idle"]]
    /\ UNCHANGED <<counts, tenant, schema>>

\* The process dies, or an exception ends the handler; the worker's loop goes
\* on with its next run.
Crash(p) ==
    /\ proc[p].at # "idle"
    /\ crashes < MaxCrashes
    /\ crashes' = crashes + 1
    /\ Done(p)
    /\ UNCHANGED <<tenant, schema, request, filed>>

Continue(p) ==
    \/ CommitRestoreRenewal(p)
    \/ NextRow(p) \/ EndLifecycle(p)
    \/ Disable(p) \/ Mark(p) \/ DropSchema(p) \/ DropFails(p) \/ HardDelete(p)
    \/ SyncStatus(p)
    \/ PurgeSchema(p) \/ PurgeTenant(p)

Next ==
    \/ \E days \in 0 .. Ahead : CancelSubscription(days)
    \/ RestoreCancelledTenant
    \/ \E p \in Process :
        \/ BeginRestoreRenewal(p) \/ DeleteServiceAccess(p)
        \/ BeginLifecycle(p) \/ BeginSync(p) \/ BeginPurge(p)
        \/ Continue(p) \/ Crash(p)
    \/ Midnight

Spec == Init /\ [][Next]_vars

\* The days pass, a handler that has begun goes on, the worker's loop runs again
\* and again, and the schema can be dropped at some time.
Fairness ==
    /\ WF_vars(Midnight)
    /\ \A p \in Process : WF_vars(Continue(p))
    /\ WF_vars(BeginLifecycle(Worker))
    /\ SF_vars(DropSchema(Worker))

FairSpec == Spec /\ Fairness

-----------------------------------------------------------------------------
(* Properties.                                                             *)

\* The lifecycle never drops a schema before the days are over for some request:
\* Grace days after its deactivation, which came Notice days after it took
\* effect unless the owner gave the access up (process_cancellation_lifecycle,
\* on rows that may be restored, marked or erased meanwhile).
DeletionIsDue ==
    schema = "expired" =>
        \E r \in RequestId :
            /\ request[r].off = Grace
            /\ request[r].given \/ request[r].left = 0

\* A cancellation that is not taken back ends in the deletion of the tenant,
\* whichever handlers die between two of its steps.
CancellationCompletes ==
    \A r \in RequestId :
        request[r].state = "requested" ~>
            (tenant = "erased" \/ request[r].state # "requested")

\* A tenant whose cancellation was taken back keeps its schema ("A visszaallitas
\* utan az AI oldal ujra elerheto lesz a sajat hostjan").
RestoredIsKept ==
    \A r \in RequestId :
        r = filed /\ request[r].state \in {"renewed", "restored"} => schema = "present"

=============================================================================
