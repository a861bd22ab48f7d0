---------------------------- MODULE Provisioning ----------------------------
(***************************************************************************)
(* The signup of a demo tenant: a slug is reserved for the session of a    *)
(* signup form, the tenant is built in steps that are transactions of      *)
(* their own and taken back when one fails, and the session is completed   *)
(* (TenantSignupOrchestrator.signup, DemoSlugReserver,                     *)
(* DemoNewSignupUseCase, TenantProvisioningService).                       *)
(*                                                                         *)
(*   row       demo_signup_sessions: the slug of a session, and whether it *)
(*             is completed                                                *)
(*   site      what exists under a slug: the schema, the owner in it, the  *)
(*             tenant's row with its actor, configuration and domain       *)
(*   try       the requests                                                *)
(*   spoiled   slugs under which a process died or a compensation was cut  *)
(*             short, or taken while another request of the same form was  *)
(*             still at work (history)                                     *)
(*   faults    failed calls, but for those of a compensation, and crashes  *)
(*             so far                                                      *)
(*                                                                         *)
(* Every form asks for the same name and has an email of its own, which    *)
(* the session stands for. What a step reads before it writes is read in   *)
(* the same step here: only another request on the same slug could tell,   *)
(* and SlugExclusive shows that there is one on spoiled slugs only.        *)
(***************************************************************************)
EXTENDS Integers, FiniteSets

CONSTANTS
    Session,      \* signup forms
    Request,      \* requests in flight
    None,         \* no slug, no owner
    MaxSlug,      \* candidates are tried from 1 to MaxSlug
    MaxFaults     \* bound: calls that fail but in a compensation, and crashes

ASSUME ProvisioningAssumption ==
    /\ None \notin Session \cup Int
    /\ MaxSlug \in Nat \ {0}
    /\ MaxFaults \in Nat

VARIABLES row, site, try, spoiled, faults

vars == <<row, site, try, spoiled, faults>>

Slug == 1 .. MaxSlug

\* The steps of provision, in order.
Steps == <<"schema", "tenant", "owner", "actor", "config", "domain", "activate",
           "validate">>
Building == {Steps[i] : i \in 1 .. 8}
Following(step) == Steps[1 + CHOOSE i \in 1 .. 7 : Steps[i] = step]

\* ProvisioningCompensationPlan, in the order it is carried out.
UndoOrder == <<"domain", "config", "actor", "tenant", "schema">>
Part == {UndoOrder[i] : i \in 1 .. 5}

Place == Building \cup {"idle", "reserved", "candidate", "insert", "again", "find",
                        "undo", "load", "notify", "complete", "failed", "forget"}

RowState == [slug : Slug, done : BOOLEAN]
SiteState == [schema : BOOLEAN, owner : Session \cup {None}, tenant : BOOLEAN,
              active : BOOLEAN, actor : Session \cup {None}, config : BOOLEAN,
              domain : BOOLEAN]
RequestState == [at : Place, session : Session, slug : Slug, plan : SUBSET Part,
                 prev : Session \cup {None}, held : BOOLEAN]

Idle == [at |-> "idle"]
NoRow == [slug |-> None]
Nothing == [schema |-> FALSE, owner |-> None, tenant |-> FALSE, active |-> FALSE,
            actor |-> None, config |-> FALSE, domain |-> FALSE]

TypeOK ==
    /\ row \in [Session -> RowState \cup {NoRow}]
    /\ site \in [Slug -> SiteState]
    /\ try \in [Request -> RequestState \cup {Idle}]
    /\ spoiled \subseteq Slug
    /\ faults \in 0 .. MaxFaults

-----------------------------------------------------------------------------
Init ==
    /\ row = [s \in Session |-> NoRow]
    /\ site = [g \in Slug |-> Nothing]
    /\ try = [q \in Request |-> Idle]
    /\ spoiled = {}
    /\ faults = 0

Become(q, r) == try' = [try EXCEPT ![q] = r]
Goto(q, place) == Become(q, [try[q] EXCEPT !.at = place])
Leave(q, place) ==
    Become(q, [try[q] EXCEPT !.at = place, !.plan = {}, !.prev = None, !.held = FALSE])
Done(q) == Become(q, Idle)

\* The requests that work on slug g: they have found or reserved it.
HasSlug(q) == try[q].at \notin {"idle", "reserved", "candidate", "insert", "again"}
Working(g) == {q \in Request : HasSlug(q) /\ try[q].slug = g}

\* Request q goes to work on slug g.
Take(q, g) ==
    /\ Become(q, [try[q] EXCEPT !.at = "find", !.slug = g])
    /\ spoiled' = IF \E p \in Request : HasSlug(p) /\ try[p].session = try[q].session
                  THEN spoiled \cup {g} ELSE spoiled

Fault ==
    /\ faults < MaxFaults
    /\ faults' = faults + 1

-----------------------------------------------------------------------------
(* The slug: signup and DemoSlugReserver.reserve.                          *)

\* A form whose session is completed is refused while its tenant exists.
Begin(q, s) ==
    /\ try[q].at = "idle"
    /\ ~(row[s] # NoRow /\ row[s].done /\ site[row[s].slug].tenant)
    /\ Become(q, [at |-> "reserved", session |-> s, slug |-> 1, plan |-> {},
                  prev |-> None, held |-> FALSE])
    /\ UNCHANGED <<row, site, spoiled, faults>>

\* get_reserved_slug: a session goes on with its own slug.
FindReserved(q) ==
    /\ try[q].at = "reserved"
    /\ LET r == row[try[q].session] IN
       IF r # NoRow THEN Take(q, r.slug)
                    ELSE Goto(q, "candidate") /\ UNCHANGED spoiled
    /\ UNCHANGED <<row, site, faults>>

\* Mutant: there is always another candidate.
NextCandidateUnbounded(q) ==
    Become(q, [try[q] EXCEPT !.at = "candidate", !.slug = @ + 1])

\* The number of candidates is bounded.
NextCandidate(q) ==
    IF try[q].slug = MaxSlug THEN Done(q)
    ELSE Become(q, [try[q] EXCEPT !.at = "candidate", !.slug = @ + 1])

TryCandidate(q) ==
    /\ try[q].at = "candidate"
    /\ IF site[try[q].slug].tenant THEN NextCandidate(q) ELSE Goto(q, "insert")
    /\ UNCHANGED <<row, site, spoiled, faults>>

\* Mutant: the conflict is not noticed.
ReserveAnyway(q) ==
    /\ try[q].at = "insert"
    /\ row' = [row EXCEPT ![try[q].session] = [slug |-> try[q].slug, done |-> FALSE]]
    /\ Take(q, try[q].slug)
    /\ UNCHANGED <<site, faults>>

\* reserve_slug: both the session and the slug are unique.
ReserveSlug(q) ==
    /\ try[q].at = "insert"
    /\ IF row[try[q].session] = NoRow /\ \A s \in Session : row[s].slug # try[q].slug
       THEN /\ row' = [row EXCEPT ![try[q].session] =
                          [slug |-> try[q].slug, done |-> FALSE]]
            /\ Take(q, try[q].slug)
       ELSE Goto(q, "again") /\ UNCHANGED <<row, spoiled>>
    /\ UNCHANGED <<site, faults>>

\* Another request may have reserved a slug for the session meanwhile.
FindAgain(q) ==
    /\ try[q].at = "again"
    /\ LET r == row[try[q].session] IN
       IF r # NoRow THEN Take(q, r.slug) ELSE NextCandidate(q) /\ UNCHANGED spoiled
    /\ UNCHANGED <<row, site, faults>>

-----------------------------------------------------------------------------
(* The tenant: TenantProvisioningService.provision.                        *)

\* A tenant that is there is taken for a finished one.
FindTenant(q) ==
    /\ try[q].at = "find"
    /\ Goto(q, IF site[try[q].slug].tenant THEN "load" ELSE "schema")
    /\ UNCHANGED <<row, site, spoiled, faults>>

\* The step cannot be done; what the plan lists is taken back.
Raise(q) == Goto(q, "undo") /\ UNCHANGED <<site, spoiled, faults>>

\* Mutant: nothing is taken back.
EnsureOnly(q, w, r, f) ==
    LET g == try[q].slug IN
    \/ /\ site' = [site EXCEPT ![g] = w]
       /\ Become(q, [r EXCEPT !.at = Following(@)])
       /\ UNCHANGED <<spoiled, faults>>
    \/ /\ Fault
       /\ Leave(q, "failed")
       /\ UNCHANGED <<site, spoiled>>

\* The step leaves w under the slug and the request as r. Or its call fails, with
\* or without its effect, and leaves it as f: the plan is written after the call.
Ensure(q, w, r, f) ==
    LET g == try[q].slug IN
    \/ /\ site' = [site EXCEPT ![g] = w]
       /\ Become(q, [r EXCEPT !.at = Following(@)])
       /\ UNCHANGED <<spoiled, faults>>
    \/ /\ Fault
       /\ Become(q, [f EXCEPT !.at = "undo"])
       /\ \/ UNCHANGED <<site, spoiled>>
          \/ /\ site' = [site EXCEPT ![g] = w]
             /\ spoiled' = IF (r.plan \ f.plan) \cap {"schema", "tenant"} = {}
                           THEN spoiled ELSE spoiled \cup {g}

\* Mutant: the schema is not in the plan.
EnsureSchemaUnplanned(q, w, r) == Ensure(q, [w EXCEPT !.schema = TRUE], r, r)

\* Created or completed; only a schema that was not there is taken back.
EnsureSchema(q, w, r) ==
    Ensure(q, [w EXCEPT !.schema = TRUE],
           [r EXCEPT !.plan = IF w.schema THEN @ ELSE @ \cup {"schema"}], r)

\* Mutant: the tenant is not in the plan.
EnsureTenantUnplanned(q, w, r) ==
    Ensure(q, [w EXCEPT !.tenant = TRUE], [r EXCEPT !.held = TRUE], r)

EnsureTenant(q, w, r) ==
    Ensure(q, [w EXCEPT !.tenant = TRUE],
           [r EXCEPT !.plan = IF w.tenant THEN @ ELSE @ \cup {"tenant"},
                     !.held = TRUE], r)

\* A schema has one owner.
EnsureOwner(q, w, r) ==
    IF w.schema /\ w.owner \in {None, r.session}
    THEN Ensure(q, [w EXCEPT !.owner = r.session], r, r)
    ELSE Raise(q)

\* Nothing happens to a tenant that is gone.
EnsureActor(q, w, r) ==
    IF r.held /\ w.actor = r.session THEN Ensure(q, w, r, r)
    ELSE Ensure(q, [w EXCEPT !.actor = IF r.held THEN r.session ELSE @],
                [r EXCEPT !.plan = @ \cup {"actor"},
                          !.prev = IF r.held THEN w.actor ELSE None], r)

\* In the plan before it is written.
EnsureConfig(q, w, r) ==
    LET planned == [r EXCEPT !.plan = IF w.config /\ r.held THEN @ ELSE @ \cup {"config"}] IN
    IF r.held THEN Ensure(q, [w EXCEPT !.config = TRUE], planned, planned)
    ELSE Become(q, [planned EXCEPT !.at = "undo"]) /\ UNCHANGED <<site, spoiled, faults>>

EnsureDomain(q, w, r) ==
    IF r.held
    THEN Ensure(q, [w EXCEPT !.domain = TRUE],
                [r EXCEPT !.plan = IF w.domain THEN @ ELSE @ \cup {"domain"}], r)
    ELSE Raise(q)

EnsureActivation(q, w, r) ==
    IF w.tenant THEN Ensure(q, [w EXCEPT !.active = @ \/ r.held], r, r) ELSE Raise(q)

\* TenantProvisioningValidator; whether the tenant is active is not looked at.
Validate(q, w, r) ==
    \/ /\ w.schema /\ w.tenant /\ w.owner = r.session /\ w.config /\ w.domain
       /\ Leave(q, "load")
       /\ UNCHANGED <<site, spoiled, faults>>
    \/ /\ ~(w.schema /\ w.tenant /\ w.owner = r.session /\ w.config /\ w.domain)
       /\ Raise(q)
    \/ /\ Fault
       /\ Goto(q, "undo")
       /\ UNCHANGED <<site, spoiled>>

Provision(q) ==
    LET r == try[q]
        w == site[r.slug]
    IN  /\ \/ r.at = "schema" /\ EnsureSchema(q, w, r)
           \/ r.at = "tenant" /\ EnsureTenant(q, w, r)
           \/ r.at = "owner" /\ EnsureOwner(q, w, r)
           \/ r.at = "actor" /\ EnsureActor(q, w, r)
           \/ r.at = "config" /\ EnsureConfig(q, w, r)
           \/ r.at = "domain" /\ EnsureDomain(q, w, r)
           \/ r.at = "activate" /\ EnsureActivation(q, w, r)
           \/ r.at = "validate" /\ Validate(q, w, r)
        /\ UNCHANGED row

-----------------------------------------------------------------------------
(* The compensation.                                                       *)

\* What is under the slug when a part of the plan has been taken back. The rows
\* of the tenant go with it.
Without(w, part, r) ==
    CASE part = "domain" -> [w EXCEPT !.domain = FALSE]
      [] part = "config" -> [w EXCEPT !.config = FALSE]
      [] part = "actor" -> [w EXCEPT !.actor = IF w.tenant THEN r.prev ELSE @]
      [] part = "tenant" -> [Nothing EXCEPT !.schema = w.schema, !.owner = w.owner]
      [] part = "schema" -> [w EXCEPT !.schema = FALSE, !.owner = None]

FirstOf(plan) == UndoOrder[CHOOSE i \in 1 .. 5 : UndoOrder[i] \in plan /\
                                \A j \in 1 .. i - 1 : UndoOrder[j] \notin plan]

\* One part of the plan after the other; a call that fails ends it, and the
\* configuration's row keeps the tenant's from being deleted. Not counted in
\* faults: a compensation follows a failure as it is.
Undo(q) ==
    LET r == try[q]
        g == r.slug
        part == FirstOf(r.plan)
        stuck == part = "tenant" /\ site[g].config
    IN  /\ r.at = "undo"
        /\ \/ /\ r.plan = {}
              /\ Leave(q, "failed")
              /\ UNCHANGED <<site, spoiled, faults>>
           \/ /\ r.plan # {} /\ ~stuck
              /\ site' = [site EXCEPT ![g] = Without(@, part, r)]
              /\ try' = [p \in Request |->
                            IF p = q THEN [r EXCEPT !.plan = @ \ {part}]
                            ELSE IF part = "tenant" /\ p \in Working(g)
                            THEN [try[p] EXCEPT !.held = FALSE] ELSE try[p]]
              /\ UNCHANGED <<spoiled, faults>>
           \/ /\ r.plan # {}
              /\ Leave(q, "failed")
              /\ spoiled' = spoiled \cup {g}
              /\ UNCHANGED <<site, faults>>
        /\ UNCHANGED row

-----------------------------------------------------------------------------
(* The end: DemoNewSignupUseCase.execute.                                  *)

\* The owner, whom the hooks and the mail need.
LoadOwner(q) ==
    /\ try[q].at = "load"
    /\ LET w == site[try[q].slug] IN
       \/ w.schema /\ w.owner = try[q].session /\ Goto(q, "notify") /\ UNCHANGED faults
       \/ ~(w.schema /\ w.owner = try[q].session) /\ Goto(q, "failed") /\ UNCHANGED faults
       \/ Fault /\ Goto(q, "failed")
    /\ UNCHANGED <<row, site, spoiled>>

\* The hooks of the modules and the mail.
Notify(q) ==
    /\ try[q].at = "notify"
    /\ \/ Goto(q, "complete") /\ UNCHANGED faults
       \/ Fault /\ Goto(q, "failed")
    /\ UNCHANGED <<row, site, spoiled>>

\* mark_session_completed; there may be no row any more.
Complete(q) ==
    /\ try[q].at = "complete"
    /\ \/ /\ row' = [row EXCEPT ![try[q].session] =
                        IF @ = NoRow THEN @ ELSE [@ EXCEPT !.done = TRUE]]
          /\ Done(q)
          /\ UNCHANGED faults
       \/ Fault /\ Goto(q, "failed") /\ UNCHANGED row
    /\ UNCHANGED <<site, spoiled>>

\* The session is forgotten when there is no tenant. A call that fails here is
\* left to Crash.
Fail(q) ==
    /\ try[q].at = "failed"
    /\ IF site[try[q].slug].tenant THEN Done(q) ELSE Goto(q, "forget")
    /\ UNCHANGED <<row, site, spoiled, faults>>

\* delete_session
Forget(q) ==
    /\ try[q].at = "forget"
    /\ row' = [row EXCEPT ![try[q].session] = NoRow]
    /\ Done(q)
    /\ UNCHANGED <<site, spoiled, faults>>

\* The process dies; what it was building stays as it is.
Crash(q) ==
    /\ try[q].at # "idle"
    /\ Fault
    /\ Done(q)
    /\ spoiled' = IF try[q].at \in (Building \ {"schema"}) \cup {"undo"}
                  THEN spoiled \cup {try[q].slug} ELSE spoiled
    /\ UNCHANGED <<row, site>>

Continue(q) ==
    \/ FindReserved(q) \/ TryCandidate(q) \/ ReserveSlug(q) \/ FindAgain(q)
    \/ FindTenant(q) \/ Provision(q) \/ Undo(q)
    \/ LoadOwner(q) \/ Notify(q) \/ Complete(q) \/ Fail(q) \/ Forget(q)

Next ==
    \/ \E q \in Request, s \in Session : Begin(q, s)
    \/ \E q \in Request : Continue(q) \/ Crash(q)

Spec == Init /\ [][Next]_vars

\* A request that has begun goes on, and a form that was not served is sent again.
Fairness ==
    /\ \A q \in Request : WF_vars(Continue(q))
    /\ \A s \in Session : SF_vars(\E q \in Request : Begin(q, s))

FairSpec == Spec /\ Fairness

-----------------------------------------------------------------------------
(* Properties.                                                             *)

Whole(g, s) ==
    site[g] = [schema |-> TRUE, owner |-> s, tenant |-> TRUE, active |-> TRUE,
               actor |-> s, config |-> TRUE, domain |-> TRUE]

\* Requests of different forms never build under one slug, although all ask for
\* the same name and slugs come free again when a signup fails.
SlugExclusive ==
    \A g \in Slug \ spoiled : \A p, q \in Working(g) : try[p].session = try[q].session

\* A signup fails without a trace or leaves a tenant that lacks nothing: while no
\* request works on a slug, everything is there or nothing is.
AllOrNothing ==
    \A g \in Slug \ spoiled :
        Working(g) = {} => site[g] = Nothing \/ \E s \in Session : Whole(g, s)

\* Whose signup is completed has a tenant that lacks nothing, from then on,
\* whoever tries to sign up beside it.
ServedIsWhole ==
    \A s \in Session : row[s] # NoRow /\ row[s].done /\ row[s].slug \notin spoiled =>
        Whole(row[s].slug, s)

\* A form that is sent again until it is served is served, whatever failed before,
\* unless something was cut short on the way.
RetrySucceeds ==
    \A s \in Session : <>(row[s] # NoRow /\ row[s].done) \/ <>(spoiled # {})

=============================================================================
