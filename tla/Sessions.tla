------------------------------ MODULE Sessions ------------------------------
(***************************************************************************)
(* The sessions of one user: login in one or two steps, refresh with       *)
(* rotation, logout, changes to the user by an administrator, and the      *)
(* authentication of API calls, as requests that run beside each other.    *)
(*                                                                         *)
(*   user       the user's row: security version, activity, deletion       *)
(*   method     what a login asks for besides the password                 *)
(*   session    refresh_tokens rows, numbered in the order of their        *)
(*              commits; a number stands also for the refresh token and    *)
(*              the access token issued with it. parent (the session it    *)
(*              was rotated from), pend (the pending login it came from)   *)
(*              and stale (its version was no longer the user's when it    *)
(*              was committed) are history                                 *)
(*   issued     sessions so far                                            *)
(*   pending    pending_2fa_logins rows                                    *)
(*   code       the e-mailed codes; login number n creates row n of both   *)
(*   allow      the access-token allowlist                                 *)
(*   cache      the version in the user cache, or None                     *)
(*   flag       the permissions-changed flag                               *)
(*   spared     history: the allowed tokens a revocation has missed        *)
(*   up         the Redis store answers                                    *)
(*   req        the requests, each where its handler is                    *)
(*                                                                         *)
(* A service call is one database transaction at READ COMMITTED: what it   *)
(* writes is seen by others when it commits, and an UPDATE touches the     *)
(* rows committed when it started (seen). Cache, allowlist and flag are    *)
(* changed by the router after the commit.                                 *)
(***************************************************************************)
EXTENDS Integers, FiniteSets

CONSTANTS
    Request,      \* requests in flight
    None,         \* no cache entry
    MaxSessions,  \* bound: sessions issued
    MaxVersion,   \* bound: changes of the user's security version
    MaxPending,   \* bound: logins that ask for a second factor
    MaxFaults     \* bound: outages of the store and deaths of the process

ASSUME SessionsAssumption ==
    /\ IsFiniteSet(Request)
    /\ None \notin Nat
    /\ MaxSessions \in Nat /\ MaxVersion \in Nat
    /\ MaxPending \in Nat /\ MaxFaults \in Nat

VARIABLES user, method, session, issued, pending, code, allow, cache, flag,
          spared, up, faults, req

account == <<user, method>>
challenge == <<pending, code>>
store == <<allow, cache, flag, spared, up, faults>>
vars == <<user, method, session, issued, pending, code, allow, cache, flag,
          spared, up, faults, req>>

SessionId == 1 .. MaxSessions
PendingId == 1 .. MaxPending
Version == 0 .. MaxVersion

\* Where a handler is. Refresh: session, rotate or alarm; login: consume, issue;
\* both end in allow; logout ends in clear; a change of the user: revoke,
\* uncache, unallow, flag; a deletion: delete; an API call: load, store.
Place == {"idle", "session", "rotate", "alarm", "consume", "issue", "allow",
          "clear", "revoke", "uncache", "unallow", "flag", "delete",
          "load", "store"}

SessionRow == [state : {"none", "valid", "revoked"}, ver : Version,
               parent : 0 .. MaxSessions, pend : 0 .. MaxPending, stale : BOOLEAN]

RequestState == [at : Place, token : 0 .. MaxSessions, ver : Version, gone : BOOLEAN,
                 seen : SUBSET SessionId, pend : 0 .. MaxPending,
                 code : 0 .. MaxPending]

TypeOK ==
    /\ user \in [ver : Version, active : BOOLEAN, deleted : BOOLEAN]
    /\ method \in {"password", "email", "authenticator"}
    /\ session \in [SessionId -> SessionRow]
    /\ issued \in 0 .. MaxSessions
    /\ pending \in [PendingId -> {"none", "open", "gone"}]
    /\ code \in [PendingId -> {"none", "valid", "used"}]
    /\ allow \subseteq SessionId
    /\ spared \subseteq SessionId
    /\ cache \in Version \cup {None}
    /\ flag \in BOOLEAN
    /\ up \in BOOLEAN
    /\ faults \in Nat
    /\ req \in [Request -> RequestState]

-----------------------------------------------------------------------------
Idle == [at |-> "idle", token |-> 0, ver |-> 0, gone |-> FALSE, seen |-> {},
         pend |-> 0, code |-> 0]

NoSession == [state |-> "none", ver |-> 0, parent |-> 0, pend |-> 0, stale |-> FALSE]

Init ==
    /\ user = [ver |-> 0, active |-> TRUE, deleted |-> FALSE]
    /\ method \in {"password", "email", "authenticator"}
    /\ session = [s \in SessionId |-> NoSession]
    /\ issued = 0
    /\ pending = [p \in PendingId |-> "none"]
    /\ code = [p \in PendingId |-> "none"]
    /\ allow = {} /\ cache = None /\ flag = FALSE
    /\ spared = {} /\ up = TRUE /\ faults = 0
    /\ req = [q \in Request |-> Idle]

Created == {s \in SessionId : session[s].state # "none"}

Valid == {s \in SessionId : session[s].state = "valid"}

Revoke(S) == [s \in SessionId |-> IF s \in S THEN [session[s] EXCEPT !.state = "revoked"]
                                  ELSE session[s]]

\* The request q goes on as r does, its other fields kept.
Goto(q, place) == req' = [req EXCEPT ![q].at = place]
Done(q) == req' = [req EXCEPT ![q] = Idle]

LoggedIn == user.active /\ ~user.deleted

\* The row a commit adds, and the rows it revokes with it.
Issue(q, revoked, parent) ==
    /\ issued < MaxSessions
    /\ issued' = issued + 1
    /\ session' = [Revoke(revoked) EXCEPT ![issued + 1] =
                     [state |-> "valid", ver |-> req[q].ver, parent |-> parent,
                      pend |-> req[q].pend, stale |-> req[q].ver # user.ver]]
    /\ req' = [req EXCEPT ![q] = [Idle EXCEPT !.at = "allow", !.token = issued + 1,
                                              !.gone = req[q].gone]]

-----------------------------------------------------------------------------
(* Refresh.                                                                *)

\* get_by_id does not find a deleted user, for whom version 0 is taken.
CurrentVersion == IF user.deleted THEN 0 ELSE user.ver

\* Mutant: the security version is not compared.
BeginRefreshAnyVersion(q, s) ==
    /\ req[q].at = "idle"
    /\ s \in Created
    /\ req' = [req EXCEPT ![q] = [Idle EXCEPT !.at = "session", !.token = s,
                                              !.ver = session[s].ver,
                                              !.gone = user.deleted]]
    /\ UNCHANGED <<account, session, issued, challenge, store>>

BeginRefresh(q, s) ==
    /\ req[q].at = "idle"
    /\ s \in Created
    /\ session[s].ver = CurrentVersion
    /\ req' = [req EXCEPT ![q] = [Idle EXCEPT !.at = "session", !.token = s,
                                              !.ver = session[s].ver,
                                              !.gone = user.deleted]]
    /\ UNCHANGED <<account, session, issued, challenge, store>>

\* Mutant: a consumed token is taken for a valid one.
ReadAnySession(q) ==
    /\ req[q].at = "session"
    /\ Goto(q, "rotate")
    /\ UNCHANGED <<account, session, issued, challenge, store>>

\* A revoked session means reuse, unless the permissions have just changed; a
\* different address and browser ends the request without a change.
ReadSession(q) ==
    /\ req[q].at = "session"
    /\ \/ /\ req[q].token \in Valid
          /\ Goto(q, "rotate")
       \/ /\ req[q].token \in Valid
          /\ Done(q)
       \/ /\ req[q].token \notin Valid
          /\ flag
          /\ Done(q)
       \/ /\ req[q].token \notin Valid
          /\ ~flag
          /\ req' = [req EXCEPT ![q].at = "alarm", ![q].seen = Valid]
    /\ UNCHANGED <<account, session, issued, challenge, store>>

CommitAlarm(q) ==
    /\ req[q].at = "alarm"
    /\ session' = Revoke(req[q].seen)
    /\ Done(q)
    /\ UNCHANGED <<account, issued, challenge, store>>

\* The row is updated by its id, whatever has become of it since it was read.
CommitRotation(q) ==
    /\ req[q].at = "rotate"
    /\ Issue(q, {req[q].token}, req[q].token)
    /\ UNCHANGED <<account, challenge, store>>

\* After the commit. Without the user the handler raises before it gets here;
\* without the store the client is answered 503 and gets neither token. The
\* version may have been raised, and the list cleared, since the token was made.
Allow(q) ==
    /\ req[q].at = "allow"
    /\ IF up /\ ~req[q].gone
       THEN /\ allow' = allow \cup {req[q].token}
            /\ spared' = IF session[req[q].token].ver # user.ver
                         THEN spared \cup {req[q].token} ELSE spared
       ELSE UNCHANGED <<allow, spared>>
    /\ Done(q)
    /\ UNCHANGED <<account, session, issued, challenge, cache, flag, up, faults>>

-----------------------------------------------------------------------------
(* Login.                                                                  *)

BeginLogin(q) ==
    /\ req[q].at = "idle"
    /\ method = "password"
    /\ LoggedIn
    /\ req' = [req EXCEPT ![q] = [Idle EXCEPT !.at = "issue", !.ver = user.ver,
                                              !.seen = Valid]]
    /\ UNCHANGED <<account, session, issued, challenge, store>>

\* The first of two steps; a new e-mailed code replaces those not used yet.
Challenge(q, p) ==
    /\ req[q].at = "idle"
    /\ method # "password"
    /\ LoggedIn
    /\ pending[p] = "none"
    /\ pending' = [pending EXCEPT ![p] = "open"]
    /\ code' = IF method = "email"
               THEN [k \in PendingId |-> IF k = p THEN "valid"
                                         ELSE IF code[k] = "valid" THEN "used" ELSE code[k]]
               ELSE code
    /\ UNCHANGED <<account, session, issued, store, req>>

\* The second step: the pending login is open and the code is right.
Verify(q, p, k) ==
    /\ req[q].at = "idle"
    /\ pending[p] = "open"
    /\ \/ method = "email" /\ code[k] = "valid"
       \/ method = "authenticator" /\ k = p
    /\ req' = [req EXCEPT ![q] = [Idle EXCEPT !.at = "consume", !.pend = p, !.code = k]]
    /\ UNCHANGED <<account, session, issued, challenge, store>>

\* The updates of the code and of the pending login wait for a transaction that
\* has updated the same row.
Unlocked(q) ==
    \A r \in Request : req[r].at = "issue" =>
        req[r].pend # req[q].pend /\ req[r].code # req[q].code

\* Mutant: the code is used up, the pending login is not.
SpendCode(q) ==
    /\ code' = [k \in PendingId |-> IF method = "email" /\ k = req[q].code THEN "used"
                                    ELSE code[k]]
    /\ UNCHANGED pending

\* What a second step that is through leaves of its pending login and code.
Spend(q) ==
    /\ pending' = [p \in PendingId |-> IF p = req[q].pend THEN "gone" ELSE pending[p]]
    /\ code' = [k \in PendingId |-> IF method = "email" /\ k = req[q].code THEN "used"
                                    ELSE code[k]]

\* mark_as_used and consume do not look at how many rows they changed.
Consume(q) ==
    /\ req[q].at = "consume"
    /\ Unlocked(q)
    /\ \/ /\ LoggedIn
          /\ req' = [req EXCEPT ![q].at = "issue", ![q].ver = user.ver, ![q].seen = Valid]
          /\ UNCHANGED challenge
       \/ /\ ~LoggedIn
          /\ Spend(q)
          /\ Done(q)
    /\ UNCHANGED <<account, session, issued, store>>

CommitLogin(q) ==
    /\ req[q].at = "issue"
    /\ Spend(q)
    /\ Issue(q, req[q].seen, 0)
    /\ UNCHANGED <<account, store>>

-----------------------------------------------------------------------------
(* Logout.                                                                 *)

CommitLogout(q, s) ==
    /\ req[q].at = "idle"
    /\ s \in Created
    /\ session' = Revoke({s})
    /\ Goto(q, "clear")
    /\ UNCHANGED <<account, issued, challenge, store>>

\* remove_by_user returns silently when the store does not answer.
ClearAllowed ==
    IF up THEN allow' = {} /\ spared' = {}
          ELSE spared' = spared \cup allow /\ UNCHANGED allow

Clear(q) ==
    /\ req[q].at = "clear"
    /\ ClearAllowed
    /\ Done(q)
    /\ UNCHANGED <<account, session, issued, challenge, cache, flag, up, faults>>

-----------------------------------------------------------------------------
(* Changes of the user by an administrator.                                *)

\* The row lock taken by the update keeps other changes out until the commit.
BeginRevocation(q) ==
    /\ req[q].at = "idle"
    /\ ~user.deleted
    /\ user.ver < MaxVersion
    /\ \A r \in Request : req[r].at \notin {"revoke", "delete"}
    /\ req' = [req EXCEPT ![q].at = "revoke", ![q].seen = Valid]
    /\ UNCHANGED <<account, session, issued, challenge, store>>

\* Mutant: a state the sessions do not have.
CommitRevocationUntyped(q) ==
    /\ req[q].at = "revoke"
    /\ session' = [s \in SessionId |-> IF s \in req[q].seen
                                       THEN [session[s] EXCEPT !.state = "invalid"]
                                       ELSE session[s]]
    /\ \E a \in BOOLEAN : user' = [ver |-> user.ver + 1, active |-> a, deleted |-> user.deleted]
    /\ req' = [req EXCEPT ![q] = [Idle EXCEPT !.at = "uncache"]]
    /\ UNCHANGED <<method, issued, challenge, store>>

CommitRevocation(q) ==
    /\ req[q].at = "revoke"
    /\ session' = Revoke(req[q].seen)
    /\ \E a \in BOOLEAN : user' = [ver |-> user.ver + 1, active |-> a, deleted |-> user.deleted]
    /\ req' = [req EXCEPT ![q] = [Idle EXCEPT !.at = "uncache"]]
    /\ UNCHANGED <<method, issued, challenge, store>>

\* A change of the address only: no session is revoked, the rest is the same.
ChangeAddress(q) ==
    /\ req[q].at = "idle"
    /\ ~user.deleted
    /\ Goto(q, "uncache")
    /\ UNCHANGED <<account, session, issued, challenge, store>>

InvalidateCache(q) ==
    /\ req[q].at = "uncache"
    /\ cache' = IF up THEN None ELSE cache
    /\ Goto(q, "unallow")
    /\ UNCHANGED <<account, session, issued, challenge, allow, flag, spared, up, faults>>

\* Mutant: the role is changed, the tokens given out with the old one stay.
KeepAllowed(q) ==
    /\ req[q].at = "unallow"
    /\ Goto(q, "flag")
    /\ UNCHANGED <<account, session, issued, challenge, store>>

Unallow(q) ==
    /\ req[q].at = "unallow"
    /\ ClearAllowed
    /\ Goto(q, "flag")
    /\ UNCHANGED <<account, session, issued, challenge, cache, flag, up, faults>>

SetFlag(q) ==
    /\ req[q].at = "flag"
    /\ flag' = (flag \/ up)
    /\ Done(q)
    /\ UNCHANGED <<account, session, issued, challenge, allow, cache, spared, up, faults>>

\* The router clears the allowlist before the transaction, and no cache: a token
\* allowed between the two is missed.
BeginDelete(q) ==
    /\ req[q].at = "idle"
    /\ ~user.deleted
    /\ user.ver < MaxVersion
    /\ \A r \in Request : req[r].at \notin {"revoke", "delete"}
    /\ ClearAllowed
    /\ req' = [req EXCEPT ![q].at = "delete", ![q].seen = Valid]
    /\ UNCHANGED <<account, session, issued, challenge, cache, flag, up, faults>>

CommitDelete(q) ==
    /\ req[q].at = "delete"
    /\ session' = Revoke(req[q].seen)
    /\ user' = [ver |-> user.ver + 1, active |-> FALSE, deleted |-> TRUE]
    /\ pending' = [p \in PendingId |-> IF pending[p] = "open" THEN "gone" ELSE pending[p]]
    /\ code' = [k \in PendingId |-> IF code[k] = "valid" THEN "used" ELSE code[k]]
    /\ spared' = spared \cup allow
    /\ Done(q)
    /\ UNCHANGED <<method, issued, allow, cache, flag, up, faults>>

-----------------------------------------------------------------------------
(* Authentication of a call: allowlist, cache, else the database.          *)

\* With a cached user (Admitted), or on a light path (AdmittedLight), the call is
\* decided at once and changes nothing.
BeginCall(q, s) ==
    /\ req[q].at = "idle"
    /\ up /\ s \in allow
    /\ cache = None
    /\ req' = [req EXCEPT ![q] = [Idle EXCEPT !.at = "load", !.token = s]]
    /\ UNCHANGED <<account, session, issued, challenge, store>>

LoadUser(q) ==
    /\ req[q].at = "load"
    /\ IF LoggedIn THEN req' = [req EXCEPT ![q].at = "store", ![q].ver = user.ver]
                   ELSE Done(q)
    /\ UNCHANGED <<account, session, issued, challenge, store>>

StoreUser(q) ==
    /\ req[q].at = "store"
    /\ cache' = IF up THEN req[q].ver ELSE cache
    /\ Done(q)
    /\ UNCHANGED <<account, session, issued, challenge, allow, flag, spared, up, faults>>

-----------------------------------------------------------------------------
(* The store: entries expire, and it may be down for a while.              *)

\* Mutant: the entry is stored without a time to live.
KeepCache == cache # None /\ UNCHANGED vars

ExpireCache ==
    /\ cache # None
    /\ cache' = None
    /\ UNCHANGED <<account, session, issued, challenge, allow, flag, spared, up, faults, req>>

ExpireAllowed ==
    /\ allow # {}
    /\ allow' = {} /\ spared' = {}
    /\ UNCHANGED <<account, session, issued, challenge, cache, flag, up, faults, req>>

ExpireFlag ==
    /\ flag
    /\ flag' = FALSE
    /\ UNCHANGED <<account, session, issued, challenge, allow, cache, spared, up, faults, req>>

StoreFails ==
    /\ up /\ faults < MaxFaults
    /\ up' = FALSE /\ faults' = faults + 1
    /\ UNCHANGED <<account, session, issued, challenge, allow, cache, flag, spared, req>>

\* The process that serves q dies: its transaction is rolled back, what it was
\* to do after a commit is never done.
Dies(q) ==
    /\ req[q].at # "idle" /\ faults < MaxFaults
    /\ faults' = faults + 1
    /\ spared' = IF req[q].at \in {"uncache", "unallow"} THEN spared \cup allow ELSE spared
    /\ Done(q)
    /\ UNCHANGED <<account, session, issued, challenge, allow, cache, flag, up>>

StoreRecovers ==
    /\ ~up
    /\ up' = TRUE
    /\ UNCHANGED <<account, session, issued, challenge, allow, cache, flag, spared, faults, req>>

-----------------------------------------------------------------------------
Begin(q) ==
    \/ \E s \in SessionId : BeginRefresh(q, s) \/ CommitLogout(q, s) \/ BeginCall(q, s)
    \/ BeginLogin(q)
    \/ \E p \in PendingId : Challenge(q, p) \/ \E k \in PendingId : Verify(q, p, k)
    \/ BeginRevocation(q) \/ ChangeAddress(q) \/ BeginDelete(q)

Continue(q) ==
    \/ ReadSession(q) \/ CommitAlarm(q) \/ CommitRotation(q) \/ Allow(q)
    \/ Consume(q) \/ CommitLogin(q)
    \/ Clear(q)
    \/ CommitRevocation(q) \/ InvalidateCache(q) \/ Unallow(q) \/ SetFlag(q)
    \/ CommitDelete(q)
    \/ LoadUser(q) \/ StoreUser(q)

Next ==
    \/ \E q \in Request : Begin(q) \/ Continue(q) \/ Dies(q)
    \/ ExpireCache \/ ExpireAllowed \/ ExpireFlag
    \/ StoreFails \/ StoreRecovers

Spec == Init /\ [][Next]_vars

\* A handler that has begun goes on, a cached user lives for USER_TTL_SEC, and
\* an outage ends. The allowlist need not expire: every login renews it.
Fairness ==
    /\ \A q \in Request : WF_vars(Continue(q))
    /\ WF_vars(ExpireCache)
    /\ WF_vars(StoreRecovers)

FairSpec == Spec /\ Fairness

-----------------------------------------------------------------------------
(* Properties.                                                             *)

Children(s) == {c \in SessionId : session[c].parent = s}
Rotating(s) == {q \in Request : req[q].at = "rotate" /\ req[q].token = s}

\* A refresh token is read in one statement and consumed at the commit, so
\* requests beside each other can all rotate it, unnoticed as reuse; but no more
\* than those: the sessions rotated from a token and the requests still about to
\* rotate it are never more than the requests that fit beside each other, since
\* after the first commit nobody finds it valid (RefreshService.refresh).
RotationBounded ==
    \A s \in SessionId :
        Cardinality(Children(s)) + Cardinality(Rotating(s)) <= Cardinality(Request)

\* A pending login is checked in one statement and consumed at the end of the
\* second step ("pending token consume (egy hasznalat)"), which does not look at
\* how many rows it changed; so it is good for more than one session, but for no
\* more than the requests that were in flight with it (login_step2).
LoggedInBy(p) == {s \in SessionId : session[s].pend = p}
SecondStep(p) == {q \in Request : req[q].at \in {"consume", "issue"} /\ req[q].pend = p}

PendingBounded ==
    \A p \in PendingId :
        Cardinality(LoggedInBy(p)) + Cardinality(SecondStep(p)) <= Cardinality(Request)

\* A login or a refresh that overlaps a revocation can commit a session of the
\* old security version that the revocation has not seen. It is a dead end: the
\* version check never lets it be rotated. The exception is the code's: for a
\* deleted user it compares with 0, the version every user starts with.
BarrenStale ==
    \A c \in Created :
        LET p == session[c].parent
        IN  p # 0 /\ session[p].stale => session[p].ver = 0 /\ user.deleted

\* An access token is admitted on the strength of the cached user; on the light
\* paths (/api/chat, /api/channel) on that of the allowlist alone.
Admitted(s) == up /\ s \in allow /\ cache = session[s].ver
AdmittedLight(s) == up /\ s \in allow

\* After the user's version was raised (it is, finitely often), whatever requests
\* were in flight and whether or not the store could be reached, the access tokens
\* of the old version are in the end refused for good wherever the version is
\* compared, although stale copies of the user can be cached after the
\* invalidation and tokens allowed after the removal. On a light path nothing but
\* the removal refuses them, so there the tokens it has missed stay good until
\* they expire: those of a removal that did not reach the store or was not come
\* to, those allowed after it, and those allowed between the removal and the
\* commit of a deletion. It misses no others (AuthMiddleware;
\* admin_users_router.py).
RevocationTakesEffect ==
    <>[](\A s \in Created : session[s].ver # user.ver =>
            ~Admitted(s) /\ (AdmittedLight(s) => s \in spared))

=============================================================================
