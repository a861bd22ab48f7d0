--------------------------- MODULE SessionsProofs ---------------------------
(***************************************************************************)
(* Safety of the sessions of a user, for any number of requests in flight, *)
(* sessions, logins and changes of the security version, any outages of    *)
(* the store and any deaths of the process.                                *)
(***************************************************************************)
EXTENDS Sessions, FiniteSetTheorems, TLAPS

\* Sessions are numbered without gaps.
AllocOK == \A s \in SessionId : session[s].state = "none" <=> s > issued

\* What a request carries from statement to statement. One change of the user
\* at a time: the row lock.
RequestOK ==
    \A q \in Request :
      /\ req[q].at \in {"session", "rotate"} => req[q].token \in Created
      /\ req[q].at = "allow" => req[q].token \in SessionId
      /\ req[q].seen \subseteq Created
      /\ req[q].at \in {"revoke", "delete"} =>
           /\ user.ver < MaxVersion
           /\ \A r \in Request : req[r].at \in {"revoke", "delete"} => r = q

TypeInv == TypeOK /\ AllocOK /\ RequestOK

-----------------------------------------------------------------------------
(* What the updates of records give.                                       *)

LEMMA RequestField ==
    ASSUME NEW r \in RequestState
    PROVE  /\ \A place \in Place : [r EXCEPT !.at = place] \in RequestState
           /\ \A s \in 0 .. MaxSessions : [r EXCEPT !.token = s] \in RequestState
           /\ \A v \in Version : [r EXCEPT !.ver = v] \in RequestState
           /\ \A g \in BOOLEAN : [r EXCEPT !.gone = g] \in RequestState
           /\ \A S \in SUBSET SessionId : [r EXCEPT !.seen = S] \in RequestState
           /\ \A p \in 0 .. MaxPending : [r EXCEPT !.pend = p] \in RequestState
           /\ \A k \in 0 .. MaxPending : [r EXCEPT !.code = k] \in RequestState
<1>1. \A place \in Place : [r EXCEPT !.at = place] \in RequestState  BY DEF RequestState
<1>2. \A s \in 0 .. MaxSessions : [r EXCEPT !.token = s] \in RequestState  BY DEF RequestState
<1>3. \A v \in Version : [r EXCEPT !.ver = v] \in RequestState  BY DEF RequestState
<1>4. \A g \in BOOLEAN : [r EXCEPT !.gone = g] \in RequestState  BY DEF RequestState
<1>5. \A S \in SUBSET SessionId : [r EXCEPT !.seen = S] \in RequestState  BY DEF RequestState
<1>6. \A p \in 0 .. MaxPending : [r EXCEPT !.pend = p] \in RequestState  BY DEF RequestState
<1>7. \A k \in 0 .. MaxPending : [r EXCEPT !.code = k] \in RequestState  BY DEF RequestState
<1>8. QED  BY <1>1, <1>2, <1>3, <1>4, <1>5, <1>6, <1>7

\* Two or more fields at once.
LEMMA RequestFields ==
    ASSUME NEW r \in RequestState, NEW place \in Place
    PROVE  /\ [r EXCEPT !.at = place] \in RequestState
           /\ \A v \in Version : [r EXCEPT !.at = place, !.ver = v] \in RequestState
           /\ \A S \in SUBSET SessionId : [r EXCEPT !.at = place, !.seen = S] \in RequestState
           /\ \A v \in Version, S \in SUBSET SessionId :
                [r EXCEPT !.at = place, !.ver = v, !.seen = S] \in RequestState
           /\ \A s \in 0 .. MaxSessions : [r EXCEPT !.at = place, !.token = s] \in RequestState
           /\ \A s \in 0 .. MaxSessions, v \in Version, g \in BOOLEAN :
                [r EXCEPT !.at = place, !.token = s, !.ver = v, !.gone = g] \in RequestState
           /\ \A p, k \in 0 .. MaxPending :
                [r EXCEPT !.at = place, !.pend = p, !.code = k] \in RequestState
<1>0. [r EXCEPT !.at = place] \in RequestState  BY RequestField
<1> DEFINE a == [r EXCEPT !.at = place]
<1>1. a \in RequestState  BY RequestField
<1>2. /\ \A v : [r EXCEPT !.at = place, !.ver = v] = [a EXCEPT !.ver = v]
      /\ \A S : [r EXCEPT !.at = place, !.seen = S] = [a EXCEPT !.seen = S]
      /\ \A s : [r EXCEPT !.at = place, !.token = s] = [a EXCEPT !.token = s]
      /\ \A v, S : [r EXCEPT !.at = place, !.ver = v, !.seen = S]
                     = [[a EXCEPT !.ver = v] EXCEPT !.seen = S]
      /\ \A s, v, g : [r EXCEPT !.at = place, !.token = s, !.ver = v, !.gone = g]
                     = [[[a EXCEPT !.token = s] EXCEPT !.ver = v] EXCEPT !.gone = g]
      /\ \A p, k : [r EXCEPT !.at = place, !.pend = p, !.code = k]
                     = [[a EXCEPT !.pend = p] EXCEPT !.code = k]
  OBVIOUS
<1> HIDE DEF a
<1>3. \A v \in Version : [r EXCEPT !.at = place, !.ver = v] \in RequestState
  BY <1>1, <1>2, RequestField, Zenon
<1>4. \A S \in SUBSET SessionId : [r EXCEPT !.at = place, !.seen = S] \in RequestState
  BY <1>1, <1>2, RequestField, Zenon
<1>5. \A v \in Version, S \in SUBSET SessionId :
         [r EXCEPT !.at = place, !.ver = v, !.seen = S] \in RequestState
  <2> TAKE v \in Version, S \in SUBSET SessionId
  <2>1. [a EXCEPT !.ver = v] \in RequestState  BY <1>1, RequestField
  <2>2. QED  BY <1>2, <2>1, RequestField, Zenon
<1>6. \A s \in 0 .. MaxSessions : [r EXCEPT !.at = place, !.token = s] \in RequestState
  BY <1>1, <1>2, RequestField, Zenon
<1>7. \A s \in 0 .. MaxSessions, v \in Version, g \in BOOLEAN :
         [r EXCEPT !.at = place, !.token = s, !.ver = v, !.gone = g] \in RequestState
  <2> TAKE s \in 0 .. MaxSessions, v \in Version, g \in BOOLEAN
  <2>1. [a EXCEPT !.token = s] \in RequestState  BY <1>1, RequestField
  <2>2. [[a EXCEPT !.token = s] EXCEPT !.ver = v] \in RequestState  BY <2>1, RequestField
  <2>3. [[[a EXCEPT !.token = s] EXCEPT !.ver = v] EXCEPT !.gone = g] \in RequestState
    BY <2>2, RequestField, Zenon
  <2>4. QED  BY <1>2, <2>3, Zenon
<1>8. \A p, k \in 0 .. MaxPending :
         [r EXCEPT !.at = place, !.pend = p, !.code = k] \in RequestState
  <2> TAKE p, k \in 0 .. MaxPending
  <2>1. [a EXCEPT !.pend = p] \in RequestState  BY <1>1, RequestField
  <2>2. QED  BY <1>2, <2>1, RequestField, Zenon
<1>9. QED  BY <1>0, <1>3, <1>4, <1>5, <1>6, <1>7, <1>8

LEMMA IdleType == Idle \in RequestState
  BY SessionsAssumption DEF RequestState, Idle, Version, Place

LEMMA RevokeType ==
    ASSUME TypeOK, NEW S
    PROVE  /\ Revoke(S) \in [SessionId -> SessionRow]
           /\ \A s \in SessionId :
                /\ Revoke(S)[s].state = IF s \in S THEN "revoked" ELSE session[s].state
                /\ Revoke(S)[s].ver = session[s].ver
                /\ Revoke(S)[s].parent = session[s].parent
                /\ Revoke(S)[s].pend = session[s].pend
                /\ Revoke(S)[s].stale = session[s].stale
  BY DEF TypeOK, Revoke, SessionRow

\* The row a commit adds.
NewRow(q, parent) == [state |-> "valid", ver |-> req[q].ver, parent |-> parent,
                      pend |-> req[q].pend, stale |-> req[q].ver # user.ver]

LEMMA IssueType ==
    ASSUME TypeOK, AllocOK, NEW q \in Request, NEW S, NEW parent \in 0 .. MaxSessions,
           Issue(q, S, parent)
    PROVE  /\ issued + 1 \in SessionId /\ issued' = issued + 1
           /\ session'[issued + 1] = NewRow(q, parent)
           /\ \A s \in SessionId \ {issued + 1} : session'[s] = Revoke(S)[s]
           /\ session' \in [SessionId -> SessionRow]
           /\ req' \in [Request -> RequestState]
<1>1. issued + 1 \in SessionId
  <2>1. issued \in Nat /\ issued < MaxSessions  BY DEF TypeOK, Issue
  <2>2. QED  BY <2>1, SessionsAssumption DEF SessionId
<1>2. Revoke(S) \in [SessionId -> SessionRow]  BY RevokeType
<1>3. req[q] \in RequestState  BY DEF TypeOK
<1>4. NewRow(q, parent) \in SessionRow  BY <1>3 DEF NewRow, SessionRow, RequestState
<1>5. session' = [Revoke(S) EXCEPT ![issued + 1] = NewRow(q, parent)]
  BY DEF Issue, NewRow
<1>6. req' \in [Request -> RequestState]
  <2>1. issued + 1 \in 0 .. MaxSessions  BY <1>1 DEF SessionId
  <2>2. "allow" \in Place /\ req[q].gone \in BOOLEAN  BY <1>3 DEF Place, RequestState
  <2> DEFINE d == [Idle EXCEPT !.at = "allow", !.token = issued + 1, !.gone = req[q].gone]
  <2>3. d \in RequestState
    BY <2>1, <2>2, IdleType DEF RequestState
  <2>4. req' = [req EXCEPT ![q] = d]  BY DEF Issue
  <2> HIDE DEF d
  <2>5. QED  BY <2>3, <2>4 DEF TypeOK
<1> HIDE DEF NewRow
<1>7. QED  BY <1>1, <1>2, <1>4, <1>5, <1>6 DEF Issue

-----------------------------------------------------------------------------
LEMMA InitType == Init => TypeInv
<1> SUFFICES ASSUME Init PROVE TypeInv  OBVIOUS
<1>1. TypeOK
  <2>1. Idle \in RequestState  BY IdleType
  <2>2. NoSession \in SessionRow  BY SessionsAssumption DEF NoSession, SessionRow, Version
  <2>3. 0 \in Version /\ 0 \in 0 .. MaxSessions /\ 0 \in Nat
    BY SessionsAssumption DEF Version
  <2>4. QED  BY <2>1, <2>2, <2>3 DEF Init, TypeOK
<1>2. AllocOK  BY DEF Init, AllocOK, NoSession, SessionId
<1>3. RequestOK  BY DEF Init, RequestOK, Idle
<1>4. QED  BY <1>1, <1>2, <1>3 DEF TypeInv

\* How a step can bring a request where it is about to read or write.
LEMMA RequestStep ==
    ASSUME TypeOK, [Next]_vars
    PROVE  \A r \in Request :
             /\ req'[r].at = "session" =>
                  \/ req'[r] = req[r]
                  \/ /\ req'[r].token \in Created
                     /\ req'[r].ver = session[req'[r].token].ver
                     /\ req'[r].ver = CurrentVersion
             /\ req'[r].at = "rotate" =>
                  /\ req'[r].token = req[r].token /\ req'[r].ver = req[r].ver
                  /\ \/ req[r].at = "rotate"
                     \/ req[r].at = "session" /\ req[r].token \in Valid
             /\ req'[r].at = "allow" => req'[r] = req[r] \/ req'[r].token \in SessionId
             /\ req'[r].at \in {"revoke", "delete"} =>
                  \/ req'[r] = req[r]
                  \/ /\ user.ver < MaxVersion /\ user' = user
                     /\ \A x \in Request \ {r} :
                          /\ req'[x] = req[x]
                          /\ req[x].at \notin {"revoke", "delete"}
             /\ req'[r].seen \subseteq req[r].seen \cup Created
             /\ req'[r].ver \in {req[r].ver, user.ver, CurrentVersion, 0}
<1> DEFINE Goal == \A r \in Request :
             /\ req'[r].at = "session" =>
                  \/ req'[r] = req[r]
                  \/ /\ req'[r].token \in Created
                     /\ req'[r].ver = session[req'[r].token].ver
                     /\ req'[r].ver = CurrentVersion
             /\ req'[r].at = "rotate" =>
                  /\ req'[r].token = req[r].token /\ req'[r].ver = req[r].ver
                  /\ \/ req[r].at = "rotate"
                     \/ req[r].at = "session" /\ req[r].token \in Valid
             /\ req'[r].at = "allow" => req'[r] = req[r] \/ req'[r].token \in SessionId
             /\ req'[r].at \in {"revoke", "delete"} =>
                  \/ req'[r] = req[r]
                  \/ /\ user.ver < MaxVersion /\ user' = user
                     /\ \A x \in Request \ {r} :
                          /\ req'[x] = req[x]
                          /\ req[x].at \notin {"revoke", "delete"}
             /\ req'[r].seen \subseteq req[r].seen \cup Created
             /\ req'[r].ver \in {req[r].ver, user.ver, CurrentVersion, 0}
<1> USE DEF TypeOK, RequestState
<1>0. Valid \subseteq Created  BY DEF Valid, Created
<1>1. ASSUME NEW q \in Request, NEW s \in SessionId, BeginRefresh(q, s)  PROVE Goal
  BY <1>1 DEF BeginRefresh, Idle
<1>2. ASSUME NEW q \in Request, NEW s \in SessionId, CommitLogout(q, s) \/ BeginCall(q, s)
      PROVE Goal
  <2>1. CASE CommitLogout(q, s)  BY <2>1 DEF CommitLogout, Goto
  <2>2. CASE BeginCall(q, s)  BY <2>2 DEF BeginCall, Idle
  <2>3. QED  BY <1>2, <2>1, <2>2
<1>3. ASSUME NEW q \in Request, BeginLogin(q)  PROVE Goal
  BY <1>0, <1>3 DEF BeginLogin, Idle
<1>4. ASSUME NEW q \in Request, NEW p \in PendingId, NEW k \in PendingId,
             Challenge(q, p) \/ Verify(q, p, k)
      PROVE Goal
  <2>1. CASE Challenge(q, p)  BY <2>1 DEF Challenge
  <2>2. CASE Verify(q, p, k)  BY <2>2 DEF Verify, Idle
  <2>3. QED  BY <1>4, <2>1, <2>2
<1>5. ASSUME NEW q \in Request, BeginRevocation(q)  PROVE Goal
  BY <1>0, <1>5 DEF BeginRevocation, account
<1>6. ASSUME NEW q \in Request, BeginDelete(q)  PROVE Goal
  BY <1>0, <1>6 DEF BeginDelete, account
<1>7. ASSUME NEW q \in Request, ChangeAddress(q)  PROVE Goal
  BY <1>7 DEF ChangeAddress, Goto
<1>8. ASSUME NEW q \in Request, ReadSession(q)  PROVE Goal
  BY <1>0, <1>8 DEF ReadSession, Goto, Done, Idle
<1>9. ASSUME NEW q \in Request, CommitAlarm(q) \/ Allow(q) \/ Clear(q) \/ SetFlag(q)
                                   \/ CommitDelete(q) \/ StoreUser(q) \/ Dies(q)
      PROVE Goal
  BY <1>9 DEF CommitAlarm, Allow, Clear, SetFlag, CommitDelete, StoreUser, Dies, Done, Idle
<1>10. ASSUME NEW q \in Request, NEW S, NEW parent, Issue(q, S, parent)  PROVE Goal
  BY <1>10, SessionsAssumption DEF Issue, Idle, SessionId
<1>11. ASSUME NEW q \in Request, Consume(q)  PROVE Goal
  BY <1>0, <1>11 DEF Consume, Done, Idle
<1>12. ASSUME NEW q \in Request, CommitRevocation(q)  PROVE Goal
  BY <1>12 DEF CommitRevocation, Idle
<1>13. ASSUME NEW q \in Request, InvalidateCache(q) \/ Unallow(q)  PROVE Goal
  BY <1>13 DEF InvalidateCache, Unallow, Goto
<1>14. ASSUME NEW q \in Request, LoadUser(q)  PROVE Goal
  BY <1>14 DEF LoadUser, Done, Idle
<1>15. ASSUME req' = req  PROVE Goal  BY <1>15
<1> HIDE DEF Goal
<1>16. (ExpireCache \/ ExpireAllowed \/ ExpireFlag \/ StoreFails \/ StoreRecovers
         \/ UNCHANGED vars) => req' = req
  BY DEF ExpireCache, ExpireAllowed, ExpireFlag, StoreFails, StoreRecovers, vars
<1>17. ASSUME NEW q \in Request, Begin(q)  PROVE Goal
  BY <1>1, <1>2, <1>3, <1>4, <1>5, <1>6, <1>7, <1>17, Zenon DEF Begin
<1>18. ASSUME NEW q \in Request, Continue(q)  PROVE Goal
  BY <1>8, <1>9, <1>10, <1>11, <1>12, <1>13, <1>14, <1>18, Zenon
  DEF Continue, CommitRotation, CommitLogin
<1>19. Goal
  <2>1. CASE UNCHANGED vars  BY <1>15, <1>16, <2>1
  <2>2. CASE Next  BY <1>9, <1>15, <1>16, <1>17, <1>18, <2>2 DEF Next
  <2>3. QED  BY <2>1, <2>2
<1>20. QED  BY <1>19 DEF Goal

\* What a step does to the sessions and the user.
Commits == \E q \in Request : CommitLogin(q) \/ CommitRotation(q)

Revokes ==
    /\ issued' = issued
    /\ user' \in [ver : Nat, active : BOOLEAN, deleted : BOOLEAN]
    /\ user.ver <= user'.ver /\ (user.deleted => user'.deleted)
    /\ \E S \in SUBSET Created : session' = Revoke(S)

LEMMA SessionStep ==
    ASSUME TypeOK, RequestOK, [Next]_vars
    PROVE  Commits \/ Revokes
<1>0. \A q \in Request : req[q].seen \subseteq Created  BY DEF RequestOK
<1>1. Revoke({}) = session  BY DEF Revoke, TypeOK
<1>2. /\ user \in [ver : Nat, active : BOOLEAN, deleted : BOOLEAN] /\ user.ver \in Nat
      /\ user.ver <= user.ver
  BY DEF TypeOK, Version
<1>3. ASSUME UNCHANGED <<user, session, issued>>  PROVE Revokes
  BY <1>1, <1>2, <1>3 DEF Revokes
<1>4. ASSUME UNCHANGED <<user, issued>>, NEW S \in SUBSET Created,
             session' = Revoke(S)
      PROVE  Revokes
  BY <1>2, <1>4 DEF Revokes
<1>5. ASSUME NEW q \in Request, Begin(q)  PROVE Revokes
  <2>1. ASSUME NEW s \in SessionId, CommitLogout(q, s)  PROVE Revokes
    <3>1. {s} \subseteq Created  BY <2>1 DEF CommitLogout
    <3>2. QED  BY <1>4, <2>1, <3>1 DEF CommitLogout, account
  <2>2. CASE UNCHANGED <<user, session, issued>>  BY <1>3, <2>2
  <2>3. (\E s \in SessionId : BeginRefresh(q, s) \/ BeginCall(q, s))
          => UNCHANGED <<user, session, issued>>
    BY DEF BeginRefresh, BeginCall, account
  <2>4. (\E p \in PendingId : Challenge(q, p) \/ \E k \in PendingId : Verify(q, p, k))
          => UNCHANGED <<user, session, issued>>
    BY DEF Challenge, Verify, account
  <2>5. BeginLogin(q) \/ BeginRevocation(q) \/ ChangeAddress(q) \/ BeginDelete(q)
          => UNCHANGED <<user, session, issued>>
    BY DEF BeginLogin, BeginRevocation, ChangeAddress, BeginDelete, account
  <2>6. QED  BY <1>5, <2>1, <2>2, <2>3, <2>4, <2>5 DEF Begin
<1>6. ASSUME NEW q \in Request, Continue(q)  PROVE Commits \/ Revokes
  <2>1. CASE CommitRevocation(q)
    <3>1. PICK a \in BOOLEAN : user' = [ver |-> user.ver + 1, active |-> a, deleted |-> user.deleted]
      BY <2>1 DEF CommitRevocation
    <3>2. user'.ver = user.ver + 1 /\ user'.deleted = user.deleted
          /\ user' \in [ver : Nat, active : BOOLEAN, deleted : BOOLEAN]
      BY <1>2, <3>1
    <3>3. QED  BY <1>0, <1>2, <2>1, <3>2 DEF CommitRevocation, Revokes
  <2>2. CASE CommitDelete(q)  BY <1>0, <1>2, <2>2 DEF CommitDelete, Revokes
  <2>3. CASE CommitAlarm(q)  BY <1>0, <1>4, <2>3 DEF CommitAlarm, account
  <2>4. ReadSession(q) \/ Allow(q) \/ Consume(q) \/ Clear(q)
          => UNCHANGED <<user, session, issued>>
    BY DEF ReadSession, Allow, Consume, Clear, account
  <2>5. InvalidateCache(q) \/ Unallow(q) \/ SetFlag(q) \/ LoadUser(q) \/ StoreUser(q)
          => UNCHANGED <<user, session, issued>>
    BY DEF InvalidateCache, Unallow, SetFlag, LoadUser, StoreUser, account
  <2>6. CASE UNCHANGED <<user, session, issued>>  BY <1>3, <2>6
  <2>7. QED  BY <1>6, <2>1, <2>2, <2>3, <2>4, <2>5, <2>6 DEF Continue, Commits
<1>7. (ExpireCache \/ ExpireAllowed \/ ExpireFlag \/ StoreFails \/ StoreRecovers
         \/ UNCHANGED vars) => UNCHANGED <<user, session, issued>>
  BY DEF ExpireCache, ExpireAllowed, ExpireFlag, StoreFails, StoreRecovers, vars, account
<1>8. CASE UNCHANGED vars  BY <1>3, <1>7, <1>8
<1>11. ASSUME NEW q \in Request, Dies(q)  PROVE Revokes
  BY <1>3, <1>11 DEF Dies, account
<1>9. CASE Next  BY <1>3, <1>5, <1>6, <1>7, <1>9, <1>11 DEF Next
<1>10. QED  BY <1>8, <1>9

-----------------------------------------------------------------------------
LEMMA RequestTypeStep ==
    ASSUME TypeInv, [Next]_vars
    PROVE  req' \in [Request -> RequestState]
<1> DEFINE Goal == req' \in [Request -> RequestState]
<1> USE DEF TypeInv
<1>1. /\ Idle \in RequestState /\ req \in [Request -> RequestState]
      /\ Valid \in SUBSET SessionId /\ user.ver \in Version
  BY IdleType DEF TypeOK, Valid
<1>2. ASSUME NEW q \in Request, NEW r \in RequestState, req' = [req EXCEPT ![q] = r]
      PROVE  Goal
  BY <1>1, <1>2
<1>3. ASSUME NEW q \in Request, NEW place \in Place, Goto(q, place)  PROVE Goal
  <2>1. [req[q] EXCEPT !.at = place] \in RequestState  BY <1>1, RequestFields
  <2>2. req' = [req EXCEPT ![q] = [req[q] EXCEPT !.at = place]]  BY <1>3 DEF Goto
  <2>3. QED  BY <1>2, <2>1, <2>2
<1>4. ASSUME NEW q \in Request, Done(q)  PROVE Goal
  BY <1>1, <1>2, <1>4 DEF Done
<1>5. ASSUME NEW q \in Request, Begin(q)  PROVE Goal
  <2>1. ASSUME NEW s \in SessionId, BeginRefresh(q, s)  PROVE Goal
    <3> DEFINE r == [Idle EXCEPT !.at = "session", !.token = s, !.ver = session[s].ver,
                                 !.gone = user.deleted]
    <3>1. s \in 0 .. MaxSessions /\ session[s].ver \in Version /\ user.deleted \in BOOLEAN
          /\ "session" \in Place
      BY DEF SessionId, TypeOK, SessionRow, Place
    <3>2. r \in RequestState  BY <1>1, <3>1, RequestFields
    <3>3. req' = [req EXCEPT ![q] = r]  BY <2>1 DEF BeginRefresh
    <3> HIDE DEF r
    <3>4. QED  BY <1>2, <3>2, <3>3
  <2>2. ASSUME NEW s \in SessionId, CommitLogout(q, s)  PROVE Goal
    BY <1>3, <2>2 DEF CommitLogout, Place
  <2>3. ASSUME NEW s \in SessionId, BeginCall(q, s)  PROVE Goal
    <3> DEFINE r == [Idle EXCEPT !.at = "load", !.token = s]
    <3>1. s \in 0 .. MaxSessions /\ "load" \in Place  BY DEF SessionId, Place
    <3>2. r \in RequestState  BY <1>1, <3>1, RequestFields
    <3>3. req' = [req EXCEPT ![q] = r]  BY <2>3 DEF BeginCall
    <3> HIDE DEF r
    <3>4. QED  BY <1>2, <3>2, <3>3
  <2>4. CASE BeginLogin(q)
    <3> DEFINE r == [Idle EXCEPT !.at = "issue", !.ver = user.ver, !.seen = Valid]
    <3>1. "issue" \in Place  BY DEF Place
    <3>2. r \in RequestState  BY <1>1, <3>1, RequestFields
    <3>3. req' = [req EXCEPT ![q] = r]  BY <2>4 DEF BeginLogin
    <3> HIDE DEF r
    <3>4. QED  BY <1>2, <3>2, <3>3
  <2>5. ASSUME NEW p \in PendingId, Challenge(q, p)  PROVE Goal
    BY <1>1, <2>5 DEF Challenge
  <2>6. ASSUME NEW p \in PendingId, NEW k \in PendingId, Verify(q, p, k)  PROVE Goal
    <3> DEFINE r == [Idle EXCEPT !.at = "consume", !.pend = p, !.code = k]
    <3>1. p \in 0 .. MaxPending /\ k \in 0 .. MaxPending /\ "consume" \in Place
      BY DEF PendingId, Place
    <3>2. r \in RequestState  BY <1>1, <3>1, RequestFields
    <3>3. req' = [req EXCEPT ![q] = r]  BY <2>6 DEF Verify
    <3> HIDE DEF r
    <3>4. QED  BY <1>2, <3>2, <3>3
  <2>7. ASSUME NEW place \in Place, req' = [req EXCEPT ![q].at = place, ![q].seen = Valid]
        PROVE  Goal
    <3> DEFINE r == [req[q] EXCEPT !.at = place, !.seen = Valid]
    <3>1. r \in RequestState  BY <1>1, RequestFields
    <3>2. req' = [req EXCEPT ![q] = r]  BY <2>7
    <3> HIDE DEF r
    <3>3. QED  BY <1>2, <3>1, <3>2
  <2>8. CASE BeginRevocation(q)  BY <2>7, <2>8 DEF BeginRevocation, Place
  <2>9. CASE BeginDelete(q)  BY <2>7, <2>9 DEF BeginDelete, Place
  <2>10. CASE ChangeAddress(q)  BY <1>3, <2>10 DEF ChangeAddress, Place
  <2>11. QED
    BY <1>5, <2>1, <2>2, <2>3, <2>4, <2>5, <2>6, <2>8, <2>9, <2>10, Zenon DEF Begin
<1>6. ASSUME NEW q \in Request, Continue(q)  PROVE Goal
  <2>1. CASE ReadSession(q)
    <3>1. CASE req' = [req EXCEPT ![q].at = "alarm", ![q].seen = Valid]
      <4> DEFINE r == [req[q] EXCEPT !.at = "alarm", !.seen = Valid]
      <4>1. r \in RequestState  BY <1>1, RequestFields DEF Place
      <4>2. req' = [req EXCEPT ![q] = r]  BY <3>1
      <4> HIDE DEF r
      <4>3. QED  BY <1>2, <4>1, <4>2
    <3>2. "rotate" \in Place  BY DEF Place
    <3>3. QED  BY <1>3, <1>4, <2>1, <3>1, <3>2 DEF ReadSession
  <2>2. CASE Consume(q)
    <3>1. CASE req' = [req EXCEPT ![q].at = "issue", ![q].ver = user.ver, ![q].seen = Valid]
      <4> DEFINE r == [req[q] EXCEPT !.at = "issue", !.ver = user.ver, !.seen = Valid]
      <4>0. "issue" \in Place  BY DEF Place
      <4>1. r \in RequestState  BY <1>1, <4>0, RequestFields
      <4>2. req' = [req EXCEPT ![q] = r]  BY <3>1
      <4> HIDE DEF r
      <4>3. QED  BY <1>2, <4>1, <4>2
    <3>2. QED  BY <1>4, <2>2, <3>1 DEF Consume
  <2>3. CASE CommitRotation(q)
    <3>1. req[q].token \in 0 .. MaxSessions  BY DEF TypeOK, RequestState
    <3>2. QED  BY <2>3, <3>1, IssueType DEF CommitRotation
  <2>4. CASE CommitLogin(q)
    <3>1. 0 \in 0 .. MaxSessions  BY SessionsAssumption
    <3>2. QED  BY <2>4, <3>1, IssueType DEF CommitLogin
  <2>5. CASE CommitRevocation(q)
    <3> DEFINE r == [Idle EXCEPT !.at = "uncache"]
    <3>1. r \in RequestState  BY <1>1, RequestFields DEF Place
    <3>2. req' = [req EXCEPT ![q] = r]  BY <2>5 DEF CommitRevocation
    <3> HIDE DEF r
    <3>3. QED  BY <1>2, <3>1, <3>2
  <2>6. CASE LoadUser(q)
    <3>1. CASE req' = [req EXCEPT ![q].at = "store", ![q].ver = user.ver]
      <4> DEFINE r == [req[q] EXCEPT !.at = "store", !.ver = user.ver]
      <4>1. r \in RequestState  BY <1>1, RequestFields DEF Place
      <4>2. req' = [req EXCEPT ![q] = r]  BY <3>1
      <4> HIDE DEF r
      <4>3. QED  BY <1>2, <4>1, <4>2
    <3>2. QED  BY <1>4, <2>6, <3>1 DEF LoadUser
  <2>7. InvalidateCache(q) => Goto(q, "unallow")  BY DEF InvalidateCache
  <2>8. Unallow(q) => Goto(q, "flag")  BY DEF Unallow
  <2>9. CommitAlarm(q) \/ Allow(q) \/ Clear(q) \/ SetFlag(q) \/ CommitDelete(q)
          \/ StoreUser(q) => Done(q)
    BY DEF CommitAlarm, Allow, Clear, SetFlag, CommitDelete, StoreUser
  <2>10. "unallow" \in Place /\ "flag" \in Place  BY DEF Place
  <2>11. QED
    BY <1>3, <1>4, <1>6, <2>1, <2>2, <2>3, <2>4, <2>5, <2>6, <2>7, <2>8, <2>9, <2>10, Zenon
    DEF Continue
<1>7. (ExpireCache \/ ExpireAllowed \/ ExpireFlag \/ StoreFails \/ StoreRecovers
         \/ UNCHANGED vars) => req' = req
  BY DEF ExpireCache, ExpireAllowed, ExpireFlag, StoreFails, StoreRecovers, vars
<1> HIDE DEF Goal
<1>8. Goal
  <2>1. CASE UNCHANGED vars  BY <1>1, <1>7, <2>1 DEF Goal
  <2>2. CASE req' = req  BY <1>1, <2>2 DEF Goal
  <2>5. ASSUME NEW q \in Request, Dies(q)  PROVE Goal
    <3>1. req' = [req EXCEPT ![q] = Idle]  BY <2>5 DEF Dies, Done
    <3>2. QED  BY <1>1, <1>2, <3>1
  <2>3. CASE Next  BY <1>5, <1>6, <1>7, <2>2, <2>3, <2>5 DEF Next
  <2>4. QED  BY <2>1, <2>3
<1>9. QED  BY <1>8 DEF Goal

\* The account, the pending logins, the codes and the store.
LEMMA OtherTypeStep ==
    ASSUME TypeInv, [Next]_vars
    PROVE  /\ user' \in [ver : Version, active : BOOLEAN, deleted : BOOLEAN]
           /\ method' \in {"password", "email", "authenticator"}
           /\ pending' \in [PendingId -> {"none", "open", "gone"}]
           /\ code' \in [PendingId -> {"none", "valid", "used"}]
           /\ allow' \subseteq SessionId /\ spared' \subseteq SessionId
           /\ cache' \in Version \cup {None}
           /\ flag' \in BOOLEAN /\ up' \in BOOLEAN /\ faults' \in Nat
<1> DEFINE Account == /\ user' \in [ver : Version, active : BOOLEAN, deleted : BOOLEAN]
                      /\ method' \in {"password", "email", "authenticator"}
           Codes == /\ pending' \in [PendingId -> {"none", "open", "gone"}]
                    /\ code' \in [PendingId -> {"none", "valid", "used"}]
           Store == /\ allow' \subseteq SessionId /\ spared' \subseteq SessionId
                    /\ cache' \in Version \cup {None}
                    /\ flag' \in BOOLEAN /\ up' \in BOOLEAN /\ faults' \in Nat
<1> USE DEF TypeInv, TypeOK
<1>1. /\ UNCHANGED account => Account
      /\ UNCHANGED challenge => Codes
      /\ UNCHANGED store => Store
  BY DEF account, challenge, store
<1>2. ASSUME NEW q \in Request, Begin(q)  PROVE Account /\ Codes /\ Store
  <2>1. UNCHANGED account
    BY <1>2 DEF Begin, BeginRefresh, CommitLogout, BeginCall, BeginLogin, Challenge, Verify,
                BeginRevocation, ChangeAddress, BeginDelete
  <2>2. ASSUME NEW p \in PendingId, Challenge(q, p)  PROVE Codes
    <3>1. CASE UNCHANGED code
      BY <2>2, <3>1 DEF Challenge
    <3>2. CASE code' = [k \in PendingId |-> IF k = p THEN "valid"
                                            ELSE IF code[k] = "valid" THEN "used" ELSE code[k]]
      <4>1. code' \in [PendingId -> {"none", "valid", "used"}]  BY <3>2
      <4>2. QED  BY <2>2, <4>1 DEF Challenge
    <3>3. QED  BY <2>2, <3>1, <3>2 DEF Challenge
  <2>3. (\E p \in PendingId : Challenge(q, p)) \/ UNCHANGED challenge
    BY <1>2 DEF Begin, BeginRefresh, CommitLogout, BeginCall, BeginLogin, Verify,
                BeginRevocation, ChangeAddress, BeginDelete
  <2>4. ASSUME BeginDelete(q)  PROVE Store
    BY <2>4 DEF BeginDelete, ClearAllowed
  <2>5. BeginDelete(q) \/ UNCHANGED store
    BY <1>2 DEF Begin, BeginRefresh, CommitLogout, BeginCall, BeginLogin, Challenge, Verify,
                BeginRevocation, ChangeAddress
  <2> HIDE DEF Account, Codes, Store
  <2>6. Codes  BY <1>1, <2>2, <2>3
  <2>7. Store
    <3>1. BeginDelete(q) => Store  BY <2>4
    <3>2. QED  BY <1>1, <2>5, <3>1
  <2>8. QED  BY <1>1, <2>1, <2>6, <2>7
<1>3. ASSUME NEW q \in Request  PROVE Spend(q) => Codes
  <2>2. \A p \in PendingId : pending[p] \in {"none", "open", "gone"}
                             /\ code[p] \in {"none", "valid", "used"}
    OBVIOUS
  <2>3. QED  BY <2>2 DEF Spend
<1>4. ASSUME NEW q \in Request, Continue(q)  PROVE Account /\ Codes /\ Store
  <2>1. Account
    <3>1. ASSUME req[q].at \in {"revoke", "delete"}  PROVE user.ver + 1 \in Version
      <4>1. user.ver < MaxVersion /\ user.ver \in Nat  BY <3>1 DEF RequestOK, Version
      <4>2. QED  BY <4>1, SessionsAssumption DEF Version
    <3>2. CASE CommitRevocation(q)
      BY <3>1, <3>2 DEF CommitRevocation
    <3>3. CASE CommitDelete(q)
      BY <3>1, <3>3 DEF CommitDelete
    <3>4. CommitRevocation(q) \/ CommitDelete(q) \/ UNCHANGED account
      BY <1>4 DEF Continue, ReadSession, CommitAlarm, CommitRotation, Allow, Consume,
                  CommitLogin, Clear, InvalidateCache, Unallow, SetFlag, LoadUser, StoreUser
    <3> HIDE DEF Account
    <3>5. QED  BY <1>1, <3>2, <3>3, <3>4
  <2>2. Codes
    <3>1. CASE CommitDelete(q)
      <4>1. \A p \in PendingId : pending[p] \in {"none", "open", "gone"}
                                 /\ code[p] \in {"none", "valid", "used"}
        OBVIOUS
      <4>2. QED  BY <3>1, <4>1 DEF CommitDelete
    <3>2. CommitDelete(q) \/ Spend(q) \/ UNCHANGED challenge
      BY <1>4 DEF Continue, ReadSession, CommitAlarm, CommitRotation, Allow, Consume,
                  CommitLogin, Clear, CommitRevocation, InvalidateCache, Unallow, SetFlag,
                  LoadUser, StoreUser
    <3> HIDE DEF Codes
    <3>3. QED  BY <1>1, <1>3, <3>1, <3>2
  <2>3. Store
    <3>1. CASE Allow(q)
      <4>1. CASE UNCHANGED <<allow, spared>>  BY <3>1, <4>1 DEF Allow
      <4>2. CASE req[q].token \in SessionId  BY <3>1, <4>2 DEF Allow
      <4>3. QED  BY <3>1, <4>1, <4>2 DEF Allow, RequestOK
    <3>2. CASE Clear(q) \/ Unallow(q)  BY <3>2 DEF Clear, Unallow, ClearAllowed
    <3>3. CASE InvalidateCache(q)  BY <3>3 DEF InvalidateCache
    <3>4. CASE SetFlag(q)  BY <3>4 DEF SetFlag
    <3>5. CASE StoreUser(q)
      <4>1. req[q].ver \in Version  BY DEF RequestState
      <4>2. QED  BY <3>5, <4>1 DEF StoreUser
    <3>6. CASE UNCHANGED store  BY <1>1, <3>6
    <3>9. CASE CommitDelete(q)  BY <3>9 DEF CommitDelete
    <3>7. CommitDelete(q) \/ Allow(q) \/ Clear(q) \/ Unallow(q) \/ InvalidateCache(q) \/ SetFlag(q)
            \/ StoreUser(q) \/ UNCHANGED store
      BY <1>4 DEF Continue, ReadSession, CommitAlarm, CommitRotation, Consume,
                  CommitLogin, CommitRevocation, LoadUser
    <3> HIDE DEF Store
    <3>8. QED  BY <3>1, <3>2, <3>3, <3>4, <3>5, <3>6, <3>7, <3>9
  <2>4. QED  BY <2>1, <2>2, <2>3
<1>5. ExpireCache \/ ExpireAllowed \/ ExpireFlag \/ StoreFails \/ StoreRecovers
        => Account /\ Codes /\ Store
  <2>1. ExpireCache \/ ExpireAllowed \/ ExpireFlag \/ StoreFails \/ StoreRecovers
          => UNCHANGED account /\ UNCHANGED challenge
    BY DEF ExpireCache, ExpireAllowed, ExpireFlag, StoreFails, StoreRecovers
  <2>2. ExpireCache => Store  BY DEF ExpireCache
  <2>3. ExpireAllowed => Store  BY DEF ExpireAllowed
  <2>4. ExpireFlag => Store  BY DEF ExpireFlag
  <2>5. ASSUME StoreFails  PROVE Store
    <3>1. faults' \in Nat /\ UNCHANGED <<allow, cache, flag, spared>> /\ up' = FALSE
      BY <2>5 DEF StoreFails
    <3>2. allow \subseteq SessionId /\ spared \subseteq SessionId /\ cache \in Version \cup {None}
          /\ flag \in BOOLEAN
      OBVIOUS
    <3>3. QED  BY <3>1, <3>2
  <2>6. StoreRecovers => Store  BY DEF StoreRecovers
  <2> HIDE DEF Account, Codes, Store
  <2>7. QED  BY <1>1, <2>1, <2>2, <2>3, <2>4, <2>5, <2>6
<1>6. UNCHANGED vars => Account /\ Codes /\ Store
  BY <1>1 DEF vars, account, challenge, store
<1>9. ASSUME NEW q \in Request, Dies(q)  PROVE Account /\ Codes /\ Store
  <2>1. UNCHANGED account /\ UNCHANGED challenge  BY <1>9 DEF Dies
  <2>2. /\ spared' \subseteq SessionId /\ faults' \in Nat
        /\ UNCHANGED <<allow, cache, flag, up>>
    BY <1>9 DEF Dies
  <2>3. Store  BY <2>2
  <2> HIDE DEF Account, Codes, Store
  <2>4. QED  BY <1>1, <2>1, <2>3
<1> HIDE DEF Account, Codes, Store
<1>7. Account /\ Codes /\ Store  BY <1>2, <1>4, <1>5, <1>6, <1>9 DEF Next
<1>8. QED  BY <1>7 DEF Account, Codes, Store

\* The user's row changes with the request that holds its lock.
LEMMA UserStep ==
    ASSUME TypeOK, [Next]_vars
    PROVE  \/ user' = user
           \/ \E q \in Request : /\ req[q].at \in {"revoke", "delete"}
                                /\ req'[q].at \notin {"revoke", "delete"}
<1>1. ASSUME NEW q \in Request, CommitRevocation(q) \/ CommitDelete(q)
      PROVE  req[q].at \in {"revoke", "delete"} /\ req'[q].at \notin {"revoke", "delete"}
  BY <1>1 DEF CommitRevocation, CommitDelete, Done, Idle, TypeOK, RequestState
<1>2. ASSUME NEW q \in Request, Begin(q)  PROVE user' = user
  BY <1>2 DEF Begin, BeginRefresh, CommitLogout, BeginCall, BeginLogin, Challenge, Verify,
              BeginRevocation, ChangeAddress, BeginDelete, account
<1>3. ASSUME NEW q \in Request, Continue(q)
      PROVE  CommitRevocation(q) \/ CommitDelete(q) \/ user' = user
  BY <1>3 DEF Continue, ReadSession, CommitAlarm, CommitRotation, Allow, Consume, CommitLogin,
              Clear, InvalidateCache, Unallow, SetFlag, LoadUser, StoreUser, account
<1>4. (ExpireCache \/ ExpireAllowed \/ ExpireFlag \/ StoreFails \/ StoreRecovers
         \/ UNCHANGED vars) => user' = user
  BY DEF ExpireCache, ExpireAllowed, ExpireFlag, StoreFails, StoreRecovers, vars, account
<1>5. \A q \in Request : Dies(q) => user' = user  BY DEF Dies, account
<1>6. QED  BY <1>1, <1>2, <1>3, <1>4, <1>5 DEF Next

\* The numbering of the sessions, and where requests are.
LEMMA StepType == TypeInv /\ [Next]_vars => TypeInv'
<1> SUFFICES ASSUME TypeInv, [Next]_vars PROVE TypeInv'
  OBVIOUS
<1> USE DEF TypeInv
<1>1. /\ session' \in [SessionId -> SessionRow] /\ issued' \in 0 .. MaxSessions /\ AllocOK'
      /\ \A s \in Created : session'[s].state # "none"
  <2>0. /\ session \in [SessionId -> SessionRow] /\ issued \in 0 .. MaxSessions
        /\ \A s \in SessionId : session[s].state = "none" <=> s > issued
    BY DEF TypeOK, AllocOK
  <2>1. CASE Revokes
    <3>1. PICK S \in SUBSET Created : session' = Revoke(S)  BY <2>1 DEF Revokes
    <3>2. /\ session' \in [SessionId -> SessionRow]
          /\ \A s \in SessionId :
               session'[s].state = IF s \in S THEN "revoked" ELSE session[s].state
      BY <3>1, RevokeType
    <3>3. issued' = issued  BY <2>1 DEF Revokes
    <3>4. QED  BY <2>0, <3>2, <3>3 DEF AllocOK, Created
  <2>2. ASSUME NEW q \in Request, NEW S \in SUBSET Created, NEW parent \in 0 .. MaxSessions,
               Issue(q, S, parent)
        PROVE  /\ session' \in [SessionId -> SessionRow] /\ issued' \in 0 .. MaxSessions
               /\ AllocOK'
               /\ \A s \in Created : session'[s].state # "none"
    <3>0. /\ issued + 1 \in SessionId /\ issued' = issued + 1
          /\ session'[issued + 1] = NewRow(q, parent)
          /\ \A s \in SessionId \ {issued + 1} : session'[s] = Revoke(S)[s]
          /\ session' \in [SessionId -> SessionRow]
      BY <2>2, IssueType
    <3>1. session'[issued + 1].state = "valid"  BY <3>0 DEF NewRow
    <3>2. \A s \in SessionId :
            Revoke(S)[s].state = IF s \in S THEN "revoked" ELSE session[s].state
      BY RevokeType
    <3>3. /\ issued' \in 0 .. MaxSessions
          /\ \A s \in SessionId \ {issued + 1} :
               session'[s].state = "none" <=> session[s].state = "none"
      BY <3>0, <3>2, SessionsAssumption DEF SessionId, Created
    <3>4. \A s \in SessionId : session'[s].state = "none" <=> s > issued'
      BY <2>0, <3>0, <3>1, <3>3 DEF SessionId
    <3>5. QED  BY <2>0, <3>0, <3>1, <3>3, <3>4 DEF AllocOK, Created
  <2>3. 0 \in 0 .. MaxSessions /\ \A q \in Request : req[q].token \in 0 .. MaxSessions
    BY SessionsAssumption DEF TypeOK, RequestState
  <2>4. \A q \in Request : /\ req[q].seen \subseteq Created
                           /\ req[q].at = "rotate" => {req[q].token} \subseteq Created
    BY DEF RequestOK
  <2>5. CASE Commits
    <3>1. PICK q \in Request : CommitLogin(q) \/ CommitRotation(q)  BY <2>5 DEF Commits
    <3>2. CASE CommitLogin(q)  BY <2>2, <2>3, <2>4, <3>2 DEF CommitLogin
    <3>3. CASE CommitRotation(q)  BY <2>2, <2>3, <2>4, <3>3 DEF CommitRotation
    <3>4. QED  BY <3>1, <3>2, <3>3
  <2>6. QED  BY <2>1, <2>5, SessionStep
<1>2. TypeOK'  BY <1>1, OtherTypeStep, RequestTypeStep DEF TypeOK
<1>3. RequestOK'
  <2>1. Created \subseteq Created'  BY <1>1 DEF Created
  <2> SUFFICES ASSUME NEW r \in Request
               PROVE  /\ req'[r].at \in {"session", "rotate"} => req'[r].token \in Created
                      /\ req'[r].at = "allow" => req'[r].token \in SessionId
                      /\ req'[r].seen \subseteq Created
                      /\ req'[r].at \in {"revoke", "delete"} =>
                           /\ user'.ver < MaxVersion
                           /\ \A x \in Request : req'[x].at \in {"revoke", "delete"} => x = r
    BY <2>1 DEF RequestOK
  <2>2. req'[r].at \in {"session", "rotate"} => req'[r].token \in Created
    BY RequestStep DEF RequestOK
  <2>3. req'[r].at = "allow" => req'[r].token \in SessionId
    BY RequestStep DEF RequestOK
  <2>6. req'[r].seen \subseteq Created  BY RequestStep DEF RequestOK
  <2>4. ASSUME req'[r].at \in {"revoke", "delete"}
        PROVE  /\ user'.ver < MaxVersion
               /\ \A x \in Request : req'[x].at \in {"revoke", "delete"} => x = r
    <3>1. CASE req'[r] = req[r]
      <4>1. req[r].at \in {"revoke", "delete"} /\ user.ver < MaxVersion
        BY <2>4, <3>1 DEF RequestOK
      <4>2. user' = user  BY <2>4, <4>1, UserStep DEF RequestOK
      <4>3. ASSUME NEW x \in Request, req'[x].at \in {"revoke", "delete"}  PROVE x = r
        BY <2>4, <4>1, <4>3, RequestStep DEF RequestOK
      <4>4. QED  BY <4>1, <4>2, <4>3
    <3>2. CASE /\ user.ver < MaxVersion /\ user' = user
               /\ \A x \in Request \ {r} :
                    /\ req'[x] = req[x]
                    /\ req[x].at \notin {"revoke", "delete"}
      BY <3>2
    <3>3. QED  BY <2>4, <3>1, <3>2, RequestStep
  <2>5. QED  BY <2>2, <2>3, <2>4, <2>6
<1>4. QED  BY <1>1, <1>2, <1>3

\* The variables hold what their columns, keys and handlers can hold, in every
\* reachable state.
THEOREM TypeCorrect == Spec => []TypeOK
<1>1. Spec => []TypeInv  BY InitType, StepType, PTL DEF Spec
<1>2. TypeInv => TypeOK  BY DEF TypeInv
<1>3. QED  BY <1>1, <1>2, PTL

-----------------------------------------------------------------------------
(* What a step does to the rows.                                           *)

LEMMA RowStep ==
    ASSUME TypeInv, [Next]_vars
    PROVE  /\ user'.ver \in Nat /\ user.ver <= user'.ver /\ (user.deleted => user'.deleted)
           /\ \A s \in Created :
                /\ s \in Created' /\ (s \in Valid' => s \in Valid)
                /\ session'[s].ver = session[s].ver
                /\ session'[s].parent = session[s].parent
                /\ session'[s].stale = session[s].stale
           /\ \A s \in SessionId \ Created : s \notin Created' => session'[s] = session[s]
           /\ \A s \in Created' \ Created : \E q \in Request :
                /\ user' = user
                /\ \A r \in SessionId \ {s} : session'[r].parent = session[r].parent
                /\ \/ /\ req[q].at = "issue"
                      /\ session'[s] = NewRow(q, 0)
                   \/ /\ req[q].at = "rotate" /\ req'[q].at = "allow"
                      /\ \A r \in Request \ {q} : req'[r] = req[r]
                      /\ session'[s] = NewRow(q, req[q].token)
                      /\ req[q].token \notin Valid'
<1> USE DEF TypeInv
<1>1. CASE Revokes
  <2>1. PICK S \in SUBSET Created : session' = Revoke(S)  BY <1>1 DEF Revokes
  <2>2. \A s \in SessionId :
          /\ session'[s].state = IF s \in S THEN "revoked" ELSE session[s].state
          /\ session'[s].ver = session[s].ver
          /\ session'[s].parent = session[s].parent
          /\ session'[s].stale = session[s].stale
    BY <2>1, RevokeType
  <2>3. \A s \in SessionId \ Created : session'[s] = session[s]  BY <2>1 DEF Revoke
  <2>4. \A s \in SessionId : (s \in Created' <=> s \in Created) /\ (s \in Valid' => s \in Valid)
    BY <2>2 DEF Created, Valid
  <2>5. Created' \subseteq SessionId /\ Created \subseteq SessionId  BY DEF Created
  <2>6. user'.ver \in Nat /\ user.ver <= user'.ver /\ (user.deleted => user'.deleted)
    BY <1>1 DEF Revokes
  <2>7. QED  BY <2>2, <2>3, <2>4, <2>5, <2>6
<1>2. CASE Commits
  <2>1. PICK q \in Request : CommitLogin(q) \/ CommitRotation(q)  BY <1>2 DEF Commits
  <2>2. user' = user /\ user.ver \in Nat /\ user'.ver \in Nat /\ user.ver <= user'.ver
    BY <2>1 DEF CommitLogin, CommitRotation, account, TypeOK, Version
  <2>3. PICK S \in SUBSET Created, parent \in 0 .. MaxSessions :
          /\ Issue(q, S, parent)
          /\ \/ req[q].at = "issue" /\ parent = 0
             \/ req[q].at = "rotate" /\ parent = req[q].token /\ parent \in S
    <3>1. 0 \in 0 .. MaxSessions /\ req[q].token \in 0 .. MaxSessions
      BY SessionsAssumption DEF TypeOK, RequestState
    <3>2. req[q].seen \subseteq Created
      BY DEF RequestOK
    <3>3. CASE CommitLogin(q)  BY <3>1, <3>2, <3>3 DEF CommitLogin
    <3>4. CASE CommitRotation(q)
      <4>1. {req[q].token} \subseteq Created  BY <3>4 DEF CommitRotation, RequestOK
      <4>2. QED  BY <3>1, <3>4, <4>1 DEF CommitRotation
    <3>5. QED  BY <2>1, <3>3, <3>4
  <2>4. /\ issued + 1 \in SessionId
        /\ session'[issued + 1] = NewRow(q, parent)
        /\ \A s \in SessionId \ {issued + 1} : session'[s] = Revoke(S)[s]
    BY <2>3, IssueType
  <2>5. session'[issued + 1].state = "valid"  BY <2>4 DEF NewRow
  <2>6. /\ req'[q].at = "allow"
        /\ \A r \in Request \ {q} : req'[r] = req[r]
    BY <2>3 DEF Issue, Idle, TypeOK
  <2>7. issued + 1 \notin Created
    <3>1. session[issued + 1].state = "none"  BY <2>4 DEF AllocOK, TypeOK
    <3>2. QED  BY <3>1 DEF Created
  <2>8. \A s \in SessionId \ {issued + 1} :
          /\ session'[s].state = IF s \in S THEN "revoked" ELSE session[s].state
          /\ session'[s].ver = session[s].ver
          /\ session'[s].parent = session[s].parent
          /\ session'[s].stale = session[s].stale
          /\ s \notin S => session'[s] = session[s]
    <3>1. \A s \in SessionId : s \notin S => Revoke(S)[s] = session[s]  BY DEF Revoke
    <3>2. QED  BY <2>4, <3>1, RevokeType
  <2>9. \A s \in SessionId \ {issued + 1} :
          (s \in Created' <=> s \in Created) /\ (s \in Valid' => s \in Valid)
    BY <2>8 DEF Created, Valid
  <2>10. Created \subseteq SessionId /\ Created' \subseteq SessionId  BY DEF Created
  <2>11. \A s \in Created :
           /\ s \in Created' /\ (s \in Valid' => s \in Valid)
           /\ session'[s].ver = session[s].ver
           /\ session'[s].parent = session[s].parent
           /\ session'[s].stale = session[s].stale
    BY <2>7, <2>8, <2>9, <2>10
  <2>12. \A s \in SessionId \ Created : s \notin Created' => session'[s] = session[s]
    <3>1. issued + 1 \in Created'  BY <2>4, <2>5 DEF Created
    <3>2. QED  BY <2>8, <3>1
  <2>13. \A s \in Created' \ Created : s = issued + 1  BY <2>9, <2>10
  <2>14. req[q].at = "rotate" => req[q].token \notin Valid'
    <3>1. ASSUME req[q].at = "rotate"  PROVE req[q].token \in S \ {issued + 1}
      BY <2>3, <2>7, <3>1
    <3>2. \A s \in S \ {issued + 1} : s \notin Valid'
      BY <2>8, <2>10 DEF Valid
    <3>3. QED  BY <3>1, <3>2
  <2>15. ASSUME NEW s \in Created' \ Created
         PROVE  /\ \A r \in SessionId \ {s} : session'[r].parent = session[r].parent
                /\ \/ /\ req[q].at = "issue"
                      /\ session'[s] = NewRow(q, 0)
                   \/ /\ req[q].at = "rotate" /\ req'[q].at = "allow"
                      /\ \A r \in Request \ {q} : req'[r] = req[r]
                      /\ session'[s] = NewRow(q, req[q].token)
                      /\ req[q].token \notin Valid'
    BY <2>3, <2>4, <2>6, <2>8, <2>13, <2>14
  <2>16. QED  BY <2>2, <2>11, <2>12, <2>15
<1>3. QED  BY <1>1, <1>2, SessionStep

-----------------------------------------------------------------------------
(* Stale sessions. BarrenStale is not inductive: it needs that a version   *)
(* read earlier is never ahead of the user's, and that a refresh under way *)
(* still has the version its session was admitted with.                    *)

ParentOK == \A s \in SessionId :
    IF s \in Created THEN session[s].parent = 0 \/ session[s].parent \in Created
                     ELSE session[s].parent = 0

BarrenInv ==
    /\ \A q \in Request : req[q].ver <= user.ver
    /\ \A s \in Created : session[s].stale => session[s].ver < user.ver
    /\ \A q \in Request : req[q].at \in {"session", "rotate"} =>
         /\ req[q].ver = session[req[q].token].ver
         /\ session[req[q].token].stale => req[q].ver = 0 /\ user.deleted
    /\ ParentOK
    /\ BarrenStale

LEMMA ParentStep ==
    ASSUME TypeInv, ParentOK, [Next]_vars
    PROVE  ParentOK'
<1> SUFFICES ASSUME NEW s \in SessionId
             PROVE  IF s \in Created'
                    THEN session'[s].parent = 0 \/ session'[s].parent \in Created'
                    ELSE session'[s].parent = 0
  BY DEF ParentOK
<1>1. Created \subseteq Created'  BY RowStep
<1>2. CASE s \in Created  BY <1>1, <1>2, RowStep DEF ParentOK
<1>3. CASE s \notin Created /\ s \notin Created'
  BY <1>3, RowStep DEF ParentOK
<1>4. CASE s \in Created' \ Created
  <2>1. PICK q \in Request : \/ session'[s] = NewRow(q, 0)
                             \/ /\ req[q].at = "rotate"
                                /\ session'[s] = NewRow(q, req[q].token)
    BY <1>4, RowStep
  <2>2. req[q].at = "rotate" => req[q].token \in Created  BY DEF TypeInv, RequestOK
  <2>3. QED  BY <1>1, <1>4, <2>1, <2>2 DEF NewRow
<1>5. QED  BY <1>2, <1>3, <1>4

LEMMA InitBarren == Init => BarrenInv
<1> SUFFICES ASSUME Init PROVE BarrenInv  OBVIOUS
<1>1. Created = {}  BY DEF Init, Created, NoSession
<1>2. \A s \in SessionId : session[s].parent = 0  BY DEF Init, NoSession
<1>3. \A q \in Request : req[q].ver <= user.ver /\ req[q].at = "idle"  BY DEF Init, Idle
<1>4. QED  BY <1>1, <1>2, <1>3 DEF BarrenInv, ParentOK, BarrenStale

LEMMA StepBarren ==
    ASSUME TypeInv, BarrenInv, [Next]_vars
    PROVE  BarrenInv'
<1>0. /\ user.ver \in Nat /\ user'.ver \in Nat /\ user.ver <= user'.ver
      /\ CurrentVersion \in {0, user.ver} /\ (user.deleted => user'.deleted)
  <2>1. user.ver \in Nat  BY DEF TypeInv, TypeOK, Version
  <2>2. QED  BY <2>1, RowStep DEF CurrentVersion
<1>1. \A q \in Request : req'[q].ver <= user'.ver
  <2> TAKE q \in Request
  <2>1. req[q].ver \in Nat /\ req[q].ver <= user.ver
    BY DEF BarrenInv, TypeInv, TypeOK, RequestState, Version
  <2>2. req'[q].ver \in {req[q].ver, user.ver, CurrentVersion, 0}
    BY RequestStep DEF TypeInv
  <2>3. QED  BY <1>0, <2>1, <2>2
<1>2. \A s \in Created' : session'[s].stale => session'[s].ver < user'.ver
  <2> SUFFICES ASSUME NEW s \in Created', session'[s].stale
               PROVE  session'[s].ver < user'.ver
    OBVIOUS
  <2>1. CASE s \in Created
    <3>1. session[s].ver < user.ver /\ session[s].ver \in Nat
      BY <2>1, RowStep DEF BarrenInv, TypeInv, TypeOK, SessionRow, Version, Created
    <3>2. QED  BY <1>0, <2>1, <3>1, RowStep
  <2>2. CASE s \notin Created
    <3>0. PICK q \in Request : \E p : session'[s] = NewRow(q, p) /\ user' = user
      BY <2>2, RowStep
    <3>1. PICK p : session'[s] = NewRow(q, p) /\ user' = user
      BY <3>0
    <3>2. session'[s].ver = req[q].ver /\ req[q].ver # user.ver
      <4>1. session'[s].ver = req[q].ver  BY <3>1 DEF NewRow
      <4>2. NewRow(q, p).stale = (req[q].ver # user.ver)  BY DEF NewRow
      <4>3. session'[s].stale = (req[q].ver # user.ver)  BY <3>1, <4>2, Zenon
      <4>4. QED  BY <4>1, <4>3, Zenon
    <3>3. req[q].ver \in Nat /\ req[q].ver <= user.ver
      BY DEF BarrenInv, TypeInv, TypeOK, RequestState, Version
    <3>4. QED  BY <1>0, <3>1, <3>2, <3>3
  <2>3. QED  BY <2>1, <2>2
<1>3. ASSUME NEW q \in Request, req'[q].at \in {"session", "rotate"}
      PROVE  /\ req'[q].ver = session'[req'[q].token].ver
             /\ session'[req'[q].token].stale => req'[q].ver = 0 /\ user'.deleted
  <2>1. /\ req'[q].token \in Created
        /\ req'[q].ver = session[req'[q].token].ver
        /\ session[req'[q].token].stale => req'[q].ver = 0 /\ user.deleted
    <3>1. CASE req[q].at \in {"session", "rotate"} /\ req'[q].token = req[q].token
               /\ req'[q].ver = req[q].ver
      BY <3>1 DEF BarrenInv, TypeInv, RequestOK
    <3>2. CASE /\ req'[q].token \in Created
               /\ req'[q].ver = session[req'[q].token].ver
               /\ req'[q].ver = CurrentVersion
      <4> DEFINE t == req'[q].token
      <4>1. session[t].ver \in Nat /\ (session[t].stale => session[t].ver < user.ver)
        <5>1. session[t] \in SessionRow  BY <3>2 DEF TypeInv, TypeOK, Created
        <5>2. session[t].ver \in Nat  BY <5>1 DEF SessionRow, Version
        <5>3. QED  BY <3>2, <5>2, Zenon DEF BarrenInv
      <4>2. session[t].stale => user.deleted /\ CurrentVersion = 0
        BY <1>0, <3>2, <4>1 DEF CurrentVersion
      <4>3. QED  BY <3>2, <4>2
    <3>3. QED  BY <1>3, <3>1, <3>2, RequestStep DEF TypeInv
  <2>2. QED  BY <1>0, <2>1, RowStep
<1>4. ParentOK'  BY ParentStep DEF BarrenInv
<1>5. BarrenStale'
  <2> SUFFICES ASSUME NEW c \in Created', session'[c].parent # 0,
                      session'[session'[c].parent].stale
               PROVE  session'[session'[c].parent].ver = 0 /\ user'.deleted
    BY DEF BarrenStale
  <2> DEFINE p == session'[c].parent
  <2>1. CASE c \in Created
    <3>1. p = session[c].parent /\ p \in Created
      BY <2>1, RowStep DEF BarrenInv, ParentOK, Created
    <3>2. session[p].stale  BY <3>1, RowStep
    <3>3. session[p].ver = 0 /\ user.deleted
      BY <2>1, <3>1, <3>2 DEF BarrenInv, BarrenStale
    <3>4. QED  BY <1>0, <3>1, <3>3, RowStep
  <2>2. CASE c \notin Created
    <3>1. PICK q \in Request : \/ session'[c] = NewRow(q, 0)
                               \/ /\ req[q].at = "rotate"
                                  /\ session'[c] = NewRow(q, req[q].token)
      BY <2>2, RowStep
    <3>2. req[q].at = "rotate" /\ p = req[q].token  BY <3>1 DEF NewRow
    <3>3. p \in Created  BY <3>2 DEF TypeInv, RequestOK
    <3>4. session[p].stale  BY <3>3, RowStep
    <3>5. session[p].ver = 0 /\ user.deleted  BY <3>2, <3>4 DEF BarrenInv
    <3>6. QED  BY <1>0, <3>3, <3>5, RowStep
  <2>3. QED  BY <2>1, <2>2
<1>6. QED  BY <1>1, <1>2, <1>3, <1>4, <1>5 DEF BarrenInv

\* A session of an old security version is never rotated, unless its user is
\* deleted and the version is 0 (RefreshService.refresh).
THEOREM StaleIsBarren == Spec => []BarrenStale
<1>1. Init => TypeInv /\ BarrenInv  BY InitType, InitBarren
<1>2. (TypeInv /\ BarrenInv) /\ [Next]_vars => (TypeInv /\ BarrenInv)'
  BY StepType, StepBarren
<1>3. TypeInv /\ BarrenInv => BarrenStale  BY DEF BarrenInv
<1>4. QED  BY <1>1, <1>2, <1>3, PTL DEF Spec

-----------------------------------------------------------------------------
(* Rotations. A session that is still valid, or not yet issued, has not    *)
(* been rotated.                                                           *)

RotationInv ==
    /\ ParentOK
    /\ \A s \in Valid : Children(s) = {}
    /\ RotationBounded

LEMMA Counting ==
    ASSUME NEW s
    PROVE  /\ IsFiniteSet(Request) /\ IsFiniteSet(Children(s)) /\ IsFiniteSet(Rotating(s))
           /\ Cardinality(Children(s)) \in Nat /\ Cardinality(Rotating(s)) \in Nat
           /\ Cardinality(Request) \in Nat
           /\ Cardinality(Rotating(s)) <= Cardinality(Request)
<1>1. IsFiniteSet(Request)  BY SessionsAssumption
<1>2. Rotating(s) \subseteq Request  BY DEF Rotating
<1>3. IsFiniteSet(SessionId)
  <2>1. 1 \in Int /\ MaxSessions \in Int  BY SessionsAssumption
  <2>2. QED  BY <2>1, FS_Interval DEF SessionId
<1>4. Children(s) \subseteq SessionId  BY DEF Children
<1>5. IsFiniteSet(Children(s)) /\ IsFiniteSet(Rotating(s))
  BY <1>1, <1>2, <1>3, <1>4, FS_Subset
<1>6. QED  BY <1>1, <1>2, <1>5, FS_Subset, FS_CardinalityType

LEMMA InitRotation == Init => RotationInv
<1> SUFFICES ASSUME Init PROVE RotationInv  OBVIOUS
<1>1. ParentOK  BY InitBarren DEF BarrenInv
<1>2. Valid = {}  BY DEF Init, Valid, NoSession
<1>3. RotationBounded
  <2> SUFFICES ASSUME NEW s \in SessionId
               PROVE  Cardinality(Children(s)) + Cardinality(Rotating(s)) <= Cardinality(Request)
    BY DEF RotationBounded
  <2>1. Children(s) = {}  BY DEF Init, Children, NoSession, SessionId
  <2>2. Cardinality(Children(s)) = 0  BY <2>1, FS_EmptySet
  <2>3. QED  BY <2>2, Counting
<1>4. QED  BY <1>1, <1>2, <1>3 DEF RotationInv

LEMMA StepRotation ==
    ASSUME TypeInv, RotationInv, [Next]_vars
    PROVE  RotationInv'
<1>1. ParentOK'  BY ParentStep DEF RotationInv
<1>2. /\ \A s \in Created' : s \in SessionId
      /\ \A s \in Valid : s \in Created
      /\ \A s \in Created : s \in SessionId
  BY DEF Created, Valid
\* Either no session was rotated from s, or one was, by a request that is no
\* longer about to and that has revoked s.
<1>3. ASSUME NEW s \in SessionId
      PROVE  \/ Children(s)' = Children(s)
             \/ \E q \in Rotating(s), c \in SessionId :
                  /\ c \notin Children(s) /\ Children(s)' = Children(s) \cup {c}
                  /\ Rotating(s)' = Rotating(s) \ {q}
                  /\ s \notin Valid'
  <2>1. CASE Created' \subseteq Created
    <3>1. \A r \in SessionId : session'[r].parent = session[r].parent
      BY <2>1, RowStep
    <3>2. QED  BY <3>1 DEF Children
  <2>2. CASE ~(Created' \subseteq Created)
    <3>1. PICK c \in Created' \ Created : TRUE  BY <2>2
    <3>2. PICK q \in Request :
            /\ \A r \in SessionId \ {c} : session'[r].parent = session[r].parent
            /\ \/ /\ req[q].at = "issue"
                  /\ session'[c] = NewRow(q, 0)
               \/ /\ req[q].at = "rotate" /\ req'[q].at = "allow"
                  /\ \A r \in Request \ {q} : req'[r] = req[r]
                  /\ session'[c] = NewRow(q, req[q].token)
                  /\ req[q].token \notin Valid'
      BY RowStep
    <3>3. c \in SessionId /\ session[c].parent = 0 /\ 0 \notin SessionId
      BY <1>2 DEF RotationInv, ParentOK, SessionId
    <3>4. CASE session'[c].parent = 0
      <4>1. \A r \in SessionId : session'[r].parent = session[r].parent
        BY <3>2, <3>3, <3>4
      <4>2. QED  BY <4>1 DEF Children
    <3>5. CASE session'[c].parent # 0
      <4>1. /\ req[q].at = "rotate" /\ req'[q].at = "allow"
            /\ \A r \in Request \ {q} : req'[r] = req[r]
            /\ session'[c].parent = req[q].token
            /\ req[q].token \notin Valid'
        BY <3>2, <3>5 DEF NewRow
      <4>2. CASE req[q].token # s
        <5>1. \A r \in SessionId : session'[r].parent = s <=> session[r].parent = s
          BY <3>2, <3>3, <4>1, <4>2
        <5>2. QED  BY <5>1 DEF Children
      <4>3. CASE req[q].token = s
        <5>1. Children(s)' = Children(s) \cup {c} /\ c \notin Children(s)
          BY <3>2, <3>3, <4>1, <4>3 DEF Children
        <5>2. q \in Rotating(s) /\ Rotating(s)' = Rotating(s) \ {q}
          BY <4>1, <4>3 DEF Rotating
        <5>3. QED  BY <3>3, <4>1, <4>3, <5>1, <5>2
      <4>4. QED  BY <4>2, <4>3
    <3>6. QED  BY <3>4, <3>5
  <2>3. QED  BY <2>1, <2>2
<1>4. ASSUME NEW s \in Valid'  PROVE Children(s)' = {}
  <2>1. s \in Created' /\ s \in SessionId  BY DEF Valid, Created
  <2>2. Children(s) = {}
    <3>1. CASE s \in Created
      BY <3>1, RowStep DEF RotationInv
    <3>2. CASE s \notin Created
      BY <2>1, <3>2 DEF RotationInv, ParentOK, Children, SessionId
    <3>3. QED  BY <3>1, <3>2
  <2>3. QED  BY <1>3, <1>4, <2>1, <2>2
<1>5. ASSUME NEW s \in SessionId
      PROVE  Cardinality(Children(s)') + Cardinality(Rotating(s)') <= Cardinality(Request)
  <2>0. /\ IsFiniteSet(Children(s)) /\ IsFiniteSet(Rotating(s))
        /\ Cardinality(Children(s)) \in Nat /\ Cardinality(Rotating(s)) \in Nat
        /\ Cardinality(Request) \in Nat
        /\ Cardinality(Rotating(s)') \in Nat
        /\ Cardinality(Rotating(s)') <= Cardinality(Request)
    <3>1. IsFiniteSet(Request) /\ Rotating(s)' \subseteq Request
      BY SessionsAssumption DEF Rotating
    <3>2. QED  BY <3>1, Counting, FS_Subset, FS_CardinalityType
  <2>1. Cardinality(Children(s)) + Cardinality(Rotating(s)) <= Cardinality(Request)
    BY DEF RotationInv, RotationBounded
  <2>2. CASE Children(s)' = Children(s) /\ Children(s) = {}
    <3>1. Cardinality(Children(s)') = 0  BY <2>2, FS_EmptySet
    <3>2. QED  BY <2>0, <3>1
  <2>3. CASE Children(s)' = Children(s) /\ Children(s) # {}
    <3>1. s \notin Valid  BY <2>3 DEF RotationInv
    <3>2. Rotating(s)' \subseteq Rotating(s)
      <4>1. ASSUME NEW q \in Request, req'[q].at = "rotate", req'[q].token = s
            PROVE  req[q].at = "rotate" /\ req[q].token = s
        BY <3>1, <4>1, RequestStep DEF TypeInv
      <4>2. QED  BY <4>1 DEF Rotating
    <3>3. Cardinality(Rotating(s)') <= Cardinality(Rotating(s))
      BY <2>0, <3>2, FS_Subset
    <3>4. QED  BY <2>0, <2>1, <2>3, <3>3
  <2>4. ASSUME NEW q \in Rotating(s), NEW c \in SessionId, c \notin Children(s),
               Children(s)' = Children(s) \cup {c}, Rotating(s)' = Rotating(s) \ {q}
        PROVE  Cardinality(Children(s)') + Cardinality(Rotating(s)') <= Cardinality(Request)
    <3>1. Cardinality(Children(s)') = Cardinality(Children(s)) + 1
      BY <2>0, <2>4, FS_AddElement
    <3>2. Cardinality(Rotating(s)') = Cardinality(Rotating(s)) - 1
      BY <2>0, <2>4, FS_RemoveElement
    <3>3. QED  BY <2>0, <2>1, <3>1, <3>2
  <2>5. QED  BY <1>3, <2>2, <2>3, <2>4
<1>6. RotationBounded'  BY <1>5 DEF RotationBounded
<1>7. QED  BY <1>1, <1>4, <1>6 DEF RotationInv

\* However many requests carry the same refresh token at once, the sessions
\* rotated from it and the requests about to are never more than the requests
\* (RefreshService.refresh, SessionRepository.update).
THEOREM RotationIsBounded == Spec => []RotationBounded
<1>1. Init => TypeInv /\ RotationInv  BY InitType, InitRotation
<1>2. (TypeInv /\ RotationInv) /\ [Next]_vars => (TypeInv /\ RotationInv)'
  BY StepType, StepRotation
<1>3. TypeInv /\ RotationInv => RotationBounded  BY DEF RotationInv
<1>4. QED  BY <1>1, <1>2, <1>3, PTL DEF Spec

-----------------------------------------------------------------------------
(* Pending logins. PendingBounded is not inductive: a second step may come *)
(* to a pending login as long as that is open, so it needs that a pending  *)
(* login a session came from is gone, and stays gone; and that only the    *)
(* requests of a second step carry a pending login.                        *)

PendPlaces ==
    \A q \in Request : req[q].at \notin {"consume", "issue"} => req[q].pend = 0

PendInv ==
    /\ \A s \in SessionId \ Created : session[s].pend = 0
    /\ PendPlaces
    /\ \A p \in PendingId : LoggedInBy(p) # {} => pending[p] = "gone"
    /\ PendingBounded

LEMMA PendCounting ==
    ASSUME NEW p
    PROVE  /\ IsFiniteSet(Request) /\ IsFiniteSet(LoggedInBy(p)) /\ IsFiniteSet(SecondStep(p))
           /\ Cardinality(LoggedInBy(p)) \in Nat /\ Cardinality(SecondStep(p)) \in Nat
           /\ Cardinality(Request) \in Nat
           /\ Cardinality(SecondStep(p)) <= Cardinality(Request)
<1>1. IsFiniteSet(Request)  BY SessionsAssumption
<1>2. SecondStep(p) \subseteq Request  BY DEF SecondStep
<1>3. IsFiniteSet(SessionId)
  <2>1. 1 \in Int /\ MaxSessions \in Int  BY SessionsAssumption
  <2>2. QED  BY <2>1, FS_Interval DEF SessionId
<1>4. LoggedInBy(p) \subseteq SessionId  BY DEF LoggedInBy
<1>5. IsFiniteSet(LoggedInBy(p)) /\ IsFiniteSet(SecondStep(p))
  BY <1>1, <1>2, <1>3, <1>4, FS_Subset
<1>6. QED  BY <1>1, <1>2, <1>5, FS_Subset, FS_CardinalityType

LEMMA InitPend == Init => PendInv
<1> SUFFICES ASSUME Init PROVE PendInv  OBVIOUS
<1>1. \A s \in SessionId : session[s].pend = 0  BY DEF Init, NoSession
<1>2. PendPlaces  BY DEF Init, PendPlaces, Idle
<1>3. \A p \in PendingId : LoggedInBy(p) = {}  BY <1>1 DEF LoggedInBy, PendingId
<1>4. PendingBounded
  <2> SUFFICES ASSUME NEW p \in PendingId
               PROVE  Cardinality(LoggedInBy(p)) + Cardinality(SecondStep(p))
                        <= Cardinality(Request)
    BY DEF PendingBounded
  <2>1. Cardinality(LoggedInBy(p)) = 0  BY <1>3, FS_EmptySet
  <2>2. QED  BY <2>1, PendCounting
<1>5. QED  BY <1>1, <1>2, <1>3, <1>4 DEF PendInv

\* A request comes to a second step only through a pending login that is open;
\* one that is gone stays gone.
LEMMA SecondStepStep ==
    ASSUME TypeOK, PendPlaces, [Next]_vars
    PROVE  /\ \A p \in PendingId : pending[p] = "gone" => pending'[p] = "gone"
           /\ \A r \in Request :
                /\ req'[r].at \notin {"consume", "issue"} => req'[r].pend = 0
                /\ req'[r].at \in {"consume", "issue"} /\ req'[r].pend \in PendingId =>
                     \/ req[r].at \in {"consume", "issue"} /\ req[r].pend = req'[r].pend
                     \/ pending[req'[r].pend] = "open"
<1> DEFINE Kept == \A p \in PendingId : pending[p] = "gone" => pending'[p] = "gone"
           Goal == \A r \in Request :
                /\ req'[r].at \notin {"consume", "issue"} => req'[r].pend = 0
                /\ req'[r].at \in {"consume", "issue"} /\ req'[r].pend \in PendingId =>
                     \/ req[r].at \in {"consume", "issue"} /\ req[r].pend = req'[r].pend
                     \/ pending[req'[r].pend] = "open"
<1> USE DEF TypeOK, RequestState, PendPlaces
<1>0. 0 \notin PendingId  BY DEF PendingId
<1>1. ASSUME NEW q \in Request, NEW s \in SessionId, BeginRefresh(q, s)  PROVE Kept /\ Goal
  BY <1>1 DEF BeginRefresh, Idle, challenge
<1>2. ASSUME NEW q \in Request, NEW s \in SessionId, CommitLogout(q, s) \/ BeginCall(q, s)
      PROVE Kept /\ Goal
  <2>1. CASE CommitLogout(q, s)  BY <2>1 DEF CommitLogout, Goto, challenge
  <2>2. CASE BeginCall(q, s)  BY <2>2 DEF BeginCall, Idle, challenge
  <2>3. QED  BY <1>2, <2>1, <2>2
<1>3. ASSUME NEW q \in Request, BeginLogin(q)  PROVE Kept /\ Goal
  BY <1>0, <1>3 DEF BeginLogin, Idle, challenge
<1>4. ASSUME NEW q \in Request, NEW p \in PendingId, Challenge(q, p)  PROVE Kept /\ Goal
  BY <1>4 DEF Challenge
<1>5. ASSUME NEW q \in Request, NEW p \in PendingId, NEW k \in PendingId, Verify(q, p, k)
      PROVE Kept /\ Goal
  BY <1>5 DEF Verify, Idle, challenge
<1>6. ASSUME NEW q \in Request, BeginRevocation(q) \/ BeginDelete(q) \/ ChangeAddress(q)
      PROVE Kept /\ Goal
  <2>1. CASE BeginRevocation(q)  BY <2>1 DEF BeginRevocation, challenge
  <2>2. CASE BeginDelete(q)  BY <2>2 DEF BeginDelete, challenge
  <2>3. CASE ChangeAddress(q)  BY <2>3 DEF ChangeAddress, Goto, challenge
  <2>4. QED  BY <1>6, <2>1, <2>2, <2>3
<1>7. ASSUME NEW q \in Request, ReadSession(q)  PROVE Kept /\ Goal
  BY <1>7 DEF ReadSession, Goto, Done, Idle, challenge
<1>8. ASSUME NEW q \in Request, CommitAlarm(q) \/ Allow(q) \/ Clear(q) \/ SetFlag(q)
                                  \/ StoreUser(q) \/ Dies(q)
      PROVE Kept /\ Goal
  BY <1>8 DEF CommitAlarm, Allow, Clear, SetFlag, StoreUser, Dies, Done, Idle, challenge
<1>9. ASSUME NEW q \in Request, CommitDelete(q)  PROVE Kept /\ Goal
  BY <1>9 DEF CommitDelete, Done, Idle
<1>10. ASSUME NEW q \in Request, CommitRotation(q)  PROVE Kept /\ Goal
  BY <1>10 DEF CommitRotation, Issue, Idle, challenge
<1>11. ASSUME NEW q \in Request, CommitLogin(q)  PROVE Kept /\ Goal
  BY <1>11 DEF CommitLogin, Spend, Issue, Idle
<1>12. ASSUME NEW q \in Request, Consume(q)  PROVE Kept /\ Goal
  BY <1>12 DEF Consume, Spend, Done, Idle, challenge
<1>13. ASSUME NEW q \in Request, CommitRevocation(q)  PROVE Kept /\ Goal
  BY <1>13 DEF CommitRevocation, Idle, challenge
<1>14. ASSUME NEW q \in Request, InvalidateCache(q) \/ Unallow(q)  PROVE Kept /\ Goal
  BY <1>14 DEF InvalidateCache, Unallow, Goto, challenge
<1>15. ASSUME NEW q \in Request, LoadUser(q)  PROVE Kept /\ Goal
  <2>1. CASE req' = [req EXCEPT ![q].at = "store", ![q].ver = user.ver]
    BY <1>15, <2>1 DEF LoadUser, challenge
  <2>2. CASE Done(q)  BY <1>15, <2>2 DEF LoadUser, Done, Idle, challenge
  <2>3. QED  BY <1>15, <2>1, <2>2 DEF LoadUser
<1>16. ASSUME UNCHANGED <<req, pending>>  PROVE Kept /\ Goal  BY <1>16
<1> HIDE DEF Goal, Kept
<1>17. (ExpireCache \/ ExpireAllowed \/ ExpireFlag \/ StoreFails \/ StoreRecovers
         \/ UNCHANGED vars) => UNCHANGED <<req, pending>>
  BY DEF ExpireCache, ExpireAllowed, ExpireFlag, StoreFails, StoreRecovers, vars, challenge
<1>18. ASSUME NEW q \in Request, Begin(q)  PROVE Kept /\ Goal
  BY <1>1, <1>2, <1>3, <1>4, <1>5, <1>6, <1>18, Zenon DEF Begin
<1>19. ASSUME NEW q \in Request, Continue(q)  PROVE Kept /\ Goal
  BY <1>7, <1>8, <1>9, <1>10, <1>11, <1>12, <1>13, <1>14, <1>15, <1>19, Zenon DEF Continue
<1>20. Kept /\ Goal
  <2>1. CASE UNCHANGED vars  BY <1>16, <1>17, <2>1
  <2>2. CASE Next  BY <1>8, <1>16, <1>17, <1>18, <1>19, <2>2 DEF Next
  <2>3. QED  BY <2>1, <2>2
<1>21. QED  BY <1>20 DEF Kept, Goal

\* A session's pending login is the one its request carried, and does not change.
LEMMA PendRowStep ==
    ASSUME TypeInv, PendInv, [Next]_vars
    PROVE  \/ /\ \A s \in SessionId : session'[s].pend = session[s].pend
              /\ \A s \in SessionId \ Created' : s \notin Created
           \/ \E q \in Request, c \in SessionId :
                /\ session[c].pend = 0 /\ session'[c].pend = req[q].pend
                /\ c \in Created'
                /\ \A s \in SessionId \ {c} : session'[s].pend = session[s].pend
                /\ \A s \in SessionId \ Created' : s \notin Created
                /\ req'[q].at = "allow"
                /\ \A r \in Request \ {q} : req'[r] = req[r]
                /\ req[q].pend \in PendingId =>
                     req[q].at = "issue" /\ pending'[req[q].pend] = "gone"
<1> USE DEF TypeInv
<1>1. CASE Revokes
  <2>1. PICK S \in SUBSET Created : session' = Revoke(S)  BY <1>1 DEF Revokes
  <2>2. \A s \in SessionId : /\ session'[s].pend = session[s].pend
                             /\ session'[s].state = IF s \in S THEN "revoked"
                                                    ELSE session[s].state
    BY <2>1, RevokeType
  <2>3. QED  BY <2>2 DEF Created
<1>2. CASE Commits
  <2>1. PICK q \in Request : CommitLogin(q) \/ CommitRotation(q)  BY <1>2 DEF Commits
  <2>2. PICK S \in SUBSET Created, parent \in 0 .. MaxSessions : Issue(q, S, parent)
    <3>1. 0 \in 0 .. MaxSessions /\ req[q].token \in 0 .. MaxSessions
      BY SessionsAssumption DEF TypeOK, RequestState
    <3>2. req[q].seen \subseteq Created  BY DEF RequestOK
    <3>3. CASE CommitLogin(q)  BY <3>1, <3>2, <3>3 DEF CommitLogin
    <3>4. CASE CommitRotation(q)
      <4>1. {req[q].token} \subseteq Created  BY <3>4 DEF CommitRotation, RequestOK
      <4>2. QED  BY <3>1, <3>4, <4>1 DEF CommitRotation
    <3>5. QED  BY <2>1, <3>3, <3>4
  <2>3. /\ issued + 1 \in SessionId
        /\ session'[issued + 1] = NewRow(q, parent)
        /\ \A s \in SessionId \ {issued + 1} : session'[s] = Revoke(S)[s]
    BY <2>2, IssueType
  <2>4. session'[issued + 1].state = "valid" /\ session'[issued + 1].pend = req[q].pend
    BY <2>3 DEF NewRow
  <2>5. session[issued + 1].pend = 0 /\ issued + 1 \notin Created
    <3>1. session[issued + 1].state = "none"  BY <2>3 DEF AllocOK, TypeOK
    <3>2. QED  BY <2>3, <3>1 DEF Created, PendInv
  <2>6. \A s \in SessionId \ {issued + 1} :
          /\ session'[s].pend = session[s].pend
          /\ session'[s].state = IF s \in S THEN "revoked" ELSE session[s].state
    BY <2>3, RevokeType
  <2>7. /\ issued + 1 \in Created'
        /\ \A s \in SessionId \ Created' : s \notin Created
    BY <2>3, <2>4, <2>6 DEF Created
  <2>8. /\ req'[q].at = "allow"
        /\ \A r \in Request \ {q} : req'[r] = req[r]
    BY <2>2 DEF Issue, Idle, TypeOK
  <2>9. req[q].pend \in PendingId => req[q].at = "issue" /\ pending'[req[q].pend] = "gone"
    <3>1. CASE CommitLogin(q)  BY <3>1 DEF CommitLogin, Spend
    <3>2. CASE CommitRotation(q)
      <4>1. req[q].pend = 0  BY <3>2 DEF CommitRotation, PendInv, PendPlaces
      <4>2. QED  BY <4>1 DEF PendingId
    <3>3. QED  BY <2>1, <3>1, <3>2
  <2>10. QED  BY <2>3, <2>4, <2>5, <2>6, <2>7, <2>8, <2>9
<1>3. QED  BY <1>1, <1>2, SessionStep

LEMMA StepPend ==
    ASSUME TypeInv, PendInv, [Next]_vars
    PROVE  PendInv'
<1>0. TypeOK /\ PendPlaces  BY DEF TypeInv, PendInv
<1>1. PendPlaces'
  <2>1. \A r \in Request : req'[r].at \notin {"consume", "issue"} => req'[r].pend = 0
    BY <1>0, SecondStepStep
  <2>2. QED  BY <2>1 DEF PendPlaces
<1>2. \A s \in SessionId \ Created' : session'[s].pend = 0
  BY PendRowStep DEF PendInv
\* Either no session came of p, or one did, by a request whose second step is
\* through.
<1>3. ASSUME NEW p \in PendingId
      PROVE  \/ LoggedInBy(p)' = LoggedInBy(p)
             \/ \E q \in SecondStep(p), c \in SessionId :
                  /\ c \notin LoggedInBy(p) /\ LoggedInBy(p)' = LoggedInBy(p) \cup {c}
                  /\ SecondStep(p)' = SecondStep(p) \ {q}
                  /\ pending'[p] = "gone"
  <2>1. CASE \A s \in SessionId : session'[s].pend = session[s].pend
    BY <2>1 DEF LoggedInBy
  <2>2. ASSUME NEW q \in Request, NEW c \in SessionId,
               session[c].pend = 0, session'[c].pend = req[q].pend,
               \A s \in SessionId \ {c} : session'[s].pend = session[s].pend,
               req'[q].at = "allow",
               \A r \in Request \ {q} : req'[r] = req[r],
               req[q].pend \in PendingId => req[q].at = "issue" /\ pending'[req[q].pend] = "gone"
        PROVE  \/ LoggedInBy(p)' = LoggedInBy(p)
               \/ \E x \in SecondStep(p), d \in SessionId :
                    /\ d \notin LoggedInBy(p) /\ LoggedInBy(p)' = LoggedInBy(p) \cup {d}
                    /\ SecondStep(p)' = SecondStep(p) \ {x}
                    /\ pending'[p] = "gone"
    <3>0. p # 0  BY DEF PendingId
    <3>1. CASE req[q].pend # p
      <4>1. \A s \in SessionId : session'[s].pend = p <=> session[s].pend = p
        BY <2>2, <3>0, <3>1
      <4>2. QED  BY <4>1 DEF LoggedInBy
    <3>2. CASE req[q].pend = p
      <4>1. c \notin LoggedInBy(p) /\ LoggedInBy(p)' = LoggedInBy(p) \cup {c}
        BY <2>2, <3>0, <3>2 DEF LoggedInBy
      <4>2. q \in SecondStep(p) /\ SecondStep(p)' = SecondStep(p) \ {q}
        BY <2>2, <3>2 DEF SecondStep
      <4>3. QED  BY <2>2, <3>2, <4>1, <4>2
    <3>3. QED  BY <3>1, <3>2
  <2>3. QED  BY <2>1, <2>2, PendRowStep
<1>4. ASSUME NEW p \in PendingId, LoggedInBy(p)' # {}  PROVE pending'[p] = "gone"
  <2>1. pending[p] = "gone" => pending'[p] = "gone"  BY <1>0, SecondStepStep
  <2>2. CASE LoggedInBy(p)' = LoggedInBy(p)  BY <1>4, <2>1, <2>2 DEF PendInv
  <2>3. QED  BY <1>3, <2>2
<1>5. ASSUME NEW p \in PendingId
      PROVE  Cardinality(LoggedInBy(p)') + Cardinality(SecondStep(p)') <= Cardinality(Request)
  <2>0. /\ IsFiniteSet(LoggedInBy(p)) /\ IsFiniteSet(SecondStep(p))
        /\ Cardinality(LoggedInBy(p)) \in Nat /\ Cardinality(SecondStep(p)) \in Nat
        /\ Cardinality(Request) \in Nat
        /\ Cardinality(SecondStep(p)') \in Nat
        /\ Cardinality(SecondStep(p)') <= Cardinality(Request)
    <3>1. IsFiniteSet(Request) /\ SecondStep(p)' \subseteq Request
      BY SessionsAssumption DEF SecondStep
    <3>2. QED  BY <3>1, PendCounting, FS_Subset, FS_CardinalityType
  <2>1. Cardinality(LoggedInBy(p)) + Cardinality(SecondStep(p)) <= Cardinality(Request)
    BY DEF PendInv, PendingBounded
  <2>2. CASE LoggedInBy(p)' = LoggedInBy(p) /\ LoggedInBy(p) = {}
    <3>1. Cardinality(LoggedInBy(p)') = 0  BY <2>2, FS_EmptySet
    <3>2. QED  BY <2>0, <3>1
  <2>3. CASE LoggedInBy(p)' = LoggedInBy(p) /\ LoggedInBy(p) # {}
    <3>1. pending[p] = "gone"  BY <2>3 DEF PendInv
    <3>2. SecondStep(p)' \subseteq SecondStep(p)
      <4>1. ASSUME NEW q \in Request, req'[q].at \in {"consume", "issue"}, req'[q].pend = p
            PROVE  req[q].at \in {"consume", "issue"} /\ req[q].pend = p
        BY <1>0, <3>1, <4>1, SecondStepStep
      <4>2. QED  BY <4>1 DEF SecondStep
    <3>3. Cardinality(SecondStep(p)') <= Cardinality(SecondStep(p))
      BY <2>0, <3>2, FS_Subset
    <3>4. QED  BY <2>0, <2>1, <2>3, <3>3
  <2>4. ASSUME NEW q \in SecondStep(p), NEW c \in SessionId, c \notin LoggedInBy(p),
               LoggedInBy(p)' = LoggedInBy(p) \cup {c},
               SecondStep(p)' = SecondStep(p) \ {q}
        PROVE  Cardinality(LoggedInBy(p)') + Cardinality(SecondStep(p)') <= Cardinality(Request)
    <3>1. Cardinality(LoggedInBy(p)') = Cardinality(LoggedInBy(p)) + 1
      BY <2>0, <2>4, FS_AddElement
    <3>2. Cardinality(SecondStep(p)') = Cardinality(SecondStep(p)) - 1
      BY <2>0, <2>4, FS_RemoveElement
    <3>3. QED  BY <2>0, <2>1, <3>1, <3>2
  <2>5. QED  BY <1>3, <2>2, <2>3, <2>4
<1>6. PendingBounded'  BY <1>5 DEF PendingBounded
<1>7. QED  BY <1>1, <1>2, <1>4, <1>6 DEF PendInv

\* However many requests bring the same pending login to its second step at
\* once, the sessions that come of it and the requests still in that step are
\* never more than the requests (login_step2, which consumes the pending login
\* without looking at how many rows it changed).
THEOREM PendingIsBounded == Spec => []PendingBounded
<1>1. Init => TypeInv /\ PendInv  BY InitType, InitPend
<1>2. (TypeInv /\ PendInv) /\ [Next]_vars => (TypeInv /\ PendInv)'
  BY StepType, StepPend
<1>3. TypeInv /\ PendInv => PendingBounded  BY DEF PendInv
<1>4. QED  BY <1>1, <1>2, <1>3, PTL DEF Spec
=============================================================================
