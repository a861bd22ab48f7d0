------------------------- MODULE CancellationProofs -------------------------
(***************************************************************************)
(* Safety of the end of a tenant, for any number of handlers, requests and *)
(* crashes and any length of the notice and of the days of grace.          *)
(***************************************************************************)
EXTENDS Cancellation, TLAPS

-----------------------------------------------------------------------------
(* The inductive invariant. A handler works on rows as it read them, with  *)
(* any number of other steps in between; what it has read of the dates     *)
(* stays true, since a date that has come stays in the past.               *)

\* Rows are filed one after the other.
FiledOK ==
    \A r \in RequestId :
        r > filed => request[r].state = "none" /\ request[r].off = Never

\* The days until the deactivation are over, or the owner gave the access up.
Over(r) == request[r].given \/ request[r].left = 0

\* A tenant is not deactivated before.
OffOK == \A r \in RequestId : request[r].off # Never => Over(r)

\* Nor is it about to be: the requests at which a handler will disable the tenant
\* or mark the row, and those at which it will drop the schema.
HandlerOK(p) ==
    /\ \A r \in proc[p].disable \cup proc[p].erase : r <= filed
    /\ \A r \in proc[p].disable : Over(r)
    /\ \A r \in proc[p].erase : request[r].off = Grace
    /\ proc[p].at \in {"disable", "mark", "drop"} =>
         proc[p].id \in RequestId /\ proc[p].id <= filed
    /\ proc[p].at \in {"disable", "mark"} => Over(proc[p].id)
    /\ proc[p].at = "drop" => request[proc[p].id].off = Grace

HandlersOK == \A p \in Process : HandlerOK(p)

CancellationInv == TypeOK /\ FiledOK /\ OffOK /\ HandlersOK /\ DeletionIsDue

-----------------------------------------------------------------------------
(* Steps by the part of the state they change.                             *)

LEMMA IdleType == Idle \in Handler
  BY CancellationAssumption DEF Idle, Handler, Place

\* No row goes back: what is over or at the end of its days of grace stays so.
RowsGoOn ==
    \A r \in RequestId : r <= filed =>
        /\ Over(r) => Over(r)'
        /\ request[r].off = Grace => request'[r].off = Grace

\* A handler that has nothing new in hand.
LEMMA HandlerStays ==
    ASSUME TypeOK, NEW p \in Process, HandlerOK(p), RowsGoOn, filed' \in Nat, filed <= filed',
           NEW h \in Handler, proc'[p] = h,
           h.disable \subseteq proc[p].disable, h.erase \subseteq proc[p].erase,
           h.at \in {"disable", "mark"} => proc[p].at \in {"disable", "mark"},
           h.at = "drop" => proc[p].at = "drop",
           h.at \in {"disable", "mark", "drop"} => h.id = proc[p].id
    PROVE  HandlerOK(p)'
<1>1. /\ filed \in Nat /\ filed' \in Nat /\ filed <= filed'
      /\ h.disable \subseteq RequestId /\ h.erase \subseteq RequestId
      /\ RequestId \subseteq Nat
  BY CancellationAssumption DEF TypeOK, Handler, RequestId
<1>2. \A r \in h.disable \cup h.erase : r <= filed  BY DEF HandlerOK
<1>a. \A r \in Nat : r <= filed => r <= filed'  BY <1>1
<1>3. \A r \in h.disable \cup h.erase : r <= filed'  BY <1>1, <1>2, <1>a, Zenon
<1>4. \A r \in h.disable : Over(r)'  BY <1>1, <1>2 DEF HandlerOK, RowsGoOn
<1>5. \A r \in h.erase : request'[r].off = Grace  BY <1>1, <1>2 DEF HandlerOK, RowsGoOn
<1>6. ASSUME h.at \in {"disable", "mark", "drop"}
      PROVE  /\ h.id \in RequestId /\ h.id <= filed /\ h.id <= filed'
             /\ h.at \in {"disable", "mark"} => Over(h.id)
             /\ h.at = "drop" => request[h.id].off = Grace
  <2>1. h.id = proc[p].id /\ proc[p].at \in {"disable", "mark", "drop"}  BY <1>6
  <2>2. h.id \in RequestId /\ h.id <= filed  BY <2>1 DEF HandlerOK
  <2>3. h.id <= filed'  BY <1>1, <1>a, <2>2, Zenon
  <2>4. h.at \in {"disable", "mark"} => Over(h.id)  BY <2>1 DEF HandlerOK
  <2>5. h.at = "drop" => request[h.id].off = Grace  BY <2>1 DEF HandlerOK
  <2>6. QED  BY <2>2, <2>3, <2>4, <2>5
<1>7. ASSUME h.at \in {"disable", "mark", "drop"}
      PROVE  /\ h.id \in RequestId /\ h.id <= filed'
             /\ h.at \in {"disable", "mark"} => Over(h.id)'
             /\ h.at = "drop" => request'[h.id].off = Grace
  BY <1>6, <1>7 DEF RowsGoOn
<1>8. QED  BY <1>3, <1>4, <1>5, <1>7 DEF HandlerOK, Over

\* A step of one handler.
LEMMA HandlerStep ==
    ASSUME CancellationInv, NEW p \in Process, NEW h \in Handler,
           proc' = [proc EXCEPT ![p] = h],
           tenant' \in {"active", "inactive", "erased"},
           schema' \in {"present", "expired", "purged"},
           request' \in [RequestId -> RequestRow], UNCHANGED filed,
           crashes' \in 0 .. MaxCrashes,
           FiledOK', OffOK', RowsGoOn, HandlerOK(p)',
           schema' = "expired" =>
             \/ schema = "expired"
             \/ \E r \in RequestId : r <= filed /\ request[r].off = Grace
    PROVE  CancellationInv'
<1>0. TypeOK /\ FiledOK /\ OffOK /\ HandlersOK /\ DeletionIsDue  BY DEF CancellationInv
<1>1. /\ proc' \in [Process -> Handler] /\ \A q \in Process \ {p} : proc'[q] = proc[q]
      /\ filed \in Nat /\ RequestId \subseteq Nat
  BY <1>0, CancellationAssumption DEF TypeOK, RequestId
<1>2. TypeOK'  BY <1>0, <1>1 DEF TypeOK
<1>3. HandlersOK'
  <2> SUFFICES ASSUME NEW q \in Process, q # p  PROVE HandlerOK(q)'
    BY DEF HandlersOK
  <2>1. HandlerOK(q) /\ proc'[q] = proc[q] /\ proc[q] \in Handler
    BY <1>0, <1>1 DEF HandlersOK, TypeOK
  <2>2. QED  BY <1>0, <1>1, <2>1, HandlerStays
<1>4. DeletionIsDue'
  <2> SUFFICES ASSUME schema' = "expired"
               PROVE  \E r \in RequestId : request'[r].off = Grace /\ Over(r)'
    BY DEF DeletionIsDue, Over
  <2>1. PICK r \in RequestId : request[r].off = Grace
    BY <1>0 DEF DeletionIsDue
  <2>2. r <= filed /\ Over(r)
    BY <1>0, <1>1, <2>1, CancellationAssumption DEF FiledOK, OffOK
  <2>3. QED  BY <2>1, <2>2 DEF RowsGoOn
<1>5. QED  BY <1>2, <1>3, <1>4 DEF CancellationInv

\* A handler goes on, and no row changes.
LEMMA MoveStep ==
    ASSUME CancellationInv, NEW p \in Process, NEW h \in Handler,
           proc' = [proc EXCEPT ![p] = h],
           tenant' \in {"active", "inactive", "erased"},
           schema' \in {"present", "expired", "purged"},
           UNCHANGED <<request, filed>>, crashes' \in 0 .. MaxCrashes,
           schema' = "expired" => schema = "expired" \/ proc[p].at = "drop",
           \A r \in h.disable \cup h.erase : r <= filed,
           \A r \in h.disable : Over(r),
           \A r \in h.erase : request[r].off = Grace,
           h.at \in {"disable", "mark", "drop"} => h.id \in RequestId /\ h.id <= filed,
           h.at \in {"disable", "mark"} => Over(h.id),
           h.at = "drop" => request[h.id].off = Grace
    PROVE  CancellationInv'
<1>0. TypeOK /\ FiledOK /\ OffOK /\ HandlersOK  BY DEF CancellationInv
<1>1. proc'[p] = h  BY <1>0 DEF TypeOK
<1>2. HandlerOK(p)'  BY <1>1 DEF HandlerOK, Over
<1>3. FiledOK' /\ OffOK' /\ RowsGoOn  BY <1>0 DEF FiledOK, OffOK, RowsGoOn, Over
<1>4. proc[p].at = "drop" => \E r \in RequestId : r <= filed /\ request[r].off = Grace
  BY <1>0 DEF HandlersOK, HandlerOK
<1>5. request' \in [RequestId -> RequestRow]  BY <1>0 DEF TypeOK
<1>6. schema' = "expired" =>
        \/ schema = "expired"
        \/ \E r \in RequestId : r <= filed /\ request[r].off = Grace
  BY <1>4
<1>7. QED  BY <1>2, <1>3, <1>5, <1>6, HandlerStep

\* What a handler may rely on.
LEMMA InHand ==
    ASSUME CancellationInv, NEW p \in Process
    PROVE  /\ proc[p] \in Handler /\ proc \in [Process -> Handler]
           /\ tenant \in {"active", "inactive", "erased"}
           /\ schema \in {"present", "expired", "purged"}
           /\ crashes \in 0 .. MaxCrashes /\ filed \in 0 .. MaxRequests
           /\ request \in [RequestId -> RequestRow]
           /\ \A r \in proc[p].disable \cup proc[p].erase : r <= filed
           /\ \A r \in proc[p].disable : Over(r)
           /\ \A r \in proc[p].erase : request[r].off = Grace
           /\ proc[p].at \in {"disable", "mark", "drop"} =>
                proc[p].id \in RequestId /\ proc[p].id <= filed
           /\ proc[p].at \in {"disable", "mark"} => Over(proc[p].id)
           /\ proc[p].at = "drop" => request[proc[p].id].off = Grace
  BY DEF CancellationInv, TypeOK, HandlersOK, HandlerOK

\* A handler that starts at a place where it has nothing in hand, or ends.
LEMMA PlainStep ==
    ASSUME CancellationInv, NEW p \in Process,
           NEW place \in {"idle", "restore", "sync", "purge"},
           proc' = [proc EXCEPT ![p] = [Idle EXCEPT !.at = place, !.id = 0]],
           tenant' \in {"active", "inactive", "erased"},
           UNCHANGED <<request, filed, schema>>, crashes' \in 0 .. MaxCrashes
    PROVE  CancellationInv'
<1> DEFINE h == [Idle EXCEPT !.at = place, !.id = 0]
<1>1. h \in Handler /\ h.at = place /\ h.disable = {} /\ h.erase = {}
  BY IdleType, CancellationAssumption DEF Handler, Place, Idle
<1> HIDE DEF h
<1>2. h.at \notin {"disable", "mark", "drop"}  BY <1>1
<1>3. proc' = [proc EXCEPT ![p] = h]  BY DEF h
<1>4. QED  BY <1>1, <1>2, <1>3, InHand, MoveStep

LEMMA EndStep ==
    ASSUME CancellationInv, NEW p \in Process, Done(p),
           tenant' \in {"active", "inactive", "erased"},
           UNCHANGED <<request, filed, schema>>, crashes' \in 0 .. MaxCrashes
    PROVE  CancellationInv'
<1>1. Idle.at = "idle" /\ Idle.disable = {} /\ Idle.erase = {}  BY DEF Idle
<1>2. proc' = [proc EXCEPT ![p] = Idle]  BY DEF Done
<1>3. Idle.at \notin {"disable", "mark", "drop"}  BY <1>1
<1>4. QED  BY <1>1, <1>2, <1>3, IdleType, InHand, MoveStep

\* A handler goes on to another place with what it has.
LEMMA GotoStep ==
    ASSUME CancellationInv, NEW p \in Process, NEW place \in Place, Goto(p, place),
           tenant' \in {"active", "inactive", "erased"},
           schema' \in {"present", "expired", "purged"},
           UNCHANGED <<request, filed, crashes>>,
           schema' = "expired" => schema = "expired" \/ proc[p].at = "drop",
           place \in {"disable", "mark", "drop"} =>
             (place = "mark" /\ proc[p].at = "disable")
    PROVE  CancellationInv'
<1> DEFINE h == [proc[p] EXCEPT !.at = place]
<1>1. /\ h \in Handler /\ h.at = place /\ h.disable = proc[p].disable
      /\ h.erase = proc[p].erase /\ h.id = proc[p].id
  BY InHand DEF Handler
<1>2. proc' = [proc EXCEPT ![p] = h]  BY DEF Goto
<1> HIDE DEF h
<1>3. QED  BY <1>1, <1>2, InHand, MoveStep

-----------------------------------------------------------------------------
(* The handlers of the lifecycle.                                          *)

LEMMA BeginLifecycleStep ==
    ASSUME CancellationInv, NEW p \in Process, BeginLifecycle(p)
    PROVE  CancellationInv'
<1> DEFINE D == {r \in Requested : DisableDue(r)}
           E == {r \in Requested : EraseDue(r)}
           h == [Idle EXCEPT !.at = "row", !.life = TRUE, !.disable = D, !.erase = E]
<1>1. proc' = [proc EXCEPT ![p] = h] /\ UNCHANGED <<tenant, schema, request, filed, crashes>>
  BY DEF BeginLifecycle, counts
<1>2. /\ D \subseteq RequestId /\ E \subseteq RequestId
      /\ \A r \in D \cup E : request[r].state = "requested"
      /\ \A r \in D : Over(r)
      /\ \A r \in E : request[r].off = Grace
  BY DEF Requested, DisableDue, EraseDue, Over
<1>3. \A r \in D \cup E : r <= filed
  <2>1. filed \in Nat /\ RequestId \subseteq Nat
    BY InHand, CancellationAssumption DEF RequestId
  <2>2. \A r \in RequestId : r <= filed \/ r > filed  BY <2>1
  <2>3. QED  BY <1>2, <2>2 DEF CancellationInv, FiledOK
<1> HIDE DEF D, E
<1>4. h \in Handler /\ h.at = "row" /\ h.disable = D /\ h.erase = E
  BY <1>2, IdleType DEF Handler, Place, Idle
<1> HIDE DEF h
<1>5. QED  BY <1>1, <1>2, <1>3, <1>4, InHand, MoveStep

LEMMA NextRowStep ==
    ASSUME CancellationInv, NEW p \in Process, NextRow(p)
    PROVE  CancellationInv'
<1>1. PICK r \in proc[p].disable \cup proc[p].erase :
        proc' = [proc EXCEPT
                   ![p].id = r,
                   ![p].at = IF r \in proc[p].disable THEN "disable" ELSE "drop",
                   ![p].disable = @ \ {r},
                   ![p].erase = @ \ {r}]
  BY Zenon DEF NextRow
<1> DEFINE place == IF r \in proc[p].disable THEN "disable" ELSE "drop"
           h == [proc[p] EXCEPT !.id = r, !.at = place,
                                !.disable = proc[p].disable \ {r},
                                !.erase = proc[p].erase \ {r}]
<1>2. proc' = [proc EXCEPT ![p] = h]  BY <1>1, InHand DEF Handler
<1>3. UNCHANGED <<tenant, schema, request, filed, crashes>>  BY DEF NextRow, counts
<1>4. /\ proc[p].disable \subseteq RequestId /\ proc[p].erase \subseteq RequestId
      /\ r \in RequestId /\ r <= filed /\ r \in 0 .. MaxRequests
      /\ place \in {"disable", "drop"}
      /\ place = "disable" => r \in proc[p].disable
      /\ place = "drop" => r \in proc[p].erase
  BY InHand, CancellationAssumption DEF Handler, RequestId
<1> HIDE DEF place
<1>5. /\ h.at = place /\ h.id = r
      /\ h.disable = proc[p].disable \ {r} /\ h.erase = proc[p].erase \ {r}
  BY InHand DEF Handler
<1>6. h \in Handler
  BY <1>4, InHand DEF Handler, Place
<1> HIDE DEF h
<1>7. QED  BY <1>2, <1>3, <1>4, <1>5, <1>6, InHand, MoveStep

\* A step in which the rows change and no handler has anything new in hand.
LEMMA RowsStep ==
    ASSUME CancellationInv, TypeOK', FiledOK', OffOK', RowsGoOn, filed <= filed',
           UNCHANGED schema,
           \A p \in Process :
             /\ proc'[p].disable = proc[p].disable /\ proc'[p].erase = proc[p].erase
             /\ proc'[p].at = proc[p].at /\ proc'[p].id = proc[p].id
    PROVE  CancellationInv'
<1>0. TypeOK /\ FiledOK /\ OffOK /\ HandlersOK /\ DeletionIsDue  BY DEF CancellationInv
<1>1. filed \in Nat /\ filed' \in Nat /\ RequestId \subseteq Nat
  BY <1>0, CancellationAssumption DEF TypeOK, RequestId
<1>2. HandlersOK'
  <2> SUFFICES ASSUME NEW q \in Process  PROVE HandlerOK(q)'
    BY DEF HandlersOK
  <2>1. HandlerOK(q) /\ proc'[q] \in Handler  BY <1>0 DEF HandlersOK, TypeOK
  <2>2. QED  BY <1>0, <1>1, <2>1, HandlerStays
<1>3. DeletionIsDue'
  <2> SUFFICES ASSUME schema' = "expired"
               PROVE  \E r \in RequestId : request'[r].off = Grace /\ Over(r)'
    BY DEF DeletionIsDue, Over
  <2>1. PICK r \in RequestId : request[r].off = Grace
    BY <1>0 DEF DeletionIsDue
  <2>2. r <= filed /\ Over(r)
    BY <1>0, <1>1, <2>1, CancellationAssumption DEF FiledOK, OffOK
  <2>3. QED  BY <2>1, <2>2 DEF RowsGoOn
<1>4. QED  BY <1>2, <1>3 DEF CancellationInv

LEMMA CancelStep ==
    ASSUME CancellationInv, NEW days \in 0 .. Ahead, CancelSubscription(days)
    PROVE  CancellationInv'
<1> DEFINE n == filed + 1
           row == [state |-> "requested", left |-> days + Notice, off |-> Never,
                   given |-> FALSE]
<1>0. TypeOK /\ FiledOK /\ OffOK  BY DEF CancellationInv
<1>1. /\ request' = [request EXCEPT ![n] = row] /\ filed' = n /\ n \in RequestId
      /\ n \in 0 .. MaxRequests
      /\ UNCHANGED <<tenant, schema, crashes, proc>>
  BY <1>0, CancellationAssumption DEF CancelSubscription, TypeOK, RequestId
<1>2. row \in RequestRow /\ row.off = Never
  BY CancellationAssumption DEF RequestRow
<1>3. filed \in Nat /\ n \in Nat /\ filed < n /\ filed <= n /\ RequestId \subseteq Nat
  BY <1>0, CancellationAssumption DEF TypeOK, RequestId
<1>4. \A r \in RequestId : (r > n => r > filed /\ r # n) /\ (r <= filed => r # n)
  BY <1>3
<1> HIDE DEF n, row
<1>5. TypeOK'  BY <1>0, <1>1, <1>2 DEF TypeOK
<1>6. request'[n] = row /\ \A r \in RequestId \ {n} : request'[r] = request[r]
  BY <1>0, <1>1 DEF TypeOK
<1>7. FiledOK'  BY <1>0, <1>1, <1>4, <1>6 DEF FiledOK
<1>8. OffOK'  BY <1>0, <1>2, <1>6 DEF OffOK, Over
<1>9. RowsGoOn  BY <1>4, <1>6 DEF RowsGoOn, Over
<1>10. QED  BY <1>1, <1>3, <1>5, <1>7, <1>8, <1>9, RowsStep

\* The rows that are taken back keep their dates.
SameDates ==
    \A r \in RequestId :
        /\ request'[r].left = request[r].left /\ request'[r].off = request[r].off
        /\ request[r].given => request'[r].given
        /\ request[r].state = "none" => request'[r].state = "none"

LEMMA DatesKept ==
    ASSUME FiledOK, OffOK, SameDates, UNCHANGED filed
    PROVE  FiledOK' /\ OffOK' /\ RowsGoOn
<1>1. FiledOK'  BY DEF FiledOK, SameDates
<1>2. OffOK'  BY DEF OffOK, SameDates, Over
<1>3. RowsGoOn  BY DEF RowsGoOn, SameDates, Over
<1>4. QED  BY <1>1, <1>2, <1>3

LEMMA RestoreTenantStep ==
    ASSUME CancellationInv, RestoreCancelledTenant
    PROVE  CancellationInv'
<1>0. TypeOK /\ FiledOK /\ OffOK  BY DEF CancellationInv
<1>1. /\ request' = [request EXCEPT ![filed].state = "restored"]
      /\ filed \in RequestId /\ request[filed].state = "requested" /\ tenant' = "active"
      /\ UNCHANGED <<filed, crashes, schema, proc>>
  BY DEF RestoreCancelledTenant, LatestRequested, Requested, counts
<1>2. request' \in [RequestId -> RequestRow]  BY <1>0, <1>1 DEF TypeOK, RequestRow
<1>3. TypeOK'  BY <1>0, <1>1, <1>2 DEF TypeOK
<1>4. SameDates  BY <1>0, <1>1 DEF TypeOK, RequestRow, SameDates
<1>5. FiledOK' /\ OffOK' /\ RowsGoOn  BY <1>0, <1>1, <1>4, DatesKept
<1>6. filed <= filed'  BY <1>0, <1>1, CancellationAssumption DEF TypeOK
<1>7. QED  BY <1>1, <1>3, <1>5, <1>6, RowsStep

\* A handler changes rows and has nothing new in hand.
LEMMA LeaveStep ==
    ASSUME CancellationInv, NEW p \in Process, NEW h \in Handler,
           proc' = [proc EXCEPT ![p] = h],
           h.disable \subseteq proc[p].disable, h.erase \subseteq proc[p].erase,
           h.at \notin {"disable", "mark", "drop"},
           request' \in [RequestId -> RequestRow], UNCHANGED <<tenant, schema, filed, crashes>>,
           FiledOK', OffOK', RowsGoOn
    PROVE  CancellationInv'
<1>1. proc'[p] = h /\ HandlerOK(p) /\ TypeOK
  BY DEF CancellationInv, TypeOK, HandlersOK
<1>2. filed' \in Nat /\ filed <= filed'
  BY InHand, CancellationAssumption
<1>3. HandlerOK(p)'
  <2>1. /\ h.at \in {"disable", "mark"} => proc[p].at \in {"disable", "mark"}
        /\ h.at = "drop" => proc[p].at = "drop"
        /\ h.at \in {"disable", "mark", "drop"} => h.id = proc[p].id
    OBVIOUS
  <2>2. QED  BY <1>1, <1>2, <2>1, HandlerStays
<1>4. /\ tenant' \in {"active", "inactive", "erased"}
      /\ schema' \in {"present", "expired", "purged"} /\ crashes' \in 0 .. MaxCrashes
  BY InHand
<1>5. QED  BY <1>3, <1>4, HandlerStep

LEMMA CommitRestoreStep ==
    ASSUME CancellationInv, NEW p \in Process, CommitRestoreRenewal(p)
    PROVE  CancellationInv'
<1>0. TypeOK /\ FiledOK /\ OffOK  BY DEF CancellationInv
<1>1. PICK R \in SUBSET RequestId :
        /\ request' = [r \in RequestId |-> IF r \in R
                                         THEN [request[r] EXCEPT !.state = "renewed"]
                                         ELSE request[r]]
        /\ \A r \in R : request[r].state = "requested"
  <2> DEFINE Q == {r \in RequestId : /\ r \in Requested
                                    /\ \A s \in Requested : s <= r
                                    /\ request[r].off = Never}
  <2>1. request' = [r \in RequestId |-> IF r \in Q
                                       THEN [request[r] EXCEPT !.state = "renewed"]
                                       ELSE request[r]]
    BY DEF CommitRestoreRenewal
  <2>2. Q \in SUBSET RequestId /\ \A r \in Q : request[r].state = "requested"
    BY DEF Requested
  <2> HIDE DEF Q
  <2>3. QED  BY <2>1, <2>2
<1>2. proc' = [proc EXCEPT ![p] = Idle] /\ UNCHANGED <<tenant, schema, filed, crashes>>
  BY DEF CommitRestoreRenewal, Done, counts
<1>3. \A r \in RequestId :
        /\ request'[r] \in RequestRow
        /\ request'[r].left = request[r].left /\ request'[r].off = request[r].off
        /\ request'[r].given = request[r].given
        /\ request[r].state = "none" => request'[r].state = "none"
  <2> SUFFICES ASSUME NEW r \in RequestId
               PROVE  /\ request'[r] \in RequestRow
                      /\ request'[r].left = request[r].left
                      /\ request'[r].off = request[r].off
                      /\ request'[r].given = request[r].given
                      /\ request[r].state = "none" => request'[r].state = "none"
    OBVIOUS
  <2>1. request[r] \in RequestRow  BY <1>0 DEF TypeOK
  <2>2. CASE r \in R
    <3>1. request'[r] = [request[r] EXCEPT !.state = "renewed"]  BY <1>1, <2>2
    <3>2. QED  BY <1>1, <2>1, <2>2, <3>1 DEF RequestRow
  <2>3. CASE r \notin R
    <3>1. request'[r] = request[r]  BY <1>1, <2>3
    <3>2. QED  BY <2>1, <3>1
  <2>4. QED  BY <2>2, <2>3
<1>4. request' \in [RequestId -> RequestRow]  BY <1>1, <1>3
<1>5. SameDates  BY <1>3 DEF SameDates
<1>6. FiledOK' /\ OffOK' /\ RowsGoOn  BY <1>0, <1>2, <1>5, DatesKept
<1>7. Idle.disable = {} /\ Idle.erase = {} /\ Idle.at = "idle"  BY DEF Idle
<1>8. Idle.at \notin {"disable", "mark", "drop"}  BY <1>7
<1>9. QED  BY <1>2, <1>4, <1>6, <1>7, <1>8, IdleType, LeaveStep

LEMMA MarkStep ==
    ASSUME CancellationInv, NEW p \in Process, Mark(p)
    PROVE  CancellationInv'
<1> DEFINE r == proc[p].id
           d == IF proc[p].late THEN 1 ELSE 0
           h == IF proc[p].life THEN [proc[p] EXCEPT !.at = "row"] ELSE Idle
<1>0. TypeOK /\ FiledOK /\ OffOK  BY DEF CancellationInv
<1>1. /\ r \in RequestId /\ r <= filed /\ Over(r)
      /\ UNCHANGED <<tenant, schema, filed, crashes>>
      /\ \/ request' = request
         \/ request[r].off = Never /\ request' = [request EXCEPT ![r].off = d]
  <2>1. proc[p].at = "mark"  BY DEF Mark
  <2>2. r \in RequestId /\ r <= filed /\ Over(r)  BY <2>1, InHand
  <2>3. QED  BY <2>2 DEF Mark, counts
<1>2. proc' = [proc EXCEPT ![p] = h]  BY DEF Mark, Marked, Goto, Done
<1>3. d \in 0 .. Grace /\ d # Never /\ Grace # Never
  BY CancellationAssumption
<1>4. /\ h \in Handler /\ h.at \in {"row", "idle"}
      /\ h.disable \subseteq proc[p].disable /\ h.erase \subseteq proc[p].erase
  <2>1. CASE proc[p].life
    <3>1. h = [proc[p] EXCEPT !.at = "row"]  BY <2>1
    <3>2. QED  BY <3>1, InHand DEF Handler, Place
  <2>2. CASE ~proc[p].life
    <3>1. h = Idle  BY <2>2
    <3>2. Idle.disable = {} /\ Idle.erase = {} /\ Idle.at = "idle"  BY DEF Idle
    <3>3. QED  BY <3>1, <3>2, IdleType
  <2>3. QED  BY <2>1, <2>2
<1> HIDE DEF r, d, h
<1>5. \A k \in RequestId :
        /\ request'[k].state = request[k].state /\ request'[k].left = request[k].left
        /\ request'[k].given = request[k].given
        /\ \/ request'[k].off = request[k].off
           \/ k = r /\ request[k].off = Never
  BY <1>0, <1>1 DEF TypeOK, RequestRow
<1>6. request' \in [RequestId -> RequestRow]
  BY <1>0, <1>1, <1>3 DEF TypeOK, RequestRow
<1>7. FiledOK'
  <2>1. \A k \in RequestId : k > filed => k # r
    BY <1>0, <1>1, CancellationAssumption DEF TypeOK, RequestId
  <2>2. QED  BY <1>0, <1>1, <1>5, <2>1 DEF FiledOK
<1>8. OffOK'  BY <1>0, <1>1, <1>5 DEF OffOK, Over
<1>9. RowsGoOn  BY <1>3, <1>5 DEF RowsGoOn, Over
<1>10. h.at \notin {"disable", "mark", "drop"}  BY <1>4
<1>11. QED  BY <1>1, <1>2, <1>4, <1>6, <1>7, <1>8, <1>9, <1>10, LeaveStep

LEMMA DeleteAccessStep ==
    ASSUME CancellationInv, NEW p \in Process, DeleteServiceAccess(p)
    PROVE  CancellationInv'
<1> DEFINE h == [Idle EXCEPT !.at = "disable", !.id = filed]
<1>0. TypeOK /\ FiledOK /\ OffOK  BY DEF CancellationInv
<1>1. /\ request' = [request EXCEPT ![filed].given = TRUE] /\ filed \in RequestId
      /\ proc' = [proc EXCEPT ![p] = h] /\ UNCHANGED <<tenant, schema, filed, crashes>>
  BY DEF DeleteServiceAccess, LatestRequested, Requested, Start, counts
<1>2. /\ h \in Handler /\ h.at = "disable" /\ h.disable = {} /\ h.erase = {}
      /\ h.id = filed
  BY InHand, IdleType DEF Handler, Place, Idle
<1> HIDE DEF h
<1>3. request' \in [RequestId -> RequestRow]  BY <1>0, <1>1 DEF TypeOK, RequestRow
<1>4. SameDates /\ request'[filed].given
  BY <1>0, <1>1 DEF TypeOK, RequestRow, SameDates
<1>5. FiledOK' /\ OffOK' /\ RowsGoOn  BY <1>0, <1>1, <1>4, DatesKept
<1>6. HandlerOK(p)'
  <2>1. proc'[p] = h /\ filed' = filed /\ filed <= filed
    BY <1>1, InHand, CancellationAssumption
  <2>2. QED  BY <1>1, <1>2, <1>4, <2>1 DEF HandlerOK, Over
<1>7. /\ tenant' \in {"active", "inactive", "erased"}
      /\ schema' \in {"present", "expired", "purged"} /\ crashes' \in 0 .. MaxCrashes
  BY <1>1, InHand
<1>8. QED  BY <1>1, <1>2, <1>3, <1>5, <1>6, <1>7, HandlerStep

\* About to disable the tenant at a cancellation whose deactivation is due.
LEMMA SyncStatusStep ==
    ASSUME CancellationInv, NEW p \in Process, SyncStatus(p)
    PROVE  CancellationInv'
<1>1. UNCHANGED <<tenant, schema, request, filed, crashes>>  BY DEF SyncStatus, counts
<1>2. /\ tenant' \in {"active", "inactive", "erased"}
      /\ schema' \in {"present", "expired", "purged"} /\ crashes' \in 0 .. MaxCrashes
  BY <1>1, InHand
<1>3. CASE LatestRequested /\ DisableDue(filed)
  <2> DEFINE h == [Idle EXCEPT !.at = "disable", !.id = filed]
  <2>1. proc' = [proc EXCEPT ![p] = h] /\ filed \in RequestId /\ Over(filed)
    BY <1>3 DEF SyncStatus, Start, LatestRequested, Requested, DisableDue, Over
  <2>2. /\ h \in Handler /\ h.at = "disable" /\ h.disable = {} /\ h.erase = {}
        /\ h.id = filed
    BY InHand, IdleType DEF Handler, Place, Idle
  <2> HIDE DEF h
  <2>3. filed <= filed  BY InHand, CancellationAssumption
  <2>4. /\ \A r \in h.disable \cup h.erase : r <= filed
        /\ \A r \in h.disable : Over(r)
        /\ \A r \in h.erase : request[r].off = Grace
        /\ h.at \in {"disable", "mark", "drop"} => (h.id \in RequestId /\ h.id <= filed)
        /\ h.at \in {"disable", "mark"} => Over(h.id)
        /\ h.at = "drop" => request[h.id].off = Grace
        /\ schema' = "expired" => (schema = "expired" \/ proc[p].at = "drop")
    BY <1>1, <2>1, <2>2, <2>3
  <2>5. QED  BY <1>1, <1>2, <2>1, <2>2, <2>4, MoveStep
<1>4. CASE ~(LatestRequested /\ DisableDue(filed))
  <2>1. Done(p)  BY <1>4 DEF SyncStatus
  <2>2. QED  BY <1>1, <1>2, <2>1, EndStep
<1>5. QED  BY <1>3, <1>4

LEMMA MidnightStep ==
    ASSUME CancellationInv, Midnight
    PROVE  CancellationInv'
<1> DEFINE left(r) == IF request[r].left > 0 THEN request[r].left - 1 ELSE 0
           off(r) == IF request[r].off \in 0 .. Grace - 1 THEN request[r].off + 1
                     ELSE request[r].off
<1>0. TypeOK /\ FiledOK /\ OffOK  BY DEF CancellationInv
<1>1. /\ request' = [r \in RequestId |-> [request[r] EXCEPT !.left = left(r), !.off = off(r)]]
      /\ proc' = [p \in Process |-> [proc[p] EXCEPT !.late = proc[p].at # "idle"]]
      /\ UNCHANGED <<tenant, schema, filed, crashes>>
  <2>1. request' = [r \in RequestId |->
                     [request[r] EXCEPT !.left = IF @ > 0 THEN @ - 1 ELSE 0,
                                        !.off = IF @ \in 0 .. Grace - 1 THEN @ + 1 ELSE @]]
    BY Zenon DEF Midnight
  <2>2. \A r \in RequestId :
          [request[r] EXCEPT !.left = IF @ > 0 THEN @ - 1 ELSE 0,
                             !.off = IF @ \in 0 .. Grace - 1 THEN @ + 1 ELSE @]
            = [request[r] EXCEPT !.left = left(r), !.off = off(r)]
    BY <1>0 DEF TypeOK, RequestRow
  <2>3. QED  BY <2>1, <2>2 DEF Midnight, counts
<1>2. \A r \in RequestId :
        /\ left(r) \in 0 .. Ahead + Notice
        /\ request[r].left = 0 => left(r) = 0
        /\ off(r) \in (0 .. Grace) \cup {Never}
        /\ request[r].off = Grace => off(r) = Grace
        /\ request[r].off = Never => off(r) = Never
  <2> SUFFICES ASSUME NEW r \in RequestId
               PROVE  /\ left(r) \in 0 .. Ahead + Notice
                      /\ request[r].left = 0 => left(r) = 0
                      /\ off(r) \in (0 .. Grace) \cup {Never}
                      /\ request[r].off = Grace => off(r) = Grace
                      /\ request[r].off = Never => off(r) = Never
    OBVIOUS
  <2>1. /\ request[r].left \in 0 .. Ahead + Notice
        /\ request[r].off \in (0 .. Grace) \cup {Never}
    BY <1>0 DEF TypeOK, RequestRow
  <2>2. left(r) \in 0 .. Ahead + Notice /\ (request[r].left = 0 => left(r) = 0)
    BY <2>1, CancellationAssumption
  <2>3. CASE request[r].off = Never
    BY <2>2, <2>3, CancellationAssumption
  <2>4. CASE request[r].off \in 0 .. Grace
    BY <2>2, <2>4, CancellationAssumption
  <2>5. QED  BY <2>1, <2>3, <2>4
<1> HIDE DEF left, off
<1>3. \A r \in RequestId :
        /\ request'[r] \in RequestRow
        /\ request'[r].state = request[r].state /\ request'[r].given = request[r].given
        /\ request'[r].left = left(r) /\ request'[r].off = off(r)
  BY <1>0, <1>1, <1>2 DEF TypeOK, RequestRow
<1>4. \A p \in Process :
        /\ proc'[p] \in Handler
        /\ proc'[p].disable = proc[p].disable /\ proc'[p].erase = proc[p].erase
        /\ proc'[p].at = proc[p].at /\ proc'[p].id = proc[p].id
  BY <1>0, <1>1 DEF TypeOK, Handler
<1>5. TypeOK'
  <2>1. request' \in [RequestId -> RequestRow]  BY <1>1, <1>3
  <2>2. proc' \in [Process -> Handler]  BY <1>1, <1>4
  <2>3. QED  BY <1>0, <1>1, <2>1, <2>2 DEF TypeOK
<1>6. FiledOK'  BY <1>0, <1>1, <1>2, <1>3 DEF FiledOK
<1>7. \A r \in RequestId : Over(r) => Over(r)'  BY <1>2, <1>3 DEF Over
<1>8. OffOK'  BY <1>0, <1>2, <1>3, <1>7 DEF OffOK
<1>9. RowsGoOn  BY <1>2, <1>3, <1>7 DEF RowsGoOn
<1>10. filed <= filed'
  <2>1. filed' = filed  BY <1>1
  <2>2. QED  BY <2>1, InHand, CancellationAssumption
<1>11. QED  BY <1>1, <1>4, <1>5, <1>6, <1>8, <1>9, <1>10, RowsStep

-----------------------------------------------------------------------------
(* The invariant.                                                          *)

LEMMA InitInv == Init => CancellationInv
<1> SUFFICES ASSUME Init  PROVE CancellationInv
  OBVIOUS
<1>1. TypeOK
  <2>1. \A r \in RequestId : request[r] \in RequestRow
    BY CancellationAssumption DEF Init, RequestRow
  <2>2. request \in [RequestId -> RequestRow]  BY <2>1 DEF Init
  <2>3. proc \in [Process -> Handler]  BY IdleType DEF Init
  <2>4. /\ tenant = "active" /\ schema = "present"
        /\ filed \in 0 .. MaxRequests /\ crashes \in 0 .. MaxCrashes
    BY CancellationAssumption DEF Init
  <2>5. QED  BY <2>2, <2>3, <2>4 DEF TypeOK
<1>2. FiledOK /\ OffOK  BY DEF Init, FiledOK, OffOK
<1>3. HandlersOK
  <2> SUFFICES ASSUME NEW p \in Process  PROVE HandlerOK(p)
    BY DEF HandlersOK
  <2>1. proc[p] = Idle  BY DEF Init
  <2>2. proc[p].disable = {} /\ proc[p].erase = {} /\ proc[p].at = "idle"
    BY <2>1 DEF Idle
  <2>3. QED  BY <2>2 DEF HandlerOK
<1>4. DeletionIsDue  BY DEF Init, DeletionIsDue
<1>5. QED  BY <1>1, <1>2, <1>3, <1>4 DEF CancellationInv

\* The steps that start a handler with nothing in hand, move it or end it.
LEMMA OtherSteps ==
    ASSUME CancellationInv, NEW p \in Process,
           \/ BeginRestoreRenewal(p) \/ BeginSync(p) \/ BeginPurge(p) \/ EndLifecycle(p)
           \/ Disable(p) \/ DropSchema(p) \/ DropFails(p) \/ HardDelete(p)
           \/ PurgeSchema(p) \/ PurgeTenant(p) \/ Crash(p)
    PROVE  CancellationInv'
<1>0. /\ tenant \in {"active", "inactive", "erased"}
      /\ schema \in {"present", "expired", "purged"} /\ crashes \in 0 .. MaxCrashes
  BY InHand
<1>1. CASE BeginRestoreRenewal(p)
  BY <1>0, <1>1, PlainStep DEF BeginRestoreRenewal, Start, counts
<1>2. CASE BeginSync(p)
  BY <1>0, <1>2, PlainStep DEF BeginSync, Start, counts
<1>3. CASE BeginPurge(p)
  BY <1>0, <1>3, PlainStep DEF BeginPurge, Start, counts
<1>4. CASE EndLifecycle(p)
  <2>1. UNCHANGED <<tenant, schema, request, filed, crashes>>
    BY <1>4 DEF EndLifecycle, counts
  <2>2. Start(p, "sync", 0) \/ Done(p)  BY <1>4 DEF EndLifecycle
  <2>3. QED  BY <1>0, <2>1, <2>2, PlainStep, EndStep DEF Start
<1>5. CASE Disable(p)
  <2>1. /\ proc[p].at = "disable" /\ Goto(p, "mark")
        /\ tenant' \in {"active", "inactive", "erased"}
        /\ UNCHANGED <<schema, request, filed, crashes>>
    BY <1>0, <1>5 DEF Disable, counts
  <2>2. "mark" \in Place  BY DEF Place
  <2>3. QED  BY <1>0, <2>1, <2>2, GotoStep
<1>6. CASE DropSchema(p)
  <2>1. /\ proc[p].at = "drop" /\ Goto(p, "erase")
        /\ schema' \in {"present", "expired", "purged"}
        /\ UNCHANGED <<tenant, request, filed, crashes>>
    BY <1>0, <1>6 DEF DropSchema, counts
  <2>2. "erase" \in Place  BY DEF Place
  <2>3. QED  BY <1>0, <2>1, <2>2, GotoStep
<1>7. CASE DropFails(p)
  <2>1. Goto(p, "row") /\ UNCHANGED <<tenant, schema, request, filed, crashes>>
    BY <1>7 DEF DropFails, counts
  <2>2. "row" \in Place  BY DEF Place
  <2>3. QED  BY <1>0, <2>1, <2>2, GotoStep
<1>8. CASE HardDelete(p)
  <2>1. /\ Goto(p, "row") /\ tenant' = "erased"
        /\ UNCHANGED <<schema, request, filed, crashes>>
    BY <1>8 DEF HardDelete, counts
  <2>2. "row" \in Place  BY DEF Place
  <2>3. QED  BY <1>0, <2>1, <2>2, GotoStep
<1>9. CASE PurgeSchema(p)
  <2>1. /\ Goto(p, "purged") /\ schema' \in {"present", "expired", "purged"}
        /\ schema' = "expired" => schema = "expired"
        /\ UNCHANGED <<tenant, request, filed, crashes>>
    BY <1>0, <1>9 DEF PurgeSchema, counts
  <2>2. "purged" \in Place  BY DEF Place
  <2>3. QED  BY <1>0, <2>1, <2>2, GotoStep
<1>10. CASE PurgeTenant(p)
  <2>1. /\ Done(p) /\ tenant' \in {"active", "inactive", "erased"}
        /\ UNCHANGED <<schema, request, filed, crashes>>
    BY <1>0, <1>10 DEF PurgeTenant, counts
  <2>2. QED  BY <1>0, <2>1, EndStep
<1>11. CASE Crash(p)
  <2>1. crashes' \in 0 .. MaxCrashes
    BY <1>0, <1>11, CancellationAssumption DEF Crash
  <2>2. Done(p) /\ UNCHANGED <<tenant, schema, request, filed>>  BY <1>11 DEF Crash
  <2>3. QED  BY <1>0, <2>1, <2>2, EndStep
<1>12. QED
  BY <1>1, <1>2, <1>3, <1>4, <1>5, <1>6, <1>7, <1>8, <1>9, <1>10, <1>11

LEMMA NextInv == CancellationInv /\ [Next]_vars => CancellationInv'
<1> SUFFICES ASSUME CancellationInv, [Next]_vars  PROVE CancellationInv'
  OBVIOUS
<1>1. CASE \E days \in 0 .. Ahead : CancelSubscription(days)  BY <1>1, CancelStep
<1>2. CASE RestoreCancelledTenant  BY <1>2, RestoreTenantStep
<1>3. ASSUME NEW p \in Process,
             \/ BeginRestoreRenewal(p) \/ DeleteServiceAccess(p)
             \/ BeginLifecycle(p) \/ BeginSync(p) \/ BeginPurge(p)
             \/ Continue(p) \/ Crash(p)
      PROVE  CancellationInv'
  BY <1>3, DeleteAccessStep, BeginLifecycleStep, CommitRestoreStep, NextRowStep, MarkStep,
     SyncStatusStep, OtherSteps DEF Continue
<1>4. CASE Midnight  BY <1>4, MidnightStep
<1>5. CASE UNCHANGED vars
  BY <1>5 DEF vars, CancellationInv, TypeOK, FiledOK, OffOK, Over, HandlersOK, HandlerOK,
              DeletionIsDue
<1>6. QED  BY <1>1, <1>2, <1>3, <1>4, <1>5 DEF Next

LEMMA Safety == Spec => []CancellationInv
  BY InitInv, NextInv, PTL DEF Spec

\* Every state of the tenant, its requests and its handlers is well formed.
THEOREM TypeCorrect == Spec => []TypeOK
<1>1. CancellationInv => TypeOK  BY DEF CancellationInv
<1>2. QED  BY <1>1, Safety, PTL

\* However the owner, the worker, the requests that run the lifecycle and the
\* administrator interleave, whichever of them die and at whichever midnight, the
\* lifecycle never drops the schema of a tenant before the notice and the days of
\* grace of some cancellation are over (process_cancellation_lifecycle).
THEOREM DeletedWhenDue == Spec => []DeletionIsDue
<1>1. CancellationInv => DeletionIsDue  BY DEF CancellationInv
<1>2. QED  BY <1>1, Safety, PTL

=============================================================================
