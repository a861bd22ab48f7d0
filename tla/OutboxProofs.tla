---------------------------- MODULE OutboxProofs ----------------------------
(***************************************************************************)
(* Safety of the outbox for any number of workers, publishers, keys, rows  *)
(* and handlers, and for any values of the leases and limits: publishing,  *)
(* delivery, the retry budget, what holds until a worker overruns a lease, *)
(* and the refinement of AtLeastOnce.                                      *)
(***************************************************************************)
EXTENDS OutboxRefinement, FiniteSetTheorems, TLAPS

\* What a dispatch in progress points at: an existing row, not also waiting in
\* its own worker's batch, and one of the registered handlers.
RunOK ==
    \A w \in Worker :
        run[w].phase # "idle" =>
          /\ run[w].row \in RowId
          /\ run[w].row \notin batch[w]
          /\ run[w].phase = "running" => run[w].next \in Handler

TypeInv == TypeOK /\ RunOK

LEMMA ClaimedType ==
    ASSUME NEW r \in Row, NEW w \in Worker
    PROVE  MarkClaimed(r, w) \in Row
  BY OutboxAssumption DEF MarkClaimed, Row, Open, Settled

\* What the two mark_* calls make of a row: they keep the key, and a status that
\* the copy already had is not written.
LEMMA SettledType ==
    ASSUME NEW r \in Row, NEW c \in Copy
    PROVE  /\ Processed(r, c) \in Row /\ Failed(r, c) \in Row
           /\ Processed(r, c).status = IF c.status # "processed" THEN "processed" ELSE r.status
           /\ Processed(r, c).key = r.key /\ Processed(r, c).attempts = r.attempts
           /\ Failed(r, c).key = r.key /\ Failed(r, c).attempts = c.attempts + 1
           /\ c.attempts + 1 >= MaxAttempts =>
                Failed(r, c).status = IF c.status # "dead_letter" THEN "dead_letter" ELSE r.status
           /\ ~(c.attempts + 1 >= MaxAttempts) =>
                Failed(r, c).status = IF c.status # "retry" THEN "retry" ELSE r.status
<1>1. ASSUME NEW new \in {"processed", "dead_letter", "retry"}
      PROVE  /\ Settle(r, c, new) \in Row
             /\ Settle(r, c, new).status = IF c.status # new THEN new ELSE r.status
             /\ Settle(r, c, new).key = r.key /\ Settle(r, c, new).attempts = r.attempts
  <2> DEFINE st == IF new # c.status THEN new ELSE r.status
             by == IF c.locked THEN NoWorker ELSE r.leasedBy
             la == IF c.locked THEN 0 ELSE r.lockAge
             le == IF c.leased THEN NoLease ELSE r.lease
  <2>1. Settle(r, c, new) = [r EXCEPT !.status = st, !.leasedBy = by, !.lockAge = la, !.lease = le]
    BY DEF Settle
  <2>2. /\ st \in {"none"} \cup Open \cup Settled /\ by \in Worker \cup {NoWorker}
        /\ la \in Nat /\ le \in Nat \cup {NoLease}
    BY DEF Row, Open, Settled
  <2>3. st = IF c.status # new THEN new ELSE r.status  OBVIOUS
  <2> HIDE DEF st, by, la, le
  <2>4. QED  BY <2>1, <2>2, <2>3 DEF Row
<1>2. /\ Processed(r, c) \in Row
      /\ Processed(r, c).status = IF c.status # "processed" THEN "processed" ELSE r.status
      /\ Processed(r, c).key = r.key /\ Processed(r, c).attempts = r.attempts
  BY <1>1 DEF Processed
<1> DEFINE n == c.attempts + 1
           dead == Settle(r, c, "dead_letter")
           again == Settle(r, c, "retry")
<1>3. n \in Nat /\ RetryDelay * n \in Nat  BY OutboxAssumption DEF Copy
<1>4. Failed(r, c) = IF n >= MaxAttempts
                     THEN [dead EXCEPT !.attempts = n]
                     ELSE [again EXCEPT !.attempts = n, !.due = RetryDelay * n]
  BY DEF Failed
<1>5. dead \in Row /\ again \in Row /\ dead.key = r.key /\ again.key = r.key
      /\ dead.status = (IF c.status # "dead_letter" THEN "dead_letter" ELSE r.status)
      /\ again.status = (IF c.status # "retry" THEN "retry" ELSE r.status)
  BY <1>1
<1> HIDE DEF n, dead, again
<1>6. /\ [dead EXCEPT !.attempts = n] \in Row
      /\ [dead EXCEPT !.attempts = n].key = r.key
      /\ [dead EXCEPT !.attempts = n].attempts = n
      /\ [dead EXCEPT !.attempts = n].status = dead.status
  BY <1>3, <1>5 DEF Row
<1>7. /\ [again EXCEPT !.attempts = n, !.due = RetryDelay * n] \in Row
      /\ [again EXCEPT !.attempts = n, !.due = RetryDelay * n].key = r.key
      /\ [again EXCEPT !.attempts = n, !.due = RetryDelay * n].attempts = n
      /\ [again EXCEPT !.attempts = n, !.due = RetryDelay * n].status = again.status
  BY <1>3, <1>5 DEF Row
<1>8. CASE n >= MaxAttempts  BY <1>2, <1>4, <1>5, <1>6, <1>8 DEF n
<1>9. CASE ~(n >= MaxAttempts)  BY <1>2, <1>4, <1>5, <1>7, <1>9 DEF n
<1>10. QED  BY <1>8, <1>9

LEMMA CopyType ==
    ASSUME NEW r \in Row
    PROVE  CopyOf(r) \in Copy
  BY DEF CopyOf, Copy, Row

LEMMA AgedType ==
    ASSUME NEW r \in Row
    PROVE  AgeRow(r) \in Row
<1>1. Down(r.due) \in Nat /\ Down(r.lease) \in Nat \cup {NoLease}  BY DEF Down, Row, NoLease
<1> DEFINE older == IF r.leasedBy # NoWorker /\ r.lockAge < StaleAfter
                    THEN r.lockAge + 1 ELSE r.lockAge
<1>2. older \in Nat  BY DEF Row
<1>3. AgeRow(r) = [r EXCEPT !.due = Down(r.due), !.lease = Down(r.lease), !.lockAge = older]
  BY DEF AgeRow
<1>4. QED  BY <1>1, <1>2, <1>3 DEF Row

\* The initial state has the types the module declares.
LEMMA InitType == Init => TypeInv
<1> SUFFICES ASSUME Init PROVE TypeInv  OBVIOUS
<1>1. NoRow \in Row  BY DEF NoRow, Row
<1>2. Idle \in Dispatch /\ Idle.phase = "idle"  BY DEF Idle, Dispatch, NoCopy, Copy
<1>3. row \in [RowId -> Row] /\ run \in [Worker -> Dispatch]  BY <1>1, <1>2 DEF Init
<1>4. TypeOK
  <2>1. NoPub \in [at : {"idle", "admitted", "absent"}, key : Key \cup {NoKey}]  BY DEF NoPub
  <2>2. pub \in [Publisher -> [at : {"idle", "admitted", "absent"}, key : Key \cup {NoKey}]]
    BY <2>1 DEF Init
  <2>3. batch \in [Worker -> SUBSET RowId] /\ zombies \in [Worker -> SUBSET Zombie]
        /\ effects \in [RowId -> SUBSET Handler] /\ receipts \subseteq (Key \cup {NoKey}) \X RowId
    BY DEF Init
  <2>4. up \in [Worker -> BOOLEAN] /\ overrun \in BOOLEAN
    BY Zenon DEF Init
  <2>5. nextRow \in Nat \ {0} /\ faults \in Nat /\ tries \in [RowId -> Nat]
        /\ age \in [Worker -> Nat]
    BY DEF Init
  <2>6. QED  BY <1>3, <2>2, <2>3, <2>4, <2>5 DEF TypeOK
<1>5. RunOK  BY <1>2 DEF Init, RunOK
<1>6. QED  BY <1>4, <1>5 DEF TypeInv

\* Every action keeps the types, and a dispatch keeps pointing at a row and at
\* one of the handlers.
LEMMA StepType == TypeInv /\ [Next]_vars => TypeInv'
<1> SUFFICES ASSUME TypeInv, [Next]_vars PROVE TypeInv'  OBVIOUS
<1> USE OutboxAssumption DEF TypeInv, TypeOK, RunOK
<1>1. ASSUME NEW p \in Publisher, NEW k \in Key \cup {NoKey}, Admit(p, k)
      PROVE  TypeInv'
  BY <1>1 DEF Admit, tableVars, workerVars, timeVars
<1>2. ASSUME NEW p \in Publisher, ReturnExisting(p)  PROVE TypeInv'
  BY <1>2 DEF ReturnExisting, tableVars, workerVars, timeVars, RowsWith, NoPub
<1>3. ASSUME NEW p \in Publisher, FindNone(p)  PROVE TypeInv'
  BY <1>3 DEF FindNone, tableVars, workerVars, timeVars
<1>4. ASSUME NEW p \in Publisher, InsertRow(p)  PROVE TypeInv'
  <2>1. nextRow \in RowId  BY <1>4 DEF InsertRow, RowId
  <2>2. [NoRow EXCEPT !.status = "pending", !.key = pub[p].key] \in Row
    BY DEF NoRow, Row, Open, NoLease
  <2>3. QED  BY <1>4, <2>1, <2>2 DEF InsertRow, workerVars, timeVars, NoPub
<1>5. ASSUME NEW w \in Worker, Claim(w)  PROVE TypeInv'
  <2>1. NextBatch \subseteq RowId  BY DEF NextBatch
  <2>2. row' \in [RowId -> Row]  BY <1>5, ClaimedType DEF Claim
  <2>3. QED  BY <1>5, <2>1, <2>2 DEF Claim, pubVars
<1>6. ASSUME NEW w \in Worker, StartDispatch(w)  PROVE TypeInv'
  <2>1. PICK i \in batch[w] :
          /\ batch' = [batch EXCEPT ![w] = @ \ {i}]
          /\ run' = [run EXCEPT ![w] =
               [phase |-> IF HandlerCount = 0 THEN "ack" ELSE "running",
                row |-> i, next |-> 1, failed |-> FALSE, left |-> Timeout,
                copy |-> NoCopy]]
    BY <1>6 DEF StartDispatch
  <2>2. i \in RowId  OBVIOUS
  <2>3. run' \in [Worker -> Dispatch]
    <3> DEFINE ph == IF HandlerCount = 0 THEN "ack" ELSE "running"
               d == [phase |-> ph, row |-> i, next |-> 1, failed |-> FALSE, left |-> Timeout,
                     copy |-> NoCopy]
    <3>1. NoCopy \in Copy /\ i \in Nat /\ Timeout \in Nat /\ ph \in {"ack", "running"}
      BY <2>2 DEF NoCopy, Copy, RowId
    <3>2. d \in Dispatch
      <4> HIDE DEF ph
      <4>1. QED  BY <3>1 DEF Dispatch
    <3>3. run' = [run EXCEPT ![w] = d]  BY <2>1
    <3> HIDE DEF d
    <3>4. QED  BY <3>2, <3>3
  <2>6. TypeOK'  BY <1>6, <2>1, <2>2, <2>3 DEF StartDispatch, tableVars, pubVars, timeVars
  <2>4. RunOK'  BY <2>1, <2>2 DEF Handler
  <2>5. QED  BY <2>4, <2>6
<1>7. ASSUME NEW w \in Worker, NEW ok \in BOOLEAN, HandlerReturns(w, ok)  PROVE TypeInv'
  <2> DEFINE d == run[w]
             failed == d.failed \/ ~ok
             phase == IF d.next < HandlerCount THEN "running"
                      ELSE IF failed THEN "nack" ELSE "ack"
  <2>1. d \in Dispatch /\ d.phase = "running" /\ d.next \in Handler /\ d.row \in RowId
    BY <1>7 DEF HandlerReturns
  <2>2. phase \in {"running", "ack", "nack"} /\ failed \in BOOLEAN /\ d.next + 1 \in Nat
    BY <2>1 DEF Dispatch, Handler
  <2> HIDE DEF phase, failed
  <2>3. [d EXCEPT !.failed = failed, !.next = d.next + 1, !.phase = phase] \in Dispatch
    BY <2>1, <2>2 DEF Dispatch
  <2>4. run' = [run EXCEPT ![w] =
                 [d EXCEPT !.failed = failed, !.next = d.next + 1, !.phase = phase]]
    BY <1>7 DEF HandlerReturns, phase, failed
  <2>5. phase = "running" => d.next + 1 \in Handler
    BY <2>1 DEF phase, Handler
  <2>6. TypeOK'  BY <1>7, <2>1, <2>3, <2>4 DEF HandlerReturns, tableVars, pubVars, timeVars
  <2>7. RunOK'
    <3>1. \A v \in Worker : v # w => run'[v] = run[v]  BY <2>4
    <3>2. run'[w].phase = phase /\ run'[w].row = d.row /\ run'[w].next = d.next + 1
      BY <2>1, <2>4 DEF Dispatch
    <3>3. batch' = batch /\ d.row \notin batch[w]  BY <1>7, <2>1 DEF HandlerReturns
    <3>4. QED  BY <2>1, <2>5, <3>1, <3>2, <3>3
  <2>8. QED  BY <2>6, <2>7
<1>8. ASSUME NEW w \in Worker, Heartbeat(w)  PROVE TypeInv'
  <2>1. [row[run[w].row] EXCEPT !.lease = HeartbeatLease] \in Row
    <3>1. row[run[w].row] \in Row  BY <1>8 DEF Heartbeat
    <3>2. QED  BY <3>1 DEF Row
  <2>2. row' \in [RowId -> Row]  BY <1>8, <2>1 DEF Heartbeat
  <2>3. QED  BY <1>8, <2>2 DEF Heartbeat, pubVars, workerVars, timeVars
<1>9. ASSUME NEW w \in Worker, DispatchTimeout(w)  PROVE TypeInv'
  BY <1>9 DEF DispatchTimeout, tableVars, pubVars, timeVars, Dispatch, Zombie
<1>10. ASSUME NEW w \in Worker, NEW z \in zombies[w], NEW ok \in BOOLEAN,
              ZombieReturns(w, z, ok)
       PROVE  TypeInv'
  <2>1. z.next < HandlerCount => [z EXCEPT !.next = z.next + 1] \in Zombie
    BY DEF Zombie, Handler
  <2>2. zombies' \in [Worker -> SUBSET Zombie]  BY <1>10, <2>1 DEF ZombieReturns
  <2>3. effects' \in [RowId -> SUBSET Handler]  BY <1>10 DEF ZombieReturns, Zombie
  <2>4. QED  BY <1>10, <2>2, <2>3 DEF ZombieReturns, tableVars, pubVars, timeVars
<1>11. ASSUME NEW w \in Worker, MarkProcessed(w)  PROVE TypeInv'
  <2>1. row' \in [RowId -> Row]  BY <1>11, SettledType DEF MarkProcessed, Dispatch
  <2>2. QED  BY <1>11, <2>1 DEF MarkProcessed, pubVars, timeVars, Idle, NoCopy, Copy, Dispatch
<1>12. ASSUME NEW w \in Worker, MarkFailed(w)  PROVE TypeInv'
  <2>1. row' \in [RowId -> Row]  BY <1>12, SettledType DEF MarkFailed, Dispatch
  <2>2. QED  BY <1>12, <2>1 DEF MarkFailed, pubVars, timeVars, Idle, NoCopy, Copy, Dispatch
<1>13. ASSUME NEW w \in Worker, AckError(w)  PROVE TypeInv'
  <2>1. run[w] \in Dispatch /\ run[w].phase # "idle"  BY <1>13 DEF AckError
  <2>2. NoCopy \in Copy  BY DEF NoCopy, Copy
  <2>3. run' = [run EXCEPT ![w] = [run[w] EXCEPT !.phase = "nack", !.copy = NoCopy]]
    BY <1>13, Zenon DEF AckError
  <2>4. /\ [run[w] EXCEPT !.phase = "nack", !.copy = NoCopy] \in Dispatch
        /\ [run[w] EXCEPT !.phase = "nack", !.copy = NoCopy].phase = "nack"
        /\ [run[w] EXCEPT !.phase = "nack", !.copy = NoCopy].row = run[w].row
    BY <2>1, <2>2 DEF Dispatch
  <2>5. TypeOK'  BY <1>13, <2>3, <2>4 DEF AckError, tableVars, pubVars, timeVars
  <2>6. RunOK'
    <3>1. \A v \in Worker : v # w => run'[v] = run[v]  BY <2>3
    <3>2. run'[w].phase = "nack" /\ run'[w].row = run[w].row /\ batch' = batch
      BY <1>13, <2>3, <2>4 DEF AckError
    <3>3. QED  BY <2>1, <3>1, <3>2
  <2>7. QED  BY <2>5, <2>6
<1>14. ASSUME NEW w \in Worker, NackError(w)  PROVE TypeInv'
  BY <1>14 DEF NackError, tableVars, pubVars, timeVars, Idle, NoCopy, Copy, Dispatch
<1>15. ASSUME NEW w \in Worker, Crash(w)  PROVE TypeInv'
  BY <1>15 DEF Crash, tableVars, pubVars, timeVars, Idle, NoCopy, Copy, Dispatch
<1>16. ASSUME NEW w \in Worker, Restart(w)  PROVE TypeInv'
  BY <1>16 DEF Restart, tableVars, pubVars, timeVars
<1>17. CASE Tick
  <2>1. row' \in [RowId -> Row]  BY <1>17, AgedType DEF Tick
  <2>2. run' \in [Worker -> Dispatch]
    <3>1. ASSUME NEW d \in Dispatch  PROVE [d EXCEPT !.left = Down(@)] \in Dispatch
      <4>1. Down(d.left) \in Nat  BY DEF Down, Dispatch
      <4>2. QED  BY <4>1 DEF Dispatch
    <3>2. QED  BY <1>17, <3>1 DEF Tick
  <2>3. \A w \in Worker : /\ run'[w].phase = run[w].phase
                          /\ run'[w].row = run[w].row
                          /\ run'[w].next = run[w].next
    BY <1>17 DEF Tick, Dispatch
  <2>4. age' \in [Worker -> Nat] /\ overrun' \in BOOLEAN  BY <1>17 DEF Tick
  <2>5. QED  BY <1>17, <2>1, <2>2, <2>3, <2>4 DEF Tick, pubVars
<1>18. CASE UNCHANGED vars  BY <1>18 DEF vars
<1>20. ASSUME NEW w \in Worker, LoadRow(w)  PROVE TypeInv'
  <2> DEFINE ph == IF run[w].phase = "ack" THEN "acking" ELSE "nacking"
  <2>1. run[w] \in Dispatch /\ run[w].phase # "idle" /\ run[w].row \in RowId
    BY <1>20 DEF LoadRow
  <2>2. CopyOf(row[run[w].row]) \in Copy  BY <2>1, CopyType
  <2>3. run' = [run EXCEPT ![w] = [run[w] EXCEPT !.phase = ph, !.copy = CopyOf(row[run[w].row])]]
    BY <1>20, Zenon DEF LoadRow
  <2>4. [run[w] EXCEPT !.phase = ph, !.copy = CopyOf(row[run[w].row])] \in Dispatch
    BY <2>1, <2>2 DEF Dispatch
  <2>5. TypeOK'  BY <1>20, <2>3, <2>4 DEF LoadRow, tableVars, pubVars, timeVars
  <2>6. RunOK'
    <3>1. \A v \in Worker : v # w => run'[v] = run[v]  BY <2>3
    <3>2. run'[w].phase = ph /\ run'[w].row = run[w].row /\ batch' = batch
      BY <1>20, <2>1, <2>3 DEF LoadRow, Dispatch
    <3>3. QED  BY <2>1, <3>1, <3>2
  <2>7. QED  BY <2>5, <2>6
<1>19. QED
  BY <1>1, <1>2, <1>3, <1>4, <1>5, <1>6, <1>7, <1>8, <1>9, <1>10, <1>11, <1>12,
     <1>13, <1>14, <1>15, <1>16, <1>17, <1>18, <1>20
  DEF Next, Publish, Work, Fault

\* Type correctness of the outbox table, its publishers and its workers.
THEOREM TypeCorrect == Spec => []TypeOK
<1>1. TypeInv => TypeOK  BY DEF TypeInv
<1>2. QED  BY <1>1, InitType, StepType, PTL DEF Spec

-----------------------------------------------------------------------------
(* How one step can change one row.                                        *)

SameRow(r, s) == /\ s.status = r.status /\ s.key = r.key
                 /\ s.attempts = r.attempts

RowChange(i) ==
    \/ SameRow(row[i], row'[i])
    \/ \E p \in Publisher :
         /\ InsertRow(p) /\ i = nextRow
         /\ row'[i] = [NoRow EXCEPT !.status = "pending", !.key = pub[p].key]
    \/ \E w \in Worker :
         \/ Claim(w) /\ i \in NextBatch /\ row'[i] = MarkClaimed(row[i], w)
         \/ MarkProcessed(w) /\ i = run[w].row /\ row'[i] = Processed(row[i], run[w].copy)
         \/ MarkFailed(w) /\ i = run[w].row /\ row'[i] = Failed(row[i], run[w].copy)

\* Only an insert, a claim and the two mark_* calls change a row's status, key
\* or attempts; heartbeats and time leave them alone.
LEMMA RowStep ==
    ASSUME TypeInv, [Next]_vars, NEW i \in RowId
    PROVE  RowChange(i)
<1> USE DEF TypeInv, TypeOK
<1>1. UNCHANGED row => RowChange(i)  BY DEF RowChange, SameRow
<1>2. ASSUME NEW p \in Publisher, Publish(p)  PROVE RowChange(i)
  <2>1. CASE InsertRow(p)
    <3>1. nextRow \in RowId  BY <2>1 DEF InsertRow, RowId
    <3>2. CASE i = nextRow  BY <2>1, <3>1, <3>2 DEF InsertRow, RowChange
    <3>3. CASE i # nextRow  BY <2>1, <3>1, <3>3 DEF InsertRow, RowChange, SameRow
    <3>4. QED  BY <3>2, <3>3
  <2>2. CASE ~InsertRow(p)
    BY <1>1, <1>2, <2>2 DEF Publish, Admit, ReturnExisting, FindNone, tableVars
  <2>3. QED  BY <2>1, <2>2
<1>3. ASSUME NEW w \in Worker, Claim(w)  PROVE RowChange(i)
  BY <1>3 DEF Claim, RowChange, SameRow
<1>4. ASSUME NEW w \in Worker, Heartbeat(w)  PROVE RowChange(i)
  <2>1. row[i] \in Row  OBVIOUS
  <2>2. row'[i] = row[i] \/ row'[i] = [row[i] EXCEPT !.lease = HeartbeatLease]
    BY <1>4 DEF Heartbeat
  <2>3. QED  BY <2>1, <2>2 DEF RowChange, SameRow, Row
<1>5. ASSUME NEW w \in Worker, MarkProcessed(w)  PROVE RowChange(i)
  BY <1>5 DEF MarkProcessed, RowChange, SameRow
<1>6. ASSUME NEW w \in Worker, MarkFailed(w)  PROVE RowChange(i)
  BY <1>6 DEF MarkFailed, RowChange, SameRow
<1>7. ASSUME NEW w \in Worker,
             \/ StartDispatch(w) \/ DispatchTimeout(w) \/ LoadRow(w)
             \/ \E ok \in BOOLEAN : HandlerReturns(w, ok)
             \/ \E z \in zombies[w], ok \in BOOLEAN : ZombieReturns(w, z, ok)
             \/ Fault(w) \/ Restart(w)
      PROVE  RowChange(i)
  BY <1>1, <1>7 DEF StartDispatch, LoadRow, DispatchTimeout, HandlerReturns, ZombieReturns,
                    Fault, AckError, NackError, Crash, Restart, tableVars
<1>8. CASE Tick
  <2>1. row[i] \in Row /\ row'[i] = AgeRow(row[i])  BY <1>8 DEF Tick
  <2>2. QED  BY <2>1 DEF AgeRow, RowChange, SameRow, Row
<1>9. CASE UNCHANGED vars  BY <1>1, <1>9 DEF vars
<1>10. QED
  BY <1>2, <1>3, <1>4, <1>5, <1>6, <1>7, <1>8, <1>9 DEF Next, Work

\* A claim only takes rows that are still to be delivered.
LEMMA ClaimsOpen ==
    ASSUME NEW i \in NextBatch
    PROVE  row[i].status \in Open
  BY DEF NextBatch, Eligible, Open

LEMMA ClaimedFields ==
    ASSUME NEW r \in Row, NEW w
    PROVE  /\ MarkClaimed(r, w).status = "processing"
           /\ MarkClaimed(r, w).key = r.key
           /\ MarkClaimed(r, w).attempts = r.attempts
           /\ MarkClaimed(r, w).leasedBy = w
           /\ MarkClaimed(r, w).lease = ClaimLease
           /\ MarkClaimed(r, w).lockAge = 0
  BY DEF MarkClaimed, Row

\* A worker comes to hold a row only by claiming it.
LEMMA HeldStep ==
    ASSUME TypeInv, [Next]_vars, NEW w \in Worker, NEW i \in RowId, Holds(w, i)'
    PROVE  Holds(w, i) \/ (Claim(w) /\ i \in NextBatch)
<1> USE DEF TypeInv, TypeOK, Holds
<1>1. ASSUME NEW v \in Worker, Claim(v)
      PROVE  Holds(w, i) \/ (Claim(w) /\ i \in NextBatch)
  BY <1>1 DEF Claim
<1>2. ASSUME NEW v \in Worker, StartDispatch(v)  PROVE Holds(w, i)
  <2>1. PICK j \in batch[v] :
          /\ batch' = [batch EXCEPT ![v] = @ \ {j}]
          /\ \E ph : run' = [run EXCEPT ![v] =
               [phase |-> ph, row |-> j, next |-> 1, failed |-> FALSE, left |-> Timeout,
                copy |-> NoCopy]]
    BY <1>2 DEF StartDispatch
  <2>2. QED  BY <2>1
<1>3. ASSUME NEW v \in Worker, NEW ok \in BOOLEAN, HandlerReturns(v, ok)  PROVE Holds(w, i)
  BY <1>3 DEF HandlerReturns, Dispatch
<1>4. ASSUME NEW v \in Worker, DispatchTimeout(v) \/ AckError(v) \/ LoadRow(v)
      PROVE  Holds(w, i)
  <2>1. batch' = batch  BY <1>4 DEF DispatchTimeout, AckError, LoadRow
  <2>2. run'[w].row = run[w].row /\ (run[w].phase = "idle" => run'[w].phase = "idle")
    BY <1>4 DEF DispatchTimeout, AckError, LoadRow, Dispatch
  <2>3. QED  BY <2>1, <2>2
<1>5. ASSUME NEW v \in Worker, MarkProcessed(v) \/ MarkFailed(v) \/ NackError(v) \/ Crash(v)
      PROVE  Holds(w, i)
  BY <1>5 DEF MarkProcessed, MarkFailed, NackError, Crash, Idle
<1>6. ASSUME NEW v \in Worker,
             \/ Heartbeat(v) \/ Restart(v)
             \/ \E z \in zombies[v], ok \in BOOLEAN : ZombieReturns(v, z, ok)
      PROVE  Holds(w, i)
  BY <1>6 DEF Heartbeat, Restart, ZombieReturns, workerVars
<1>7. ASSUME NEW p \in Publisher, Publish(p)  PROVE Holds(w, i)
  BY <1>7 DEF Publish, Admit, ReturnExisting, FindNone, InsertRow, workerVars
<1>8. CASE Tick
  <2>1. run'[w].phase = run[w].phase /\ run'[w].row = run[w].row /\ batch' = batch
    BY <1>8 DEF Tick, Dispatch
  <2>2. QED  BY <2>1
<1>9. CASE UNCHANGED vars  BY <1>9 DEF vars
<1>10. QED
  BY <1>1, <1>2, <1>3, <1>4, <1>5, <1>6, <1>7, <1>8, <1>9 DEF Next, Work, Fault

\* A worker that settles a row lets go of it.
LEMMA MarkReleases ==
    ASSUME TypeInv, NEW w \in Worker, MarkProcessed(w) \/ MarkFailed(w)
    PROVE  \A i : i = run[w].row => Holds(w, i) /\ ~Holds(w, i)'
<1> USE DEF TypeInv, TypeOK, MarkProcessed, MarkFailed
<1>1. run[w].phase # "idle" /\ run[w].row \notin batch[w]  BY DEF RunOK
<1>2. batch' = batch /\ run'[w] = Idle  OBVIOUS
<1>3. QED  BY <1>1, <1>2 DEF Holds, Idle

-----------------------------------------------------------------------------
(* Publishing.                                                             *)

AllocOK == \A i \in RowId : row[i].status # "none" <=> i < nextRow

HeldOK == \A w \in Worker, i \in RowId : Holds(w, i) => row[i].status # "none"

KeyOK ==
    \A i, j \in RowId :
        /\ row[i].status # "none" /\ row[j].status # "none"
        /\ row[i].key = row[j].key /\ row[i].key # NoKey
        => i = j

ReceiptOK == \A r \in receipts : row[r[2]].status # "none" /\ row[r[2]].key = r[1]

TableInv == TypeInv /\ AllocOK /\ HeldOK /\ KeyOK /\ ReceiptOK

\* A row, once inserted, keeps its key and is never taken out of the table; a
\* row appears only through an insert, at the next id.
LEMMA RowStable ==
    ASSUME TableInv, [Next]_vars, NEW i \in RowId
    PROVE  /\ row[i].status # "none" =>
                row'[i].status # "none" /\ row'[i].key = row[i].key
           /\ row[i].status = "none" /\ row'[i].status # "none" =>
                \E p \in Publisher :
                  InsertRow(p) /\ i = nextRow /\ row'[i].key = pub[p].key
<1> USE DEF TableInv
<1>1. RowChange(i)  BY RowStep
<1>2. row[i] \in Row  BY DEF TypeInv, TypeOK
<1>3. CASE SameRow(row[i], row'[i])  BY <1>3 DEF SameRow
<1>4. ASSUME NEW p \in Publisher, InsertRow(p), i = nextRow,
             row'[i] = [NoRow EXCEPT !.status = "pending", !.key = pub[p].key]
      PROVE  /\ row[i].status = "none"
             /\ row'[i].key = pub[p].key
  BY <1>4 DEF AllocOK, NoRow, TypeInv, TypeOK
<1>5. ASSUME NEW w \in Worker, Claim(w), i \in NextBatch, row'[i] = MarkClaimed(row[i], w)
      PROVE  /\ row[i].status # "none" /\ row'[i].status # "none"
             /\ row'[i].key = row[i].key
  BY <1>2, <1>5, ClaimsOpen, ClaimedFields DEF Open
<1>6. ASSUME NEW w \in Worker, i = run[w].row,
             \/ MarkProcessed(w) /\ row'[i] = Processed(row[i], run[w].copy)
             \/ MarkFailed(w) /\ row'[i] = Failed(row[i], run[w].copy)
      PROVE  /\ row[i].status # "none" /\ row'[i].status # "none"
             /\ row'[i].key = row[i].key
  <2>1. row[i].status # "none"  BY <1>6, MarkReleases DEF HeldOK
  <2>2. run[w].copy \in Copy  BY DEF TypeInv, TypeOK, Dispatch
  <2>3. CASE row'[i] = Processed(row[i], run[w].copy)
    BY <1>2, <2>1, <2>2, <2>3, SettledType
  <2>4. CASE row'[i] = Failed(row[i], run[w].copy)
    BY <1>2, <2>1, <2>2, <2>4, SettledType
  <2>5. QED  BY <1>6, <2>3, <2>4
<1>7. QED  BY <1>1, <1>3, <1>4, <1>5, <1>6 DEF RowChange

LEMMA TableInit == Init => TableInv
<1> SUFFICES ASSUME Init PROVE TableInv  OBVIOUS
<1>1. TypeInv  BY InitType
<1>2. AllocOK  BY OutboxAssumption DEF Init, AllocOK, NoRow, RowId
<1>3. HeldOK  BY DEF Init, HeldOK, Holds, Idle
<1>4. KeyOK  BY DEF Init, KeyOK, NoRow
<1>5. ReceiptOK  BY DEF Init, ReceiptOK
<1>6. QED  BY <1>1, <1>2, <1>3, <1>4, <1>5 DEF TableInv

LEMMA TableStep == TableInv /\ [Next]_vars => TableInv'
<1> SUFFICES ASSUME TableInv, [Next]_vars PROVE TableInv'  OBVIOUS
<1>1. TypeInv /\ TypeInv'  BY StepType DEF TableInv
<1>2. \/ nextRow' = nextRow /\ \A p \in Publisher : ~InsertRow(p)
      \/ \E p \in Publisher : InsertRow(p)
  BY <1>1
  DEF Next, Publish, Admit, ReturnExisting, FindNone, Work, Fault, Tick, Claim,
      StartDispatch, HandlerReturns, Heartbeat, DispatchTimeout, ZombieReturns, LoadRow,
      MarkProcessed, MarkFailed, AckError, NackError, Crash, Restart, tableVars, vars
<1>3. AllocOK'
  <2>1. CASE nextRow' = nextRow /\ \A p \in Publisher : ~InsertRow(p)
    BY <2>1, RowStable DEF TableInv, AllocOK
  <2>2. ASSUME NEW p \in Publisher, InsertRow(p)  PROVE AllocOK'
    <3>1. nextRow \in RowId /\ nextRow' = nextRow + 1
      BY <1>1, <2>2 DEF InsertRow, RowId, TypeInv, TypeOK
    <3>2. row'[nextRow].status = "pending"
      BY <1>1, <2>2, <3>1 DEF InsertRow, NoRow, TypeInv, TypeOK
    <3>3. \A i \in RowId : i # nextRow => row'[i] = row[i]
      BY <1>1, <2>2 DEF InsertRow, TypeInv, TypeOK
    <3>4. QED  BY <3>1, <3>2, <3>3 DEF TableInv, AllocOK, RowId
  <2>3. QED  BY <1>2, <2>1, <2>2
<1>4. HeldOK'
  <2> SUFFICES ASSUME NEW w \in Worker, NEW i \in RowId, Holds(w, i)'
               PROVE  row'[i].status # "none"
    BY DEF HeldOK
  <2>1. CASE Holds(w, i)  BY <2>1, RowStable DEF TableInv, HeldOK
  <2>2. CASE i \in NextBatch  BY <2>2, ClaimsOpen, RowStable DEF Open
  <2>3. QED  BY <1>1, <2>1, <2>2, HeldStep
<1>5. KeyOK'
  <2> SUFFICES ASSUME NEW i \in RowId, NEW j \in RowId, i # j,
                      row'[i].status # "none", row'[j].status # "none",
                      row'[i].key = row'[j].key, row'[i].key # NoKey
               PROVE  FALSE
    BY DEF KeyOK
  <2>1. CASE row[i].status # "none" /\ row[j].status # "none"
    BY <2>1, RowStable DEF TableInv, KeyOK
  <2>2. ASSUME NEW a \in RowId, NEW b \in RowId, a # b,
               row[a].status = "none", row'[a].status # "none", row'[b].status # "none",
               row'[a].key = row'[b].key, row'[a].key # NoKey
        PROVE  FALSE
    <3>1. PICK p \in Publisher : InsertRow(p) /\ a = nextRow /\ row'[a].key = pub[p].key
      BY <2>2, RowStable
    <3>2. row'[b] = row[b]
      BY <1>1, <2>2, <3>1 DEF InsertRow, TypeInv, TypeOK
    <3>3. b \in RowsWith(pub[p].key)  BY <2>2, <3>1, <3>2 DEF RowsWith
    <3>4. QED  BY <3>1, <3>3 DEF InsertRow, IndexAllows
  <2>3. QED  BY <2>1, <2>2
<1>6. ReceiptOK'
  <2> SUFFICES ASSUME NEW r \in receipts'
               PROVE  row'[r[2]].status # "none" /\ row'[r[2]].key = r[1]
    BY DEF ReceiptOK
  <2>1. r[2] \in RowId  BY <1>1 DEF TypeInv, TypeOK
  <2>2. CASE r \in receipts  BY <2>1, <2>2, RowStable DEF TableInv, ReceiptOK
  <2>3. CASE r \notin receipts
    <3>1. PICK p \in Publisher : ReturnExisting(p) \/ InsertRow(p)
      BY <2>3
      DEF Next, Publish, Admit, FindNone, Work, Fault, Tick, Claim, pubVars,
          StartDispatch, HandlerReturns, Heartbeat, DispatchTimeout, ZombieReturns,
          LoadRow, MarkProcessed, MarkFailed, AckError, NackError, Crash, Restart, vars
    <3>2. CASE ReturnExisting(p)
      BY <2>3, <3>2 DEF ReturnExisting, RowsWith, tableVars
    <3>3. CASE InsertRow(p)
      <4>1. r = <<pub[p].key, nextRow>> /\ nextRow \in RowId
        BY <1>1, <2>3, <3>3 DEF InsertRow, RowId, TypeInv, TypeOK
      <4>2. QED  BY <1>1, <3>3, <4>1 DEF InsertRow, NoRow, TypeInv, TypeOK
    <3>4. QED  BY <3>1, <3>2, <3>3
  <2>4. QED  BY <2>2, <2>3
<1>7. QED  BY <1>1, <1>3, <1>4, <1>5, <1>6 DEF TableInv

\* append is idempotent: for any number of publishers and keys, two calls with
\* one key get the same row.
THEOREM AppendIdempotent == Spec => []IdempotentAppend
<1>1. TableInv => IdempotentAppend
  <2> SUFFICES ASSUME TableInv, NEW r1 \in receipts, NEW r2 \in receipts, r1[1] # NoKey
               PROVE  /\ row[r1[2]].key = r1[1] /\ row[r1[2]].status # "none"
                      /\ r1[1] = r2[1] => r1[2] = r2[2]
    BY DEF IdempotentAppend
  <2>1. r1[2] \in RowId /\ r2[2] \in RowId  BY DEF TableInv, TypeInv, TypeOK
  <2>2. QED  BY <2>1 DEF TableInv, ReceiptOK, KeyOK
<1>2. QED  BY <1>1, TableInit, TableStep, PTL DEF Spec

-----------------------------------------------------------------------------
(* At-least-once handling.                                                 *)

\* A dispatch without an exception so far has run the handlers before the
\* current one; one that is about to be acknowledged has run them all.
DispatchOK ==
    \A w \in Worker :
        /\ run[w].phase = "running" /\ ~run[w].failed =>
             \A h \in Handler : h < run[w].next => h \in effects[run[w].row]
        /\ run[w].phase \in {"ack", "acking"} => effects[run[w].row] = Handler

HandledInv == TypeInv /\ DispatchOK /\ AckMeansHandled

\* What the handlers have done is never undone.
LEMMA EffectsGrow ==
    ASSUME TypeInv, [Next]_vars, NEW i \in RowId
    PROVE  effects[i] \subseteq effects'[i]
<1> USE DEF TypeInv, TypeOK
<1>1. ASSUME NEW w \in Worker, NEW ok \in BOOLEAN, HandlerReturns(w, ok)
      PROVE  effects[i] \subseteq effects'[i]
  BY <1>1 DEF HandlerReturns
<1>2. ASSUME NEW w \in Worker, NEW z \in zombies[w], NEW ok \in BOOLEAN,
             ZombieReturns(w, z, ok)
      PROVE  effects[i] \subseteq effects'[i]
  BY <1>2 DEF ZombieReturns
<1>3. ASSUME NEW p \in Publisher, Publish(p)  PROVE effects' = effects
  BY <1>3 DEF Publish, Admit, ReturnExisting, FindNone, InsertRow
<1>4. ASSUME NEW w \in Worker,
             \/ Claim(w) \/ StartDispatch(w) \/ Heartbeat(w) \/ DispatchTimeout(w)
             \/ LoadRow(w) \/ MarkProcessed(w) \/ MarkFailed(w) \/ Fault(w) \/ Restart(w)
      PROVE  effects' = effects
  BY <1>4 DEF Claim, StartDispatch, LoadRow, Heartbeat, DispatchTimeout, MarkProcessed,
              MarkFailed, Fault, AckError, NackError, Crash, Restart
<1>5. Tick \/ UNCHANGED vars => effects' = effects  BY DEF Tick, vars
<1>6. QED  BY <1>1, <1>2, <1>3, <1>4, <1>5 DEF Next, Work

LEMMA HandledInit == Init => HandledInv
<1> SUFFICES ASSUME Init PROVE HandledInv  OBVIOUS
<1>1. TypeInv  BY InitType
<1>2. DispatchOK  BY DEF Init, DispatchOK, Idle
<1>3. AckMeansHandled  BY DEF Init, AckMeansHandled, NoRow
<1>4. QED  BY <1>1, <1>2, <1>3 DEF HandledInv

\* Steps that start, advance or end a dispatch keep DispatchOK; so does every
\* step that leaves the dispatch alone, because effects only grow.
LEMMA DispatchStep == HandledInv /\ [Next]_vars => DispatchOK'
<1> SUFFICES ASSUME HandledInv, [Next]_vars, NEW w \in Worker
             PROVE  /\ run'[w].phase = "running" /\ ~run'[w].failed =>
                         \A h \in Handler : h < run'[w].next => h \in effects'[run'[w].row]
                    /\ run'[w].phase \in {"ack", "acking"} => effects'[run'[w].row] = Handler
  BY DEF DispatchOK
<1> DEFINE Goal == /\ run'[w].phase = "running" /\ ~run'[w].failed =>
                        \A h \in Handler : h < run'[w].next => h \in effects'[run'[w].row]
                   /\ run'[w].phase \in {"ack", "acking"} => effects'[run'[w].row] = Handler
           Same == /\ run'[w].phase = run[w].phase /\ run'[w].failed = run[w].failed
                   /\ run'[w].next = run[w].next /\ run'[w].row = run[w].row
<1> USE DEF HandledInv, TypeInv, TypeOK
<1>1. TypeInv'  BY StepType
<1>2. ASSUME Same  PROVE Goal
  <2>1. run[w].phase # "idle" => effects[run[w].row] \subseteq effects'[run[w].row]
    BY EffectsGrow DEF RunOK
  <2>2. run[w].phase # "idle" => effects'[run[w].row] \subseteq Handler
    BY <1>1 DEF RunOK
  <2>3. run'[w].phase = "running" /\ ~run'[w].failed =>
          \A h \in Handler : h < run'[w].next => h \in effects'[run'[w].row]
    BY <1>2, <2>1 DEF DispatchOK
  <2>4. run'[w].phase \in {"ack", "acking"} => effects'[run'[w].row] = Handler
    <3>1. SUFFICES ASSUME run'[w].phase \in {"ack", "acking"}
                   PROVE  effects'[run[w].row] = Handler
      BY <1>2
    <3>2. run[w].phase \in {"ack", "acking"} /\ run[w].phase # "idle"  BY <1>2, <3>1
    <3>3. effects[run[w].row] = Handler  BY <3>2 DEF DispatchOK
    <3>4. QED  BY <2>1, <2>2, <3>2, <3>3
  <2>5. QED  BY <2>3, <2>4
<1>3. ASSUME run'[w].phase \in {"idle", "nack", "nacking"}  PROVE Goal  BY <1>3
<1>4. ASSUME NEW v \in Worker, StartDispatch(v)  PROVE Goal
  <2>1. CASE v # w  BY <1>2, <1>4, <2>1 DEF StartDispatch
  <2>2. CASE v = w
    <3>1. PICK i \in batch[w] : run' = [run EXCEPT ![w] =
            [phase |-> IF HandlerCount = 0 THEN "ack" ELSE "running",
             row |-> i, next |-> 1, failed |-> FALSE, left |-> Timeout,
             copy |-> NoCopy]]
      BY <1>4, <2>2 DEF StartDispatch
    <3>2. run'[w].phase = "running" => run'[w].next = 1  BY <3>1
    <3>3. /\ run'[w].phase \in {"ack", "running"}
          /\ run'[w].phase = "ack" => HandlerCount = 0 /\ run'[w].row \in RowId
      BY <3>1
    <3>4. HandlerCount = 0 => Handler = {}  BY DEF Handler
    <3>5. \A h \in Handler : ~(h < 1)  BY DEF Handler
    <3>6. run'[w].phase = "ack" => effects'[run'[w].row] \subseteq Handler  BY <1>1, <3>3
    <3>7. run'[w].phase = "ack" => effects'[run'[w].row] = Handler  BY <3>3, <3>4, <3>6
    <3>8. QED  BY <3>2, <3>3, <3>5, <3>7
  <2>3. QED  BY <2>1, <2>2
<1>5. ASSUME NEW v \in Worker, NEW ok \in BOOLEAN, HandlerReturns(v, ok)  PROVE Goal
  <2>1. CASE v # w  BY <1>2, <1>5, <2>1 DEF HandlerReturns
  <2>2. CASE v = w
    <3> DEFINE d == run[w]
    <3>1. /\ d.phase = "running" /\ d.row \in RowId /\ d.next \in Handler /\ d \in Dispatch
          /\ effects' = IF ok THEN [effects EXCEPT ![d.row] = @ \cup {d.next}] ELSE effects
      BY <1>5, <2>2 DEF HandlerReturns, RunOK
    <3>2. /\ run'[w].failed = (d.failed \/ ~ok)
          /\ run'[w].next = d.next + 1 /\ run'[w].row = d.row
          /\ run'[w].phase = IF d.next < HandlerCount THEN "running"
                             ELSE IF d.failed \/ ~ok THEN "nack" ELSE "ack"
      BY <1>5, <2>2 DEF HandlerReturns, Dispatch
    <3>3. ~d.failed /\ ok => \A h \in Handler : h <= d.next => h \in effects'[d.row]
      BY <3>1 DEF DispatchOK, Handler
    <3>4. run'[w].phase = "running" /\ ~run'[w].failed =>
            \A h \in Handler : h < run'[w].next => h \in effects'[run'[w].row]
      <4>1. \A h \in Handler : h < d.next + 1 => h <= d.next  BY <3>1 DEF Handler
      <4>2. QED  BY <3>2, <3>3, <4>1
    <3>5. run'[w].phase = "ack" => effects'[run'[w].row] = Handler
      <4>1. run'[w].phase = "ack" => ~d.failed /\ ok /\ ~(d.next < HandlerCount)
        BY <3>2
      <4>2. ~(d.next < HandlerCount) => \A h \in Handler : h <= d.next
        BY <3>1, OutboxAssumption DEF Handler
      <4>3. effects'[d.row] \subseteq Handler  BY <1>1, <3>1
      <4>4. QED  BY <3>2, <3>3, <4>1, <4>2, <4>3
    <3>6. QED  BY <3>2, <3>4, <3>5
  <2>3. QED  BY <2>1, <2>2
<1>6. ASSUME NEW v \in Worker, DispatchTimeout(v) \/ AckError(v)  PROVE Goal
  <2>1. v = w => run'[w].phase = "nack"  BY <1>6 DEF DispatchTimeout, AckError, Dispatch
  <2>2. v # w => Same  BY <1>6 DEF DispatchTimeout, AckError
  <2>4. QED  BY <1>2, <1>3, <2>1, <2>2
<1>7. ASSUME NEW v \in Worker, MarkProcessed(v) \/ MarkFailed(v) \/ NackError(v) \/ Crash(v)
      PROVE  Goal
  <2>1. run' = [run EXCEPT ![v] = Idle]
    BY <1>7 DEF MarkProcessed, MarkFailed, NackError, Crash
  <2>2. v = w => run'[w].phase = "idle"  BY <2>1 DEF Idle
  <2>3. v # w => Same  BY <2>1
  <2>4. QED  BY <1>2, <1>3, <2>2, <2>3
<1>8. ASSUME NEW v \in Worker,
             \/ Claim(v) \/ Heartbeat(v) \/ Restart(v)
             \/ \E z \in zombies[v], ok \in BOOLEAN : ZombieReturns(v, z, ok)
      PROVE  Goal
  BY <1>2, <1>8 DEF Claim, Heartbeat, Restart, ZombieReturns, workerVars
<1>9. ASSUME NEW p \in Publisher, Publish(p)  PROVE Goal
  BY <1>2, <1>9 DEF Publish, Admit, ReturnExisting, FindNone, InsertRow, workerVars
<1>10. CASE Tick  BY <1>2, <1>10 DEF Tick, Dispatch
<1>11. CASE UNCHANGED vars  BY <1>2, <1>11 DEF vars
<1>13. ASSUME NEW v \in Worker, LoadRow(v)  PROVE Goal
  <2>1. CASE v # w  BY <1>2, <1>13, <2>1 DEF LoadRow
  <2>2. CASE v = w
    <3>1. /\ run'[w].row = run[w].row /\ effects' = effects
          /\ run'[w].phase = IF run[w].phase = "ack" THEN "acking" ELSE "nacking"
      BY <1>13, <2>2 DEF LoadRow, Dispatch
    <3>2. QED  BY <3>1 DEF DispatchOK
  <2>3. QED  BY <2>1, <2>2
<1>12. QED
  BY <1>13, <1>4, <1>5, <1>6, <1>7, <1>8, <1>9, <1>10, <1>11 DEF Next, Work, Fault

LEMMA HandledStep == HandledInv /\ [Next]_vars => HandledInv'
<1> SUFFICES ASSUME HandledInv, [Next]_vars PROVE HandledInv'  OBVIOUS
<1>1. TypeInv /\ TypeInv'  BY StepType DEF HandledInv
<1>2. DispatchOK'  BY DispatchStep
<1>3. AckMeansHandled'
  <2> SUFFICES ASSUME NEW i \in RowId, row'[i].status = "processed"
               PROVE  effects'[i] = Handler
    BY DEF AckMeansHandled
  <2>1. effects[i] \subseteq effects'[i] /\ effects'[i] \subseteq Handler
    BY <1>1, EffectsGrow DEF TypeInv, TypeOK
  <2>2. row[i] \in Row  BY <1>1 DEF TypeInv, TypeOK
  <2>3. CASE SameRow(row[i], row'[i])
    BY <2>1, <2>3 DEF SameRow, HandledInv, AckMeansHandled
  <2>4. ASSUME NEW w \in Worker, MarkProcessed(w), i = run[w].row
        PROVE  effects'[i] = Handler
    BY <2>1, <2>4 DEF MarkProcessed, HandledInv, DispatchOK
  <2>5. ASSUME NEW w \in Worker, row'[i] = MarkClaimed(row[i], w)  PROVE FALSE
    BY <2>2, <2>5, ClaimedFields
  <2>8. ASSUME NEW w \in Worker, MarkFailed(w), row'[i] = Failed(row[i], run[w].copy)
        PROVE  effects'[i] = Handler
    <3>1. run[w].copy \in Copy  BY <1>1 DEF TypeInv, TypeOK, Dispatch
    <3>2. row[i].status = "processed"  BY <2>2, <2>8, <3>1, SettledType
    <3>3. QED  BY <2>1, <3>2 DEF HandledInv, AckMeansHandled
  <2>6. ASSUME NEW p \in Publisher,
               row'[i] = [NoRow EXCEPT !.status = "pending", !.key = pub[p].key]
        PROVE  FALSE
    BY <2>6 DEF NoRow
  <2>7. QED  BY <1>1, <2>3, <2>4, <2>5, <2>6, <2>8, RowStep DEF RowChange
<1>4. QED  BY <1>1, <1>2, <1>3 DEF HandledInv

\* An event is acknowledged only when all its handlers have returned normally,
\* for any number of workers, handlers, crashes, timeouts and takeovers.
THEOREM AtLeastOnceHandling == Spec => []AckMeansHandled
<1>1. HandledInv => AckMeansHandled  BY DEF HandledInv
<1>2. QED  BY <1>1, HandledInit, HandledStep, PTL DEF Spec

-----------------------------------------------------------------------------
(* What is promised as long as every row a worker holds is still marked as *)
(* being processed when the worker settles it.                             *)

HeldRowsProcessing ==
    \A w \in Worker, i \in RowId : Holds(w, i) => row[i].status = "processing"

HeldInv == TableInv /\ HeldRowsProcessing

\* No outcome is revised.
LEMMA HeldFinal ==
    ASSUME HeldInv, [Next]_vars, NEW i \in RowId, row[i].status \in Settled
    PROVE  row'[i].status = row[i].status
<1>1. TypeInv  BY DEF HeldInv, TableInv
<1>2. ASSUME NEW v \in Worker, MarkProcessed(v) \/ MarkFailed(v), i = run[v].row
      PROVE  FALSE
  BY <1>1, <1>2, MarkReleases DEF HeldInv, HeldRowsProcessing, Settled
<1>3. i \notin NextBatch  BY ClaimsOpen DEF Open, Settled
<1>4. i # nextRow
  BY <1>1 DEF HeldInv, TableInv, AllocOK, TypeInv, TypeOK, RowId, Settled
<1>5. QED
  BY <1>1, <1>2, <1>3, <1>4, RowStep DEF RowChange, SameRow

\* The rows that are still to be delivered, and the publishers that were admitted
\* and have not inserted yet: together they are bounded, which Backlog alone is
\* not inductively.
OpenRows == {i \in RowId : row[i].status \in Open}
InFlight == {p \in Publisher : pub[p].at # "idle"}
BacklogInv == Backlog + Cardinality(InFlight) <= BacklogLimit + Cardinality(Publisher) - 1

LEMMA RowsFinite ==
    /\ IsFiniteSet(RowId)
    /\ \A S : S \subseteq RowId => IsFiniteSet(S)
<1>1. IsFiniteSet(RowId)  BY OutboxAssumption, FS_Interval DEF RowId
<1>2. QED  BY <1>1, FS_Subset

LEMMA BacklogFinite ==
    /\ IsFiniteSet(OpenRows) /\ IsFiniteSet(InFlight)
    /\ Backlog = Cardinality(OpenRows)
    /\ Backlog \in Nat /\ Cardinality(InFlight) \in Nat /\ Cardinality(Publisher) \in Nat
    /\ Cardinality(InFlight) <= Cardinality(Publisher)
<1>1. IsFiniteSet(OpenRows)  BY RowsFinite DEF OpenRows
<1>2. IsFiniteSet(InFlight) /\ Cardinality(InFlight) <= Cardinality(Publisher)
  BY OutboxAssumption, FS_Subset DEF InFlight
<1>3. Backlog = Cardinality(OpenRows)  BY DEF Backlog, OpenRows
<1>4. QED  BY <1>1, <1>2, <1>3, OutboxAssumption, FS_CardinalityType

LEMMA BacklogInit == Init => BacklogInv
<1> SUFFICES ASSUME Init PROVE BacklogInv  OBVIOUS
<1>1. OpenRows = {} /\ InFlight = {}
  BY DEF Init, OpenRows, InFlight, NoRow, NoPub, Open
<1>2. Cardinality(OpenRows) = 0 /\ Cardinality(InFlight) = 0  BY <1>1, FS_EmptySet
<1>3. QED  BY <1>2, BacklogFinite, OutboxAssumption DEF BacklogInv

\* A row is opened only by the insert of an admitted publisher.
LEMMA BacklogStep ==
    ASSUME HeldInv, BacklogInv, [Next]_vars
    PROVE  BacklogInv'
<1>0. TypeInv /\ TypeInv'  BY StepType DEF HeldInv, TableInv
<1>1. /\ IsFiniteSet(OpenRows) /\ IsFiniteSet(InFlight)
      /\ Backlog = Cardinality(OpenRows)
      /\ Cardinality(OpenRows) \in Nat /\ Cardinality(InFlight) \in Nat
      /\ Cardinality(Publisher) \in Nat
  BY BacklogFinite
<1>2. IsFiniteSet(OpenRows') /\ IsFiniteSet(InFlight') /\ Backlog' = Cardinality(OpenRows')
  <2>1. IsFiniteSet(OpenRows')  BY RowsFinite DEF OpenRows
  <2>2. IsFiniteSet(InFlight')  BY OutboxAssumption, FS_Subset DEF InFlight
  <2>3. QED  BY <2>1, <2>2 DEF Backlog, OpenRows
<1>3. /\ Cardinality(OpenRows') \in Nat /\ Cardinality(InFlight') \in Nat
      /\ Cardinality(InFlight') <= Cardinality(Publisher)
  <2>1. InFlight' \in SUBSET Publisher  BY DEF InFlight
  <2>2. QED  BY <1>2, <2>1, OutboxAssumption, FS_Subset, FS_CardinalityType
<1>4. ASSUME NEW i \in OpenRows', \A p \in Publisher : ~(InsertRow(p) /\ i = nextRow)
      PROVE  i \in OpenRows
  <2>1. i \in RowId /\ row[i] \in Row /\ row'[i].status \in Open
    BY <1>0 DEF OpenRows, TypeInv, TypeOK
  <2>2. ASSUME NEW v \in Worker, MarkProcessed(v) \/ MarkFailed(v), i = run[v].row
        PROVE  i \in OpenRows
    BY <1>0, <2>1, <2>2, MarkReleases DEF HeldInv, HeldRowsProcessing, OpenRows, Open
  <2>3. CASE SameRow(row[i], row'[i])  BY <2>1, <2>3 DEF SameRow, OpenRows
  <2>4. CASE i \in NextBatch  BY <2>1, <2>4, ClaimsOpen DEF OpenRows
  <2>5. QED  BY <1>0, <1>4, <2>1, <2>2, <2>3, <2>4, RowStep DEF RowChange
<1>5. ASSUME NEW p \in Publisher, InsertRow(p)  PROVE BacklogInv'
  <2>1. OpenRows' \in SUBSET (OpenRows \cup {nextRow})  BY <1>4 DEF InsertRow
  <2>2. Cardinality(OpenRows') <= Cardinality(OpenRows) + 1
    <3> DEFINE U == OpenRows \cup {nextRow}
    <3>1. /\ IsFiniteSet(U)
          /\ Cardinality(U) = IF nextRow \in OpenRows THEN Cardinality(OpenRows)
                              ELSE Cardinality(OpenRows) + 1
      BY <1>1, FS_AddElement
    <3>2. Cardinality(OpenRows') <= Cardinality(U)
      <4> HIDE DEF U
      <4> QED  BY <2>1, <3>1, FS_Subset DEF U
    <3> HIDE DEF U
    <3>3. QED  BY <1>1, <1>3, <3>1, <3>2
  <2>3. p \in InFlight /\ InFlight' = InFlight \ {p}
    BY <1>0, <1>5 DEF InsertRow, InFlight, NoPub, TypeInv, TypeOK
  <2>4. Cardinality(InFlight') = Cardinality(InFlight) - 1
    BY <1>1, <2>3, FS_RemoveElement
  <2>5. QED  BY <1>1, <1>2, <1>3, <2>2, <2>4, OutboxAssumption DEF BacklogInv
<1>6. ASSUME \A p \in Publisher : ~InsertRow(p)
      PROVE  Cardinality(OpenRows') <= Cardinality(OpenRows)
  <2>1. OpenRows' \in SUBSET OpenRows  BY <1>4, <1>6
  <2>2. QED  BY <1>1, <2>1, FS_Subset
<1>7. ASSUME NEW p \in Publisher, NEW k \in Key \cup {NoKey}, Admit(p, k)
      PROVE  BacklogInv'
  <2>1. OpenRows' = OpenRows /\ Backlog < BacklogLimit
    BY <1>7 DEF Admit, OpenRows, tableVars
  <2>2. QED  BY <1>1, <1>2, <1>3, <2>1, OutboxAssumption DEF BacklogInv
<1>8. ASSUME \A p \in Publisher : ~InsertRow(p),
             \A p \in Publisher, k \in Key \cup {NoKey} : ~Admit(p, k)
      PROVE  BacklogInv'
  <2>1. InFlight' \in SUBSET InFlight
    <3>1. CASE UNCHANGED pub  BY <3>1 DEF InFlight
    <3>2. ASSUME NEW p \in Publisher, ReturnExisting(p) \/ FindNone(p)
          PROVE  InFlight' \in SUBSET InFlight
      BY <1>0, <3>2 DEF ReturnExisting, FindNone, InFlight, NoPub, TypeInv, TypeOK
    <3>3. UNCHANGED pub \/ \E p \in Publisher : ReturnExisting(p) \/ FindNone(p)
      BY <1>8 DEF Next, vars, Publish, Work, Fault, Claim, StartDispatch, HandlerReturns,
                  Heartbeat, DispatchTimeout, ZombieReturns, LoadRow, MarkProcessed,
                  MarkFailed, AckError, NackError, Crash, Restart, Tick, pubVars
    <3>4. QED  BY <3>1, <3>2, <3>3
  <2>2. Cardinality(InFlight') <= Cardinality(InFlight)  BY <1>1, <2>1, FS_Subset
  <2>3. QED  BY <1>1, <1>2, <1>3, <1>6, <1>8, <2>2, OutboxAssumption DEF BacklogInv
<1>9. QED  BY <1>5, <1>7, <1>8

LEMMA BacklogInvBounds == BacklogInv => BacklogBounded
  BY BacklogFinite, OutboxAssumption DEF BacklogInv, BacklogBounded

-----------------------------------------------------------------------------
(* Until a worker has kept a claim for the time of a lease.                *)

\* A row that w holds is w's, has been locked since w claimed what it holds, and
\* has the rest of the claim's lease or of a heartbeat's; and what w has loaded to
\* settle it is what the row still is.
HeldOnTime(w, i) ==
    /\ row[i].status = "processing" /\ row[i].leasedBy = w
    /\ row[i].lockAge = age[w]
    /\ \/ row[i].lease + age[w] >= ClaimLease
       \/ row[i].lease + age[w] >= HeartbeatLease
    /\ run[w].phase \in {"acking", "nacking"} /\ run[w].row = i =>
         /\ run[w].copy.status = "processing"
         /\ run[w].copy.attempts = row[i].attempts
         /\ run[w].copy.locked /\ run[w].copy.leased

OnTime ==
    ~overrun =>
      \A w \in Worker :
        /\ ~Overdue(age[w])
        /\ \A i \in RowId : Holds(w, i) => HeldOnTime(w, i)

TimeInv == TableInv /\ OnTime

LEMMA TimeInit == Init => TimeInv
<1> SUFFICES ASSUME Init PROVE TimeInv  OBVIOUS
<1>1. OnTime  BY OutboxAssumption DEF Init, OnTime, Holds, Idle, Overdue
<1>2. QED  BY <1>1, TableInit DEF TimeInv

\* A row held on time has a lease and a lock that have not run out.
LEMMA HeldFields ==
    ASSUME TimeInv, ~overrun, NEW w \in Worker, NEW i \in RowId, Holds(w, i)
    PROVE  /\ HeldOnTime(w, i) /\ row[i] \in Row
           /\ age[w] \in Nat /\ age[w] < StaleAfter
           /\ age[w] < ClaimLease /\ age[w] < HeartbeatLease
           /\ row[i].lease \in Nat /\ row[i].lease > 0
           /\ row[i].lockAge \in Nat /\ row[i].lockAge < StaleAfter
<1>1. HeldOnTime(w, i) /\ ~Overdue(age[w])  BY DEF TimeInv, OnTime
<1>2. row[i] \in Row /\ age[w] \in Nat  BY DEF TimeInv, TableInv, TypeInv, TypeOK
<1>3. row[i].lease \in Nat \cup {NoLease} /\ row[i].lockAge \in Nat  BY <1>2 DEF Row
<1>4. age[w] < StaleAfter /\ age[w] < ClaimLease /\ age[w] < HeartbeatLease
  BY <1>1, <1>2, OutboxAssumption DEF Overdue
<1>5. row[i].lease \in Nat /\ row[i].lease > 0
  BY <1>1, <1>2, <1>3, <1>4, OutboxAssumption DEF HeldOnTime, NoLease
<1>6. QED  BY <1>1, <1>2, <1>3, <1>4, <1>5 DEF HeldOnTime

\* So no claim takes it.
LEMMA HeldNotClaimed ==
    ASSUME TimeInv, ~overrun, NEW w \in Worker, NEW i \in RowId, Holds(w, i)
    PROVE  i \notin NextBatch
<1>1. row[i].lease # 0 /\ row[i].lockAge < StaleAfter /\ row[i].lockAge \in Nat
      /\ row[i].status = "processing"
  BY HeldFields DEF HeldOnTime
<1>2. ~Expired(row[i])  BY <1>1, OutboxAssumption DEF Expired
<1>3. QED  BY <1>1, <1>2 DEF NextBatch, Eligible

\* What one step does to a row that a worker keeps: nothing, the heartbeat of the
\* worker's own dispatch, or the time.
LEMMA HeldRow ==
    ASSUME TimeInv, ~overrun, [Next]_vars,
           NEW w \in Worker, NEW i \in RowId, Holds(w, i), Holds(w, i)'
    PROVE  \/ ~Tick /\ row'[i] = row[i]
           \/ /\ ~Tick /\ row'[i] = [row[i] EXCEPT !.lease = HeartbeatLease]
              /\ UNCHANGED <<batch, run>>
           \/ Tick /\ row'[i] = AgeRow(row[i])
<1> DEFINE Goal == \/ row'[i] = row[i]
                   \/ /\ row'[i] = [row[i] EXCEPT !.lease = HeartbeatLease]
                      /\ UNCHANGED <<batch, run>>
<1>0. TypeInv  BY DEF TimeInv, TableInv
<1>1. row[i].status = "processing" /\ row[i].leasedBy = w
  BY HeldFields DEF HeldOnTime
<1>2. ASSUME UNCHANGED row  PROVE Goal  BY <1>2
<1>3. ASSUME NEW p \in Publisher, Publish(p)  PROVE Goal
  <2>1. CASE InsertRow(p)
    <3>1. i # nextRow
      BY <1>0, <1>1 DEF TimeInv, TableInv, AllocOK, TypeInv, TypeOK, RowId
    <3>2. QED  BY <1>0, <2>1, <3>1 DEF InsertRow, TypeInv, TypeOK
  <2>2. QED  BY <1>2, <1>3, <2>1 DEF Publish, Admit, ReturnExisting, FindNone, tableVars
<1>4. ASSUME NEW v \in Worker, Claim(v)  PROVE Goal
  BY <1>4, HeldNotClaimed DEF Claim
<1>5. ASSUME NEW v \in Worker, Heartbeat(v)  PROVE Goal
  <2>1. CASE i = run[v].row
    <3>1. row' = [row EXCEPT ![i].lease = HeartbeatLease] /\ UNCHANGED <<batch, run>>
      BY <1>5, <2>1 DEF Heartbeat, workerVars
    <3>2. row'[i] = [row[i] EXCEPT !.lease = HeartbeatLease]
      BY <1>0, <3>1 DEF TypeInv, TypeOK
    <3>3. QED  BY <3>1, <3>2
  <2>2. CASE i # run[v].row
    BY <1>0, <1>5, <2>2 DEF Heartbeat, TypeInv, TypeOK
  <2>3. QED  BY <2>1, <2>2
<1>6. ASSUME NEW v \in Worker, MarkProcessed(v) \/ MarkFailed(v)  PROVE Goal
  <2>1. CASE i = run[v].row
    <3>1. Holds(v, i) /\ ~Holds(v, i)'  BY <1>0, <1>6, <2>1, MarkReleases
    <3>2. v = w  BY <1>1, <3>1, HeldFields DEF HeldOnTime
    <3>3. QED  BY <3>1, <3>2
  <2>2. CASE i # run[v].row
    BY <1>0, <1>6, <2>2 DEF MarkProcessed, MarkFailed, TypeInv, TypeOK
  <2>3. QED  BY <2>1, <2>2
<1>7. ASSUME NEW v \in Worker,
             \/ StartDispatch(v) \/ DispatchTimeout(v) \/ LoadRow(v)
             \/ \E ok \in BOOLEAN : HandlerReturns(v, ok)
             \/ \E z \in zombies[v], ok \in BOOLEAN : ZombieReturns(v, z, ok)
             \/ Fault(v) \/ Restart(v)
      PROVE  Goal
  BY <1>2, <1>7 DEF StartDispatch, DispatchTimeout, LoadRow, HandlerReturns, ZombieReturns,
                    Fault, AckError, NackError, Crash, Restart, tableVars
<1>8. CASE Tick  BY <1>8 DEF Tick
<1>9. ASSUME UNCHANGED vars PROVE Goal  BY <1>2, <1>9 DEF vars
<1>10. Goal \/ Tick
  BY <1>3, <1>4, <1>5, <1>6, <1>7, <1>9 DEF Next, Work
<1>11. QED  BY <1>8, <1>10

\* What a worker is about to settle from was loaded in this step or before.
LEMMA CopyStep ==
    ASSUME TypeInv, [Next]_vars, NEW w \in Worker, run'[w].phase \in {"acking", "nacking"}
    PROVE  \/ LoadRow(w) /\ run'[w].copy = CopyOf(row[run[w].row]) /\ run'[w].row = run[w].row
           \/ /\ run'[w].phase = run[w].phase /\ run'[w].row = run[w].row
              /\ run'[w].copy = run[w].copy
<1> DEFINE Same == /\ run'[w].phase = run[w].phase /\ run'[w].row = run[w].row
                   /\ run'[w].copy = run[w].copy
<1> USE DEF TypeInv, TypeOK
<1>1. ASSUME NEW v \in Worker, LoadRow(v)
      PROVE  Same \/ (LoadRow(w) /\ run'[w].copy = CopyOf(row[run[w].row])
                      /\ run'[w].row = run[w].row)
  BY <1>1 DEF LoadRow, Dispatch
<1>2. ASSUME NEW v \in Worker, StartDispatch(v)  PROVE Same
  <2>1. PICK j \in batch[v], ph \in {"ack", "running"} : run' = [run EXCEPT ![v] =
          [phase |-> ph, row |-> j, next |-> 1, failed |-> FALSE, left |-> Timeout,
           copy |-> NoCopy]]
    BY <1>2 DEF StartDispatch
  <2>2. QED  BY <2>1
<1>3. ASSUME NEW v \in Worker, NEW ok \in BOOLEAN, HandlerReturns(v, ok)  PROVE Same
  <2>1. v # w
    <3>1. SUFFICES ASSUME v = w PROVE FALSE  OBVIOUS
    <3>2. run'[w].phase \in {"running", "ack", "nack"}
      BY <1>3, <3>1 DEF HandlerReturns, Dispatch
    <3>3. QED  BY <3>2
  <2>2. QED  BY <1>3, <2>1 DEF HandlerReturns
<1>4. ASSUME NEW v \in Worker, DispatchTimeout(v) \/ AckError(v)  PROVE Same
  BY <1>4 DEF DispatchTimeout, AckError, Dispatch
<1>5. ASSUME NEW v \in Worker, MarkProcessed(v) \/ MarkFailed(v) \/ NackError(v) \/ Crash(v)
      PROVE  Same
  BY <1>5 DEF MarkProcessed, MarkFailed, NackError, Crash, Idle
<1>6. ASSUME NEW v \in Worker,
             \/ Claim(v) \/ Heartbeat(v) \/ Restart(v)
             \/ \E z \in zombies[v], ok \in BOOLEAN : ZombieReturns(v, z, ok)
      PROVE  Same
  BY <1>6 DEF Claim, Heartbeat, Restart, ZombieReturns, workerVars
<1>7. ASSUME NEW p \in Publisher, Publish(p)  PROVE Same
  BY <1>7 DEF Publish, Admit, ReturnExisting, FindNone, InsertRow, workerVars
<1>8. CASE Tick  BY <1>8 DEF Tick, Dispatch
<1>9. CASE UNCHANGED vars  BY <1>9 DEF vars
<1>10. QED
  BY <1>1, <1>2, <1>3, <1>4, <1>5, <1>6, <1>7, <1>8, <1>9 DEF Next, Work, Fault

LEMMA OverrunStays == TypeInv /\ [Next]_vars /\ ~overrun' => ~overrun
<1> SUFFICES ASSUME TypeInv, [Next]_vars, ~overrun', overrun  PROVE FALSE
  BY DEF TypeInv, TypeOK
<1>1. overrun' = overrun \/ Tick
  BY DEF Next, Publish, Admit, ReturnExisting, FindNone, InsertRow, Work, Fault, Claim,
         StartDispatch, HandlerReturns, Heartbeat, DispatchTimeout, ZombieReturns, LoadRow,
         MarkProcessed, MarkFailed, AckError, NackError, Crash, Restart, timeVars, vars
<1>2. QED  BY <1>1 DEF Tick

\* Only a claim and the time change an age, and the time notices the overrun.
LEMMA AgeStep ==
    ASSUME TypeInv, [Next]_vars, ~overrun', NEW w \in Worker
    PROVE  /\ ~overrun
           /\ ~Tick => age'[w] = (IF Claim(w) THEN 0 ELSE age[w])
           /\ Tick => /\ ~Overdue(age'[w])
                      /\ Holding(w) => age'[w] = age[w] + 1
<1> USE DEF TypeInv, TypeOK
<1>1. CASE Tick
  <2> DEFINE held == [v \in Worker |-> IF Holding(v) THEN age[v] + 1 ELSE 0]
  <2>1. /\ overrun' = (overrun \/ \E v \in Worker : Overdue(held[v]))
        /\ age' = IF overrun' THEN [v \in Worker |-> 0] ELSE held
    BY <1>1 DEF Tick
  <2>2. ~overrun /\ ~Overdue(held[w]) /\ age' = held  BY <2>1
  <2>3. QED  BY <1>1, <2>2
<1>2. ASSUME NEW v \in Worker, Claim(v)
      PROVE  ~overrun /\ age'[w] = (IF Claim(w) THEN 0 ELSE age[w])
  <2>1. ~overrun /\ age' = [age EXCEPT ![v] = 0] /\ batch' = [batch EXCEPT ![v] = NextBatch]
        /\ NextBatch # {} /\ batch[v] = {}
    BY <1>2 DEF Claim
  <2>2. CASE v = w  BY <1>2, <2>1, <2>2
  <2>3. CASE v # w
    <3>1. ~Claim(w)
      <4>1. SUFFICES ASSUME Claim(w) PROVE FALSE  OBVIOUS
      <4>2. batch' = [batch EXCEPT ![w] = NextBatch]  BY <4>1 DEF Claim
      <4>3. batch'[v] = batch[v]  BY <2>3, <4>2
      <4>4. QED  BY <2>1, <4>3
    <3>2. QED  BY <2>1, <2>3, <3>1
  <2>4. QED  BY <2>2, <2>3
<1>3. ASSUME UNCHANGED timeVars, ~Claim(w)
      PROVE  ~overrun /\ age'[w] = (IF Claim(w) THEN 0 ELSE age[w])
  BY <1>3 DEF timeVars
<1>4. \/ Tick \/ \E v \in Worker : Claim(v)
      \/ UNCHANGED timeVars
  BY DEF Next, Publish, Admit, ReturnExisting, FindNone, InsertRow, Work, Fault, Claim,
         StartDispatch, HandlerReturns, Heartbeat, DispatchTimeout, ZombieReturns, LoadRow,
         MarkProcessed, MarkFailed, AckError, NackError, Crash, Restart, timeVars, vars
<1>5. QED  BY <1>1, <1>2, <1>3, <1>4

LEMMA TimeStep == TimeInv /\ [Next]_vars => TimeInv'
<1> SUFFICES ASSUME TimeInv, [Next]_vars, ~overrun'
             PROVE  OnTime'
  BY TableStep DEF TimeInv, OnTime
<1>1. TypeInv /\ TypeInv' /\ ~overrun  BY StepType, OverrunStays DEF TimeInv, TableInv
<1>2. ASSUME NEW w \in Worker  PROVE ~Overdue(age'[w])
  <2>1. ~Overdue(age[w])  BY <1>1 DEF TimeInv, OnTime
  <2>2. ~Overdue(0)  BY OutboxAssumption DEF Overdue
  <2>3. QED  BY <1>1, <2>1, <2>2, AgeStep
<1>3. ASSUME NEW w \in Worker, NEW i \in RowId, Holds(w, i)'  PROVE HeldOnTime(w, i)'
  <2>0. row[i] \in Row /\ age[w] \in Nat  BY <1>1 DEF TypeInv, TypeOK
  <2>1. CASE Claim(w) /\ i \in NextBatch
    <3>1. row'[i] = MarkClaimed(row[i], w)  BY <1>1, <2>1 DEF Claim, TypeInv, TypeOK
    <3>2. /\ row'[i].status = "processing" /\ row'[i].leasedBy = w
          /\ row'[i].lease = ClaimLease /\ row'[i].lockAge = 0
      BY <2>0, <3>1, ClaimedFields
    <3>3. age'[w] = 0 /\ run'[w].phase = "idle"
      BY <1>1, <2>1 DEF Claim, TypeInv, TypeOK
    <3>4. QED  BY <3>2, <3>3, OutboxAssumption DEF HeldOnTime
  <2>2. CASE Holds(w, i)
    <3>1. /\ HeldOnTime(w, i) /\ age[w] < StaleAfter
          /\ row[i].lease \in Nat /\ row[i].lease > 0
          /\ row[i].lockAge = age[w] /\ row[i].leasedBy = w /\ row[i].status = "processing"
          /\ \/ row[i].lease + age[w] >= ClaimLease
             \/ row[i].lease + age[w] >= HeartbeatLease
      BY <1>1, <2>2, HeldFields DEF HeldOnTime
    <3>2. ~Claim(w) /\ Holding(w)
      BY <2>2 DEF Claim, Holds, Holding
    <3>3. /\ row'[i].status = "processing" /\ row'[i].leasedBy = w
          /\ row'[i].lockAge = age'[w] /\ row'[i].attempts = row[i].attempts
          /\ \/ row'[i].lease + age'[w] >= ClaimLease
             \/ row'[i].lease + age'[w] >= HeartbeatLease
      <4>1. CASE ~Tick /\ row'[i] = row[i]
        BY <1>1, <3>1, <3>2, <4>1, AgeStep
      <4>2. CASE ~Tick /\ row'[i] = [row[i] EXCEPT !.lease = HeartbeatLease]
        <5>1. /\ row'[i].status = row[i].status /\ row'[i].leasedBy = row[i].leasedBy
              /\ row'[i].lockAge = row[i].lockAge /\ row'[i].attempts = row[i].attempts
              /\ row'[i].lease = HeartbeatLease
          BY <2>0, <4>2 DEF Row
        <5>2. age'[w] = age[w]  BY <1>1, <3>2, <4>2, AgeStep
        <5>3. QED  BY <2>0, <3>1, <5>1, <5>2, OutboxAssumption
      <4>3. CASE Tick /\ row'[i] = AgeRow(row[i])
        <5>1. w # NoWorker  BY OutboxAssumption
        <5>2. /\ row'[i].status = row[i].status /\ row'[i].leasedBy = row[i].leasedBy
              /\ row'[i].attempts = row[i].attempts
              /\ row'[i].lockAge = row[i].lockAge + 1
              /\ row'[i].lease = row[i].lease - 1
          BY <2>0, <3>1, <4>3, <5>1 DEF AgeRow, Down, Row
        <5>3. age'[w] = age[w] + 1  BY <1>1, <3>2, <4>3, AgeStep
        <5>4. QED  BY <2>0, <3>1, <5>2, <5>3
      <4>4. QED  BY <1>1, <1>3, <2>2, <4>1, <4>2, <4>3, HeldRow
    <3>4. ASSUME run'[w].phase \in {"acking", "nacking"}, run'[w].row = i
          PROVE  /\ run'[w].copy.status = "processing"
                 /\ run'[w].copy.attempts = row'[i].attempts
                 /\ run'[w].copy.locked /\ run'[w].copy.leased
      <4>1. CASE LoadRow(w) /\ run'[w].copy = CopyOf(row[run[w].row])
                 /\ run'[w].row = run[w].row
        <5>1. run'[w].copy = CopyOf(row[i])  BY <3>4, <4>1
        <5>2. w # NoWorker  BY OutboxAssumption
        <5>3. row[i].lease # NoLease  BY <3>1 DEF NoLease
        <5>4. /\ run'[w].copy.status = row[i].status /\ run'[w].copy.attempts = row[i].attempts
              /\ run'[w].copy.locked = (row[i].leasedBy # NoWorker)
              /\ run'[w].copy.leased = (row[i].lease # NoLease)
          BY <5>1 DEF CopyOf
        <5>5. QED  BY <3>1, <3>3, <5>2, <5>3, <5>4
      <4>2. CASE /\ run'[w].phase = run[w].phase /\ run'[w].row = run[w].row
                 /\ run'[w].copy = run[w].copy
        BY <3>1, <3>3, <3>4, <4>2 DEF HeldOnTime
      <4>3. QED  BY <1>1, <3>4, <4>1, <4>2, CopyStep
    <3>5. QED  BY <3>3, <3>4 DEF HeldOnTime
  <2>3. QED  BY <1>1, <1>3, <2>1, <2>2, HeldStep
<1>4. QED  BY <1>2, <1>3 DEF OnTime

LEMMA TimeHeld == TimeInv /\ ~overrun => HeldInv
  BY HeldFields DEF TimeInv, HeldInv, HeldRowsProcessing, HeldOnTime

\* Until a worker has kept a claim for the time of a lease, no two of any number
\* of workers are inside the handlers of one event, whatever the batches, the
\* timeouts, the leases, the crashes and the database errors.
THEOREM LeasesExclude == Spec => []ExclusiveDispatch
<1>1. TimeInv => ExclusiveDispatch
  <2> SUFFICES ASSUME TimeInv, ~overrun, NEW w1 \in Worker, NEW w2 \in Worker, w1 # w2,
                      run[w1].phase = "running", run[w2].phase = "running",
                      run[w1].row = run[w2].row
               PROVE  FALSE
    BY DEF ExclusiveDispatch
  <2>1. run[w1].row \in RowId  BY DEF TimeInv, TableInv, TypeInv, RunOK
  <2>2. Holds(w1, run[w1].row) /\ Holds(w2, run[w1].row)  BY DEF Holds
  <2>3. QED  BY <2>1, <2>2, HeldFields DEF HeldOnTime
<1>2. QED  BY <1>1, TimeInit, TimeStep, PTL DEF Spec

\* Nor is the outcome of an event revised before that.
THEOREM LeasesFinal == Spec => FinalOutcome
<1>1. TimeInv /\ [Next]_vars =>
        [~overrun' =>
           \A i \in RowId : row[i].status \in Settled => row'[i].status = row[i].status]_vars
  <2> SUFFICES ASSUME TimeInv, [Next]_vars, ~overrun', NEW i \in RowId,
                      row[i].status \in Settled
               PROVE  row'[i].status = row[i].status
    OBVIOUS
  <2>1. ~overrun  BY OverrunStays DEF TimeInv, TableInv
  <2>2. QED  BY <2>1, HeldFinal, TimeHeld
<1>2. QED  BY <1>1, TimeInit, TimeStep, PTL DEF Spec, FinalOutcome

\* And until then the backlog overruns its soft limit by no more than the publishers
\* that were admitted beside each other: no settled row is opened again.
BacklogOnTime == ~overrun => BacklogInv

THEOREM LeasesBoundBacklog == Spec => []BacklogBounded
<1>1. Init => TimeInv /\ BacklogOnTime  BY TimeInit, BacklogInit DEF BacklogOnTime
<1>2. TimeInv /\ BacklogOnTime /\ [Next]_vars => TimeInv' /\ BacklogOnTime'
  <2> SUFFICES ASSUME TimeInv, BacklogOnTime, [Next]_vars  PROVE TimeInv' /\ BacklogOnTime'
    OBVIOUS
  <2>1. TimeInv'  BY TimeStep
  <2>2. ~overrun' => ~overrun  BY OverrunStays DEF TimeInv, TableInv
  <2>3. ASSUME ~overrun'  PROVE BacklogInv'
    BY <2>2, <2>3, TimeHeld, BacklogStep DEF BacklogOnTime
  <2>4. QED  BY <2>1, <2>3 DEF BacklogOnTime
<1>3. TimeInv /\ BacklogOnTime => BacklogBounded
  BY BacklogInvBounds DEF BacklogOnTime, BacklogBounded
<1>4. QED  BY <1>1, <1>2, <1>3, PTL DEF Spec

-----------------------------------------------------------------------------
(* The retry budget.                                                       *)

Covered(n, t) == n <= t \/ t >= MaxAttempts

\* The attempts in a row, and in what a worker has loaded of it, were all recorded
\* failures; a lost update can only make them fewer.
TriesOK ==
    /\ \A i \in RowId :
         /\ Covered(row[i].attempts, tries[i])
         /\ row[i].status = "dead_letter" => tries[i] >= MaxAttempts
    /\ \A w \in Worker :
         run[w].phase \in {"acking", "nacking"} =>
           Covered(run[w].copy.attempts, tries[run[w].row])

ExactOK ==
    ~overrun =>
      \A i \in RowId :
        /\ row[i].status \in Open => row[i].attempts < MaxAttempts
        /\ row[i].status = "dead_letter" => row[i].attempts = MaxAttempts

BudgetInv == TimeInv /\ TriesOK /\ ExactOK

LEMMA BudgetInit == Init => BudgetInv
<1> SUFFICES ASSUME Init PROVE BudgetInv  OBVIOUS
<1>1. TriesOK  BY DEF Init, TriesOK, Covered, NoRow, Idle
<1>2. ExactOK  BY OutboxAssumption DEF Init, ExactOK, NoRow, Open
<1>3. QED  BY <1>1, <1>2, TimeInit DEF BudgetInv

\* The history only grows, and by one with each failure that is recorded.
LEMMA TriesGrow ==
    ASSUME TypeInv, [Next]_vars, NEW i \in RowId
    PROVE  /\ tries[i] \in Nat /\ tries'[i] \in Nat /\ tries[i] <= tries'[i]
           /\ \A w \in Worker : MarkFailed(w) /\ run[w].row = i =>
                tries'[i] = IF tries[i] < MaxAttempts THEN tries[i] + 1 ELSE tries[i]
<1> USE DEF TypeInv, TypeOK
<1>1. tries[i] \in Nat /\ tries'[i] \in Nat  BY StepType
<1>2. UNCHANGED tries \/ \E w \in Worker : MarkFailed(w)
  BY DEF Next, Publish, Admit, ReturnExisting, FindNone, InsertRow, Work, Fault, Claim,
         StartDispatch, HandlerReturns, Heartbeat, DispatchTimeout, ZombieReturns, LoadRow,
         MarkProcessed, AckError, NackError, Crash, Restart, Tick, vars
<1>3. ASSUME NEW w \in Worker, MarkFailed(w)
      PROVE  /\ run[w].row # i => tries'[i] = tries[i]
             /\ run[w].row = i =>
                  tries'[i] = IF tries[i] < MaxAttempts THEN tries[i] + 1 ELSE tries[i]
  BY <1>3 DEF MarkFailed
<1>4. tries[i] <= tries'[i]
  <2>1. CASE UNCHANGED tries  BY <1>1, <2>1
  <2>2. ASSUME NEW w \in Worker, MarkFailed(w)  PROVE tries[i] <= tries'[i]
    BY <1>1, <1>3, <2>2
  <2>3. QED  BY <1>2, <2>1, <2>2
<1>5. QED  BY <1>1, <1>3, <1>4

LEMMA TriesStep == TableInv /\ TriesOK /\ [Next]_vars => TriesOK'
<1> SUFFICES ASSUME TableInv, TriesOK, [Next]_vars  PROVE TriesOK'  OBVIOUS
<1>1. TypeInv /\ TypeInv'  BY StepType DEF TableInv
<1>2. ASSUME NEW n \in Nat, NEW t \in Nat, NEW u \in Nat, Covered(n, t), t <= u
      PROVE  Covered(n, u)
  BY <1>2, OutboxAssumption DEF Covered
<1>3. ASSUME NEW i \in RowId
      PROVE  /\ Covered(row'[i].attempts, tries'[i])
             /\ row'[i].status = "dead_letter" => tries'[i] >= MaxAttempts
  <2> DEFINE Goal == /\ Covered(row'[i].attempts, tries'[i])
                     /\ row'[i].status = "dead_letter" => tries'[i] >= MaxAttempts
  <2>1. /\ row[i] \in Row /\ row[i].attempts \in Nat
        /\ tries[i] \in Nat /\ tries'[i] \in Nat /\ tries[i] <= tries'[i]
    BY <1>1, TriesGrow DEF TypeInv, TypeOK, Row
  <2>2. /\ Covered(row[i].attempts, tries[i])
        /\ row[i].status = "dead_letter" => tries[i] >= MaxAttempts
    BY DEF TriesOK
  <2>3. ASSUME row'[i].attempts = row[i].attempts,
               row'[i].status = "dead_letter" => row[i].status = "dead_letter"
        PROVE  Goal
    BY <1>2, <2>1, <2>2, <2>3, OutboxAssumption
  <2>4. SameRow(row[i], row'[i]) => Goal  BY <2>3 DEF SameRow
  <2>5. ASSUME NEW p \in Publisher,
               row'[i] = [NoRow EXCEPT !.status = "pending", !.key = pub[p].key]
        PROVE  Goal
    <3>1. row'[i].status = "pending" /\ row'[i].attempts = 0  BY <2>5 DEF NoRow
    <3>2. QED  BY <2>1, <3>1 DEF Covered
  <2>6. ASSUME NEW w \in Worker, row'[i] = MarkClaimed(row[i], w)  PROVE Goal
    BY <2>1, <2>3, <2>6, ClaimedFields
  <2>7. ASSUME NEW w \in Worker, MarkProcessed(w), row'[i] = Processed(row[i], run[w].copy)
        PROVE  Goal
    <3>1. run[w].copy \in Copy  BY <1>1 DEF TypeInv, TypeOK, Dispatch
    <3>2. /\ row'[i].attempts = row[i].attempts
          /\ row'[i].status \in {"processed", row[i].status}
      BY <2>1, <2>7, <3>1, SettledType
    <3>3. QED  BY <2>3, <3>2
  <2>8. ASSUME NEW w \in Worker, MarkFailed(w), i = run[w].row,
               row'[i] = Failed(row[i], run[w].copy)
        PROVE  Goal
    <3> DEFINE c == run[w].copy
    <3>1. c \in Copy /\ c.attempts \in Nat  BY <1>1 DEF TypeInv, TypeOK, Dispatch, Copy
    <3>2. Covered(c.attempts, tries[i])  BY <2>8 DEF TriesOK, MarkFailed
    <3>3. tries'[i] = IF tries[i] < MaxAttempts THEN tries[i] + 1 ELSE tries[i]
      BY <1>1, <2>8, TriesGrow
    <3>4. /\ row'[i].attempts = c.attempts + 1
          /\ row'[i].status = "dead_letter" =>
               c.attempts + 1 >= MaxAttempts \/ row[i].status = "dead_letter"
      <4> HIDE DEF c
      <4>1. row'[i] = Failed(row[i], c)  BY <2>8 DEF c
      <4>2. QED  BY <2>1, <3>1, <4>1, SettledType
    <3>5. Covered(c.attempts + 1, tries'[i])
      BY <2>1, <3>1, <3>2, <3>3, OutboxAssumption DEF Covered
    <3>6. c.attempts + 1 >= MaxAttempts => tries'[i] >= MaxAttempts
      BY <2>1, <3>1, <3>5, OutboxAssumption DEF Covered
    <3>7. row[i].status = "dead_letter" => tries'[i] >= MaxAttempts
      BY <2>1, <2>2, OutboxAssumption
    <3>8. QED  BY <3>4, <3>5, <3>6, <3>7
  <2>9. QED  BY <1>1, <2>4, <2>5, <2>6, <2>7, <2>8, RowStep DEF RowChange
<1>4. ASSUME NEW w \in Worker, run'[w].phase \in {"acking", "nacking"}
      PROVE  Covered(run'[w].copy.attempts, tries'[run'[w].row])
  <2> DEFINE i == run'[w].row
  <2>1. i \in RowId  BY <1>1, <1>4 DEF TypeInv, RunOK
  <2>2. tries[i] \in Nat /\ tries'[i] \in Nat /\ tries[i] <= tries'[i]
    BY <1>1, <2>1, TriesGrow
  <2>3. CASE LoadRow(w) /\ run'[w].copy = CopyOf(row[run[w].row]) /\ run'[w].row = run[w].row
    <3>1. run'[w].copy.attempts = row[i].attempts  BY <2>3 DEF CopyOf
    <3>2. Covered(row[i].attempts, tries[i]) /\ row[i].attempts \in Nat
      BY <1>1, <2>1 DEF TriesOK, TypeInv, TypeOK, Row
    <3>3. QED  BY <1>2, <2>2, <3>1, <3>2
  <2>4. CASE /\ run'[w].phase = run[w].phase /\ run'[w].row = run[w].row
             /\ run'[w].copy = run[w].copy
    <3>1. run[w].copy.attempts \in Nat  BY <1>1 DEF TypeInv, TypeOK, Dispatch, Copy
    <3>2. Covered(run[w].copy.attempts, tries[i])  BY <1>4, <2>4 DEF TriesOK
    <3>3. QED  BY <1>2, <2>2, <2>4, <3>1, <3>2
  <2>5. QED  BY <1>1, <1>4, <2>3, <2>4, CopyStep
<1>5. QED  BY <1>3, <1>4 DEF TriesOK

\* As long as every failure is recorded from what the row still is, the attempts are
\* counted one by one.
LEMMA ExactStep == TimeInv /\ ExactOK /\ [Next]_vars => ExactOK'
<1> SUFFICES ASSUME TimeInv, ExactOK, [Next]_vars, ~overrun', NEW i \in RowId
             PROVE  /\ row'[i].status \in Open => row'[i].attempts < MaxAttempts
                    /\ row'[i].status = "dead_letter" => row'[i].attempts = MaxAttempts
  BY DEF ExactOK
<1>1. TypeInv /\ TypeInv' /\ ~overrun  BY StepType, OverrunStays DEF TimeInv, TableInv
<1>2. row[i] \in Row /\ row[i].attempts \in Nat  BY <1>1 DEF TypeInv, TypeOK, Row
<1>3. /\ row[i].status \in Open => row[i].attempts < MaxAttempts
      /\ row[i].status = "dead_letter" => row[i].attempts = MaxAttempts
  BY <1>1 DEF ExactOK
<1> DEFINE Goal == /\ row'[i].status \in Open => row'[i].attempts < MaxAttempts
                   /\ row'[i].status = "dead_letter" => row'[i].attempts = MaxAttempts
<1>4. SameRow(row[i], row'[i]) => Goal  BY <1>3 DEF SameRow
<1>5. ASSUME NEW p \in Publisher,
             row'[i] = [NoRow EXCEPT !.status = "pending", !.key = pub[p].key]
      PROVE  Goal
  BY <1>5, OutboxAssumption DEF NoRow
<1>6. ASSUME NEW w \in Worker, i \in NextBatch, row'[i] = MarkClaimed(row[i], w)  PROVE Goal
  BY <1>2, <1>3, <1>6, ClaimsOpen, ClaimedFields
<1>7. ASSUME NEW w \in Worker, MarkProcessed(w), row'[i] = Processed(row[i], run[w].copy)
      PROVE  Goal
  <2>1. run[w].copy \in Copy  BY <1>1 DEF TypeInv, TypeOK, Dispatch
  <2>2. /\ row'[i].attempts = row[i].attempts
        /\ row'[i].status \in {"processed", row[i].status}
    BY <1>2, <1>7, <2>1, SettledType
  <2>3. QED  BY <1>3, <2>2 DEF Open
<1>8. ASSUME NEW w \in Worker, MarkFailed(w), i = run[w].row,
             row'[i] = Failed(row[i], run[w].copy)
      PROVE  Goal
  <2> DEFINE c == run[w].copy
  <2>1. c \in Copy /\ c.attempts \in Nat  BY <1>1 DEF TypeInv, TypeOK, Dispatch, Copy
  <2>2. Holds(w, i)  BY <1>1, <1>8, MarkReleases
  <2>3. HeldOnTime(w, i)  BY <1>1, <2>2, HeldFields
  <2>4. /\ row[i].status = "processing" /\ c.status = "processing"
        /\ c.attempts = row[i].attempts
    BY <1>8, <2>3 DEF HeldOnTime, MarkFailed
  <2>5. row[i].attempts < MaxAttempts  BY <1>3, <2>4 DEF Open
  <2> HIDE DEF c
  <2>6. row'[i] = Failed(row[i], c)  BY <1>8 DEF c
  <2>7. CASE c.attempts + 1 >= MaxAttempts
    <3>1. row'[i].status = "dead_letter" /\ row'[i].attempts = row[i].attempts + 1
      BY <1>2, <2>1, <2>4, <2>6, <2>7, SettledType
    <3>2. QED  BY <1>2, <2>4, <2>5, <2>7, <3>1, OutboxAssumption DEF Open
  <2>8. CASE ~(c.attempts + 1 >= MaxAttempts)
    <3>1. row'[i].status = "retry" /\ row'[i].attempts = row[i].attempts + 1
      BY <1>2, <2>1, <2>4, <2>6, <2>8, SettledType
    <3>2. QED  BY <1>2, <2>4, <2>8, <3>1, OutboxAssumption DEF Open
  <2>9. QED  BY <2>7, <2>8
<1>9. QED  BY <1>1, <1>4, <1>5, <1>6, <1>7, <1>8, RowStep DEF RowChange

\* No event is given up before MaxAttempts failures of it were recorded, whatever
\* updates are lost; and the count is exact until a worker overruns a lease.
THEOREM RetryBudgetKept == Spec => []RetryBudget
<1>1. BudgetInv /\ [Next]_vars => BudgetInv'
  BY TimeStep, TriesStep, ExactStep DEF BudgetInv, TimeInv
<1>2. BudgetInv => RetryBudget  BY DEF BudgetInv, TriesOK, ExactOK, RetryBudget
<1>3. QED  BY <1>1, <1>2, BudgetInit, PTL DEF Spec

-----------------------------------------------------------------------------
(* The outbox implements AtLeastOnce, step by step.                        *)

\* A handler thread that outlived its dispatch belongs to an inserted row.
ZombieOK == \A w \in Worker : \A z \in zombies[w] : row[z.row].status # "none"

RefinementInv == TableInv /\ HandledInv /\ ZombieOK

LEMMA ZombieStep == TableInv /\ ZombieOK /\ [Next]_vars => ZombieOK'
<1> SUFFICES ASSUME TableInv, ZombieOK, [Next]_vars,
                    NEW w \in Worker, NEW z \in zombies'[w]
             PROVE  row'[z.row].status # "none"
  BY DEF ZombieOK
<1>1. TypeInv /\ TypeInv'  BY StepType DEF TableInv
<1>2. z.row \in RowId  BY <1>1 DEF TypeInv, TypeOK, Zombie
<1>3. ASSUME row[z.row].status # "none"  PROVE row'[z.row].status # "none"
  BY <1>2, <1>3, RowStable
<1>4. CASE z \in zombies[w]  BY <1>3, <1>4 DEF ZombieOK
<1>5. ASSUME NEW v \in Worker, DispatchTimeout(v), z \notin zombies[w]
      PROVE  row[z.row].status # "none"
  <2>1. v = w /\ z.row = run[w].row /\ run[w].phase = "running"
    BY <1>1, <1>5 DEF DispatchTimeout, TypeInv, TypeOK
  <2>2. Holds(w, z.row)  BY <2>1 DEF Holds
  <2>3. QED  BY <1>2, <2>2 DEF TableInv, HeldOK
<1>6. ASSUME NEW v \in Worker, NEW y \in zombies[v], NEW ok \in BOOLEAN,
             ZombieReturns(v, y, ok), z \notin zombies[w]
      PROVE  row[z.row].status # "none"
  <2>1. y \in Zombie  BY <1>1 DEF TypeInv, TypeOK
  <2>2. v = w /\ z = [y EXCEPT !.next = y.next + 1]
    BY <1>1, <1>6 DEF ZombieReturns, TypeInv, TypeOK
  <2>3. z.row = y.row  BY <2>1, <2>2 DEF Zombie
  <2>4. QED  BY <2>2, <2>3 DEF ZombieOK
<1>7. ASSUME NEW v \in Worker, Crash(v)  PROVE z \in zombies[w]
  BY <1>1, <1>7 DEF Crash, TypeInv, TypeOK
<1>8. ASSUME NEW v \in Worker,
             \/ Claim(v) \/ StartDispatch(v) \/ Heartbeat(v) \/ LoadRow(v)
             \/ MarkProcessed(v) \/ MarkFailed(v) \/ AckError(v) \/ NackError(v) \/ Restart(v)
             \/ \E ok \in BOOLEAN : HandlerReturns(v, ok)
      PROVE  z \in zombies[w]
  BY <1>8 DEF Claim, StartDispatch, Heartbeat, LoadRow, MarkProcessed, MarkFailed, AckError,
              NackError, Restart, HandlerReturns, workerVars
<1>9. ASSUME NEW p \in Publisher, Publish(p)  PROVE z \in zombies[w]
  BY <1>9 DEF Publish, Admit, ReturnExisting, FindNone, InsertRow, workerVars
<1>10. Tick \/ UNCHANGED vars => z \in zombies[w]  BY DEF Tick, vars
<1>11. QED
  BY <1>3, <1>4, <1>5, <1>6, <1>7, <1>8, <1>9, <1>10 DEF Next, Work, Fault

\* The outcome a status stands for.
LEMMA OutcomeOfStatus ==
    ASSUME NEW r, NEW s
    PROVE  /\ r.status = "none" => OutcomeOf(r) = "none"
           /\ r.status \in Open => OutcomeOf(r) = "open"
           /\ r.status = "processed" => OutcomeOf(r) = "done"
           /\ r.status = "dead_letter" => OutcomeOf(r) = "dead"
           /\ r.status = s.status => OutcomeOf(r) = OutcomeOf(s)
<1> USE DEF OutcomeOf, Open
<1>1. r.status = "none" => OutcomeOf(r) = "none"  OBVIOUS
<1>2. r.status \in Open => OutcomeOf(r) = "open"  OBVIOUS
<1>3. r.status = "processed" => OutcomeOf(r) = "done"  OBVIOUS
<1>4. r.status = "dead_letter" => OutcomeOf(r) = "dead"  OBVIOUS
<1>5. r.status = s.status => OutcomeOf(r) = OutcomeOf(s)  OBVIOUS
<1>6. QED  BY <1>1, <1>2, <1>3, <1>4, <1>5

LEMMA RefinementInit == Init => RefinementInv /\ Abstract!AlInit
<1> SUFFICES ASSUME Init PROVE RefinementInv /\ Abstract!AlInit  OBVIOUS
<1>1. ZombieOK  BY DEF Init, ZombieOK
<1>2. Abstract!AlInit
  <2>1. \A i \in RowId : OutcomeOf(row[i]) = "none"
    BY OutcomeOfStatus DEF Init, NoRow
  <2>2. QED  BY <2>1 DEF Init, Abstract!AlInit, OutcomeMap
<1>3. QED
  BY <1>1, <1>2, TableInit, HandledInit DEF RefinementInv

\* A step that leaves every row's outcome alone maps to the outcomes unchanged.
LEMMA SameOutcome ==
    ASSUME \A i \in RowId : OutcomeOf(row'[i]) = OutcomeOf(row[i])
    PROVE  OutcomeMap' = OutcomeMap
  BY DEF OutcomeMap

\* Steps of the handlers map to Handle, or to a stutter when a handler raised.
LEMMA HandlerMaps ==
    ASSUME RefinementInv, NEW i \in RowId, NEW h \in Handler, NEW ok \in BOOLEAN,
           row[i].status # "none", row' = row,
           effects' = IF ok THEN [effects EXCEPT ![i] = @ \cup {h}] ELSE effects
    PROVE  [Abstract!AlNext]_(Abstract!alVars)
<1>1. OutcomeMap' = OutcomeMap  BY SameOutcome
<1>2. row[i] \in Row  BY DEF RefinementInv, TableInv, TypeInv, TypeOK
<1>3. OutcomeMap[i] # "none"
  BY <1>2, OutcomeOfStatus DEF OutcomeMap, Row, Open, Settled
<1>4. CASE ok  BY <1>1, <1>3, <1>4 DEF Abstract!AlNext, Abstract!Handle
<1>5. CASE ~ok  BY <1>1, <1>5 DEF Abstract!alVars
<1>6. QED  BY <1>4, <1>5

\* Inserting and settling a row map to Accept, Acknowledge, GiveUp and Reopen, or
\* to a stutter when the status is not written or the row stays open.
LEMMA RowMaps ==
    ASSUME RefinementInv, NEW i \in RowId, effects' = effects,
           \A j \in RowId : j # i => row'[j] = row[j],
           \/ row[i].status = "none" /\ row'[i].status = "pending"
           \/ /\ row[i].status # "none" /\ effects[i] = Handler
              /\ row'[i].status = "processed"
           \/ row[i].status # "none" /\ row'[i].status \in {"dead_letter", "retry"}
           \/ row'[i].status = row[i].status
    PROVE  [Abstract!AlNext]_(Abstract!alVars)
<1>1. row[i] \in Row  BY DEF RefinementInv, TableInv, TypeInv, TypeOK
<1>2. ASSUME NEW o, OutcomeOf(row'[i]) = o
      PROVE  OutcomeMap' = [OutcomeMap EXCEPT ![i] = o]
  BY <1>2 DEF OutcomeMap
<1>3. OutcomeMap[i] = OutcomeOf(row[i])  BY DEF OutcomeMap
<1>4. CASE row[i].status = "none" /\ row'[i].status = "pending"
  <2>1. OutcomeOf(row'[i]) = "open" /\ OutcomeMap[i] = "none"
    BY <1>3, <1>4, OutcomeOfStatus DEF Open
  <2>2. Abstract!Accept(i)  BY <1>2, <2>1 DEF Abstract!Accept
  <2>3. QED  BY <2>2 DEF Abstract!AlNext
<1>5. CASE row[i].status # "none" /\ effects[i] = Handler /\ row'[i].status = "processed"
  <2>1. OutcomeOf(row'[i]) = "done"  BY <1>5, OutcomeOfStatus
  <2>2. OutcomeMap[i] # "none"
    BY <1>1, <1>3, <1>5, OutcomeOfStatus DEF Row, Open, Settled
  <2>3. Abstract!Acknowledge(i)  BY <1>2, <1>5, <2>1, <2>2 DEF Abstract!Acknowledge
  <2>4. QED  BY <2>3 DEF Abstract!AlNext
<1>6. CASE row[i].status # "none" /\ row'[i].status \in {"dead_letter", "retry"}
  <2>2. OutcomeMap[i] \in {"open", "done", "dead"}
    BY <1>1, <1>3, <1>6, OutcomeOfStatus DEF Row, Open, Settled
  <2>3. CASE row'[i].status = "dead_letter"
    <3>1. OutcomeOf(row'[i]) = "dead"  BY <2>3, OutcomeOfStatus
    <3>2. Abstract!GiveUp(i)  BY <1>2, <2>2, <3>1 DEF Abstract!GiveUp
    <3>3. QED  BY <3>2 DEF Abstract!AlNext
  <2>4. CASE row'[i].status = "retry"
    <3>1. OutcomeOf(row'[i]) = "open"  BY <2>4, OutcomeOfStatus DEF Open
    <3>2. CASE OutcomeMap[i] = "open"
      <4>1. OutcomeMap' = OutcomeMap  BY <1>2, <3>1, <3>2 DEF OutcomeMap
      <4>2. QED  BY <4>1 DEF Abstract!alVars
    <3>3. CASE OutcomeMap[i] \in {"done", "dead"}
      <4>1. Abstract!Reopen(i)  BY <1>2, <3>1, <3>3 DEF Abstract!Reopen
      <4>2. QED  BY <4>1 DEF Abstract!AlNext
    <3>4. QED  BY <2>2, <3>2, <3>3
  <2>5. QED  BY <1>6, <2>3, <2>4
<1>7. CASE row'[i].status = row[i].status
  <2>1. \A j \in RowId : OutcomeOf(row'[j]) = OutcomeOf(row[j])
    BY <1>7, OutcomeOfStatus
  <2>2. QED  BY <2>1, SameOutcome DEF Abstract!alVars
<1>8. QED  BY <1>4, <1>5, <1>6, <1>7

\* Every step of the outbox maps to a step of AtLeastOnce, or to a stutter.
LEMMA StepMaps ==
    ASSUME RefinementInv, [Next]_vars
    PROVE  [Abstract!AlNext]_(Abstract!alVars)
<1>1. /\ TypeInv /\ TableInv /\ AllocOK /\ HeldOK /\ DispatchOK
  BY DEF RefinementInv, TableInv, HandledInv
<1>2. ASSUME effects' = effects, \A i \in RowId : OutcomeOf(row'[i]) = OutcomeOf(row[i])
      PROVE  [Abstract!AlNext]_(Abstract!alVars)
  BY <1>2, SameOutcome DEF Abstract!alVars
<1>3. ASSUME NEW p \in Publisher, Publish(p)  PROVE [Abstract!AlNext]_(Abstract!alVars)
  <2>1. CASE InsertRow(p)
    <3>1. nextRow \in RowId  BY <1>1, <2>1 DEF InsertRow, RowId, TypeInv, TypeOK
    <3>2. row[nextRow].status = "none"
      BY <1>1, <3>1 DEF AllocOK, TypeInv, TypeOK, RowId
    <3>3. row'[nextRow].status = "pending" /\ effects' = effects
      BY <1>1, <2>1, <3>1 DEF InsertRow, NoRow, TypeInv, TypeOK
    <3>4. \A j \in RowId : j # nextRow => row'[j] = row[j]
      BY <1>1, <2>1 DEF InsertRow, TypeInv, TypeOK
    <3>5. QED  BY <3>1, <3>2, <3>3, <3>4, RowMaps
  <2>2. CASE ~InsertRow(p)
    BY <1>2, <1>3, <2>2 DEF Publish, Admit, ReturnExisting, FindNone, tableVars
  <2>3. QED  BY <2>1, <2>2
<1>4. ASSUME NEW w \in Worker, Claim(w)  PROVE [Abstract!AlNext]_(Abstract!alVars)
  <2>1. effects' = effects  BY <1>4 DEF Claim
  <2>2. ASSUME NEW i \in RowId  PROVE OutcomeOf(row'[i]) = OutcomeOf(row[i])
    <3>1. row'[i] = IF i \in NextBatch THEN MarkClaimed(row[i], w) ELSE row[i]
      BY <1>4 DEF Claim
    <3>2. CASE i \in NextBatch
      <4>1. row[i].status \in Open /\ row[i] \in Row
        BY <1>1, <3>2, ClaimsOpen DEF TypeInv, TypeOK
      <4>2. row'[i].status \in Open  BY <3>1, <3>2, <4>1, ClaimedFields DEF Open
      <4>3. QED  BY <4>1, <4>2, OutcomeOfStatus
    <3>3. CASE i \notin NextBatch  BY <3>1, <3>3
    <3>4. QED  BY <3>2, <3>3
  <2>3. QED  BY <1>2, <2>1, <2>2
<1>5. ASSUME NEW w \in Worker, Heartbeat(w)  PROVE [Abstract!AlNext]_(Abstract!alVars)
  <2>1. effects' = effects  BY <1>5 DEF Heartbeat
  <2>2. ASSUME NEW i \in RowId  PROVE row'[i].status = row[i].status
    <3>1. row[i] \in Row  BY <1>1 DEF TypeInv, TypeOK
    <3>2. row'[i] = row[i] \/ row'[i] = [row[i] EXCEPT !.lease = HeartbeatLease]
      BY <1>1, <1>5 DEF Heartbeat, TypeInv, TypeOK
    <3>3. QED  BY <3>1, <3>2 DEF Row
  <2>3. QED  BY <1>2, <2>1, <2>2, OutcomeOfStatus
<1>6. ASSUME NEW w \in Worker, NEW ok \in BOOLEAN, HandlerReturns(w, ok)
      PROVE  [Abstract!AlNext]_(Abstract!alVars)
  <2>1. run[w].row \in RowId /\ run[w].next \in Handler /\ run[w].phase = "running"
    BY <1>1, <1>6 DEF HandlerReturns, TypeInv, RunOK
  <2>2. row[run[w].row].status # "none"  BY <1>1, <2>1 DEF HeldOK, Holds
  <2>3. row' = row  BY <1>6 DEF HandlerReturns, tableVars
  <2>4. effects' = IF ok THEN [effects EXCEPT ![run[w].row] = @ \cup {run[w].next}]
                   ELSE effects
    BY <1>6 DEF HandlerReturns
  <2>5. QED  BY <2>1, <2>2, <2>3, <2>4, HandlerMaps
<1>7. ASSUME NEW w \in Worker, NEW z \in zombies[w], NEW ok \in BOOLEAN,
             ZombieReturns(w, z, ok)
      PROVE  [Abstract!AlNext]_(Abstract!alVars)
  <2>1. z.row \in RowId /\ z.next \in Handler
    BY <1>1 DEF TypeInv, TypeOK, Zombie
  <2>2. row[z.row].status # "none"  BY DEF RefinementInv, ZombieOK
  <2>3. row' = row  BY <1>7 DEF ZombieReturns, tableVars
  <2>4. effects' = IF ok THEN [effects EXCEPT ![z.row] = @ \cup {z.next}] ELSE effects
    BY <1>7 DEF ZombieReturns
  <2>5. QED  BY <2>1, <2>2, <2>3, <2>4, HandlerMaps
<1>8. ASSUME NEW w \in Worker, MarkProcessed(w) \/ MarkFailed(w)
      PROVE  [Abstract!AlNext]_(Abstract!alVars)
  <2> DEFINE i == run[w].row
  <2>1. i \in RowId /\ row[i].status # "none"
    BY <1>1, <1>8, MarkReleases
    DEF MarkProcessed, MarkFailed, TypeInv, RunOK, HeldOK
  <2>2. effects' = effects /\ \A j \in RowId : j # i => row'[j] = row[j]
    BY <1>1, <1>8 DEF MarkProcessed, MarkFailed, TypeInv, TypeOK
  <2>6. run[w].copy \in Copy /\ row[i] \in Row
    BY <1>1, <2>1 DEF TypeInv, TypeOK, Dispatch
  <2>3. CASE MarkProcessed(w)
    <3>1. row'[i] = Processed(row[i], run[w].copy)
      BY <1>1, <2>1, <2>3 DEF MarkProcessed, TypeInv, TypeOK
    <3>2. effects[i] = Handler  BY <1>1, <2>3 DEF MarkProcessed, DispatchOK, HandledInv, RefinementInv
    <3>3. row'[i].status \in {"processed", row[i].status}  BY <2>6, <3>1, SettledType
    <3>4. QED  BY <2>1, <2>2, <3>2, <3>3, RowMaps
  <2>4. CASE MarkFailed(w)
    <3>1. row'[i] = Failed(row[i], run[w].copy)
      BY <1>1, <2>1, <2>4 DEF MarkFailed, TypeInv, TypeOK
    <3>2. row'[i].status \in {"dead_letter", "retry", row[i].status}
      BY <2>6, <3>1, SettledType
    <3>3. QED  BY <2>1, <2>2, <3>2, RowMaps
  <2>5. QED  BY <1>8, <2>3, <2>4
<1>9. ASSUME NEW w \in Worker,
             \/ StartDispatch(w) \/ DispatchTimeout(w) \/ LoadRow(w) \/ Fault(w) \/ Restart(w)
      PROVE  [Abstract!AlNext]_(Abstract!alVars)
  BY <1>2, <1>9 DEF StartDispatch, DispatchTimeout, LoadRow, Fault, AckError, NackError, Crash,
                    Restart, tableVars
<1>10. ASSUME Tick \/ UNCHANGED vars  PROVE [Abstract!AlNext]_(Abstract!alVars)
  <2>1. CASE UNCHANGED vars  BY <1>2, <2>1 DEF vars
  <2>2. CASE Tick
    <3>1. effects' = effects  BY <2>2 DEF Tick
    <3>2. ASSUME NEW i \in RowId  PROVE row'[i].status = row[i].status
      <4>1. row[i] \in Row /\ row'[i] = AgeRow(row[i])
        BY <1>1, <2>2 DEF Tick, TypeInv, TypeOK
      <4>2. QED  BY <4>1 DEF AgeRow, Row
    <3>3. QED  BY <1>2, <3>1, <3>2, OutcomeOfStatus
  <2>3. QED  BY <1>10, <2>1, <2>2
<1>11. QED
  BY <1>3, <1>4, <1>5, <1>6, <1>7, <1>8, <1>9, <1>10 DEF Next, Work

\* The outbox implements at-least-once delivery, for any number of workers,
\* events and handlers, and for any leases, timeouts and faults.
THEOREM OutboxImplements == Spec => ImplementsAtLeastOnce
<1>1. RefinementInv /\ [Next]_vars => RefinementInv'
  BY TableStep, HandledStep, ZombieStep DEF RefinementInv
<1>2. RefinementInv /\ [Next]_vars => [Abstract!AlNext]_(Abstract!alVars)
  BY StepMaps
<1>3. QED
  BY <1>1, <1>2, RefinementInit, PTL DEF Spec, ImplementsAtLeastOnce, Abstract!AlSpec

=============================================================================
