------------------------------- MODULE Outbox -------------------------------
(***************************************************************************)
(* The platform event outbox of core/kernel/events: publishers append rows *)
(* to one database table, workers claim them under a lease, run the        *)
(* registered handlers and mark each row processed, retried or dead.       *)
(*                                                                         *)
(*   row       the outbox table, by row id; "none" is a row not inserted   *)
(*   nextRow   the next value of the id sequence                           *)
(*   pub       each publisher's place inside EventChannel.publish          *)
(*   receipts  history: the <<key, row>> pairs that append has returned    *)
(*   up        which worker processes are alive                            *)
(*   batch     the claimed rows a worker has not started yet               *)
(*   run       the dispatch a worker is waiting for, or settling           *)
(*   zombies   handler threads that outlived their dispatch's timeout      *)
(*   effects   history: the handlers that have returned normally, by row   *)
(*   faults    crashes and database errors so far                          *)
(*   tries     history: the failures recorded for a row, to MaxAttempts    *)
(*   age       history: ticks since the claim of what a worker holds       *)
(*   overrun   history: a worker has kept a claim for a lease's time       *)
(*                                                                         *)
(* Timestamps are kept as the number of clock ticks that separate them     *)
(* from now, so the clock itself is not a variable: due, lease and left    *)
(* count down, lockAge counts up to StaleAfter.                            *)
(***************************************************************************)
EXTENDS Integers, FiniteSets

CONSTANTS
    Worker, Publisher,  \* processes
    Key,                \* idempotency keys
    NoKey, NoWorker,    \* "no key given", "no lock owner"
    HandlerCount,       \* handlers registered for the event type
    BatchSize,          \* OutboxWorker batch_size
    BacklogLimit,       \* platform_event_outbox_backlog_soft_limit
    MaxAttempts,        \* OutboxWorker max_retries
    RetryDelay,         \* retry_delay_seconds, in ticks
    ClaimLease,         \* lease_seconds given to claim_next_batch, in ticks
    HeartbeatLease,     \* lease_seconds of the event's policy, in ticks
    StaleAfter,         \* stale_lock_after_sec, in ticks
    Timeout,            \* handler_timeout_seconds of the policy, in ticks
    MaxRows,            \* bound: rows ever inserted
    MaxFaults           \* bound: crashes and database errors

ASSUME OutboxAssumption ==
    /\ NoKey \notin Key
    /\ NoWorker \notin Worker
    /\ IsFiniteSet(Worker) /\ IsFiniteSet(Publisher)
    /\ HandlerCount \in Nat
    /\ MaxRows \in Nat /\ MaxFaults \in Nat
    /\ BatchSize \in Nat \ {0} /\ BacklogLimit \in Nat \ {0}
    /\ MaxAttempts \in Nat \ {0} /\ RetryDelay \in Nat \ {0}
    /\ ClaimLease \in Nat \ {0} /\ HeartbeatLease \in Nat \ {0}
    /\ StaleAfter \in Nat \ {0} /\ Timeout \in Nat \ {0}

VARIABLES row, nextRow, pub, receipts, up, batch, run, zombies, effects, faults,
          tries, age, overrun

tableVars == <<row, nextRow>>
pubVars == <<pub, receipts>>
workerVars == <<up, batch, run, zombies>>
timeVars == <<age, overrun>>
vars == <<row, nextRow, pub, receipts, up, batch, run, zombies, effects, faults,
          tries, age, overrun>>

RowId == 1 .. MaxRows
Handler == 1 .. HandlerCount
Open == {"pending", "retry", "processing"}
Settled == {"processed", "dead_letter"}
NoLease == -1                            \* lease_until is NULL

Row == [status : {"none"} \cup Open \cup Settled,
        key : Key \cup {NoKey},
        attempts : Nat,
        due : Nat,                       \* ticks until next_retry_at
        leasedBy : Worker \cup {NoWorker},
        lease : Nat \cup {NoLease},      \* ticks until lease_until
        lockAge : Nat]                   \* ticks since locked_at

\* What mark_processed and mark_failed have read of a row: the values from
\* which the columns to be written are told.
Copy == [status : {"none"} \cup Open \cup Settled,
         attempts : Nat,
         locked : BOOLEAN,               \* locked_at and leased_by are set
         leased : BOOLEAN]               \* lease_until is set

Dispatch == [phase : {"idle", "running", "ack", "acking", "nack", "nacking"},
             row : Nat,
             next : Nat,                 \* the handler being run
             failed : BOOLEAN,           \* a handler has raised
             left : Nat,                 \* ticks until the join times out
             copy : Copy]

Zombie == [row : RowId, next : Handler]

TypeOK ==
    /\ row \in [RowId -> Row]
    /\ nextRow \in Nat \ {0}
    /\ pub \in [Publisher -> [at : {"idle", "admitted", "absent"},
                              key : Key \cup {NoKey}]]
    /\ receipts \subseteq (Key \cup {NoKey}) \X RowId
    /\ up \in [Worker -> BOOLEAN]
    /\ batch \in [Worker -> SUBSET RowId]
    /\ run \in [Worker -> Dispatch]
    /\ zombies \in [Worker -> SUBSET Zombie]
    /\ effects \in [RowId -> SUBSET Handler]
    /\ faults \in Nat
    /\ tries \in [RowId -> Nat]
    /\ age \in [Worker -> Nat]
    /\ overrun \in BOOLEAN

-----------------------------------------------------------------------------
NoRow == [status |-> "none", key |-> NoKey, attempts |-> 0, due |-> 0,
          leasedBy |-> NoWorker, lease |-> NoLease, lockAge |-> 0]

NoCopy == [status |-> "none", attempts |-> 0, locked |-> FALSE, leased |-> FALSE]

Idle == [phase |-> "idle", row |-> 0, next |-> 0, failed |-> FALSE, left |-> 0,
         copy |-> NoCopy]

NoPub == [at |-> "idle", key |-> NoKey]

Init ==
    /\ row = [i \in RowId |-> NoRow]
    /\ nextRow = 1
    /\ pub = [p \in Publisher |-> NoPub]
    /\ receipts = {}
    /\ up = [w \in Worker |-> TRUE]
    /\ batch = [w \in Worker |-> {}]
    /\ run = [w \in Worker |-> Idle]
    /\ zombies = [w \in Worker |-> {}]
    /\ effects = [i \in RowId |-> {}]
    /\ faults = 0
    /\ tries = [i \in RowId |-> 0]
    /\ age = [w \in Worker |-> 0]
    /\ overrun = FALSE

-----------------------------------------------------------------------------
(* Publishing: the backlog check, the lookup by key and the insert are     *)
(* three database round trips, between which other publishers run.         *)

Backlog == Cardinality({i \in RowId : row[i].status \in Open})

RowsWith(k) == {i \in RowId : k # NoKey /\ row[i].status # "none" /\ row[i].key = k}

\* Mutant: the limit itself is still admitted.
AdmitAtLimit(p, k) ==
    /\ pub[p].at = "idle"
    /\ nextRow <= MaxRows
    /\ Backlog <= BacklogLimit
    /\ pub' = [pub EXCEPT ![p] = [at |-> "admitted", key |-> k]]
    /\ UNCHANGED <<tableVars, receipts, workerVars, effects, faults, tries, timeVars>>

\* backlog_size is below the soft limit; at the limit publish raises and
\* nothing changes.
Admit(p, k) ==
    /\ pub[p].at = "idle"
    /\ nextRow <= MaxRows
    /\ Backlog < BacklogLimit
    /\ pub' = [pub EXCEPT ![p] = [at |-> "admitted", key |-> k]]
    /\ UNCHANGED <<tableVars, receipts, workerVars, effects, faults, tries, timeVars>>

\* append finds a row with the key, before or after its own insert failed on
\* the unique index, and returns it.
ReturnExisting(p) ==
    /\ pub[p].at \in {"admitted", "absent"}
    /\ \E i \in RowsWith(pub[p].key) : receipts' = receipts \cup {<<pub[p].key, i>>}
    /\ pub' = [pub EXCEPT ![p] = NoPub]
    /\ UNCHANGED <<tableVars, workerVars, effects, faults, tries, timeVars>>

FindNone(p) ==
    /\ pub[p].at = "admitted"
    /\ RowsWith(pub[p].key) = {}
    /\ pub' = [pub EXCEPT ![p].at = "absent"]
    /\ UNCHANGED <<tableVars, receipts, workerVars, effects, faults, tries, timeVars>>

\* Mutant: the unique index is missing.
IndexMissing(k) == TRUE

\* The unique index on idempotency_key lets an insert commit only when no row
\* has the key.
IndexAllows(k) == RowsWith(k) = {}

InsertRow(p) ==
    /\ pub[p].at = "absent"
    /\ nextRow <= MaxRows
    /\ IndexAllows(pub[p].key)
    /\ row' = [row EXCEPT ![nextRow] =
                 [NoRow EXCEPT !.status = "pending", !.key = pub[p].key]]
    /\ nextRow' = nextRow + 1
    /\ receipts' = receipts \cup {<<pub[p].key, nextRow>>}
    /\ pub' = [pub EXCEPT ![p] = NoPub]
    /\ UNCHANGED <<workerVars, effects, faults, tries, timeVars>>

-----------------------------------------------------------------------------
(* The worker loop.                                                        *)

\* A column that is NULL has not run out.
Expired(r) == r.lease = 0 \/ (r.leasedBy # NoWorker /\ r.lockAge >= StaleAfter)

\* Mutant: a lease is ignored by the claim.
EligibleUnexpired(r) == r.status \in Open /\ r.due = 0

\* Mutant: an expired lease is never taken over.
EligibleNoTakeover(r) == r.status \in {"pending", "retry"} /\ r.due = 0

Eligible(r) ==
    \/ r.status \in {"pending", "retry"} /\ r.due = 0
    \/ r.status = "processing" /\ Expired(r)

\* ORDER BY id LIMIT BatchSize over the eligible rows.
NextBatch ==
    LET eligible == {i \in RowId : Eligible(row[i])}
    IN  {i \in eligible : Cardinality({j \in eligible : j < i}) < BatchSize}

MarkClaimed(r, w) == [r EXCEPT !.status = "processing", !.leasedBy = w,
                               !.lease = ClaimLease, !.lockAge = 0]

Claim(w) ==
    /\ up[w] /\ run[w].phase = "idle" /\ batch[w] = {}
    /\ NextBatch # {}
    /\ row' = [i \in RowId |-> IF i \in NextBatch THEN MarkClaimed(row[i], w)
                                                  ELSE row[i]]
    /\ batch' = [batch EXCEPT ![w] = NextBatch]
    /\ age' = [age EXCEPT ![w] = 0]
    /\ UNCHANGED <<nextRow, pubVars, up, run, zombies, effects, faults, tries, overrun>>

\* The batch is worked through in id order; the row is not read again before
\* its handlers start. An event type without handlers succeeds at once.
StartDispatch(w) ==
    /\ run[w].phase = "idle"
    /\ \E i \in batch[w] :
         /\ \A j \in batch[w] : i <= j
         /\ batch' = [batch EXCEPT ![w] = @ \ {i}]
         /\ run' = [run EXCEPT ![w] =
                      [phase |-> IF HandlerCount = 0 THEN "ack" ELSE "running",
                       row |-> i, next |-> 1, failed |-> FALSE, left |-> Timeout,
                       copy |-> NoCopy]]
    /\ UNCHANGED <<tableVars, pubVars, up, zombies, effects, faults, tries, timeVars>>

\* Mutant: only the last handler's exception counts.
HandlerReturnsLastError(w, ok) ==
    LET d == run[w]
    IN  /\ d.phase = "running"
        /\ run' = [run EXCEPT ![w] =
                     [d EXCEPT !.next = d.next + 1,
                               !.phase = IF d.next < HandlerCount THEN "running"
                                         ELSE IF ok THEN "ack" ELSE "nack"]]
        /\ effects' = IF ok THEN [effects EXCEPT ![d.row] = @ \cup {d.next}] ELSE effects
        /\ UNCHANGED <<tableVars, pubVars, up, batch, zombies, faults, tries, timeVars>>

\* One handler returns (ok) or raises; the next one runs either way. After the
\* last one the dispatch thread ends and the loop goes on to settle the row.
HandlerReturns(w, ok) ==
    LET d == run[w]
        failed == d.failed \/ ~ok
    IN  /\ d.phase = "running"
        /\ run' = [run EXCEPT ![w] =
                     [d EXCEPT !.failed = failed,
                               !.next = d.next + 1,
                               !.phase = IF d.next < HandlerCount THEN "running"
                                         ELSE IF failed THEN "nack" ELSE "ack"]]
        /\ effects' = IF ok THEN [effects EXCEPT ![d.row] = @ \cup {d.next}] ELSE effects
        /\ UNCHANGED <<tableVars, pubVars, up, batch, zombies, faults, tries, timeVars>>

\* The heartbeat thread extends the lease of a row in processing that no other
\* worker has locked. It does not touch locked_at.
Heartbeat(w) ==
    LET i == run[w].row
    IN  /\ run[w].phase = "running"
        /\ row[i].status = "processing"
        /\ row[i].leasedBy \in {w, NoWorker}
        /\ row' = [row EXCEPT ![i].lease = HeartbeatLease]
        /\ UNCHANGED <<nextRow, pubVars, workerVars, effects, faults, tries, timeVars>>

\* Mutant: the join's timeout is not turned into an exception.
DispatchTimeoutSwallowed(w) ==
    /\ run[w].phase = "running"
    /\ run[w].left = 0
    /\ zombies' = [zombies EXCEPT ![w] = @ \cup {[row |-> run[w].row, next |-> run[w].next]}]
    /\ run' = [run EXCEPT ![w].phase = "ack"]
    /\ UNCHANGED <<tableVars, pubVars, up, batch, effects, faults, tries, timeVars>>

\* The join times out: the loop sees a TimeoutError, the handler thread lives on.
DispatchTimeout(w) ==
    /\ run[w].phase = "running"
    /\ run[w].left = 0
    /\ zombies' = [zombies EXCEPT ![w] = @ \cup {[row |-> run[w].row, next |-> run[w].next]}]
    /\ run' = [run EXCEPT ![w].phase = "nack"]
    /\ UNCHANGED <<tableVars, pubVars, up, batch, effects, faults, tries, timeVars>>

ZombieReturns(w, z, ok) ==
    /\ z \in zombies[w]
    /\ zombies' = [zombies EXCEPT ![w] =
                     (@ \ {z}) \cup (IF z.next < HandlerCount
                                     THEN {[z EXCEPT !.next = z.next + 1]} ELSE {})]
    /\ effects' = IF ok THEN [effects EXCEPT ![z.row] = @ \cup {z.next}] ELSE effects
    /\ UNCHANGED <<tableVars, pubVars, up, batch, run, faults, tries, timeVars>>

\* mark_processed and mark_failed load the row without a lock, change the
\* object in memory and commit; the database is sent only the columns whose
\* value differs from the one loaded. Neither of the two looks at the status or
\* at the lock owner it has loaded.
CopyOf(r) == [status |-> r.status, attempts |-> r.attempts,
              locked |-> r.leasedBy # NoWorker, leased |-> r.lease # NoLease]

LoadRow(w) ==
    /\ run[w].phase \in {"ack", "nack"}
    /\ run' = [run EXCEPT ![w].phase = IF @ = "ack" THEN "acking" ELSE "nacking",
                          ![w].copy = CopyOf(row[run[w].row])]
    /\ UNCHANGED <<tableVars, pubVars, up, batch, zombies, effects, faults, tries, timeVars>>

\* The columns of the row that the commit of a new status writes.
Settle(r, c, new) ==
    [r EXCEPT !.status = IF new # c.status THEN new ELSE @,
              !.leasedBy = IF c.locked THEN NoWorker ELSE @,
              !.lockAge = IF c.locked THEN 0 ELSE @,
              !.lease = IF c.leased THEN NoLease ELSE @]

Processed(r, c) == Settle(r, c, "processed")

\* Mutant: the last attempt is one too many.
FailedOneMore(r, c) ==
    LET n == c.attempts + 1
    IN  IF n > MaxAttempts
        THEN [Settle(r, c, "dead_letter") EXCEPT !.attempts = n]
        ELSE [Settle(r, c, "retry") EXCEPT !.attempts = n, !.due = RetryDelay * n]

\* The attempts are those of the copy and one more; the retry delay grows
\* linearly with them.
Failed(r, c) ==
    LET n == c.attempts + 1
    IN  IF n >= MaxAttempts
        THEN [Settle(r, c, "dead_letter") EXCEPT !.attempts = n]
        ELSE [Settle(r, c, "retry") EXCEPT !.attempts = n, !.due = RetryDelay * n]

MarkProcessed(w) ==
    /\ run[w].phase = "acking"
    /\ row' = [row EXCEPT ![run[w].row] = Processed(@, run[w].copy)]
    /\ run' = [run EXCEPT ![w] = Idle]
    /\ UNCHANGED <<nextRow, pubVars, up, batch, zombies, effects, faults, tries, timeVars>>

MarkFailed(w) ==
    /\ run[w].phase = "nacking"
    /\ row' = [row EXCEPT ![run[w].row] = Failed(@, run[w].copy)]
    /\ run' = [run EXCEPT ![w] = Idle]
    /\ tries' = [tries EXCEPT ![run[w].row] = IF @ < MaxAttempts THEN @ + 1 ELSE @]
    /\ UNCHANGED <<nextRow, pubVars, up, batch, zombies, effects, faults, timeVars>>

\* mark_processed raises inside the try block: the event is marked failed.
AckError(w) ==
    /\ run[w].phase \in {"ack", "acking"}
    /\ faults < MaxFaults
    /\ run' = [run EXCEPT ![w].phase = "nack", ![w].copy = NoCopy]
    /\ faults' = faults + 1
    /\ UNCHANGED <<tableVars, pubVars, up, batch, zombies, effects, tries, timeVars>>

\* mark_failed raises: the exception leaves process_batch, which drops the rest
\* of the batch; the poll loop logs it and polls again.
NackError(w) ==
    /\ run[w].phase \in {"nack", "nacking"}
    /\ faults < MaxFaults
    /\ run' = [run EXCEPT ![w] = Idle]
    /\ batch' = [batch EXCEPT ![w] = {}]
    /\ faults' = faults + 1
    /\ UNCHANGED <<tableVars, pubVars, up, zombies, effects, tries, timeVars>>

-----------------------------------------------------------------------------
(* The worker process dies, or is stopped; its daemon threads die with it. *)

Crash(w) ==
    /\ up[w]
    /\ faults < MaxFaults
    /\ up' = [up EXCEPT ![w] = FALSE]
    /\ batch' = [batch EXCEPT ![w] = {}]
    /\ run' = [run EXCEPT ![w] = Idle]
    /\ zombies' = [zombies EXCEPT ![w] = {}]
    /\ faults' = faults + 1
    /\ UNCHANGED <<tableVars, pubVars, effects, tries, timeVars>>

Restart(w) ==
    /\ ~up[w]
    /\ up' = [up EXCEPT ![w] = TRUE]
    /\ UNCHANGED <<tableVars, pubVars, batch, run, zombies, effects, faults, tries, timeVars>>

-----------------------------------------------------------------------------
(* Time.                                                                   *)

Down(n) == IF n <= 0 THEN n ELSE n - 1

Holding(w) == batch[w] # {} \/ run[w].phase # "idle"

\* Kept for the time of the shortest lease: the row may be another's by now.
Overdue(n) == n >= ClaimLease \/ n >= HeartbeatLease \/ n >= StaleAfter

\* Mutant: a retry time in the past.
AgeRowUnclamped(r) ==
    [r EXCEPT !.due = @ - 1, !.lease = Down(@),
              !.lockAge = IF r.leasedBy # NoWorker /\ @ < StaleAfter THEN @ + 1 ELSE @]

AgeRow(r) ==
    [r EXCEPT !.due = Down(@), !.lease = Down(@),
              !.lockAge = IF r.leasedBy # NoWorker /\ @ < StaleAfter THEN @ + 1 ELSE @]

\* Time passes, whatever the processes were about to do: any of them may be
\* paused anywhere. The ages serve only to notice the first overrun.
Tick ==
    LET held == [w \in Worker |-> IF Holding(w) THEN age[w] + 1 ELSE 0]
    IN  /\ row' = [i \in RowId |-> AgeRow(row[i])]
        /\ run' = [w \in Worker |-> [run[w] EXCEPT !.left = Down(@)]]
        /\ overrun' = (overrun \/ \E w \in Worker : Overdue(held[w]))
        /\ age' = IF overrun' THEN [w \in Worker |-> 0] ELSE held
        /\ UNCHANGED <<nextRow, pubVars, up, batch, zombies, effects, faults, tries>>

-----------------------------------------------------------------------------
Publish(p) ==
    \/ \E k \in Key \cup {NoKey} : Admit(p, k)
    \/ ReturnExisting(p)
    \/ FindNone(p)
    \/ InsertRow(p)

Work(w) ==
    \/ Claim(w)
    \/ StartDispatch(w)
    \/ \E ok \in BOOLEAN : HandlerReturns(w, ok)
    \/ Heartbeat(w)
    \/ DispatchTimeout(w)
    \/ \E z \in zombies[w], ok \in BOOLEAN : ZombieReturns(w, z, ok)
    \/ LoadRow(w)
    \/ MarkProcessed(w)
    \/ MarkFailed(w)

Fault(w) == AckError(w) \/ NackError(w) \/ Crash(w)

Next ==
    \/ \E p \in Publisher : Publish(p)
    \/ \E w \in Worker : Work(w) \/ Fault(w) \/ Restart(w)
    \/ Tick

Spec == Init /\ [][Next]_vars

\* The loop thread of a live worker keeps running, the container is restarted
\* after a crash, and time passes. Publishers and handlers owe nothing.
Fairness ==
    /\ WF_vars(Tick)
    /\ \A w \in Worker :
         /\ WF_vars(Claim(w))
         /\ WF_vars(StartDispatch(w))
         /\ WF_vars(DispatchTimeout(w))
         /\ WF_vars(LoadRow(w))
         /\ WF_vars(MarkProcessed(w))
         /\ WF_vars(MarkFailed(w))
         /\ WF_vars(Restart(w))

FairSpec == Spec /\ Fairness

-----------------------------------------------------------------------------
(* Properties.                                                             *)

Holds(w, i) == i \in batch[w] \/ (run[w].phase # "idle" /\ run[w].row = i)

\* Two appends that were given the same idempotency key have returned the same
\* row, which carries that key, however their lookups and inserts interleave
\* (PlatformEventOutboxRepository.append and the unique index under it).
IdempotentAppend ==
    \A r1, r2 \in receipts :
        r1[1] # NoKey =>
          /\ row[r1[2]].key = r1[1] /\ row[r1[2]].status # "none"
          /\ r1[1] = r2[1] => r1[2] = r2[2]

\* publish checks the backlog and inserts in separate transactions, so the soft
\* limit can be overrun, but by no more than the other publishers in flight, as
\* long as no worker has kept a claim for the time of its lease (after that, rows
\* that were settled can be opened again, which no limit sees).
BacklogBounded == ~overrun => Backlog <= BacklogLimit + Cardinality(Publisher) - 1

\* At-least-once: a row is acknowledged only when every registered handler has
\* returned normally for it at least once, over crashes, timeouts, takeovers
\* and redeliveries.
AckMeansHandled ==
    \A i \in RowId : row[i].status = "processed" => effects[i] = Handler

\* The retry budget. An event is never given up before MaxAttempts failures of
\* it were recorded, even if late workers overwrite one another's attempts, or
\* open a dead event again. And as long as no worker has kept a claim for the
\* time of its lease, the budget is exact: a row that is still to be delivered has
\* attempts left, a dead one has spent them and not one more.
RetryBudget ==
    \A i \in RowId :
        /\ row[i].status = "dead_letter" => tries[i] >= MaxAttempts
        /\ ~overrun =>
             /\ row[i].status \in Open => row[i].attempts < MaxAttempts
             /\ row[i].status = "dead_letter" => row[i].attempts = MaxAttempts

\* No two workers are inside the handlers of the same event at once, unless a
\* worker has kept what it claimed (a batch waiting in memory, a dispatch, a row
\* it is settling) for as long as the claim's lease, the heartbeat's or the lock.
ExclusiveDispatch ==
    ~overrun =>
    \A w1, w2 \in Worker :
        w1 # w2 /\ run[w1].phase = "running" /\ run[w2].phase = "running"
        => run[w1].row # run[w2].row

\* Up to then the outcome of an event is never revised either: mark_processed and
\* mark_failed, which look at neither status nor owner and write from a copy they
\* have read without a lock, are only ever applied to open rows.
FinalOutcome ==
    [][~overrun' =>
         \A i \in RowId : row[i].status \in Settled => row'[i].status = row[i].status]_vars

\* Every row that is inserted ends up processed or dead-lettered, and stays so.
EventuallySettled ==
    \A i \in RowId : row[i].status # "none" ~> [](row[i].status \in Settled)
=============================================================================
