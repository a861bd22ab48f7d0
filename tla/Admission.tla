----------------------------- MODULE Admission -----------------------------
(***************************************************************************)
(* The admission of chat requests that come over one channel credential: a *)
(* slot of its daily quota is reserved, then a share of the model budget,  *)
(* and both are settled after the answer (handle_channel_chat_request,     *)
(* reserve_usage_slot, LlmBudgetManager).                                  *)
(*                                                                         *)
(*   deployed   the counters are refused rather than kept in memory when   *)
(*              Redis does not answer                                      *)
(*   up         Redis answers                                              *)
(*   day        the date in the keys of the quota                          *)
(*   slots      the daily counters, in Redis and in the process            *)
(*   inflight   the model calls in flight, in Redis; ttl: how long the key *)
(*              lives, 0 when there is no key, None when it has no end     *)
(*   local      the model calls in flight, in the process                  *)
(*   served     answers that keep their slot, for each counter of slots    *)
(*              (history)                                                  *)
(*   req        the requests                                               *)
(*   begun, faults   requests and faults so far                            *)
(*                                                                         *)
(* A pipeline is one step (MULTI); a rollback is a pipeline of its own.    *)
(* The minute and session counters of the quota and the request, character *)
(* and token counters of the budget are changed in the same pipelines as   *)
(* the ones above; here they are another reason to refuse.                 *)
(***************************************************************************)
EXTENDS Integers, FiniteSets

CONSTANTS
    Request,      \* requests in flight
    None,         \* nothing reserved; no end
    Daily,        \* the credential's questions a day
    Concurrency,  \* model calls in flight
    Ttl,          \* the life of the in-flight counter after an acquire
    Hold,         \* how long a request can be in flight (its timeouts)
    MaxDay,       \* bound: the last day
    MaxRequests,  \* bound: requests begun
    MaxFaults     \* bound: outages, lost answers, cancellations and crashes

ASSUME AdmissionAssumption ==
    /\ IsFiniteSet(Request)
    /\ None \notin Int \cup {"redis", "memory"}
    /\ {Daily, Concurrency} \subseteq Nat \ {0}
    /\ Hold \in Nat /\ Ttl \in Nat /\ Hold < Ttl
    /\ {MaxDay, MaxRequests, MaxFaults} \subseteq Nat

VARIABLES deployed, up, day, slots, inflight, ttl, local, served, req, begun,
          faults

vars == <<deployed, up, day, slots, inflight, ttl, local, served, req, begun,
          faults>>
quota == <<slots, served>>
budget == <<inflight, ttl, local>>
world == <<deployed, up, day>>

Day == 0 .. MaxDay
Store == {"redis", "memory"}

\* Where a handler is: unreserve and rollback take back what was refused,
\* fallback and local go on in memory.
Place == {"idle", "unreserve", "fallback", "acquire", "rollback", "local", "answer",
          "release", "giveback"}

\* slot, share: the store that holds them; day: the date of the slot; age: the
\* time since the acquire; next: what follows a release or a giveback.
RequestState == [at : Place, slot : Store \cup {None}, day : Day,
                 share : Store \cup {None}, age : 0 .. Hold, next : Place]

TypeOK ==
    /\ deployed \in BOOLEAN /\ up \in BOOLEAN
    /\ day \in Day
    /\ slots \in [Store -> [Day -> Nat]]
    /\ inflight \in Int
    /\ ttl \in (0 .. Ttl) \cup {None}
    /\ local \in Nat
    /\ served \in [Store -> [Day -> Nat]]
    /\ req \in [Request -> RequestState]
    /\ begun \in 0 .. MaxRequests
    /\ faults \in 0 .. MaxFaults

-----------------------------------------------------------------------------
Idle == [at |-> "idle", slot |-> None, day |-> 0, share |-> None, age |-> 0,
         next |-> "idle"]

NoCount == [b \in Store |-> [d \in Day |-> 0]]

Init ==
    /\ deployed \in BOOLEAN /\ up = TRUE
    /\ day = 0
    /\ slots = NoCount /\ served = NoCount
    /\ inflight = 0 /\ ttl = 0 /\ local = 0
    /\ req = [q \in Request |-> Idle]
    /\ begun = 0 /\ faults = 0

Become(q, r) == req' = [req EXCEPT ![q] = r]
Goto(q, place) == Become(q, [req[q] EXCEPT !.at = place])
Done(q) == Become(q, Idle)

Fault ==
    /\ faults < MaxFaults
    /\ faults' = faults + 1

-----------------------------------------------------------------------------
(* The quota: reserve_usage_slot.                                          *)

Begin(q) ==
    /\ req[q].at = "idle"
    /\ begun < MaxRequests
    /\ begun' = begun + 1

\* Counted first; over this limit or another one it is refused.
ReserveRedis(q) ==
    /\ Begin(q)
    /\ up
    /\ slots' = [slots EXCEPT !["redis"][day] = @ + 1]
    /\ \/ /\ slots["redis"][day] < Daily
          /\ Become(q, [Idle EXCEPT !.at = "acquire", !.slot = "redis", !.day = day])
       \/ Become(q, [Idle EXCEPT !.at = "unreserve", !.day = day])
    /\ UNCHANGED <<world, served, budget, faults>>

\* Redis has not answered.
NoSlot(q, date) ==
    IF deployed THEN Done(q) ELSE Become(q, [Idle EXCEPT !.at = "fallback", !.day = date])

\* It is down, or only its answer is lost and the request has been counted.
ReserveUnanswered(q) ==
    /\ Begin(q)
    /\ \/ /\ ~up
          /\ UNCHANGED <<slots, faults>>
       \/ /\ up /\ Fault
          /\ slots' = [slots EXCEPT !["redis"][day] = @ + 1]
    /\ NoSlot(q, day)
    /\ UNCHANGED <<world, served, budget>>

\* Mutant: the keys are made again for the rollback.
UnreserveToday(q) ==
    /\ req[q].at = "unreserve"
    /\ IF up THEN /\ slots' = [slots EXCEPT !["redis"][day] = @ - 1]
                  /\ Done(q)
             ELSE NoSlot(q, req[q].day) /\ UNCHANGED slots
    /\ UNCHANGED <<world, served, budget, begun, faults>>

\* A rollback that fails is taken for a Redis that has not answered.
Unreserve(q) ==
    /\ req[q].at = "unreserve"
    /\ IF up THEN /\ slots' = [slots EXCEPT !["redis"][req[q].day] = @ - 1]
                  /\ Done(q)
             ELSE NoSlot(q, req[q].day) /\ UNCHANGED slots
    /\ UNCHANGED <<world, served, budget, begun, faults>>

\* Checked and counted under the lock of the process.
ReserveMemory(q) ==
    /\ req[q].at = "fallback"
    /\ \/ /\ slots["memory"][req[q].day] < Daily
          /\ slots' = [slots EXCEPT !["memory"][req[q].day] = @ + 1]
          /\ Become(q, [req[q] EXCEPT !.at = "acquire", !.slot = "memory"])
       \/ Done(q) /\ UNCHANGED slots
    /\ UNCHANGED <<world, served, budget, begun, faults>>

-----------------------------------------------------------------------------
(* The budget: LlmBudgetManager.acquire.                                   *)

\* Mutant: the life of the key is set when it is made, and not again.
AcquireKeepTtl(q) ==
    /\ req[q].at = "acquire"
    /\ up
    /\ inflight' = inflight + 1
    /\ ttl' = IF ttl = 0 THEN Ttl ELSE ttl
    /\ \/ /\ inflight < Concurrency
          /\ Become(q, [req[q] EXCEPT !.at = "answer", !.share = "redis"])
       \/ Goto(q, "rollback")
    /\ UNCHANGED <<world, quota, local, begun, faults>>

\* Mutant: the key has no end.
AcquireForEver(q) ==
    /\ req[q].at = "acquire"
    /\ up
    /\ inflight' = inflight + 1
    /\ ttl' = None
    /\ \/ /\ inflight < Concurrency
          /\ Become(q, [req[q] EXCEPT !.at = "answer", !.share = "redis"])
       \/ Goto(q, "rollback")
    /\ UNCHANGED <<world, quota, local, begun, faults>>

\* Refused requests too are counted, and renew the life of the key.
Acquire(q) ==
    /\ req[q].at = "acquire"
    /\ up
    /\ inflight' = inflight + 1
    /\ ttl' = Ttl
    /\ \/ /\ inflight < Concurrency
          /\ Become(q, [req[q] EXCEPT !.at = "answer", !.share = "redis"])
       \/ Goto(q, "rollback")
    /\ UNCHANGED <<world, quota, local, begun, faults>>

AcquireUnanswered(q) ==
    /\ req[q].at = "acquire"
    /\ \/ /\ ~up
          /\ UNCHANGED <<inflight, ttl, faults>>
       \/ /\ up /\ Fault
          /\ inflight' = inflight + 1
          /\ ttl' = Ttl
    /\ Goto(q, IF deployed THEN "giveback" ELSE "local")
    /\ UNCHANGED <<world, quota, local, begun>>

\* DECR makes a key that is not there, without an end. Without Redis nothing is
\* taken back, and nobody told.
Decrement ==
    IF up THEN /\ inflight' = inflight - 1
               /\ ttl' = IF ttl = 0 THEN None ELSE ttl
          ELSE UNCHANGED <<inflight, ttl>>

\* rollback_redis_budget
Rollback(q) ==
    /\ req[q].at = "rollback"
    /\ Decrement
    /\ Become(q, [req[q] EXCEPT !.at = "giveback", !.age = 0])
    /\ UNCHANGED <<world, quota, local, begun, faults>>

AcquireLocal(q) ==
    /\ req[q].at = "local"
    /\ \/ /\ local < Concurrency
          /\ local' = local + 1
          /\ Become(q, [req[q] EXCEPT !.at = "answer", !.share = "memory"])
       \/ Goto(q, "giveback") /\ UNCHANGED local
    /\ UNCHANGED <<world, quota, inflight, ttl, begun, faults>>

-----------------------------------------------------------------------------
(* The answer: what was reserved is settled.                               *)

\* Mutant: an error keeps the slot.
AnswerKeepsSlot(q) ==
    /\ req[q].at = "answer"
    /\ \/ /\ served' = [served EXCEPT ![req[q].slot][req[q].day] = @ + 1]
          /\ Become(q, [req[q] EXCEPT !.at = "release", !.slot = None])
       \/ /\ Become(q, [req[q] EXCEPT !.at = "release", !.slot = None])
          /\ UNCHANGED served
    /\ UNCHANGED <<world, slots, budget, begun, faults>>

\* An answer keeps its slot. An empty one gives it back after the share, an
\* error before it.
Answer(q) ==
    /\ req[q].at = "answer"
    /\ \/ /\ served' = [served EXCEPT ![req[q].slot][req[q].day] = @ + 1]
          /\ Become(q, [req[q] EXCEPT !.at = "release", !.slot = None])
       \/ /\ Become(q, [req[q] EXCEPT !.at = "release", !.next = "giveback"])
          /\ UNCHANGED served
       \/ /\ Become(q, [req[q] EXCEPT !.at = "giveback", !.next = "release"])
          /\ UNCHANGED served
    /\ UNCHANGED <<world, slots, budget, begun, faults>>

\* A cancelled handler runs its finally and no except: the slot stays counted.
Cancelled(q) ==
    /\ req[q].at = "answer"
    /\ Fault
    /\ Become(q, [req[q] EXCEPT !.at = "release", !.slot = None])
    /\ UNCHANGED <<world, quota, budget, begun>>

\* The request q is done with this step; next comes once.
Proceed(q, r) ==
    IF r.next = "idle" THEN Done(q)
                       ELSE Become(q, [r EXCEPT !.at = r.next, !.next = "idle"])

\* LlmBudgetManager.release
Release(q) ==
    /\ req[q].at = "release"
    /\ IF req[q].share = "redis"
       THEN Decrement /\ UNCHANGED local
       ELSE /\ local' = IF local > 0 THEN local - 1 ELSE 0
            /\ UNCHANGED <<inflight, ttl>>
    /\ Proceed(q, [req[q] EXCEPT !.share = None, !.age = 0])
    /\ UNCHANGED <<world, quota, begun, faults>>

\* Mutant: the slot is given back to the day it is now.
GiveBackToday(q) ==
    /\ req[q].at = "giveback"
    /\ slots' = IF req[q].slot = "redis" /\ ~up THEN slots
                ELSE [slots EXCEPT ![req[q].slot][day] = IF @ > 0 THEN @ - 1 ELSE 0]
    /\ Proceed(q, [req[q] EXCEPT !.slot = None])
    /\ UNCHANGED <<world, served, budget, begun, faults>>

\* release_usage_slot, with the keys of the reservation.
GiveBack(q) ==
    /\ req[q].at = "giveback"
    /\ slots' = IF req[q].slot = "redis" /\ ~up THEN slots
                ELSE [slots EXCEPT ![req[q].slot][req[q].day] = @ - 1]
    /\ Proceed(q, [req[q] EXCEPT !.slot = None])
    /\ UNCHANGED <<world, served, budget, begun, faults>>

-----------------------------------------------------------------------------
(* The world.                                                              *)

\* A request that is counted in Redis ends within its timeouts.
Timed(q) == req[q].share = "redis" \/ req[q].at = "rollback"

\* Time passes; a key that has lived for Ttl is gone.
Tick ==
    /\ \A q \in Request : Timed(q) => req[q].age < Hold
    /\ req' = [q \in Request |-> IF Timed(q) THEN [req[q] EXCEPT !.age = @ + 1] ELSE req[q]]
    /\ ttl' = IF ttl \in 1 .. Ttl THEN ttl - 1 ELSE ttl
    /\ inflight' = IF ttl = 1 THEN 0 ELSE inflight
    /\ UNCHANGED <<world, quota, local, begun, faults>>

Midnight ==
    /\ day < MaxDay
    /\ day' = day + 1
    /\ UNCHANGED <<deployed, up, quota, budget, req, begun, faults>>

\* Processes die with the requests Q. In memory mode there is one process.
Crash(Q) ==
    /\ Q # {} /\ (Q = Request \/ deployed)
    /\ Fault
    /\ req' = [q \in Request |-> IF q \in Q THEN Idle ELSE req[q]]
    /\ IF deployed THEN UNCHANGED <<quota, local>>
       ELSE /\ slots' = [slots EXCEPT !["memory"] = NoCount["memory"]]
            /\ served' = [served EXCEPT !["memory"] = NoCount["memory"]]
            /\ local' = 0
    /\ UNCHANGED <<world, inflight, ttl, begun>>

RedisFails ==
    /\ up /\ Fault
    /\ up' = FALSE
    /\ UNCHANGED <<deployed, day, quota, budget, req, begun>>

RedisRecovers ==
    /\ ~up
    /\ up' = TRUE
    /\ UNCHANGED <<deployed, day, quota, budget, req, begun, faults>>

Continue(q) ==
    \/ Unreserve(q) \/ ReserveMemory(q)
    \/ Acquire(q) \/ AcquireUnanswered(q) \/ Rollback(q) \/ AcquireLocal(q)
    \/ Answer(q) \/ Release(q) \/ GiveBack(q)

Next ==
    \/ \E q \in Request : ReserveRedis(q) \/ ReserveUnanswered(q) \/ Continue(q)
    \/ Tick \/ Midnight
    \/ \E q \in Request : Cancelled(q)
    \/ \E Q \in SUBSET Request : Crash(Q)
    \/ RedisFails \/ RedisRecovers

Spec == Init /\ [][Next]_vars

\* Time passes and a handler that has begun goes on; the model's timeouts see
\* to it.
Fairness ==
    /\ WF_vars(Tick)
    /\ \A q \in Request : WF_vars(Continue(q))

FairSpec == Spec /\ Fairness

-----------------------------------------------------------------------------
(* Properties.                                                             *)

Holding(b, d) == {q \in Request : req[q].slot = b /\ req[q].day = d}
Calling(b) == {q \in Request : req[q].share = b}

\* The answers of a day and the requests that hold a slot of it never exceed the
\* daily limit, in either store, though refused requests are counted until their
\* rollback, slots are given back after midnight, and answers of Redis are lost.
\* A process that dies forgets its own counters.
QuotaKept ==
    \A b \in Store, d \in Day : served[b][d] + Cardinality(Holding(b, d)) <= Daily

\* No more model calls than the limit are in flight, although the counter expires
\* by itself: every acquire renews its life, which is longer than a call's.
ConcurrencyBounded == \A b \in Store : Cardinality(Calling(b)) <= Concurrency

\* Without a fault nothing leaks: with no request in flight the counters say what
\* was served, on whichever path the requests ended.
Balanced ==
    faults = 0 /\ (\A q \in Request : req[q].at = "idle") =>
        slots = served /\ inflight = 0 /\ local = 0

\* Shares that were lost to crashes, outages or lost answers come back: when no
\* request follows for a while, the counter of calls in flight is gone.
SharesReturn == <>[](ttl = 0)

=============================================================================
