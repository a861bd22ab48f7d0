--------------------------- MODULE AdmissionProofs ---------------------------
(***************************************************************************)
(* Safety of the admission of chat requests, for any number of requests in *)
(* flight, any limits, and any outages, lost answers, cancellations and    *)
(* crashes. Every counter is compared with the set of the requests it      *)
(* counts: a counter may be too high after a fault, but never too low.     *)
(***************************************************************************)
EXTENDS Admission, FiniteSetTheorems, TLAPS

-----------------------------------------------------------------------------
(* The inductive invariant.                                                *)

\* What a request holds, by the place it is at.
Shape(r) ==
    /\ r.at = "idle" => r = Idle
    /\ r.at \in {"unreserve", "fallback"} =>
         r.slot = None /\ r.share = None /\ r.next = "idle"
    /\ r.at \in {"acquire", "rollback", "local"} =>
         r.slot \in Store /\ r.share = None /\ r.next = "idle"
    /\ r.at = "answer" => r.slot \in Store /\ r.share \in Store /\ r.next = "idle"
    /\ r.at = "release" =>
         /\ r.share \in Store
         /\ \/ r.slot \in Store /\ r.next = "giveback"
            \/ r.slot = None /\ r.next = "idle"
    /\ r.at = "giveback" =>
         /\ r.slot \in Store
         /\ \/ r.share \in Store /\ r.next = "release"
            \/ r.share = None /\ r.next = "idle"

ShapeOK == \A q \in Request : Shape(req[q])

\* A daily counter counts the requests that hold a slot and, in Redis, those that
\* were refused and are not rolled back yet.
Claims(r, b, d) == r.day = d /\ (r.slot = b \/ (b = "redis" /\ r.at = "unreserve"))
Claiming(b, d) == {q \in Request : Claims(req[q], b, d)}

SlotsCounted ==
    \A b \in Store, d \in Day :
        /\ served[b][d] + Cardinality(Claiming(b, d)) <= slots[b][d]
        /\ faults = 0 => served[b][d] + Cardinality(Claiming(b, d)) = slots[b][d]

\* The counters of calls in flight: the one in Redis also counts the requests that
\* were refused.
Shares(r, b) == r.share = b \/ (b = "redis" /\ r.at = "rollback")
Sharing(b) == {q \in Request : Shares(req[q], b)}
Counter(b) == IF b = "redis" THEN inflight ELSE local

SharesCounted ==
    \A b \in Store :
        /\ Cardinality(Sharing(b)) <= Counter(b)
        /\ faults = 0 => Cardinality(Sharing(b)) = Counter(b)

\* The key lives as long as anyone it counts: it has an end, later than theirs.
Leased ==
    /\ ttl \in 0 .. Ttl
    /\ \A q \in Request : Timed(q) => Ttl <= ttl + req[q].age

OutageIsFault == faults = 0 => up

AdmissionInv ==
    /\ TypeOK /\ ShapeOK
    /\ SlotsCounted /\ SharesCounted /\ Leased /\ OutageIsFault
    /\ QuotaKept /\ ConcurrencyBounded

-----------------------------------------------------------------------------
(* Counting.                                                               *)

Weight(P) == IF P THEN 1 ELSE 0

LEMMA CountOne ==
    ASSUME NEW S, NEW T, NEW q, IsFiniteSet(S), S \ {q} = T \ {q}
    PROVE  /\ IsFiniteSet(T) /\ Cardinality(S) \in Nat /\ Cardinality(T) \in Nat
           /\ Cardinality(T) = Cardinality(S) + Weight(q \in T) - Weight(q \in S)
<1> DEFINE R == S \ {q}
<1>1. IsFiniteSet(R) /\ Cardinality(R) \in Nat /\ Cardinality(S) \in Nat
  BY FS_RemoveElement, FS_CardinalityType
<1>2. Cardinality(S) = Cardinality(R) + Weight(q \in S)
  BY <1>1, FS_RemoveElement DEF Weight
<1>3. /\ IsFiniteSet(T)
      /\ Cardinality(T) = Cardinality(R) + Weight(q \in T)
  <2>1. CASE q \in T
    <3>1. T = R \cup {q} /\ q \notin R  BY <2>1
    <3>2. QED  BY <1>1, <2>1, <3>1, FS_AddElement DEF Weight
  <2>2. CASE q \notin T
    <3>1. T = R  BY <2>2
    <3>2. QED  BY <1>1, <2>2, <3>1 DEF Weight
  <2>3. QED  BY <2>1, <2>2
<1>4. Cardinality(T) \in Nat  BY <1>3, FS_CardinalityType
<1>5. QED  BY <1>1, <1>2, <1>3, <1>4 DEF Weight

LEMMA FiniteCounts ==
    \A b, d : /\ IsFiniteSet(Claiming(b, d)) /\ Cardinality(Claiming(b, d)) \in Nat
              /\ IsFiniteSet(Holding(b, d)) /\ Cardinality(Holding(b, d)) \in Nat
              /\ IsFiniteSet(Sharing(b)) /\ Cardinality(Sharing(b)) \in Nat
              /\ IsFiniteSet(Calling(b)) /\ Cardinality(Calling(b)) \in Nat
              /\ Cardinality(Holding(b, d)) <= Cardinality(Claiming(b, d))
              /\ Cardinality(Calling(b)) <= Cardinality(Sharing(b))
<1> TAKE b, d
<1>1. /\ Claiming(b, d) \subseteq Request /\ Sharing(b) \subseteq Request
      /\ Holding(b, d) \subseteq Claiming(b, d) /\ Calling(b) \subseteq Sharing(b)
  BY DEF Claiming, Claims, Sharing, Shares, Holding, Calling
<1>2. IsFiniteSet(Claiming(b, d)) /\ IsFiniteSet(Sharing(b))
  BY <1>1, FS_Subset, AdmissionAssumption
<1>3. QED  BY <1>1, <1>2, FS_Subset, FS_CardinalityType

\* How one request's step changes the counts.
LEMMA Recount ==
    ASSUME TypeOK, NEW q \in Request, NEW r, Become(q, r), NEW b, NEW d
    PROVE  /\ Cardinality(Claiming(b, d))' = Cardinality(Claiming(b, d))
                + Weight(Claims(r, b, d)) - Weight(Claims(req[q], b, d))
           /\ Cardinality(Holding(b, d))' = Cardinality(Holding(b, d))
                + Weight(r.slot = b /\ r.day = d)
                - Weight(req[q].slot = b /\ req[q].day = d)
           /\ Cardinality(Sharing(b))' = Cardinality(Sharing(b))
                + Weight(Shares(r, b)) - Weight(Shares(req[q], b))
           /\ Cardinality(Calling(b))' = Cardinality(Calling(b))
                + Weight(r.share = b) - Weight(req[q].share = b)
           /\ Cardinality(Claiming(b, d))' \in Nat /\ Cardinality(Sharing(b))' \in Nat
<1>1. /\ req'[q] = r /\ \A p \in Request \ {q} : req'[p] = req[p]
  BY DEF Become, TypeOK
<1>2. /\ Claiming(b, d)' \ {q} = Claiming(b, d) \ {q}
      /\ Holding(b, d)' \ {q} = Holding(b, d) \ {q}
      /\ Sharing(b)' \ {q} = Sharing(b) \ {q}
      /\ Calling(b)' \ {q} = Calling(b) \ {q}
  BY <1>1 DEF Claiming, Holding, Sharing, Calling
<1>3. /\ q \in Claiming(b, d)' <=> Claims(r, b, d)
      /\ q \in Claiming(b, d) <=> Claims(req[q], b, d)
      /\ q \in Holding(b, d)' <=> (r.slot = b /\ r.day = d)
      /\ q \in Holding(b, d) <=> (req[q].slot = b /\ req[q].day = d)
  BY <1>1 DEF Claiming, Holding
<1>4. /\ q \in Sharing(b)' <=> Shares(r, b)
      /\ q \in Sharing(b) <=> Shares(req[q], b)
      /\ q \in Calling(b)' <=> r.share = b
      /\ q \in Calling(b) <=> req[q].share = b
  BY <1>1 DEF Sharing, Calling
<1>5. /\ Cardinality(Claiming(b, d)') = Cardinality(Claiming(b, d))
                + Weight(Claims(r, b, d)) - Weight(Claims(req[q], b, d))
      /\ Cardinality(Claiming(b, d)') \in Nat
  BY <1>2, <1>3, CountOne, FiniteCounts DEF Weight
<1>6. Cardinality(Holding(b, d)') = Cardinality(Holding(b, d))
                + Weight(r.slot = b /\ r.day = d)
                - Weight(req[q].slot = b /\ req[q].day = d)
  BY <1>2, <1>3, CountOne, FiniteCounts DEF Weight
<1>7. /\ Cardinality(Sharing(b)') = Cardinality(Sharing(b))
                + Weight(Shares(r, b)) - Weight(Shares(req[q], b))
      /\ Cardinality(Sharing(b)') \in Nat
  BY <1>2, <1>4, CountOne, FiniteCounts DEF Weight
<1>8. Cardinality(Calling(b)') = Cardinality(Calling(b))
                + Weight(r.share = b) - Weight(req[q].share = b)
  BY <1>2, <1>4, CountOne, FiniteCounts DEF Weight
<1>9. QED  BY <1>5, <1>6, <1>7, <1>8

-----------------------------------------------------------------------------
(* What a step of one request has to respect, part by part.                *)

SlotsBalance(q, r) ==
    \A b \in Store, d \in Day :
      LET change == served'[b][d] - served[b][d]
                      + Weight(Claims(r, b, d)) - Weight(Claims(req[q], b, d))
      IN  /\ change <= slots'[b][d] - slots[b][d]
          /\ faults' = 0 => change = slots'[b][d] - slots[b][d]

SharesBalance(q, r) ==
    \A b \in Store :
      LET change == Weight(Shares(r, b)) - Weight(Shares(req[q], b))
      IN  /\ change <= Counter(b)' - Counter(b)
          /\ faults' = 0 => change = Counter(b)' - Counter(b)

QuotaRespected(q, r) ==
    \A b \in Store, d \in Day :
      \/ served'[b][d] + Weight(r.slot = b /\ r.day = d)
           <= served[b][d] + Weight(req[q].slot = b /\ req[q].day = d)
      \/ served'[b][d] = served[b][d] /\ slots[b][d] < Daily

CallsRespected(q, r) ==
    \A b \in Store : r.share = b => req[q].share = b \/ Counter(b) < Concurrency

LeaseRespected(q, r) ==
    /\ ttl' \in {ttl, Ttl}
    /\ Shares(r, "redis") =>
         ttl' = Ttl \/ (Shares(req[q], "redis") /\ r.age = req[q].age)

LEMMA SlotsStep ==
    ASSUME AdmissionInv, NEW q \in Request, NEW r, Become(q, r),
           faults' \in Nat, faults <= faults',
           slots' \in [Store -> [Day -> Int]], served' \in [Store -> [Day -> Nat]],
           SlotsBalance(q, r)
    PROVE  SlotsCounted' /\ slots' \in [Store -> [Day -> Nat]]
<1> USE DEF AdmissionInv
<1>1. /\ slots \in [Store -> [Day -> Nat]] /\ served \in [Store -> [Day -> Nat]]
      /\ faults \in Nat
  BY AdmissionAssumption DEF TypeOK
<1>2. ASSUME NEW b \in Store, NEW d \in Day
      PROVE  /\ served'[b][d] + Cardinality(Claiming(b, d))' <= slots'[b][d]
             /\ faults' = 0 =>
                  served'[b][d] + Cardinality(Claiming(b, d))' = slots'[b][d]
             /\ slots'[b][d] \in Nat
  <2> DEFINE w == Weight(Claims(r, b, d))
             v == Weight(Claims(req[q], b, d))
             new == Cardinality(Claiming(b, d))'
             old == Cardinality(Claiming(b, d))
  <2>1. new = old + w - v /\ old \in Nat /\ new \in Nat
    BY Recount, FiniteCounts
  <2>2. w \in {0, 1} /\ v \in {0, 1}  BY DEF Weight
  <2>3. /\ served[b][d] + old <= slots[b][d]
        /\ faults = 0 => served[b][d] + old = slots[b][d]
    BY DEF SlotsCounted
  <2>4. /\ served'[b][d] \in Nat /\ served[b][d] \in Nat
        /\ slots'[b][d] \in Int /\ slots[b][d] \in Nat
    BY <1>1
  <2> DEFINE had == served[b][d]
             has == served'[b][d]
             was == slots[b][d]
             is == slots'[b][d]
  <2>6. had \in Nat /\ has \in Nat /\ was \in Nat /\ is \in Int  BY <2>4
  <2>7. had + old <= was /\ (faults = 0 => had + old = was)  BY <2>3
  <2>8. /\ has - had + w - v <= is - was
        /\ faults' = 0 => has - had + w - v = is - was
    BY DEF SlotsBalance
  <2> HIDE DEF w, v, new, old, had, has, was, is
  <2>9. has + new <= is /\ is \in Nat
    BY <2>1, <2>2, <2>6, <2>7, <2>8
  <2>10. faults' = 0 => has + new = is
    BY <1>1, <2>1, <2>2, <2>6, <2>7, <2>8
  <2>11. QED  BY <2>9, <2>10 DEF new, has, is
<1>3. SlotsCounted'  BY <1>2 DEF SlotsCounted
<1>4. QED  BY <1>2, <1>3

LEMMA SharesStep ==
    ASSUME AdmissionInv, NEW q \in Request, NEW r, Become(q, r),
           faults' \in Nat, faults <= faults',
           inflight' \in Int, local' \in Int,
           SharesBalance(q, r)
    PROVE  SharesCounted' /\ inflight' \in Nat /\ local' \in Nat
<1> USE DEF AdmissionInv
<1>1. faults \in Nat /\ inflight \in Int /\ local \in Nat  BY AdmissionAssumption DEF TypeOK
<1>2. ASSUME NEW b \in Store
      PROVE  /\ Cardinality(Sharing(b))' <= Counter(b)'
             /\ faults' = 0 => Cardinality(Sharing(b))' = Counter(b)'
             /\ Counter(b)' \in Nat
  <2> DEFINE w == Weight(Shares(r, b))
             v == Weight(Shares(req[q], b))
             new == Cardinality(Sharing(b))'
             old == Cardinality(Sharing(b))
  <2>1. new = old + w - v /\ old \in Nat /\ new \in Nat
    BY Recount, FiniteCounts
  <2>2. w \in {0, 1} /\ v \in {0, 1}  BY DEF Weight
  <2>3. /\ old <= Counter(b)
        /\ faults = 0 => old = Counter(b)
    BY DEF SharesCounted
  <2>4. Counter(b) \in Int /\ Counter(b)' \in Int  BY <1>1 DEF Counter
  <2>5. /\ w - v <= Counter(b)' - Counter(b)
        /\ faults' = 0 => w - v = Counter(b)' - Counter(b)
    BY DEF SharesBalance
  <2> HIDE DEF w, v, new, old
  <2>6. /\ new <= Counter(b)'
        /\ faults' = 0 => new = Counter(b)'
        /\ Counter(b)' \in Nat
    BY <1>1, <2>1, <2>2, <2>3, <2>4, <2>5
  <2>7. QED  BY <2>6 DEF new
<1>3. SharesCounted'  BY <1>2 DEF SharesCounted
<1>4. inflight' = Counter("redis")' /\ local' = Counter("memory")'  BY DEF Counter
<1>5. QED  BY <1>2, <1>3, <1>4 DEF Store

LEMMA QuotaStep ==
    ASSUME AdmissionInv, NEW q \in Request, NEW r, Become(q, r),
           served' \in [Store -> [Day -> Nat]],
           QuotaRespected(q, r)
    PROVE  QuotaKept'
<1> USE DEF AdmissionInv
<1> SUFFICES ASSUME NEW b \in Store, NEW d \in Day
             PROVE  served'[b][d] + Cardinality(Holding(b, d))' <= Daily
  BY DEF QuotaKept
<1> DEFINE w == Weight(r.slot = b /\ r.day = d)
           v == Weight(req[q].slot = b /\ req[q].day = d)
           new == Cardinality(Holding(b, d))'
           old == Cardinality(Holding(b, d))
           claims == Cardinality(Claiming(b, d))
<1>1. new = old + w - v /\ old \in Nat /\ claims \in Nat /\ old <= claims
  BY Recount, FiniteCounts
<1>2. w \in {0, 1} /\ v \in {0, 1}  BY DEF Weight
<1>3. served[b][d] + claims <= slots[b][d] /\ served[b][d] + old <= Daily
  BY DEF SlotsCounted, QuotaKept
<1>4. /\ slots[b][d] \in Nat /\ served[b][d] \in Nat /\ served'[b][d] \in Nat
      /\ Daily \in Nat
  BY AdmissionAssumption DEF TypeOK
<1>5. \/ served'[b][d] + w <= served[b][d] + v
      \/ served'[b][d] = served[b][d] /\ slots[b][d] < Daily
  BY DEF QuotaRespected
<1> HIDE DEF w, v, new, old, claims
<1>6. served'[b][d] + new <= Daily  BY <1>1, <1>2, <1>3, <1>4, <1>5
<1>7. QED  BY <1>6 DEF new

LEMMA CallsStep ==
    ASSUME AdmissionInv, NEW q \in Request, NEW r, Become(q, r),
           CallsRespected(q, r)
    PROVE  ConcurrencyBounded'
<1> USE DEF AdmissionInv
<1> SUFFICES ASSUME NEW b \in Store
             PROVE  Cardinality(Calling(b))' <= Concurrency
  BY DEF ConcurrencyBounded
<1> DEFINE w == Weight(r.share = b)
           v == Weight(req[q].share = b)
           new == Cardinality(Calling(b))'
           old == Cardinality(Calling(b))
           shares == Cardinality(Sharing(b))
<1>1. new = old + w - v /\ old \in Nat /\ shares \in Nat /\ old <= shares
  BY Recount, FiniteCounts
<1>2. w \in {0, 1} /\ v \in {0, 1} /\ (w <= v \/ Counter(b) < Concurrency)
  BY DEF Weight, CallsRespected
<1>3. shares <= Counter(b) /\ old <= Concurrency
  BY DEF SharesCounted, ConcurrencyBounded
<1>4. Counter(b) \in Int /\ Concurrency \in Nat
  BY AdmissionAssumption DEF TypeOK, Counter
<1> HIDE DEF w, v, new, old, shares
<1>5. new <= Concurrency  BY <1>1, <1>2, <1>3, <1>4
<1>6. QED  BY <1>5 DEF new

LEMMA LeaseStep ==
    ASSUME AdmissionInv, NEW q \in Request, NEW r \in RequestState, Become(q, r),
           LeaseRespected(q, r)
    PROVE  Leased'
<1> USE DEF AdmissionInv
<1>1. /\ req'[q] = r /\ \A p \in Request \ {q} : req'[p] = req[p]
      /\ \A p \in Request : req[p].age \in Nat
      /\ r.age \in Nat /\ Ttl \in Nat /\ ttl \in 0 .. Ttl
  BY AdmissionAssumption DEF Become, TypeOK, RequestState, Leased
<1>2. \A p \in Request : Timed(p) <=> Shares(req[p], "redis")  BY DEF Timed, Shares
<1>3. \A p \in Request : Timed(p)' <=> Shares(req'[p], "redis")  BY DEF Timed, Shares
<1>4. ASSUME NEW p \in Request, Timed(p)'  PROVE Ttl <= ttl' + req'[p].age
  <2>1. CASE p = q  BY <1>1, <1>2, <1>3, <1>4, <2>1 DEF Leased, LeaseRespected
  <2>2. CASE p # q  BY <1>1, <1>2, <1>3, <1>4, <2>2 DEF Leased, LeaseRespected
  <2>3. QED  BY <2>1, <2>2
<1>5. ttl' \in 0 .. Ttl  BY <1>1 DEF LeaseRespected
<1>6. QED  BY <1>4, <1>5 DEF Leased

\* All parts together.
LEMMA RequestStep ==
    ASSUME AdmissionInv, NEW q \in Request, NEW r \in RequestState, Become(q, r), Shape(r),
           UNCHANGED world, begun' \in 0 .. MaxRequests,
           faults' \in 0 .. MaxFaults, faults <= faults',
           slots' \in [Store -> [Day -> Int]], served' \in [Store -> [Day -> Nat]],
           inflight' \in Int, local' \in Int,
           SlotsBalance(q, r), SharesBalance(q, r),
           QuotaRespected(q, r), CallsRespected(q, r), LeaseRespected(q, r)
    PROVE  AdmissionInv'
<1>1. faults' \in Nat /\ faults \in Nat  BY AdmissionAssumption DEF AdmissionInv, TypeOK
<1>2. SlotsCounted' /\ slots' \in [Store -> [Day -> Nat]]  BY <1>1, SlotsStep
<1>3. SharesCounted' /\ inflight' \in Nat /\ local' \in Nat  BY <1>1, SharesStep
<1>4. QuotaKept'  BY QuotaStep
<1>5. ConcurrencyBounded'  BY CallsStep
<1>6. Leased'  BY LeaseStep
<1>7. /\ req' \in [Request -> RequestState]
      /\ req'[q] = r /\ \A p \in Request \ {q} : req'[p] = req[p]
  BY DEF AdmissionInv, TypeOK, Become
<1>8. TypeOK'  BY <1>2, <1>3, <1>6, <1>7 DEF AdmissionInv, TypeOK, world, Leased
<1>9. ShapeOK'  BY <1>7 DEF AdmissionInv, ShapeOK
<1>10. OutageIsFault'  BY <1>1 DEF AdmissionInv, OutageIsFault, world
<1>11. QED
  BY <1>2, <1>3, <1>4, <1>5, <1>6, <1>8, <1>9, <1>10 DEF AdmissionInv

\* A step that leaves the budget alone.
LEMMA BudgetIdle ==
    ASSUME AdmissionInv, NEW q \in Request, NEW r, UNCHANGED budget,
           r.share = req[q].share, r.share = "redis" => r.age = req[q].age,
           r.at # "rollback", req[q].at # "rollback"
    PROVE  /\ inflight' \in Int /\ local' \in Int
           /\ SharesBalance(q, r) /\ CallsRespected(q, r) /\ LeaseRespected(q, r)
<1>1. inflight \in Int /\ local \in Int  BY DEF AdmissionInv, TypeOK
<1>2. \A b : Shares(r, b) <=> Shares(req[q], b)  BY DEF Shares
<1>3. \A b : Counter(b)' = Counter(b) /\ Counter(b) \in Int  BY <1>1 DEF Counter, budget
<1>4. SharesBalance(q, r)  BY <1>2, <1>3 DEF SharesBalance, Weight
<1>5. CallsRespected(q, r)  BY DEF CallsRespected
<1>6. LeaseRespected(q, r)  BY <1>2 DEF LeaseRespected, budget, Shares
<1>7. QED  BY <1>1, <1>4, <1>5, <1>6 DEF budget

\* A step that leaves the quota alone.
LEMMA QuotaIdle ==
    ASSUME AdmissionInv, NEW q \in Request, NEW r, UNCHANGED quota,
           r.slot = req[q].slot, r.slot \in Store => r.day = req[q].day,
           r.at # "unreserve", req[q].at # "unreserve"
    PROVE  /\ slots' \in [Store -> [Day -> Int]] /\ served' \in [Store -> [Day -> Nat]]
           /\ SlotsBalance(q, r) /\ QuotaRespected(q, r)
<1>1. slots \in [Store -> [Day -> Nat]] /\ served \in [Store -> [Day -> Nat]]
  BY DEF AdmissionInv, TypeOK
<1>2. slots \in [Store -> [Day -> Int]]  BY <1>1
<1>3. \A b \in Store : \A d : Claims(r, b, d) <=> Claims(req[q], b, d)  BY DEF Claims
<1>4. SlotsBalance(q, r)  BY <1>1, <1>3 DEF SlotsBalance, Weight, quota
<1>5. QuotaRespected(q, r)  BY <1>1 DEF QuotaRespected, Weight, quota
<1>6. QED  BY <1>1, <1>2, <1>4, <1>5 DEF quota

-----------------------------------------------------------------------------
(* The steps of a request.                                                 *)

LEMMA Known ==
    ASSUME AdmissionInv, NEW q \in Request
    PROVE  /\ req[q] \in RequestState /\ Shape(req[q])
           /\ day \in Day /\ begun \in 0 .. MaxRequests /\ faults \in 0 .. MaxFaults
           /\ faults \in Nat /\ MaxFaults \in Nat /\ MaxRequests \in Nat
           /\ slots \in [Store -> [Day -> Nat]] /\ served \in [Store -> [Day -> Nat]]
           /\ inflight \in Int /\ local \in Nat
           /\ Daily \in Nat /\ Concurrency \in Nat /\ 0 \in 0 .. Hold /\ 0 \in Day
  BY AdmissionAssumption DEF AdmissionInv, TypeOK, ShapeOK, Day

LEMMA NoneIsNoStore == None \notin Store
  BY AdmissionAssumption DEF Store

LEMMA IdleType == Idle \in RequestState /\ Shape(Idle)
  BY AdmissionAssumption, NoneIsNoStore DEF Idle, RequestState, Shape, Place, Day, Store

LEMMA FaultStep ==
    ASSUME AdmissionInv, Fault
    PROVE  faults' \in 0 .. MaxFaults /\ faults <= faults' /\ faults' # 0
  BY AdmissionAssumption DEF Fault, AdmissionInv, TypeOK

LEMMA SameFaults ==
    ASSUME AdmissionInv, faults' = faults
    PROVE  faults' \in 0 .. MaxFaults /\ faults <= faults'
  BY AdmissionAssumption DEF AdmissionInv, TypeOK

LEMMA BeginStep ==
    ASSUME AdmissionInv, NEW q \in Request, Begin(q)
    PROVE  req[q] = Idle /\ begun' \in 0 .. MaxRequests
  BY Known DEF Begin, Shape

LEMMA ReserveRedisStep ==
    ASSUME AdmissionInv, NEW q \in Request, ReserveRedis(q)
    PROVE  AdmissionInv'
<1> USE Known, NoneIsNoStore
<1>1. /\ req[q] = Idle /\ begun' \in 0 .. MaxRequests
      /\ faults' \in 0 .. MaxFaults /\ faults <= faults'
      /\ UNCHANGED world /\ UNCHANGED budget /\ served' = served
      /\ slots' = [slots EXCEPT !["redis"][day] = @ + 1]
  BY BeginStep, SameFaults DEF ReserveRedis
<1>2. /\ slots' \in [Store -> [Day -> Int]]
      /\ \A b \in Store, d \in Day :
           slots'[b][d] = slots[b][d] + Weight(b = "redis" /\ d = day)
  BY <1>1 DEF Weight, Store
<1>3. ASSUME NEW r \in RequestState, Become(q, r), Shape(r),
             r.share = None, r.age = 0, r.day = day,
             \/ r.at = "unreserve" /\ r.slot = None
             \/ r.at = "acquire" /\ r.slot = "redis" /\ slots["redis"][day] < Daily
      PROVE  AdmissionInv'
  <2>1. /\ inflight' \in Int /\ local' \in Int
        /\ SharesBalance(q, r) /\ CallsRespected(q, r) /\ LeaseRespected(q, r)
    BY <1>1, <1>3, BudgetIdle DEF Idle
  <2>2. \A b \in Store, d \in Day :
          /\ Claims(r, b, d) <=> b = "redis" /\ d = day
          /\ ~Claims(Idle, b, d)
    BY <1>3 DEF Claims, Idle
  <2>3. SlotsBalance(q, r)
    BY <1>1, <1>2, <2>2 DEF SlotsBalance, Weight
  <2>4. QuotaRespected(q, r)
    BY <1>1, <1>3 DEF QuotaRespected, Weight, Idle
  <2>5. QED  BY <1>1, <1>2, <1>3, <2>1, <2>3, <2>4, RequestStep
<1>4. CASE /\ slots["redis"][day] < Daily
           /\ Become(q, [Idle EXCEPT !.at = "acquire", !.slot = "redis", !.day = day])
  <2> DEFINE r == [Idle EXCEPT !.at = "acquire", !.slot = "redis", !.day = day]
  <2>1. /\ r \in RequestState /\ r.share = None /\ r.age = 0 /\ r.day = day
        /\ r.at = "acquire" /\ r.slot = "redis" /\ r.next = "idle"
    BY DEF Idle, RequestState, Place, Store
  <2>2. Shape(r)  BY <2>1 DEF Shape, Store
  <2> HIDE DEF r
  <2>3. QED  BY <1>3, <1>4, <2>1, <2>2 DEF r
<1>5. CASE Become(q, [Idle EXCEPT !.at = "unreserve", !.day = day])
  <2> DEFINE r == [Idle EXCEPT !.at = "unreserve", !.day = day]
  <2>1. /\ r \in RequestState /\ r.share = None /\ r.age = 0 /\ r.day = day
        /\ r.at = "unreserve" /\ r.slot = None /\ r.next = "idle"
    BY DEF Idle, RequestState, Place, Store
  <2>2. Shape(r)  BY <2>1 DEF Shape, Store
  <2> HIDE DEF r
  <2>3. QED  BY <1>3, <1>5, <2>1, <2>2 DEF r
<1>6. QED  BY <1>4, <1>5 DEF ReserveRedis

\* A request that reserves nothing in Redis, and its next record r.
LEMMA UnansweredStep ==
    ASSUME AdmissionInv, NEW q \in Request, NEW date \in Day, NoSlot(q, date)
    PROVE  \E r \in RequestState :
             /\ Become(q, r) /\ Shape(r)
             /\ r.slot = None /\ r.share = None
             /\ r.at \in {"idle", "fallback"}
<1>1. CASE deployed
  BY <1>1, IdleType DEF NoSlot, Done, Idle
<1>2. CASE ~deployed
  <2> DEFINE r == [Idle EXCEPT !.at = "fallback", !.day = date]
  <2>1. /\ r \in RequestState /\ r.share = None /\ r.age = 0
        /\ r.at = "fallback" /\ r.slot = None /\ r.next = "idle"
    BY Known DEF Idle, RequestState, Place, Store
  <2>2. Shape(r)  BY <2>1 DEF Shape
  <2>3. Become(q, r)  BY <1>2 DEF NoSlot
  <2> HIDE DEF r
  <2>4. QED  BY <2>1, <2>2, <2>3
<1>3. QED  BY <1>1, <1>2

LEMMA ReserveUnansweredStep ==
    ASSUME AdmissionInv, NEW q \in Request, ReserveUnanswered(q)
    PROVE  AdmissionInv'
<1> USE Known, NoneIsNoStore
<1>1. /\ req[q] = Idle /\ begun' \in 0 .. MaxRequests
      /\ UNCHANGED world /\ UNCHANGED budget /\ served' = served
  BY BeginStep DEF ReserveUnanswered
<1>2. PICK r \in RequestState :
             /\ Become(q, r) /\ Shape(r)
             /\ r.slot = None /\ r.share = None
             /\ r.at \in {"idle", "fallback"}
  BY <1>1, UnansweredStep DEF ReserveUnanswered, Idle
<1>3. /\ inflight' \in Int /\ local' \in Int
      /\ SharesBalance(q, r) /\ CallsRespected(q, r) /\ LeaseRespected(q, r)
  BY <1>1, <1>2, BudgetIdle DEF Idle, Store
<1>4. \A b \in Store, d \in Day : ~Claims(r, b, d) /\ ~Claims(Idle, b, d)
  BY <1>2 DEF Claims, Idle
<1>5. QuotaRespected(q, r)
  BY <1>1, <1>2 DEF QuotaRespected, Weight, Idle
<1>6. faults' \in 0 .. MaxFaults /\ faults <= faults'
  BY FaultStep, SameFaults DEF ReserveUnanswered
<1>7. /\ slots' \in [Store -> [Day -> Int]]
      /\ \A b \in Store, d \in Day :
           slots[b][d] <= slots'[b][d] /\ (faults' = 0 => slots'[b][d] = slots[b][d])
  <2>1. CASE UNCHANGED slots  BY <2>1
  <2>2. CASE Fault /\ slots' = [slots EXCEPT !["redis"][day] = @ + 1]
    BY <2>2, FaultStep DEF Store
  <2>3. QED  BY <2>1, <2>2 DEF ReserveUnanswered
<1>8. SlotsBalance(q, r)
  BY <1>1, <1>4, <1>7 DEF SlotsBalance, Weight
<1>9. QED  BY <1>1, <1>2, <1>3, <1>5, <1>6, <1>7, <1>8, RequestStep

LEMMA UnreserveStep ==
    ASSUME AdmissionInv, NEW q \in Request, Unreserve(q)
    PROVE  AdmissionInv'
<1> USE Known, NoneIsNoStore
<1> DEFINE old == req[q]
<1>1. /\ begun' \in 0 .. MaxRequests /\ UNCHANGED world /\ UNCHANGED budget
      /\ served' = served /\ faults' \in 0 .. MaxFaults /\ faults <= faults'
      /\ old.at = "unreserve" /\ old.slot = None /\ old.share = None
      /\ old.day \in Day /\ faults' = faults
  BY SameFaults DEF Unreserve, Shape, RequestState
<1>2. \A b \in Store, d \in Day : Claims(old, b, d) <=> b = "redis" /\ d = old.day
  BY <1>1 DEF Claims
<1>3. PICK r \in RequestState :
             /\ Become(q, r) /\ Shape(r)
             /\ r.slot = None /\ r.share = None
             /\ r.at \in {"idle", "fallback"}
  <2>1. CASE up  BY <2>1, IdleType DEF Unreserve, Done, Idle
  <2>2. CASE ~up  BY <1>1, <2>2, UnansweredStep DEF Unreserve
  <2>3. QED  BY <2>1, <2>2
<1>4. \A b \in Store, d \in Day : ~Claims(r, b, d)
  BY <1>3 DEF Claims
<1>5. /\ inflight' \in Int /\ local' \in Int
      /\ SharesBalance(q, r) /\ CallsRespected(q, r) /\ LeaseRespected(q, r)
  BY <1>1, <1>3, BudgetIdle DEF Store
<1>6. QuotaRespected(q, r)
  BY <1>1, <1>3 DEF QuotaRespected, Weight
<1>7. /\ slots' \in [Store -> [Day -> Int]]
      /\ \/ \A b \in Store, d \in Day :
              slots'[b][d] = slots[b][d] - Weight(b = "redis" /\ d = old.day)
         \/ ~up /\ slots' = slots
  BY <1>1 DEF Unreserve, Weight, Store
<1>8. ~up => faults' # 0  BY <1>1 DEF AdmissionInv, OutageIsFault
<1>9. SlotsBalance(q, r)
  BY <1>1, <1>2, <1>4, <1>7, <1>8 DEF SlotsBalance, Weight
<1>10. QED  BY <1>1, <1>3, <1>5, <1>6, <1>7, <1>9, RequestStep

LEMMA ReserveMemoryStep ==
    ASSUME AdmissionInv, NEW q \in Request, ReserveMemory(q)
    PROVE  AdmissionInv'
<1> USE Known, NoneIsNoStore
<1> DEFINE old == req[q]
<1>1. /\ begun' \in 0 .. MaxRequests /\ UNCHANGED world /\ UNCHANGED budget
      /\ served' = served /\ faults' \in 0 .. MaxFaults /\ faults <= faults'
      /\ old.at = "fallback" /\ old.slot = None /\ old.share = None /\ old.next = "idle"
      /\ old.day \in Day
  BY SameFaults DEF ReserveMemory, Shape, RequestState
<1>2. \A b \in Store, d \in Day : ~Claims(old, b, d)
  BY <1>1 DEF Claims
<1>3. CASE Done(q) /\ UNCHANGED slots
  <2>1. /\ inflight' \in Int /\ local' \in Int
        /\ SharesBalance(q, Idle) /\ CallsRespected(q, Idle) /\ LeaseRespected(q, Idle)
    BY <1>1, BudgetIdle DEF Idle, Store
  <2>2. \A b \in Store, d \in Day : ~Claims(Idle, b, d)  BY DEF Claims, Idle
  <2>3. SlotsBalance(q, Idle) /\ slots' \in [Store -> [Day -> Int]]
    BY <1>1, <1>2, <1>3, <2>2 DEF SlotsBalance, Weight
  <2>4. QuotaRespected(q, Idle)  BY <1>1 DEF QuotaRespected, Weight, Idle
  <2>5. QED  BY <1>1, <1>3, <2>1, <2>3, <2>4, IdleType, RequestStep DEF Done
<1>4. CASE /\ slots["memory"][old.day] < Daily
           /\ slots' = [slots EXCEPT !["memory"][old.day] = @ + 1]
           /\ Become(q, [old EXCEPT !.at = "acquire", !.slot = "memory"])
  <2> DEFINE r == [old EXCEPT !.at = "acquire", !.slot = "memory"]
  <2>1. /\ r \in RequestState /\ r.share = None /\ r.age = old.age /\ r.day = old.day
        /\ r.at = "acquire" /\ r.slot = "memory" /\ r.next = "idle"
    BY <1>1 DEF RequestState, Place, Store
  <2>2. Shape(r)  BY <2>1 DEF Shape, Store
  <2>3. Become(q, r)  BY <1>4
  <2> HIDE DEF r
  <2>4. /\ inflight' \in Int /\ local' \in Int
        /\ SharesBalance(q, r) /\ CallsRespected(q, r) /\ LeaseRespected(q, r)
    BY <1>1, <2>1, BudgetIdle
  <2>5. \A b \in Store, d \in Day : Claims(r, b, d) <=> b = "memory" /\ d = old.day
    BY <2>1 DEF Claims
  <2>6. /\ slots' \in [Store -> [Day -> Int]]
        /\ \A b \in Store, d \in Day :
             slots'[b][d] = slots[b][d] + Weight(b = "memory" /\ d = old.day)
    BY <1>1, <1>4 DEF Weight, Store
  <2>7. SlotsBalance(q, r)
    BY <1>1, <1>2, <2>5, <2>6 DEF SlotsBalance, Weight
  <2>8. QuotaRespected(q, r)
    BY <1>1, <1>4, <2>1 DEF QuotaRespected, Weight
  <2>9. QED  BY <1>1, <2>1, <2>2, <2>3, <2>4, <2>6, <2>7, <2>8, RequestStep
<1>5. QED  BY <1>3, <1>4 DEF ReserveMemory

LEMMA AcquireStep ==
    ASSUME AdmissionInv, NEW q \in Request, Acquire(q)
    PROVE  AdmissionInv'
<1> USE Known, NoneIsNoStore
<1> DEFINE old == req[q]
<1>1. /\ begun' \in 0 .. MaxRequests /\ UNCHANGED world /\ UNCHANGED quota
      /\ faults' \in 0 .. MaxFaults /\ faults <= faults'
      /\ old.at = "acquire" /\ old.slot \in Store /\ old.share = None
      /\ old.next = "idle"
      /\ inflight' = inflight + 1 /\ local' = local /\ ttl' = Ttl
  BY SameFaults DEF Acquire, Shape
<1>2. ASSUME NEW r \in RequestState, Become(q, r),
             r.slot = old.slot, r.day = old.day, r.next = "idle",
             \/ r.at = "rollback" /\ r.share = None
             \/ r.at = "answer" /\ r.share = "redis" /\ inflight < Concurrency
      PROVE  AdmissionInv'
  <2>1. Shape(r)  BY <1>1, <1>2 DEF Shape, Store
  <2>2. /\ slots' \in [Store -> [Day -> Int]] /\ served' \in [Store -> [Day -> Nat]]
        /\ SlotsBalance(q, r) /\ QuotaRespected(q, r)
    BY <1>1, <1>2, QuotaIdle
  <2>3. \A b \in Store : (Shares(r, b) <=> b = "redis") /\ ~Shares(old, b)
    BY <1>1, <1>2 DEF Shares
  <2>4. \A b \in Store : Counter(b)' = Counter(b) + Weight(b = "redis") /\ Counter(b) \in Int
    BY <1>1 DEF Counter, Weight
  <2>5. SharesBalance(q, r)  BY <2>3, <2>4 DEF SharesBalance, Weight
  <2>6. CallsRespected(q, r)  BY <1>2 DEF CallsRespected, Counter
  <2>7. LeaseRespected(q, r)  BY <1>1 DEF LeaseRespected
  <2>8. inflight' \in Int /\ local' \in Int  BY <1>1
  <2>9. QED
    BY <1>1, <1>2, <2>1, <2>2, <2>5, <2>6, <2>7, <2>8, RequestStep
<1>3. CASE inflight < Concurrency /\ Become(q, [old EXCEPT !.at = "answer", !.share = "redis"])
  <2> DEFINE r == [old EXCEPT !.at = "answer", !.share = "redis"]
  <2>1. /\ r \in RequestState /\ r.at = "answer" /\ r.share = "redis"
        /\ r.slot = old.slot /\ r.day = old.day /\ r.next = "idle"
    BY <1>1 DEF RequestState, Place, Store
  <2> HIDE DEF r
  <2>2. QED  BY <1>2, <1>3, <2>1 DEF r
<1>4. CASE Goto(q, "rollback")
  <2> DEFINE r == [old EXCEPT !.at = "rollback"]
  <2>1. /\ r \in RequestState /\ r.at = "rollback" /\ r.share = None
        /\ r.slot = old.slot /\ r.day = old.day /\ r.next = "idle"
    BY <1>1 DEF RequestState, Place
  <2>2. Become(q, r)  BY <1>4 DEF Goto
  <2> HIDE DEF r
  <2>3. QED  BY <1>2, <2>1, <2>2
<1>5. QED  BY <1>3, <1>4 DEF Acquire

LEMMA AcquireUnansweredStep ==
    ASSUME AdmissionInv, NEW q \in Request, AcquireUnanswered(q)
    PROVE  AdmissionInv'
<1> USE Known, NoneIsNoStore
<1> DEFINE old == req[q]
           place == IF deployed THEN "giveback" ELSE "local"
           r == [old EXCEPT !.at = place]
<1>1. /\ begun' \in 0 .. MaxRequests /\ UNCHANGED world /\ UNCHANGED quota
      /\ old.at = "acquire" /\ old.slot \in Store /\ old.share = None
      /\ old.next = "idle" /\ local' = local
  BY DEF AcquireUnanswered, Shape
<1>2. /\ r \in RequestState /\ r.at \in {"giveback", "local"} /\ r.share = None
      /\ r.slot = old.slot /\ r.day = old.day /\ r.next = "idle"
  BY <1>1 DEF RequestState, Place
<1>3. Become(q, r)  BY DEF AcquireUnanswered, Goto
<1> HIDE DEF r
<1>4. Shape(r)  BY <1>1, <1>2 DEF Shape
<1>5. /\ slots' \in [Store -> [Day -> Int]] /\ served' \in [Store -> [Day -> Nat]]
      /\ SlotsBalance(q, r) /\ QuotaRespected(q, r)
  BY <1>1, <1>2, QuotaIdle
<1>6. \A b \in Store : ~Shares(r, b) /\ ~Shares(old, b)
  BY <1>1, <1>2 DEF Shares
<1>7. /\ inflight' \in Int /\ inflight <= inflight' /\ ttl' \in {ttl, Ttl}
      /\ faults' \in 0 .. MaxFaults /\ faults <= faults'
      /\ faults' = 0 => inflight' = inflight
  BY FaultStep, SameFaults DEF AcquireUnanswered
<1>8. SharesBalance(q, r)
  BY <1>1, <1>6, <1>7 DEF SharesBalance, Weight, Counter
<1>9. CallsRespected(q, r)  BY <1>2 DEF CallsRespected, Counter
<1>10. LeaseRespected(q, r)  BY <1>6, <1>7 DEF LeaseRespected, Store
<1>11. QED
  BY <1>1, <1>2, <1>3, <1>4, <1>5, <1>7, <1>8, <1>9, <1>10, RequestStep

\* Whoever takes back its count in Redis finds the key there.
LEMMA DecrementStep ==
    ASSUME AdmissionInv, NEW q \in Request, Shares(req[q], "redis"), Decrement
    PROVE  /\ inflight' \in Int /\ ttl' = ttl
           /\ inflight - 1 <= inflight' /\ (up => inflight' = inflight - 1)
<1>1. Timed(q) /\ ttl \in 0 .. Ttl /\ Ttl <= ttl + req[q].age
  BY DEF AdmissionInv, Leased, Timed, Shares
<1>2. req[q].age \in 0 .. Hold  BY Known DEF RequestState
<1>3. ttl # 0  BY <1>1, <1>2, AdmissionAssumption
<1>4. QED  BY <1>3, Known DEF Decrement

LEMMA RollbackStep ==
    ASSUME AdmissionInv, NEW q \in Request, Rollback(q)
    PROVE  AdmissionInv'
<1> USE Known, NoneIsNoStore
<1> DEFINE old == req[q]
           r == [old EXCEPT !.at = "giveback", !.age = 0]
<1>1. /\ begun' \in 0 .. MaxRequests /\ UNCHANGED world /\ UNCHANGED quota
      /\ old.at = "rollback" /\ old.slot \in Store /\ old.share = None
      /\ old.next = "idle" /\ local' = local /\ faults' = faults
      /\ faults' \in 0 .. MaxFaults /\ faults <= faults'
  BY SameFaults DEF Rollback, Shape
<1>2. /\ r \in RequestState /\ r.at = "giveback" /\ r.share = None
      /\ r.slot = old.slot /\ r.day = old.day /\ r.next = "idle"
  BY <1>1 DEF RequestState, Place
<1>3. Become(q, r)  BY DEF Rollback
<1> HIDE DEF r
<1>4. Shape(r)  BY <1>1, <1>2 DEF Shape
<1>5. /\ slots' \in [Store -> [Day -> Int]] /\ served' \in [Store -> [Day -> Nat]]
      /\ SlotsBalance(q, r) /\ QuotaRespected(q, r)
  BY <1>1, <1>2, QuotaIdle
<1>6. \A b \in Store : ~Shares(r, b) /\ (Shares(old, b) <=> b = "redis")
  BY <1>1, <1>2 DEF Shares
<1>7. /\ inflight' \in Int /\ ttl' = ttl
      /\ inflight - 1 <= inflight' /\ (up => inflight' = inflight - 1)
  BY <1>6, DecrementStep DEF Rollback, Store
<1>8. SharesBalance(q, r)
  <2>1. /\ Counter("redis")' = inflight' /\ Counter("redis") = inflight
        /\ Counter("memory")' = Counter("memory") /\ Counter("memory") = local
    BY <1>1 DEF Counter
  <2>2. faults' = 0 => up  BY <1>1 DEF AdmissionInv, OutageIsFault
  <2>3. QED  BY <1>6, <1>7, <2>1, <2>2 DEF SharesBalance, Weight, Store
<1>9. CallsRespected(q, r)  BY <1>2 DEF CallsRespected, Counter
<1>10. LeaseRespected(q, r)  BY <1>6, <1>7 DEF LeaseRespected, Store
<1>11. QED
  BY <1>1, <1>2, <1>3, <1>4, <1>5, <1>7, <1>8, <1>9, <1>10, RequestStep

LEMMA AcquireLocalStep ==
    ASSUME AdmissionInv, NEW q \in Request, AcquireLocal(q)
    PROVE  AdmissionInv'
<1> USE Known, NoneIsNoStore
<1> DEFINE old == req[q]
<1>1. /\ begun' \in 0 .. MaxRequests /\ UNCHANGED world /\ UNCHANGED quota
      /\ faults' \in 0 .. MaxFaults /\ faults <= faults'
      /\ old.at = "local" /\ old.slot \in Store /\ old.share = None
      /\ old.next = "idle" /\ inflight' = inflight /\ ttl' = ttl
  BY SameFaults DEF AcquireLocal, Shape
<1>2. ASSUME NEW r \in RequestState, Become(q, r),
             r.slot = old.slot, r.day = old.day, r.next = "idle",
             \/ r.at = "giveback" /\ r.share = None /\ local' = local
             \/ /\ r.at = "answer" /\ r.share = "memory"
                /\ local < Concurrency /\ local' = local + 1
      PROVE  AdmissionInv'
  <2>1. Shape(r)  BY <1>1, <1>2 DEF Shape, Store
  <2>2. /\ slots' \in [Store -> [Day -> Int]] /\ served' \in [Store -> [Day -> Nat]]
        /\ SlotsBalance(q, r) /\ QuotaRespected(q, r)
    BY <1>1, <1>2, QuotaIdle
  <2>3. \A b \in Store : (Shares(r, b) <=> r.share = b) /\ ~Shares(old, b)
    BY <1>1, <1>2 DEF Shares
  <2>4. \A b \in Store : Counter(b)' = Counter(b) + Weight(r.share = b) /\ Counter(b) \in Int
    BY <1>1, <1>2 DEF Counter, Weight, Store
  <2>5. SharesBalance(q, r)  BY <2>3, <2>4 DEF SharesBalance, Weight
  <2>6. CallsRespected(q, r)  BY <1>2 DEF CallsRespected, Counter
  <2>7. LeaseRespected(q, r)  BY <1>1, <1>2, <2>3 DEF LeaseRespected, Store
  <2>8. inflight' \in Int /\ local' \in Int  BY <1>1, <1>2
  <2>9. QED
    BY <1>1, <1>2, <2>1, <2>2, <2>5, <2>6, <2>7, <2>8, RequestStep
<1>3. CASE /\ local < Concurrency /\ local' = local + 1
           /\ Become(q, [old EXCEPT !.at = "answer", !.share = "memory"])
  <2> DEFINE r == [old EXCEPT !.at = "answer", !.share = "memory"]
  <2>1. /\ r \in RequestState /\ r.at = "answer" /\ r.share = "memory"
        /\ r.slot = old.slot /\ r.day = old.day /\ r.next = "idle"
    BY <1>1 DEF RequestState, Place, Store
  <2> HIDE DEF r
  <2>2. QED  BY <1>2, <1>3, <2>1 DEF r
<1>4. CASE Goto(q, "giveback") /\ UNCHANGED local
  <2> DEFINE r == [old EXCEPT !.at = "giveback"]
  <2>1. /\ r \in RequestState /\ r.at = "giveback" /\ r.share = None
        /\ r.slot = old.slot /\ r.day = old.day /\ r.next = "idle"
    BY <1>1 DEF RequestState, Place
  <2>2. Become(q, r)  BY <1>4 DEF Goto
  <2> HIDE DEF r
  <2>3. QED  BY <1>2, <1>4, <2>1, <2>2
<1>5. QED  BY <1>3, <1>4 DEF AcquireLocal

LEMMA AnswerStep ==
    ASSUME AdmissionInv, NEW q \in Request, Answer(q) \/ Cancelled(q)
    PROVE  AdmissionInv'
<1> USE Known, NoneIsNoStore
<1> DEFINE old == req[q]
<1>1. /\ begun' \in 0 .. MaxRequests /\ UNCHANGED world /\ UNCHANGED budget
      /\ slots' = slots /\ old.at = "answer" /\ old.slot \in Store
      /\ old.share \in Store /\ old.next = "idle" /\ old.day \in Day
      /\ faults' \in 0 .. MaxFaults /\ faults <= faults'
  BY FaultStep, SameFaults DEF Answer, Cancelled, Shape, RequestState, quota
<1>2. ASSUME NEW r \in RequestState, Become(q, r), r.share = old.share, r.age = old.age,
             \/ /\ r.at = "release" /\ r.slot = None /\ r.next = "idle"
                /\ \/ served' = [served EXCEPT ![old.slot][old.day] = @ + 1]
                   \/ served' = served /\ faults' # 0
             \/ /\ r.at = "release" /\ r.next = "giveback"
                /\ r.slot = old.slot /\ r.day = old.day /\ served' = served
             \/ /\ r.at = "giveback" /\ r.next = "release"
                /\ r.slot = old.slot /\ r.day = old.day /\ served' = served
      PROVE  AdmissionInv'
  <2>1. Shape(r)  BY <1>1, <1>2 DEF Shape
  <2>2. /\ inflight' \in Int /\ local' \in Int
        /\ SharesBalance(q, r) /\ CallsRespected(q, r) /\ LeaseRespected(q, r)
    BY <1>1, <1>2, BudgetIdle
  <2>3. \A b \in Store, d \in Day :
          /\ Claims(r, b, d) <=> r.slot = b /\ r.day = d
          /\ Claims(old, b, d) <=> old.slot = b /\ old.day = d
    BY <1>1, <1>2 DEF Claims
  <2>4. CASE r.slot = old.slot
    <3>1. r.day = old.day /\ UNCHANGED quota  BY <1>1, <1>2, <2>4 DEF quota
    <3>2. /\ slots' \in [Store -> [Day -> Int]] /\ served' \in [Store -> [Day -> Nat]]
          /\ SlotsBalance(q, r) /\ QuotaRespected(q, r)
      BY <1>1, <1>2, <2>4, <3>1, QuotaIdle
    <3>3. QED  BY <1>1, <1>2, <2>1, <2>2, <3>2, RequestStep
  <2>5. CASE r.slot = None
    <3>1. /\ slots' \in [Store -> [Day -> Int]] /\ served' \in [Store -> [Day -> Nat]]
          /\ \/ \A b \in Store, d \in Day :
                  served'[b][d] = served[b][d] + Weight(old.slot = b /\ old.day = d)
             \/ served' = served /\ faults' # 0
      <4>1. CASE served' = [served EXCEPT ![old.slot][old.day] = @ + 1]
        BY <1>1, <4>1 DEF Weight
      <4>2. CASE served' = served /\ faults' # 0  BY <1>1, <4>2
      <4>3. QED  BY <1>1, <1>2, <2>5, <4>1, <4>2
    <3>2. SlotsBalance(q, r)
      BY <1>1, <2>3, <2>5, <3>1 DEF SlotsBalance, Weight
    <3>3. QuotaRespected(q, r)
      BY <2>5, <3>1 DEF QuotaRespected, Weight
    <3>4. QED  BY <1>1, <1>2, <2>1, <2>2, <3>1, <3>2, <3>3, RequestStep
  <2>6. QED  BY <1>2, <2>4, <2>5
<1>3. \A s \in Store \cup {None}, place, next \in Place :
        [old EXCEPT !.at = place, !.slot = s, !.next = next] \in RequestState
  BY DEF RequestState
<1>4. CASE \/ /\ Become(q, [old EXCEPT !.at = "release", !.slot = None])
              /\ \/ served' = [served EXCEPT ![old.slot][old.day] = @ + 1]
                 \/ served' = served /\ faults' # 0
  <2> DEFINE r == [old EXCEPT !.at = "release", !.slot = None]
  <2>1. /\ r \in RequestState /\ r.share = old.share /\ r.age = old.age
        /\ r.at = "release" /\ r.slot = None /\ r.next = "idle"
    BY <1>1 DEF RequestState, Place
  <2> HIDE DEF r
  <2>2. QED  BY <1>2, <1>4, <2>1 DEF r
<1>5. CASE Become(q, [old EXCEPT !.at = "release", !.next = "giveback"]) /\ UNCHANGED served
  <2> DEFINE r == [old EXCEPT !.at = "release", !.next = "giveback"]
  <2>1. /\ r \in RequestState /\ r.share = old.share /\ r.age = old.age
        /\ r.at = "release" /\ r.slot = old.slot /\ r.next = "giveback" /\ r.day = old.day
    BY <1>1 DEF RequestState, Place
  <2> HIDE DEF r
  <2>2. QED  BY <1>2, <1>5, <2>1 DEF r
<1>6. CASE Become(q, [old EXCEPT !.at = "giveback", !.next = "release"]) /\ UNCHANGED served
  <2> DEFINE r == [old EXCEPT !.at = "giveback", !.next = "release"]
  <2>1. /\ r \in RequestState /\ r.share = old.share /\ r.age = old.age
        /\ r.at = "giveback" /\ r.slot = old.slot /\ r.next = "release" /\ r.day = old.day
    BY <1>1 DEF RequestState, Place
  <2> HIDE DEF r
  <2>2. QED  BY <1>2, <1>6, <2>1 DEF r
<1>7. QED  BY <1>4, <1>5, <1>6, FaultStep DEF Answer, Cancelled, quota

\* The next record after a release or a giveback.
LEMMA ProceedStep ==
    ASSUME AdmissionInv, NEW q \in Request, NEW r \in RequestState, Proceed(q, r),
           r.next = "idle" \/ Shape([r EXCEPT !.at = r.next, !.next = "idle"]),
           r.next \in {"idle", "release", "giveback"}
    PROVE  \E n \in RequestState :
             /\ Become(q, n) /\ Shape(n)
             /\ \/ r.next = "idle" /\ n = Idle
                \/ /\ r.next # "idle" /\ n.at = r.next /\ n.next = "idle"
                   /\ n.slot = r.slot /\ n.day = r.day
                   /\ n.share = r.share /\ n.age = r.age
<1>1. CASE r.next = "idle"  BY <1>1, IdleType DEF Proceed, Done
<1>2. CASE r.next # "idle"
  <2> DEFINE n == [r EXCEPT !.at = r.next, !.next = "idle"]
  <2>1. /\ n \in RequestState /\ n.at = r.next /\ n.next = "idle"
        /\ n.slot = r.slot /\ n.day = r.day /\ n.share = r.share /\ n.age = r.age
    BY DEF RequestState, Place
  <2>2. Become(q, n) /\ Shape(n)  BY <1>2 DEF Proceed
  <2> HIDE DEF n
  <2>3. QED  BY <1>2, <2>1, <2>2
<1>3. QED  BY <1>1, <1>2

LEMMA ReleaseStep ==
    ASSUME AdmissionInv, NEW q \in Request, Release(q)
    PROVE  AdmissionInv'
<1> USE Known, NoneIsNoStore
<1> DEFINE old == req[q]
           r == [old EXCEPT !.share = None, !.age = 0]
<1>1. /\ begun' \in 0 .. MaxRequests /\ UNCHANGED world /\ UNCHANGED quota
      /\ old.at = "release" /\ old.share \in Store
      /\ \/ old.slot \in Store /\ old.next = "giveback"
         \/ old.slot = None /\ old.next = "idle"
      /\ faults' \in 0 .. MaxFaults /\ faults <= faults' /\ faults' = faults
  BY SameFaults DEF Release, Shape
<1>2. /\ r \in RequestState /\ r.share = None /\ r.next = old.next
      /\ r.slot = old.slot /\ r.day = old.day
  BY DEF RequestState
<1>3. Proceed(q, r)  BY DEF Release
<1>4. r.next = "idle" \/ Shape([r EXCEPT !.at = r.next, !.next = "idle"])
  BY <1>1, <1>2 DEF Shape, RequestState
<1>r. r \in RequestState /\ r.next \in {"idle", "release", "giveback"}  BY <1>1, <1>2
<1> HIDE DEF r
<1>5. PICK n \in RequestState :
             /\ Become(q, n) /\ Shape(n)
             /\ \/ r.next = "idle" /\ n = Idle
                \/ /\ r.next # "idle" /\ n.at = r.next /\ n.next = "idle"
                   /\ n.slot = r.slot /\ n.day = r.day
                   /\ n.share = r.share /\ n.age = r.age
  BY <1>r, <1>3, <1>4, ProceedStep, Zenon
<1>6. /\ n.share = None /\ n.at \in {"idle", "giveback"} /\ n.slot = old.slot
      /\ n.slot \in Store => n.day = old.day
  BY <1>1, <1>2, <1>5 DEF Idle
<1>7. /\ slots' \in [Store -> [Day -> Int]] /\ served' \in [Store -> [Day -> Nat]]
      /\ SlotsBalance(q, n) /\ QuotaRespected(q, n)
  BY <1>1, <1>6, QuotaIdle
<1>8. \A b \in Store : ~Shares(n, b) /\ (Shares(old, b) <=> b = old.share)
  BY <1>1, <1>6 DEF Shares
<1>9. /\ inflight' \in Int /\ local' \in Int /\ ttl' = ttl
      /\ \A b \in Store :
           /\ Counter(b) \in Int /\ Counter(b)' \in Int
           /\ Counter(b) - Weight(b = old.share) <= Counter(b)'
           /\ faults' = 0 => Counter(b)' = Counter(b) - Weight(b = old.share)
  <2>1. faults' = 0 => up  BY <1>1 DEF AdmissionInv, OutageIsFault
  <2>2. CASE old.share = "redis"
    <3>1. Shares(old, "redis") /\ Decrement /\ local' = local
      BY <2>2 DEF Shares, Release
    <3>2. /\ inflight' \in Int /\ ttl' = ttl
          /\ inflight - 1 <= inflight' /\ (up => inflight' = inflight - 1)
      BY <3>1, DecrementStep
    <3>3. QED  BY <2>1, <2>2, <3>1, <3>2 DEF Counter, Weight, Store
  <2>3. CASE old.share = "memory"
    <3>1. /\ local' = (IF local > 0 THEN local - 1 ELSE 0)
          /\ inflight' = inflight /\ ttl' = ttl
      BY <2>3 DEF Release
    <3>2. faults = 0 => local > 0
      <4>1. q \in Sharing("memory")  BY <1>8, <2>3 DEF Sharing, Store
      <4>2. Cardinality(Sharing("memory")) # 0  BY <4>1, FiniteCounts, FS_EmptySet
      <4>3. faults = 0 => Cardinality(Sharing("memory")) = local
        BY DEF AdmissionInv, SharesCounted, Store, Counter
      <4>4. QED  BY <4>2, <4>3
    <3>3. QED  BY <1>1, <2>3, <3>1, <3>2 DEF Counter, Weight, Store
  <2>4. QED  BY <1>1, <2>2, <2>3 DEF Store
<1>10. SharesBalance(q, n)
  BY <1>8, <1>9 DEF SharesBalance, Weight
<1>11. CallsRespected(q, n)  BY <1>6 DEF CallsRespected
<1>12. LeaseRespected(q, n)  BY <1>8, <1>9 DEF LeaseRespected, Store
<1>13. QED
  BY <1>1, <1>5, <1>7, <1>9, <1>10, <1>11, <1>12, RequestStep

LEMMA GiveBackStep ==
    ASSUME AdmissionInv, NEW q \in Request, GiveBack(q)
    PROVE  AdmissionInv'
<1> USE Known, NoneIsNoStore
<1> DEFINE old == req[q]
           r == [old EXCEPT !.slot = None]
<1>1. /\ begun' \in 0 .. MaxRequests /\ UNCHANGED world /\ UNCHANGED budget
      /\ served' = served /\ old.at = "giveback" /\ old.slot \in Store
      /\ \/ old.share \in Store /\ old.next = "release"
         \/ old.share = None /\ old.next = "idle"
      /\ old.day \in Day
      /\ faults' \in 0 .. MaxFaults /\ faults <= faults' /\ faults' = faults
  BY SameFaults DEF GiveBack, Shape, RequestState
<1>2. /\ r \in RequestState /\ r.slot = None /\ r.next = old.next
      /\ r.share = old.share /\ r.day = old.day /\ r.age = old.age
  BY DEF RequestState
<1>3. Proceed(q, r)  BY DEF GiveBack
<1>4. r.next = "idle" \/ Shape([r EXCEPT !.at = r.next, !.next = "idle"])
  BY <1>1, <1>2 DEF Shape, RequestState
<1>r. r \in RequestState /\ r.next \in {"idle", "release", "giveback"}  BY <1>1, <1>2
<1> HIDE DEF r
<1>5. PICK n \in RequestState :
             /\ Become(q, n) /\ Shape(n)
             /\ \/ r.next = "idle" /\ n = Idle
                \/ /\ r.next # "idle" /\ n.at = r.next /\ n.next = "idle"
                   /\ n.slot = r.slot /\ n.day = r.day
                   /\ n.share = r.share /\ n.age = r.age
  BY <1>r, <1>3, <1>4, ProceedStep, Zenon
<1>6. /\ n.share = old.share /\ n.at \in {"idle", "release"} /\ n.slot = None
      /\ n.share \in Store => n.age = old.age
  BY <1>1, <1>2, <1>5 DEF Idle
<1>7. /\ inflight' \in Int /\ local' \in Int
      /\ SharesBalance(q, n) /\ CallsRespected(q, n) /\ LeaseRespected(q, n)
  BY <1>1, <1>6, BudgetIdle DEF Store
<1>8. \A b \in Store, d \in Day :
        /\ ~Claims(n, b, d)
        /\ Claims(old, b, d) <=> b = old.slot /\ d = old.day
  BY <1>1, <1>6 DEF Claims
<1>9. /\ slots' \in [Store -> [Day -> Int]]
      /\ \/ \A b \in Store, d \in Day :
              slots'[b][d] = slots[b][d] - Weight(b = old.slot /\ d = old.day)
         \/ ~up /\ slots' = slots
  <2>1. CASE old.slot = "redis" /\ ~up  BY <2>1 DEF GiveBack
  <2>2. CASE ~(old.slot = "redis" /\ ~up)
    <3>1. slots' = [slots EXCEPT ![old.slot][old.day] = @ - 1]  BY <2>2 DEF GiveBack
    <3>2. QED  BY <1>1, <3>1 DEF Weight
  <2>3. QED  BY <2>1, <2>2
<1>10. ~up => faults' # 0  BY <1>1 DEF AdmissionInv, OutageIsFault
<1>11. SlotsBalance(q, n)
  BY <1>1, <1>8, <1>9, <1>10 DEF SlotsBalance, Weight
<1>12. QuotaRespected(q, n)
  BY <1>1, <1>6 DEF QuotaRespected, Weight
<1>13. served' \in [Store -> [Day -> Nat]]  BY <1>1
<1>14. QED
  BY <1>1, <1>5, <1>7, <1>9, <1>11, <1>12, <1>13, RequestStep

-----------------------------------------------------------------------------
(* The steps of the world.                                                 *)

LEMMA TickStep ==
    ASSUME AdmissionInv, Tick
    PROVE  AdmissionInv'
<1>0. /\ TypeOK /\ ShapeOK
      /\ SlotsCounted /\ SharesCounted /\ Leased /\ OutageIsFault
      /\ QuotaKept /\ ConcurrencyBounded
  BY DEF AdmissionInv
<1>a. /\ req \in [Request -> RequestState]
      /\ \A q \in Request : req[q] \in RequestState /\ Shape(req[q])
      /\ slots \in [Store -> [Day -> Nat]] /\ served \in [Store -> [Day -> Nat]]
      /\ inflight \in Int /\ local \in Nat /\ faults \in Nat /\ faults \in 0 .. MaxFaults
      /\ Daily \in Nat /\ Concurrency \in Nat
  BY <1>0, AdmissionAssumption DEF TypeOK, ShapeOK
<1> USE <1>0, <1>a
<1>1. /\ req \in [Request -> RequestState] /\ ttl \in 0 .. Ttl /\ Ttl \in Nat
      /\ Hold \in Nat /\ Hold < Ttl
      /\ UNCHANGED <<world, quota, local, begun, faults>>
  BY AdmissionAssumption DEF TypeOK, Leased, Tick
<1>2. \A q \in Request :
        /\ Timed(q) => req'[q] = [req[q] EXCEPT !.age = @ + 1] /\ req[q].age < Hold
        /\ ~Timed(q) => req'[q] = req[q]
  BY <1>1 DEF Tick
<1>3. ASSUME NEW q \in Request
      PROVE  /\ req'[q] \in RequestState /\ Shape(req'[q])
             /\ req'[q].at = req[q].at /\ req'[q].slot = req[q].slot
             /\ req'[q].day = req[q].day /\ req'[q].share = req[q].share
             /\ Timed(q) => req'[q].age = req[q].age + 1
  <2>1. req[q] \in RequestState /\ Shape(req[q])  OBVIOUS
  <2>2. CASE Timed(q)
    <3> DEFINE r == [req[q] EXCEPT !.age = @ + 1]
    <3>1. req'[q] = r /\ req[q].age \in 0 .. Hold /\ req[q].age < Hold
      BY <1>2, <2>1, <2>2 DEF RequestState
    <3>2. /\ r \in RequestState /\ r.at = req[q].at /\ r.slot = req[q].slot
          /\ r.day = req[q].day /\ r.share = req[q].share /\ r.next = req[q].next
          /\ r.age = req[q].age + 1
      <4>1. r.age = req[q].age + 1 /\ r.age \in 0 .. Hold
        BY <1>1, <2>1, <3>1 DEF RequestState
      <4>2. QED  BY <2>1, <4>1 DEF RequestState
    <3>3. r.at # "idle"  BY <2>1, <2>2, <3>2, NoneIsNoStore DEF Timed, Shape, Idle, Store
    <3>4. Shape(r)  BY <2>1, <3>2, <3>3 DEF Shape
    <3>5. QED  BY <3>1, <3>2, <3>4
  <2>3. CASE ~Timed(q)  BY <1>2, <2>1, <2>3
  <2>4. QED  BY <2>2, <2>3
<1>4. ShapeOK'  BY <1>3 DEF ShapeOK
<1>5. /\ \A b, d : Claiming(b, d)' = Claiming(b, d) /\ Holding(b, d)' = Holding(b, d)
      /\ \A b : Sharing(b)' = Sharing(b) /\ Calling(b)' = Calling(b)
  BY <1>3 DEF Claiming, Claims, Holding, Sharing, Shares, Calling
<1>6. \A q \in Request : Timed(q)' <=> Timed(q)  BY <1>3 DEF Timed
<1>7. \A q \in Request : Timed(q) => 1 < ttl /\ Ttl <= (ttl - 1) + req'[q].age
  <2> SUFFICES ASSUME NEW q \in Request, Timed(q)
               PROVE  1 < ttl /\ Ttl <= (ttl - 1) + req'[q].age
    OBVIOUS
  <2>1. req[q].age \in 0 .. Hold /\ req[q].age < Hold /\ Ttl <= ttl + req[q].age
    BY <1>2 DEF RequestState, Leased
  <2>2. req'[q].age = req[q].age + 1  BY <1>3
  <2>3. QED  BY <1>1, <2>1, <2>2
<1>8. /\ ttl' \in 0 .. Ttl
      /\ ttl # 1 => inflight' = inflight
      /\ ttl = 1 => inflight' = 0
      /\ 0 < ttl => ttl' = ttl - 1
  BY <1>1 DEF Tick
<1>9. Leased'  BY <1>6, <1>7, <1>8 DEF Leased
<1>10. ttl = 1 => Cardinality(Sharing("redis")) = 0
  <2> SUFFICES ASSUME ttl = 1 PROVE Cardinality(Sharing("redis")) = 0  OBVIOUS
  <2>1. \A q \in Request : ~Timed(q)  BY <1>7
  <2>2. Sharing("redis") = {}  BY <2>1 DEF Sharing, Shares, Timed
  <2>3. QED  BY <2>2, FS_EmptySet
<1>11. SharesCounted' /\ inflight' \in Nat
  <2>1. /\ Counter("redis")' = inflight' /\ Counter("redis") = inflight
        /\ Counter("memory")' = local /\ Counter("memory") = local
    BY <1>1 DEF Counter
  <2>2. \A b \in Store : Cardinality(Sharing(b))' = Cardinality(Sharing(b))
    BY <1>5
  <2>3. Cardinality(Sharing("redis")) \in Nat  BY FiniteCounts
  <2>4. \A b \in Store : /\ Cardinality(Sharing(b)) <= Counter(b)
                         /\ faults = 0 => Cardinality(Sharing(b)) = Counter(b)
    BY DEF SharesCounted
  <2>5. CASE ttl = 1
    <3>1. \A b \in Store : b = "redis" \/ Counter(b)' = Counter(b)
      BY <2>1 DEF Store
    <3>2. Cardinality(Sharing("redis"))' = 0 /\ Counter("redis")' = 0
      BY <1>8, <1>10, <2>1, <2>2, <2>5 DEF Store
    <3>3. SharesCounted'  BY <1>1, <2>2, <2>4, <3>1, <3>2 DEF SharesCounted
    <3>4. QED  BY <1>8, <2>5, <3>3
  <2>6. CASE ttl # 1
    <3>1. \A b \in Store : Counter(b)' = Counter(b)  BY <1>8, <2>1, <2>6 DEF Store
    <3>2. SharesCounted'  BY <1>1, <2>2, <2>4, <3>1 DEF SharesCounted
    <3>3. 0 <= inflight  BY <2>1, <2>3, <2>4 DEF Store
    <3>4. QED  BY <1>8, <2>6, <3>2, <3>3
  <2>7. QED  BY <2>5, <2>6
<1>12. req' \in [Request -> RequestState]
  <2>1. req' = [q \in Request |-> IF Timed(q) THEN [req[q] EXCEPT !.age = @ + 1] ELSE req[q]]
    BY DEF Tick
  <2>2. QED  BY <1>3, <2>1
<1>13. TypeOK'  BY <1>1, <1>8, <1>11, <1>12 DEF TypeOK, world, quota
<1>14. SlotsCounted' /\ QuotaKept' /\ ConcurrencyBounded' /\ OutageIsFault'
  BY <1>1, <1>5
  DEF SlotsCounted, QuotaKept, ConcurrencyBounded, OutageIsFault, world, quota
<1>15. QED  BY <1>4, <1>9, <1>11, <1>13, <1>14 DEF AdmissionInv

\* A step that leaves the requests and their counters alone.
LEMMA WorldStep ==
    ASSUME AdmissionInv,
           UNCHANGED <<deployed, quota, budget, req, begun>>,
           up' \in BOOLEAN, day' \in Day, faults' \in 0 .. MaxFaults, faults <= faults',
           faults' = 0 => up'
    PROVE  AdmissionInv'
<1> USE DEF AdmissionInv
<1>1. /\ \A b, d : Claiming(b, d)' = Claiming(b, d) /\ Holding(b, d)' = Holding(b, d)
      /\ \A b : Sharing(b)' = Sharing(b) /\ Calling(b)' = Calling(b)
      /\ \A b : Counter(b)' = Counter(b)
      /\ \A q : Timed(q)' <=> Timed(q)
  BY DEF Claiming, Holding, Sharing, Calling, Counter, Timed, budget
<1>2. faults \in Nat /\ faults' \in Nat  BY AdmissionAssumption DEF TypeOK
<1>3. TypeOK'  BY DEF TypeOK, quota, budget
<1>4. SlotsCounted'  BY <1>1, <1>2 DEF SlotsCounted, quota
<1>5. SharesCounted'  BY <1>1, <1>2 DEF SharesCounted
<1>6. Leased'  BY <1>1 DEF Leased, budget
<1>7. ShapeOK' /\ QuotaKept' /\ ConcurrencyBounded' /\ OutageIsFault'
  BY <1>1 DEF ShapeOK, QuotaKept, ConcurrencyBounded, OutageIsFault, quota
<1>8. QED  BY <1>3, <1>4, <1>5, <1>6, <1>7

LEMMA CrashStep ==
    ASSUME AdmissionInv, NEW Q \in SUBSET Request, Crash(Q)
    PROVE  AdmissionInv'
<1>0. /\ TypeOK /\ ShapeOK
      /\ SlotsCounted /\ SharesCounted /\ Leased /\ OutageIsFault
      /\ QuotaKept /\ ConcurrencyBounded
  BY DEF AdmissionInv
<1>a. /\ req \in [Request -> RequestState]
      /\ \A q \in Request : req[q] \in RequestState /\ Shape(req[q])
      /\ slots \in [Store -> [Day -> Nat]] /\ served \in [Store -> [Day -> Nat]]
      /\ inflight \in Int /\ local \in Nat /\ faults \in Nat /\ faults \in 0 .. MaxFaults
      /\ Daily \in Nat /\ Concurrency \in Nat
  BY <1>0, AdmissionAssumption DEF TypeOK, ShapeOK
<1> USE <1>0, <1>a
<1>1. /\ req' = [q \in Request |-> IF q \in Q THEN Idle ELSE req[q]]
      /\ UNCHANGED <<world, inflight, ttl, begun>>
      /\ faults' \in 0 .. MaxFaults /\ faults' # 0
  BY FaultStep DEF Crash
<1>2. req' \in [Request -> RequestState] /\ ShapeOK'
  BY <1>1, IdleType DEF TypeOK, ShapeOK
<1>3. \A b \in Store : \A d : ~Claims(Idle, b, d) /\ ~Shares(Idle, b)
                               /\ Idle.slot # b /\ Idle.share # b
  BY NoneIsNoStore DEF Claims, Shares, Idle
<1>4. \A b \in Store : \A d :
        /\ Claiming(b, d)' \subseteq Claiming(b, d) \ Q
        /\ Holding(b, d)' \subseteq Holding(b, d) \ Q
        /\ Sharing(b)' \subseteq Sharing(b) \ Q
        /\ Calling(b)' \subseteq Calling(b) \ Q
  BY <1>1, <1>3 DEF Claiming, Holding, Sharing, Calling
<1>5. \A S, T : IsFiniteSet(S) /\ T \in SUBSET S =>
                  Cardinality(T) <= Cardinality(S) /\ Cardinality(T) \in Nat
  BY FS_Subset, FS_CardinalityType
<1>6. CASE deployed
  <2>1. UNCHANGED quota /\ local' = local  BY <1>6 DEF Crash
  <2>2. SlotsCounted' /\ QuotaKept'
    <3> SUFFICES ASSUME NEW b \in Store, NEW d \in Day
                 PROVE  /\ served[b][d] + Cardinality(Claiming(b, d)') <= slots[b][d]
                        /\ served[b][d] + Cardinality(Holding(b, d)') <= Daily
      BY <1>1, <2>1 DEF SlotsCounted, QuotaKept, quota
    <3> DEFINE x == served[b][d]
               y == slots[b][d]
               m == Cardinality(Claiming(b, d))
               n == Cardinality(Claiming(b, d)')
               i == Cardinality(Holding(b, d))
               j == Cardinality(Holding(b, d)')
    <3>1. x \in Nat /\ y \in Nat /\ x + m <= y /\ x + i <= Daily
      BY DEF SlotsCounted, QuotaKept
    <3>2. m \in Nat /\ n \in Nat /\ n <= m
      <4>1. Claiming(b, d)' \in SUBSET Claiming(b, d)  BY <1>4
      <4>2. QED  BY <1>5, <4>1, FiniteCounts
    <3>3. i \in Nat /\ j \in Nat /\ j <= i
      <4>1. Holding(b, d)' \in SUBSET Holding(b, d)  BY <1>4
      <4>2. QED  BY <1>5, <4>1, FiniteCounts
    <3> HIDE DEF x, y, m, n, i, j
    <3>4. x + n <= y /\ x + j <= Daily  BY <3>1, <3>2, <3>3
    <3>5. QED  BY <3>4 DEF x, y, n, j
  <2>3. SharesCounted' /\ ConcurrencyBounded'
    <3> SUFFICES ASSUME NEW b \in Store
                 PROVE  /\ Cardinality(Sharing(b)') <= Counter(b)
                        /\ Cardinality(Calling(b)') <= Concurrency
      BY <1>1, <2>1 DEF SharesCounted, ConcurrencyBounded, Counter
    <3> DEFINE x == Counter(b)
               m == Cardinality(Sharing(b))
               n == Cardinality(Sharing(b)')
               i == Cardinality(Calling(b))
               j == Cardinality(Calling(b)')
    <3>1. x \in Int /\ m <= x /\ i <= Concurrency
      <4>1. x \in Int  BY DEF Counter
      <4>2. QED  BY <4>1 DEF SharesCounted, ConcurrencyBounded
    <3>2. m \in Nat /\ n \in Nat /\ n <= m
      <4>1. Sharing(b)' \in SUBSET Sharing(b)  BY <1>4
      <4>2. QED  BY <1>5, <4>1, FiniteCounts
    <3>3. i \in Nat /\ j \in Nat /\ j <= i
      <4>1. Calling(b)' \in SUBSET Calling(b)  BY <1>4
      <4>2. QED  BY <1>5, <4>1, FiniteCounts
    <3> HIDE DEF x, m, n, i, j
    <3>4. n <= x /\ j <= Concurrency  BY <3>1, <3>2, <3>3
    <3>5. QED  BY <3>4 DEF x, n, j
  <2>4. TypeOK'  BY <1>1, <1>2, <2>1 DEF TypeOK, world, quota
  <2>5. Leased' /\ OutageIsFault'
    BY <1>1, <1>3 DEF Leased, OutageIsFault, Timed, Shares, Store
  <2>6. QED  BY <1>2, <2>2, <2>3, <2>4, <2>5 DEF AdmissionInv
<1>7. CASE ~deployed
  <2>1. /\ slots' = [slots EXCEPT !["memory"] = NoCount["memory"]]
        /\ served' = [served EXCEPT !["memory"] = NoCount["memory"]]
        /\ local' = 0 /\ Q = Request
    BY <1>7 DEF Crash
  <2>2. /\ NoCount["memory"] \in [Day -> Nat]
        /\ \A d \in Day : NoCount["memory"][d] = 0
    BY DEF NoCount, Store
  <2>3. \A b \in Store : \A d : /\ Cardinality(Claiming(b, d)') = 0
                                /\ Cardinality(Holding(b, d)') = 0
                                /\ Cardinality(Sharing(b)') = 0
                                /\ Cardinality(Calling(b)') = 0
    <3>1. \A b \in Store : \A d : /\ Claiming(b, d)' = {} /\ Holding(b, d)' = {}
                                  /\ Sharing(b)' = {} /\ Calling(b)' = {}
      BY <1>4, <2>1 DEF Claiming, Holding, Sharing, Calling
    <3>2. QED  BY <3>1, FS_EmptySet
  <2>4. /\ slots' \in [Store -> [Day -> Nat]] /\ served' \in [Store -> [Day -> Nat]]
        /\ \A d \in Day : /\ slots'["redis"][d] = slots["redis"][d]
                          /\ served'["redis"][d] = served["redis"][d]
                          /\ slots'["memory"][d] = 0 /\ served'["memory"][d] = 0
    <3>1. slots'["memory"] = NoCount["memory"] /\ served'["memory"] = NoCount["memory"]
      BY <2>1 DEF Store
    <3>2. slots'["redis"] = slots["redis"] /\ served'["redis"] = served["redis"]
      BY <2>1 DEF Store
    <3>3. slots' \in [Store -> [Day -> Nat]] /\ served' \in [Store -> [Day -> Nat]]
      BY <2>1, <2>2
    <3>4. QED  BY <2>2, <3>1, <3>2, <3>3
  <2>5. SlotsCounted' /\ QuotaKept'
    <3>1. \A d \in Day : /\ served["redis"][d] <= slots["redis"][d]
                         /\ served["redis"][d] <= Daily
      <4> TAKE d \in Day
      <4> DEFINE x == served["redis"][d]
                 y == slots["redis"][d]
                 m == Cardinality(Claiming("redis", d))
                 i == Cardinality(Holding("redis", d))
      <4>1. "redis" \in Store  BY DEF Store
      <4>2. x + m <= y /\ x + i <= Daily  BY <4>1 DEF SlotsCounted, QuotaKept
      <4>3. x \in Nat /\ y \in Nat  BY <4>1
      <4>4. m \in Nat /\ i \in Nat  BY FiniteCounts
      <4> HIDE DEF x, y, m, i
      <4>5. x <= y /\ x <= Daily  BY <4>2, <4>3, <4>4
      <4>6. QED  BY <4>5 DEF x, y
    <3>2. \A b \in Store, d \in Day :
            /\ served'[b][d] + Cardinality(Claiming(b, d)') <= slots'[b][d]
            /\ served'[b][d] + Cardinality(Holding(b, d)') <= Daily
      <4> TAKE b \in Store, d \in Day
      <4>1. served'[b][d] <= slots'[b][d] /\ served'[b][d] <= Daily
        BY <2>4, <3>1 DEF Store
      <4>2. served'[b][d] \in Nat  BY <2>4
      <4>3. Cardinality(Claiming(b, d)') = 0 /\ Cardinality(Holding(b, d)') = 0  BY <2>3
      <4>4. QED  BY <4>1, <4>2, <4>3
    <3>3. QED  BY <1>1, <3>2 DEF SlotsCounted, QuotaKept
  <2>6. SharesCounted' /\ ConcurrencyBounded'
    <3>1. Cardinality(Sharing("redis")) <= inflight
      BY DEF SharesCounted, Store, Counter
    <3>2. Cardinality(Sharing("redis")) \in Nat  BY FiniteCounts
    <3>3. 0 <= inflight  BY <3>1, <3>2
    <3>4. \A b \in Store : 0 <= Counter(b)'
      BY <1>1, <2>1, <3>3 DEF Counter
    <3>5. \A b \in Store : Cardinality(Sharing(b)') = 0 /\ Cardinality(Calling(b)') = 0
      BY <2>3
    <3>6. QED  BY <1>1, <3>4, <3>5 DEF SharesCounted, ConcurrencyBounded
  <2>7. TypeOK'  BY <1>1, <1>2, <2>1, <2>4 DEF TypeOK, world
  <2>8. Leased' /\ OutageIsFault'
    BY <1>1, <1>3 DEF Leased, OutageIsFault, Timed, Shares, Store
  <2>9. QED  BY <1>2, <2>5, <2>6, <2>7, <2>8 DEF AdmissionInv
<1>8. QED  BY <1>6, <1>7

-----------------------------------------------------------------------------
LEMMA AdmissionInit == Init => AdmissionInv
<1> SUFFICES ASSUME Init PROVE AdmissionInv  OBVIOUS
<1>1. /\ req = [q \in Request |-> Idle] /\ slots = NoCount /\ served = NoCount
      /\ inflight = 0 /\ local = 0 /\ ttl = 0 /\ faults = 0 /\ up = TRUE /\ day = 0
      /\ begun = 0 /\ deployed \in BOOLEAN
  BY DEF Init
<1>2. /\ 0 \in Day /\ 0 \in 0 .. MaxRequests /\ 0 \in 0 .. MaxFaults /\ Ttl \in Nat
      /\ Daily \in Nat /\ Concurrency \in Nat
  BY AdmissionAssumption DEF Day
<1>3. /\ NoCount \in [Store -> [Day -> Nat]]
      /\ \A b \in Store, d \in Day : NoCount[b][d] = 0
  BY DEF NoCount
<1>4. TypeOK  BY <1>1, <1>2, <1>3, IdleType DEF TypeOK
<1>5. ShapeOK  BY <1>1, IdleType DEF ShapeOK
<1>6. \A b \in Store : \A d : /\ Cardinality(Claiming(b, d)) = 0
                              /\ Cardinality(Holding(b, d)) = 0
                              /\ Cardinality(Sharing(b)) = 0
                              /\ Cardinality(Calling(b)) = 0
  <2>1. \A b \in Store : \A d : /\ Claiming(b, d) = {} /\ Holding(b, d) = {}
                                /\ Sharing(b) = {} /\ Calling(b) = {}
    BY <1>1, NoneIsNoStore
    DEF Claiming, Claims, Holding, Sharing, Shares, Calling, Idle
  <2>2. QED  BY <2>1, FS_EmptySet
<1>7. SlotsCounted /\ QuotaKept  BY <1>1, <1>2, <1>3, <1>6 DEF SlotsCounted, QuotaKept
<1>8. SharesCounted /\ ConcurrencyBounded
  BY <1>1, <1>2, <1>6 DEF SharesCounted, ConcurrencyBounded, Counter
<1>9. Leased /\ OutageIsFault
  BY <1>1, <1>2, NoneIsNoStore DEF Leased, OutageIsFault, Timed, Idle, Store
<1>10. QED  BY <1>4, <1>5, <1>7, <1>8, <1>9 DEF AdmissionInv

LEMMA AdmissionStep == AdmissionInv /\ [Next]_vars => AdmissionInv'
<1> SUFFICES ASSUME AdmissionInv, [Next]_vars PROVE AdmissionInv'  OBVIOUS
<1>1. ASSUME NEW q \in Request, ReserveRedis(q) \/ ReserveUnanswered(q) \/ Continue(q)
      PROVE  AdmissionInv'
  BY <1>1, ReserveRedisStep, ReserveUnansweredStep, UnreserveStep, ReserveMemoryStep,
     AcquireStep, AcquireUnansweredStep, RollbackStep, AcquireLocalStep,
     AnswerStep, ReleaseStep, GiveBackStep
  DEF Continue
<1>2. ASSUME NEW q \in Request, Cancelled(q)  PROVE AdmissionInv'
  BY <1>2, AnswerStep
<1>3. CASE Tick  BY <1>3, TickStep
<1>4. ASSUME NEW Q \in SUBSET Request, Crash(Q)  PROVE AdmissionInv'
  BY <1>4, CrashStep
<1>5. TypeOK /\ OutageIsFault  BY DEF AdmissionInv
<1>6. CASE Midnight
  <2>1. day' \in Day  BY <1>5, <1>6, AdmissionAssumption DEF TypeOK, Midnight, Day
  <2>2. faults' \in 0 .. MaxFaults /\ faults <= faults'  BY <1>6, SameFaults DEF Midnight
  <2>3. QED  BY <1>5, <1>6, <2>1, <2>2, WorldStep DEF TypeOK, OutageIsFault, Midnight
<1>7. CASE RedisFails
  <2>1. faults' \in 0 .. MaxFaults /\ faults <= faults' /\ faults' # 0
    BY <1>7, FaultStep DEF RedisFails
  <2>2. QED  BY <1>5, <1>7, <2>1, WorldStep DEF TypeOK, RedisFails
<1>8. CASE RedisRecovers
  <2>1. faults' \in 0 .. MaxFaults /\ faults <= faults'
    BY <1>8, SameFaults DEF RedisRecovers
  <2>2. QED  BY <1>5, <1>8, <2>1, WorldStep DEF TypeOK, RedisRecovers
<1>9. CASE UNCHANGED vars
  <2>1. faults' \in 0 .. MaxFaults /\ faults <= faults'  BY <1>9, SameFaults DEF vars
  <2>2. UNCHANGED <<deployed, quota, budget, req, begun>>
    BY <1>9 DEF vars, quota, budget
  <2>3. QED  BY <1>5, <1>9, <2>1, <2>2, WorldStep DEF TypeOK, OutageIsFault, vars
<1>10. QED
  BY <1>1, <1>2, <1>3, <1>4, <1>6, <1>7, <1>8, <1>9 DEF Next

LEMMA AdmissionInvariant == Spec => []AdmissionInv
  BY AdmissionInit, AdmissionStep, PTL DEF Spec

\* The counters, the requests and what they hold are of their types: in particular
\* no daily counter falls below zero by rollbacks and slots given back.
THEOREM TypeCorrect == Spec => []TypeOK
<1>1. AdmissionInv => TypeOK  BY DEF AdmissionInv
<1>2. QED  BY <1>1, AdmissionInvariant, PTL

\* The daily quota of a credential is kept (reserve_usage_slot, release_usage_slot),
\* for any limit, any number of requests and days, and any faults.
THEOREM QuotaNeverExceeded == Spec => []QuotaKept
<1>1. AdmissionInv => QuotaKept  BY DEF AdmissionInv
<1>2. QED  BY <1>1, AdmissionInvariant, PTL

\* The limit of model calls in flight is kept (LlmBudgetManager), although the
\* counter expires by itself, as long as its life exceeds that of a call.
THEOREM CallsLimited == Spec => []ConcurrencyBounded
<1>1. AdmissionInv => ConcurrencyBounded  BY DEF AdmissionInv
<1>2. QED  BY <1>1, AdmissionInvariant, PTL

\* Without a fault no path of a request leaves a slot or a share behind.
THEOREM NothingLeaks == Spec => []Balanced
<1>1. ASSUME AdmissionInv  PROVE Balanced
  <2> SUFFICES ASSUME faults = 0, \A q \in Request : req[q].at = "idle"
               PROVE  slots = served /\ inflight = 0 /\ local = 0
    BY DEF Balanced
  <2>1. TypeOK /\ ShapeOK /\ SlotsCounted /\ SharesCounted  BY <1>1 DEF AdmissionInv
  <2>2. \A q \in Request : req[q] = Idle  BY <2>1 DEF ShapeOK, Shape
  <2>3. \A b \in Store : \A d : /\ Cardinality(Claiming(b, d)) = 0
                                /\ Cardinality(Sharing(b)) = 0
    <3>1. \A b \in Store : \A d : Claiming(b, d) = {} /\ Sharing(b) = {}
      BY <2>2, NoneIsNoStore DEF Claiming, Claims, Sharing, Shares, Idle
    <3>2. QED  BY <3>1, FS_EmptySet
  <2>4. slots \in [Store -> [Day -> Nat]] /\ served \in [Store -> [Day -> Nat]]
    BY <2>1 DEF TypeOK
  <2>5. \A b \in Store, d \in Day : slots[b][d] = served[b][d]
    BY <2>1, <2>3, <2>4 DEF SlotsCounted
  <2>6. slots = served
    <3>1. \A b \in Store : slots[b] = served[b]  BY <2>4, <2>5
    <3>2. QED  BY <2>4, <3>1
  <2>7. Counter("redis") = 0 /\ Counter("memory") = 0
    BY <2>1, <2>3 DEF SharesCounted, Store
  <2>8. QED  BY <2>6, <2>7 DEF Counter
<1>2. QED  BY <1>1, AdmissionInvariant, PTL

=============================================================================
