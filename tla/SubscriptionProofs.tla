------------------------- MODULE SubscriptionProofs -------------------------
(***************************************************************************)
(* Safety of the subscription of a tenant, for any number of handlers,     *)
(* payment events, operations, days and failed invoices, and any lengths   *)
(* of the periods.                                                         *)
(***************************************************************************)
EXTENDS Subscription, FiniteSetTheorems, TLAPS

\* What a handler does after its status check or its write: it has no more use
\* for the event it applies.
After == {"idle", "due", "config", "cycled", "access", "first"}

\* Add-ons paid for whose row is still to be read. No row shows more knowledge
\* bases than operations without these.
Buying == {p \in Process : proc[p].at = "load" /\ proc[p].event = Never}
Bought == ops - Cardinality(Buying)

\* No billing date is later: an operation moves it by one period at most.
Latest == MaxDay + Paid * (ops + 1)
Last == MaxDay + Paid * (MaxOps + 1)

\* Rows and handlers with at most n knowledge bases bought and no billing date
\* after l. An invoice under way leaves room for one more period.
Rows(n, l) == [plan : Plan, status : {"trial", "active", "restricted"},
               ends : (0 .. l) \cup {Never}, extra : 0 .. n, sched : Plan \cup {Never},
               eff : Period, upd : 0 .. MaxFailed]

Handlers(n, l) == [at : Place, sub : Rows(n, l), new : Rows(n, l), next : After,
                   due : 0 .. (l - Paid), key : 0 .. l, found : BOOLEAN, ok : BOOLEAN,
                   event : Event \cup {Never}]

Invoices(l) == Seq([key : 0 .. l, due : 0 .. l])

TypesWithin ==
    /\ row \in Rows(Bought, Latest)
    /\ config \in [plan : Plan, extra : 0 .. Bought]
    /\ paid \subseteq 0 .. Latest
    /\ failed \in Invoices(Latest)
    /\ proc \in [Process -> Handlers(Bought, Latest)]

CountsKept ==
    /\ Len(failed) + Cardinality(Failing) <= MaxFailed
    /\ settled \in 0 .. MaxFailed
    /\ ops \in 0 .. MaxOps /\ crashes \in 0 .. MaxCrashes
    /\ day \in 0 .. MaxDay /\ active \in BOOLEAN

\* An event is in the hands of one handler at most, and unapplied meanwhile.
EventsOnce ==
    /\ event \in [Event -> {Never, 0, 1}]
    /\ \A p \in Process : proc[p].event # Never =>
         /\ proc[p].at \in {"load", "write"}
         /\ event[proc[p].event] = 0
         /\ \A q \in Process : proc[q].event = proc[p].event => q = p

SubscriptionInv == TypesWithin /\ CountsKept /\ EventsOnce

-----------------------------------------------------------------------------
(* The bounds.                                                             *)

LEMMA PeriodType ==
    ASSUME NEW d \in 0 .. MaxDay
    PROVE  PeriodOf(d) \in Period /\ PeriodOf(d) + 1 \in Period
<1>1. Month \in Nat \ {0} /\ MaxDay \in Nat  BY SubscriptionAssumption
<1>2. d \div Month \in Nat  BY <1>1
<1>3. d \div Month <= d  BY <1>1
<1>4. QED  BY <1>1, <1>2, <1>3 DEF PeriodOf, Period

\* A further operation moves the latest date by a period.
LEMMA DateBounds ==
    ASSUME NEW k \in 0 .. MaxOps
    PROVE  /\ MaxDay + Paid * (k + 1) \in Nat
           /\ MaxDay + Paid <= MaxDay + Paid * (k + 1)
           /\ MaxDay + Paid * (k + 1) <= Last
           /\ MaxDay + Paid * (k + 1 + 1) = MaxDay + Paid * (k + 1) + Paid
<1>1. Paid \in Nat /\ MaxDay \in Nat /\ MaxOps \in Nat  BY SubscriptionAssumption
<1>2. ASSUME NEW a \in Nat, NEW b \in Nat, a <= b, NEW c \in Nat
      PROVE  c * a \in Nat /\ c * a <= c * b
  BY <1>2, SMT
<1>3. ASSUME NEW a \in Nat, NEW c \in Nat  PROVE c * (a + 1) = c * a + c
  BY SMT
<1>4. k + 1 \in Nat /\ MaxOps + 1 \in Nat /\ k + 1 <= MaxOps + 1 /\ 0 <= k /\ k \in Nat
  BY <1>1
<1>5. Paid * (k + 1) \in Nat /\ Paid * (k + 1) <= Paid * (MaxOps + 1)
  BY <1>1, <1>2, <1>4
<1>6. Paid * (k + 1 + 1) = Paid * (k + 1) + Paid  BY <1>1, <1>3, <1>4
<1>7. Paid * (k + 1) = Paid * k + Paid /\ Paid * k \in Nat  BY <1>1, <1>2, <1>3, <1>4
<1>8. Paid * (MaxOps + 1) \in Nat  BY <1>1, <1>2, <1>4
<1>9. QED
  <2>1. \A x, y, z, w \in Nat : x = w + Paid /\ x <= y /\ z = x + Paid =>
          /\ MaxDay + x \in Nat /\ MaxDay + Paid <= MaxDay + x
          /\ MaxDay + x <= MaxDay + y /\ MaxDay + z = MaxDay + x + Paid
    BY <1>1
  <2>2. Paid * (k + 1 + 1) \in Nat  BY <1>1, <1>5, <1>6
  <2>3. QED  BY <1>5, <1>6, <1>7, <1>8, <2>1, <2>2 DEF Last

\* Wider bounds admit more.
LEMMA Wider ==
    ASSUME NEW n \in Int, NEW m \in Int, n <= m, NEW k \in Int, NEW l \in Int, k <= l
    PROVE  /\ Rows(n, k) \subseteq Rows(m, l)
           /\ Handlers(n, k) \subseteq Handlers(m, l)
           /\ Invoices(k) \subseteq Invoices(l)
<1>1. Rows(n, k) \subseteq Rows(m, l)
  <2>1. 0 .. k \subseteq 0 .. l /\ 0 .. n \subseteq 0 .. m  OBVIOUS
  <2>2. QED  BY <2>1 DEF Rows
<1>2. Handlers(n, k) \subseteq Handlers(m, l)
  <2>1. 0 .. k \subseteq 0 .. l /\ 0 .. (k - Paid) \subseteq 0 .. (l - Paid)
    BY SubscriptionAssumption
  <2>2. QED  BY <1>1, <2>1 DEF Handlers
<1>3. Invoices(k) \subseteq Invoices(l)
  <2>1. [key : 0 .. k, due : 0 .. k] \subseteq [key : 0 .. l, due : 0 .. l]  OBVIOUS
  <2>2. ASSUME NEW S, NEW T, S \subseteq T, NEW s \in Seq(S)  PROVE s \in Seq(T)
    BY <2>2
  <2>3. QED  BY <2>1, <2>2 DEF Invoices
<1>4. QED  BY <1>1, <1>2, <1>3

\* The bounds of all are those of TypeOK.
LEMMA WithinTypes ==
    ASSUME NEW n \in Int, n <= MaxOps, NEW l \in Int, l <= Last
    PROVE  /\ Rows(n, l) \subseteq Row
           /\ Handlers(n, l) \subseteq Handler
           /\ Invoices(l) \subseteq Seq([key : Date, due : Date])
           /\ 0 .. l \subseteq Date /\ 0 .. n \subseteq 0 .. MaxOps
<1>1. Date = 0 .. Last  BY DEF Date, Last
<1>2. 0 \in 0 .. MaxOps /\ Paid \in Nat /\ MaxOps \in Int  BY SubscriptionAssumption
<1>3. Last \in Int
  <2>1. MaxOps \in 0 .. MaxOps  BY SubscriptionAssumption
  <2>2. QED  BY <2>1, DateBounds DEF Last
<1>4. /\ Rows(n, l) \subseteq Rows(MaxOps, Last)
      /\ Invoices(l) \subseteq Invoices(Last)
      /\ Handlers(n, l) \subseteq Handlers(MaxOps, Last)
  BY <1>2, <1>3, Wider
<1>5. Rows(MaxOps, Last) = Row  BY <1>1 DEF Rows, Row
<1>6. Handlers(MaxOps, Last) \subseteq Handler
  <2>1. After \subseteq Place  BY DEF After, Place
  <2>2. 0 .. (Last - Paid) \subseteq 0 .. Last  BY <1>2, <1>3
  <2>3. QED  BY <1>1, <1>5, <2>1, <2>2 DEF Handlers, Handler
<1>7. Invoices(Last) = Seq([key : Date, due : Date])  BY <1>1 DEF Invoices
<1>8. 0 .. l \subseteq Date /\ 0 .. n \subseteq 0 .. MaxOps  BY <1>1, <1>2, <1>3
<1>9. QED  BY <1>4, <1>5, <1>6, <1>7, <1>8

-----------------------------------------------------------------------------
(* The pieces the actions are made of.                                     *)

LEMMA IdleType ==
    ASSUME NEW n \in Nat, NEW l \in Nat, Paid <= l
    PROVE  /\ FirstRow \in Rows(n, l) /\ Idle \in Handlers(n, l)
<1>1. Paid \in 0 .. l /\ 0 \in 0 .. n /\ 0 \in 0 .. l /\ 0 \in 0 .. (l - Paid)
      /\ 0 \in Period /\ 0 \in 0 .. MaxFailed
  BY SubscriptionAssumption DEF Period
<1>2. FirstRow \in Rows(n, l)  BY <1>1 DEF FirstRow, Rows, Plan
<1>3. "idle" \in Place /\ "idle" \in After  BY DEF Place, After
<1>4. Idle \in Handlers(n, l)  BY <1>1, <1>2, <1>3 DEF Idle, Handlers
<1>5. QED  BY <1>2, <1>4

LEMMA MovedType ==
    ASSUME NEW n \in Nat, NEW l \in Nat, Paid <= l, NEW h \in Handlers(n, l),
           NEW place \in Place
    PROVE  /\ Moved(h, place) \in Handlers(n, l)
           /\ Moved(h, place).at = place
           /\ place \in After => Moved(h, place).event = Never
           /\ place \notin After => /\ Moved(h, place).event = h.event
                                    /\ Moved(h, place).ok = h.ok
<1>1. Idle \in Handlers(n, l) /\ Idle.at = "idle" /\ Idle.event = Never
  BY IdleType DEF Idle
<1>2. CASE place = "idle"  BY <1>1, <1>2 DEF Moved, After
<1>3. CASE place \in {"config", "cycled", "first"}
  <2>1. Moved(h, place) = [Idle EXCEPT !.at = place, !.new = h.new]  BY <1>3 DEF Moved
  <2>2. QED  BY <1>1, <1>3, <2>1 DEF Handlers, After
<1>7. CASE place = "access"
  <2>1. Moved(h, place) = [Idle EXCEPT !.at = "access"]  BY <1>7 DEF Moved
  <2>2. QED  BY <1>1, <1>7, <2>1 DEF Handlers, After
<1>4. CASE place = "due"
  <2>1. Moved(h, place) = [Idle EXCEPT !.at = "due", !.sub = h.sub]  BY <1>4 DEF Moved
  <2>2. QED  BY <1>1, <1>4, <2>1 DEF Handlers, After
<1>5. CASE place \notin After
  <2>1. Moved(h, place) = [h EXCEPT !.at = place]  BY <1>5 DEF Moved, After
  <2>2. QED  BY <1>5, <2>1 DEF Handlers
<1>6. QED  BY <1>2, <1>3, <1>4, <1>5, <1>7 DEF After

LEMMA ScheduledType ==
    ASSUME NEW n, NEW l, NEW s \in Rows(n, l), s.sched # Never
    PROVE  Scheduled(s) \in Rows(n, l)
<1>1. s.sched \in Plan  BY DEF Rows
<1>2. 0 \in Period  BY SubscriptionAssumption DEF Period
<1>3. QED  BY <1>1, <1>2 DEF Scheduled, Rows

LEMMA WrittenType ==
    ASSUME NEW n, NEW l, NEW s \in Rows(n, l), Len(failed) \in 0 .. MaxFailed
    PROVE  Written(s) \in Rows(n, l)
  BY DEF Written, Rows

-----------------------------------------------------------------------------
(* What a step of a handler does to the counts and to the events.          *)

Others(p) == proc' = [q \in Process |-> IF q = p THEN proc'[p] ELSE proc[q]]

Room == Len(failed) + Cardinality(Failing) < MaxFailed

\* An operation begins with the handler idle; a failed payment has its place
\* among the failed invoices from the start.
CountShape(p) ==
    /\ Others(p)
    /\ ops' \in {ops, ops + 1} /\ ops' \in 0 .. MaxOps
    /\ proc'[p].at = "load" => proc[p].at = "idle" /\ ops' = ops + 1
    /\ p \in Failing' => failed' = failed /\ (p \in Failing \/ Room)
    /\ failed' = failed \/ (p \in Failing /\ p \notin Failing' /\ Len(failed') = Len(failed) + 1)
    /\ settled' \in 0 .. MaxFailed /\ crashes' \in 0 .. MaxCrashes
    /\ day' = day /\ active' \in BOOLEAN

\* An event is taken up, kept or let go, or applied and let go.
EventShape(p) ==
    \/ /\ event' = event
       /\ proc'[p].event \in {Never, proc[p].event}
       /\ proc'[p].event # Never => proc'[p].at \in {"load", "write"}
    \/ /\ proc'[p].event \in Event /\ event[proc'[p].event] = Never
       /\ event' = [event EXCEPT ![proc'[p].event] = 0]
       /\ proc'[p].at = "load"
    \/ /\ proc[p].event \in Event /\ proc[p].event # Never
       /\ event' = [event EXCEPT ![proc[p].event] = @ + 1]
       /\ proc'[p].event = Never

Shape(p) == CountShape(p) /\ EventShape(p)

Takes(p, h) == proc' = [proc EXCEPT ![p] = h]

LEMMA Put ==
    ASSUME SubscriptionInv, NEW p \in Process, NEW h, Takes(p, h)
    PROVE  Others(p) /\ proc'[p] = h
  BY DEF SubscriptionInv, TypesWithin, Others, Takes

LEMMA MovedShape ==
    ASSUME NEW h, NEW place \in Place
    PROVE  /\ place \in After => /\ Moved(h, place).at = place
                                 /\ Moved(h, place).event = Never
           /\ place \notin After => Moved(h, place) = [h EXCEPT !.at = place]
<1>1. CASE place = "idle"  BY <1>1 DEF Moved, After, Idle
<1>2. CASE place \in {"config", "cycled", "first"}
  <2>1. Moved(h, place) = [Idle EXCEPT !.at = place, !.new = h.new]  BY <1>2 DEF Moved
  <2>2. QED  BY <1>2, <2>1 DEF Idle, After
<1>6. CASE place = "access"
  <2>1. Moved(h, place) = [Idle EXCEPT !.at = "access"]  BY <1>6 DEF Moved
  <2>2. QED  BY <1>6, <2>1 DEF Idle, After
<1>3. CASE place = "due"
  <2>1. Moved(h, place) = [Idle EXCEPT !.at = "due", !.sub = h.sub]  BY <1>3 DEF Moved
  <2>2. QED  BY <1>3, <2>1 DEF Idle, After
<1>4. CASE place \notin After  BY <1>4 DEF Moved, After
<1>5. QED  BY <1>1, <1>2, <1>3, <1>4, <1>6 DEF After

\* What is known of a handler before its step.
LEMMA HandlerFacts ==
    ASSUME SubscriptionInv, NEW p \in Process
    PROVE  /\ proc[p] \in Handlers(Bought, Latest)
           /\ DOMAIN proc[p] = {"at", "sub", "new", "next", "due", "key", "found", "ok", "event"}
           /\ proc[p].next \in After /\ proc[p].event \in Event \cup {Never}
           /\ proc[p].at \in Place /\ proc[p].ok \in BOOLEAN
           /\ proc[p].event # Never => proc[p].at \in {"load", "write"}
           /\ ops \in 0 .. MaxOps /\ settled \in 0 .. MaxFailed /\ crashes \in 0 .. MaxCrashes
           /\ active \in BOOLEAN
           /\ Len(failed) \in Nat
<1>1. proc[p] \in Handlers(Bought, Latest)  BY DEF SubscriptionInv, TypesWithin
<1>2. Len(failed) \in Nat  BY DEF SubscriptionInv, TypesWithin, Invoices
<1>3. /\ proc[p].event # Never => proc[p].at \in {"load", "write"}
      /\ ops \in 0 .. MaxOps /\ settled \in 0 .. MaxFailed /\ crashes \in 0 .. MaxCrashes
      /\ active \in BOOLEAN
  BY DEF SubscriptionInv, CountsKept, EventsOnce
<1>4. /\ DOMAIN proc[p] = {"at", "sub", "new", "next", "due", "key", "found", "ok", "event"}
      /\ proc[p].next \in After /\ proc[p].event \in Event \cup {Never}
      /\ proc[p].at \in Place /\ proc[p].ok \in BOOLEAN
  BY <1>1 DEF Handlers
<1>5. QED  BY <1>1, <1>2, <1>3, <1>4

\* A step that leaves events, operations and failed invoices alone.
LEMMA QuietShape ==
    ASSUME SubscriptionInv, NEW p \in Process, Others(p),
           UNCHANGED <<day, failed, event, ops>>,
           settled' \in 0 .. MaxFailed, crashes' \in 0 .. MaxCrashes, active' \in BOOLEAN,
           proc'[p].at # "load", p \in Failing' => p \in Failing,
           proc'[p].event # Never => /\ proc'[p].event = proc[p].event
                                     /\ proc'[p].at = "write"
    PROVE  Shape(p)
<1>1. ops \in 0 .. MaxOps  BY HandlerFacts
<1>2. CountShape(p)  BY <1>1 DEF CountShape
<1>3. EventShape(p)  BY DEF EventShape
<1>4. QED  BY <1>2, <1>3 DEF Shape

LEMMA CycleShape ==
    ASSUME SubscriptionInv, NEW p \in Process,
           \/ BeginCycle(p) \/ BeginCheck(p) \/ Access(p) \/ Elsewhere(p)
           \/ Renew(p) \/ SyncStatus(p) \/ WriteStatus(p)
    PROVE  Shape(p)
<1> USE HandlerFacts
<1>1. CASE BeginCycle(p)
  <2> DEFINE h == [Idle EXCEPT !.at = "renew", !.sub = row, !.next = "due"]
  <2>1. Takes(p, h)  BY <1>1 DEF BeginCycle, Takes
  <2>2. h.at = "renew" /\ h.event = Never  BY DEF Idle
  <2> HIDE DEF h
  <2>3. Others(p) /\ proc'[p] = h  BY <2>1, Put
  <2>4. QED  BY <1>1, <2>2, <2>3, QuietShape DEF BeginCycle, counts, invoices, Failing
<1>2. ASSUME NEW next, BeginCheck(p) \/ Access(p),
             Takes(p, [Idle EXCEPT !.at = "sync", !.sub = row, !.next = next])
      PROVE  Shape(p)
  <2> DEFINE h == [Idle EXCEPT !.at = "sync", !.sub = row, !.next = next]
  <2>2. h.at = "sync" /\ h.event = Never  BY DEF Idle
  <2> HIDE DEF h
  <2>3. Others(p) /\ proc'[p] = h  BY <1>2, Put DEF h
  <2>4. QED  BY <1>2, <2>2, <2>3, QuietShape DEF BeginCheck, Access, counts, invoices, Failing
<1>12. CASE BeginCheck(p)  BY <1>2, <1>12 DEF BeginCheck, Takes
<1>13. CASE Access(p)  BY <1>2, <1>13 DEF Access, Takes
<1>14. CASE Elsewhere(p)
  <2>1. Takes(p, Idle)  BY <1>14 DEF Elsewhere, Done, Takes
  <2>2. Others(p) /\ proc'[p].at = "idle" /\ proc'[p].event = Never  BY <2>1, Put DEF Idle
  <2>3. QED  BY <1>14, <2>2, QuietShape DEF Elsewhere, counts, invoices, Failing
<1>3. CASE Renew(p)
  <2>1. "sync" \in Place /\ "sync" \notin After  BY DEF Place, After
  <2>2. proc[p].event = Never  BY <1>3 DEF Renew
  <2>3. Others(p) /\ proc'[p].at = "sync" /\ proc'[p].event = Never
    <3>1. CASE Goto(p, "sync")
      <4>1. Takes(p, Moved(proc[p], "sync"))  BY <3>1, Zenon DEF Goto, Takes
      <4>2. Others(p) /\ proc'[p] = [proc[p] EXCEPT !.at = "sync"]
        BY <2>1, <4>1, Put, MovedShape
      <4>3. QED  BY <2>2, <4>2
    <3>2. ASSUME NEW s, Upsert(p, s, "sync")
          PROVE Others(p) /\ proc'[p].at = "sync" /\ proc'[p].event = Never
      <4> DEFINE h == [proc[p] EXCEPT !.sub = Written(s)]
      <4>1. Takes(p, Moved(h, "sync"))  BY <3>2, Zenon DEF Upsert, Takes
      <4>2. DOMAIN h = DOMAIN proc[p] /\ h.event = Never  BY <2>2
      <4> HIDE DEF h
      <4>3. Others(p) /\ proc'[p] = [h EXCEPT !.at = "sync"]
        BY <2>1, <4>1, Put, MovedShape
      <4>4. QED  BY <4>2, <4>3
    <3>3. QED  BY <1>3, <3>1, <3>2 DEF Renew
  <2>4. QED  BY <1>3, <2>3, QuietShape DEF Renew, counts, invoices, Failing
<1>4. CASE SyncStatus(p)
  <2>1. proc[p].event = Never  BY <1>4 DEF SyncStatus
  <2>2. Others(p) /\ proc'[p].event = Never /\ proc'[p].at \in After \cup {"status"}
    <3>1. CASE Resolved(proc[p].sub) = proc[p].sub.status
      <4> DEFINE h == [proc[p] EXCEPT !.new = proc[p].sub]
      <4>1. Takes(p, Moved(h, proc[p].next))  BY <1>4, <3>1, Zenon DEF SyncStatus, Takes
      <4> HIDE DEF h
      <4>2. proc[p].next \in Place  BY DEF After, Place
      <4>3. QED  BY <4>1, <4>2, Put, MovedShape
    <3>2. CASE Resolved(proc[p].sub) # proc[p].sub.status
      <4> DEFINE s == [proc[p].sub EXCEPT !.status = Resolved(proc[p].sub)]
      <4>1. proc' = [proc EXCEPT ![p].at = "status", ![p].new = s]
        BY <1>4, <3>2, Zenon DEF SyncStatus
      <4> HIDE DEF s
      <4>2. Takes(p, [proc[p] EXCEPT !.at = "status", !.new = s])
        BY <4>1 DEF SubscriptionInv, TypesWithin, Takes
      <4>3. Others(p) /\ proc'[p] = [proc[p] EXCEPT !.at = "status", !.new = s]
        BY <4>2, Put
      <4>4. QED  BY <2>1, <4>3
    <3>3. QED  BY <3>1, <3>2
  <2>3. active' \in BOOLEAN  BY <1>4 DEF SyncStatus
  <2>4. QED  BY <1>4, <2>2, <2>3, QuietShape DEF SyncStatus, counts, invoices, Failing, After
<1>5. CASE WriteStatus(p)
  <2> DEFINE h == [proc[p] EXCEPT !.sub = Written(proc[p].new)]
  <2>1. Takes(p, Moved(h, proc[p].next))  BY <1>5, Zenon DEF WriteStatus, Upsert, Takes
  <2> HIDE DEF h
  <2>2. proc[p].next \in Place  BY DEF After, Place
  <2>3. Others(p) /\ proc'[p].event = Never /\ proc'[p].at \in After
    BY <2>1, <2>2, Put, MovedShape
  <2>4. QED  BY <1>5, <2>3, QuietShape DEF WriteStatus, counts, invoices, Failing, After
<1>6. QED  BY <1>1, <1>12, <1>13, <1>14, <1>3, <1>4, <1>5

LEMMA CountFacts ==
    ASSUME SubscriptionInv
    PROVE  /\ IsFiniteSet(Buying) /\ Cardinality(Buying) \in Nat
           /\ IsFiniteSet(Failing) /\ Cardinality(Failing) \in Nat
           /\ Len(failed) \in 0 .. MaxFailed
<1>1. IsFiniteSet(Process) /\ Buying \subseteq Process /\ Failing \subseteq Process
  BY SubscriptionAssumption DEF Buying, Failing
<1>2. /\ IsFiniteSet(Buying) /\ Cardinality(Buying) \in Nat
      /\ IsFiniteSet(Failing) /\ Cardinality(Failing) \in Nat
  BY <1>1, FS_Subset, FS_CardinalityType
<1>3. Len(failed) \in Nat  BY DEF SubscriptionInv, TypesWithin, Invoices
<1>4. Len(failed) + Cardinality(Failing) <= MaxFailed /\ MaxFailed \in Nat
  BY SubscriptionAssumption DEF SubscriptionInv, CountsKept
<1>5. QED  BY <1>2, <1>3, <1>4

LEMMA BillingShape ==
    ASSUME SubscriptionInv, NEW p \in Process,
           \/ CheckDue(p) \/ ApplyScheduled(p) \/ ReadInvoices(p) \/ CreateInvoice(p)
           \/ Extend(p) \/ SyncConfig(p) \/ Checkout(p)
    PROVE  Shape(p)
<1> USE HandlerFacts, CountFacts
<1>0. /\ \A place \in {"config", "cycled", "access"} : place \in Place /\ place \in After
      /\ \A place \in {"billing", "key", "fail", "extend", "checkout"} :
           place \in Place /\ place \notin After
      /\ "idle" \in Place /\ "idle" \in After
  BY DEF Place, After
<1>1. CASE CheckDue(p)
  <2>1. proc[p].event = Never  BY <1>1 DEF CheckDue
  <2> DEFINE s == proc[p].sub
             last == IF p = Worker THEN "config" ELSE "cycled"
             h == [proc[p] EXCEPT !.new = s, !.due = BillingDate(s), !.ok = TRUE, !.next = last]
  <2>2. Takes(p, Moved(h, last)) \/ Takes(p, Moved(h, "billing"))
    BY <1>1, Zenon DEF CheckDue, Takes
  <2>7. last \in Place /\ last \in After /\ last # "load"  BY <1>0
  <2>3. h.event = Never /\ h.ok = TRUE /\ DOMAIN h = DOMAIN proc[p]  BY <2>1
  <2>8. last \notin {"fail", "billing"}  OBVIOUS
  <2> HIDE DEF h, last
  <2>4. CASE Takes(p, Moved(h, last))
    <3>1. Others(p) /\ proc'[p].at = last /\ proc'[p].event = Never
      BY <2>4, <2>7, Put, MovedShape
    <3>2. QED  BY <1>1, <2>7, <2>8, <3>1, QuietShape DEF CheckDue, counts, invoices, Failing
  <2>5. CASE Takes(p, Moved(h, "billing"))
    <3>1. Others(p) /\ proc'[p] = [h EXCEPT !.at = "billing"]
      BY <1>0, <2>5, Put, MovedShape
    <3>2. proc'[p].at = "billing" /\ proc'[p].event = Never /\ proc'[p].ok = TRUE
      BY <2>3, <3>1
    <3>3. QED  BY <1>1, <3>1, <3>2, QuietShape DEF CheckDue, counts, invoices, Failing
  <2>6. QED  BY <2>2, <2>4, <2>5
<1>2. CASE ApplyScheduled(p)
  <2>1. proc[p].event = Never /\ proc[p].at = "billing"  BY <1>2 DEF ApplyScheduled
  <2> DEFINE place == IF p = Worker THEN "idle" ELSE IF proc[p].ok THEN "key" ELSE "fail"
  <2>2. place \in Place  BY <1>0
  <2>3. Others(p) /\ proc'[p].at = place /\ proc'[p].event = Never
    <3>1. CASE Goto(p, place)
      <4>1. Takes(p, Moved(proc[p], place))  BY <3>1, Zenon DEF Goto, Takes
      <4> HIDE DEF place
      <4>2. Others(p) /\ proc'[p] = Moved(proc[p], place)  BY <4>1, Put
      <4>3. CASE place \in After  BY <2>2, <4>2, <4>3, MovedShape
      <4>4. CASE place \notin After
        <5>1. proc'[p] = [proc[p] EXCEPT !.at = place]  BY <2>2, <4>2, <4>4, MovedShape
        <5>2. QED  BY <2>1, <4>2, <5>1
      <4>5. QED  BY <4>3, <4>4
    <3>2. ASSUME NEW s, Upsert(p, s, place)
          PROVE Others(p) /\ proc'[p].at = place /\ proc'[p].event = Never
      <4> DEFINE h == [proc[p] EXCEPT !.sub = Written(s)]
      <4>1. Takes(p, Moved(h, place))  BY <3>2, Zenon DEF Upsert, Takes
      <4>2. DOMAIN h = DOMAIN proc[p] /\ h.event = Never  BY <2>1
      <4> HIDE DEF h, place
      <4>3. Others(p) /\ proc'[p] = Moved(h, place)  BY <4>1, Put
      <4>4. CASE place \in After  BY <2>2, <4>3, <4>4, MovedShape
      <4>5. CASE place \notin After
        <5>1. proc'[p] = [h EXCEPT !.at = place]  BY <2>2, <4>3, <4>5, MovedShape
        <5>2. QED  BY <4>2, <4>3, <5>1
      <4>6. QED  BY <4>4, <4>5
    <3>3. QED  BY <1>2, <3>1, <3>2, Zenon DEF ApplyScheduled
  <2>4. p \in Failing' => p \in Failing  BY <2>1, <2>3 DEF Failing
  <2>5. QED  BY <1>2, <2>3, <2>4, QuietShape DEF ApplyScheduled, counts, invoices
<1>3. CASE ReadInvoices(p)
  <2>1. proc[p].event = Never  BY <1>3 DEF ReadInvoices
  <2> DEFINE k == IF FailedOpen THEN LastFailed.key ELSE proc[p].due
             f == k \in paid
  <2>2. proc' = [proc EXCEPT ![p].at = "invoice", ![p].key = k, ![p].found = f]
    BY <1>3, Zenon DEF ReadInvoices
  <2> HIDE DEF k, f
  <2>3. Takes(p, [proc[p] EXCEPT !.at = "invoice", !.key = k, !.found = f])
    BY <2>2 DEF SubscriptionInv, TypesWithin, Takes
  <2>4. Others(p) /\ proc'[p] = [proc[p] EXCEPT !.at = "invoice", !.key = k, !.found = f]
    BY <2>3, Put
  <2>5. proc'[p].at = "invoice" /\ proc'[p].event = Never  BY <2>1, <2>4
  <2>6. QED  BY <1>3, <2>4, <2>5, QuietShape DEF ReadInvoices, counts, invoices, Failing
<1>4. CASE CreateInvoice(p)
  <2>1. proc[p].event = Never  BY <1>4 DEF CreateInvoice
  <2>2. settled' \in 0 .. MaxFailed /\ failed' = failed
    BY <1>4 DEF CreateInvoice, invoices
  <2>3. Goto(p, "extend") \/ Done(p)  BY <1>4 DEF CreateInvoice
  <2>4. CASE Done(p)
    <3>1. Takes(p, Idle)  BY <2>4 DEF Done, Takes
    <3>2. Others(p) /\ proc'[p].at = "idle" /\ proc'[p].event = Never  BY <3>1, Put DEF Idle
    <3>3. QED  BY <1>4, <2>2, <3>2, QuietShape DEF CreateInvoice, counts, Failing
  <2>5. CASE Goto(p, "extend")
    <3>1. Takes(p, Moved(proc[p], "extend"))  BY <2>5, Zenon DEF Goto, Takes
    <3>2. Others(p) /\ proc'[p] = [proc[p] EXCEPT !.at = "extend"]
      BY <1>0, <3>1, Put, MovedShape
    <3>3. proc'[p].at = "extend" /\ proc'[p].event = Never  BY <2>1, <3>2
    <3>4. QED  BY <1>4, <2>2, <3>2, <3>3, QuietShape DEF CreateInvoice, counts, Failing
  <2>6. QED  BY <2>3, <2>4, <2>5
<1>5. CASE Extend(p)
  <2>1. PICK s : Upsert(p, s, proc[p].next)  BY <1>5 DEF Extend
  <2> DEFINE h == [proc[p] EXCEPT !.sub = Written(s)]
  <2>2. Takes(p, Moved(h, proc[p].next))  BY <2>1, Zenon DEF Upsert, Takes
  <2> HIDE DEF h
  <2>3. proc[p].next \in Place  BY DEF After, Place
  <2>4. Others(p) /\ proc'[p].event = Never /\ proc'[p].at \in After
    BY <2>2, <2>3, Put, MovedShape
  <2>5. QED  BY <1>5, <2>4, QuietShape DEF Extend, counts, invoices, Failing, After
<1>6. CASE SyncConfig(p)
  <2>1. proc[p].event = Never  BY <1>6 DEF SyncConfig
  <2>2. PICK place \in {"access", "checkout", "idle"} : Takes(p, Moved(proc[p], place))
    BY <1>6, Zenon DEF SyncConfig, AfterConfig, Goto, Takes
  <2>3. CASE place \in {"access", "idle"}
    <3>1. Others(p) /\ proc'[p].at = place /\ proc'[p].event = Never
      BY <1>0, <2>2, <2>3, Put, MovedShape
    <3>2. QED  BY <1>6, <2>3, <3>1, QuietShape DEF SyncConfig, counts, invoices, Failing
  <2>4. CASE place = "checkout"
    <3>1. Others(p) /\ proc'[p] = [proc[p] EXCEPT !.at = "checkout"]
      BY <1>0, <2>2, <2>4, Put, MovedShape
    <3>2. proc'[p].at = "checkout" /\ proc'[p].event = Never  BY <2>1, <3>1
    <3>3. QED  BY <1>6, <3>1, <3>2, QuietShape DEF SyncConfig, counts, invoices, Failing
  <2>5. QED  BY <2>2, <2>3, <2>4
<1>7. CASE Checkout(p)
  <2>1. Takes(p, Idle)  BY <1>7 DEF Checkout, Done, Takes
  <2>2. Others(p) /\ proc'[p].at = "idle" /\ proc'[p].event = Never  BY <2>1, Put DEF Idle
  <2>3. QED  BY <1>7, <2>2, QuietShape DEF Checkout, counts, Failing
<1>8. QED  BY <1>1, <1>2, <1>3, <1>4, <1>5, <1>6, <1>7

\* A handler that begins an operation, applying no event.
LEMMA BeginShape ==
    ASSUME SubscriptionInv, NEW p \in Process, Begin(p), Others(p), proc'[p].event = Never,
           p \in Failing' => Room
    PROVE  Shape(p)
<1> USE HandlerFacts
<1>1. UNCHANGED <<day, failed, event, settled, crashes, active>> /\ ops' = ops + 1 /\ ops < MaxOps
      /\ proc[p].at = "idle"
  BY DEF Begin, invoices
<1>2. ops' \in 0 .. MaxOps  BY <1>1, SubscriptionAssumption
<1>3. CountShape(p)  BY <1>1, <1>2 DEF CountShape
<1>4. EventShape(p)  BY <1>1 DEF EventShape
<1>5. QED  BY <1>3, <1>4 DEF Shape

LEMMA OperationShape ==
    ASSUME SubscriptionInv, NEW p \in Process,
           \/ \E plan \in Plan : SchedulePlan(p, plan) \/ ChangePlan(p, plan)
           \/ WarnQuestions(p) \/ PurchaseAddon(p) \/ SettleSubscription(p)
    PROVE  Shape(p)
<1>1. ASSUME NEW s, NEW next, Change(p, s, next), Begin(p)  PROVE Shape(p)
  <2> DEFINE h == [Idle EXCEPT !.at = "write", !.new = s, !.next = next]
  <2>1. Takes(p, h)  BY <1>1 DEF Change, Takes
  <2>2. h.at = "write" /\ h.event = Never  BY DEF Idle
  <2> HIDE DEF h
  <2>3. Others(p) /\ proc'[p] = h  BY <2>1, Put
  <2>4. QED  BY <1>1, <2>2, <2>3, BeginShape DEF Failing
<1>2. CASE PurchaseAddon(p)
  <2> DEFINE h == [Idle EXCEPT !.at = "load"]
  <2>1. Takes(p, h)  BY <1>2 DEF PurchaseAddon, Takes
  <2>2. h.at = "load" /\ h.event = Never  BY DEF Idle
  <2> HIDE DEF h
  <2>3. Others(p) /\ proc'[p] = h  BY <2>1, Put
  <2>4. QED  BY <1>2, <2>2, <2>3, BeginShape DEF PurchaseAddon, Failing
<1>3. CASE SettleSubscription(p)
  <2>1. PICK ok \in BOOLEAN :
          /\ ok \/ Room
          /\ Takes(p, [Idle EXCEPT !.at = "billing", !.sub = row, !.due = BillingDate(row), !.ok = ok])
    BY <1>3 DEF SettleSubscription, Room, Takes
  <2> DEFINE h == [Idle EXCEPT !.at = "billing", !.sub = row, !.due = BillingDate(row), !.ok = ok]
  <2>2. h.at = "billing" /\ h.event = Never /\ h.ok = ok  BY DEF Idle
  <2> HIDE DEF h
  <2>3. Others(p) /\ proc'[p] = h  BY <2>1, Put DEF h
  <2>4. p \in Failing' => Room  BY <2>1, <2>2, <2>3 DEF Failing
  <2>5. QED  BY <1>3, <2>2, <2>3, <2>4, BeginShape DEF SettleSubscription
<1>4. CASE \E plan \in Plan : SchedulePlan(p, plan) \/ ChangePlan(p, plan)
  BY <1>1, <1>4 DEF SchedulePlan, ChangePlan
<1>5. CASE WarnQuestions(p)  BY <1>1, <1>5 DEF WarnQuestions
<1>6. QED  BY <1>2, <1>3, <1>4, <1>5

LEMMA EventShapes ==
    ASSUME SubscriptionInv, NEW p \in Process,
           \/ LoadForAddon(p) \/ LoadForEvent(p) \/ WriteRow(p) \/ RecordFailure(p)
           \/ (\E e \in Event : RecordEvent(p, e)) \/ Crash(p)
    PROVE  Shape(p)
<1> USE HandlerFacts, CountFacts
<1>0. Idle.at = "idle" /\ Idle.event = Never /\ DOMAIN Idle = DOMAIN proc[p]  BY DEF Idle
<1>1. CASE LoadForAddon(p)
  <2>1. PICK s : Takes(p, [Idle EXCEPT !.at = "write", !.new = s, !.next = "config"])
    BY <1>1 DEF LoadForAddon, Change, Takes
  <2>2. Others(p) /\ proc'[p] = [Idle EXCEPT !.at = "write", !.new = s, !.next = "config"]
    BY <2>1, Put
  <2>3. proc'[p].at = "write" /\ proc'[p].event = Never  BY <1>0, <2>2
  <2>4. QED  BY <1>1, <2>2, <2>3, QuietShape DEF LoadForAddon, counts, invoices, Failing
<1>2. CASE LoadForEvent(p)
  <2>1. CASE Done(p)
    <3>1. Takes(p, Idle)  BY <2>1 DEF Done, Takes
    <3>2. Others(p) /\ proc'[p] = Idle  BY <3>1, Put
    <3>3. QED  BY <1>0, <1>2, <3>2, QuietShape DEF LoadForEvent, counts, invoices, Failing
  <2>2. CASE ~Done(p)
    <3> DEFINE s == [row EXCEPT !.plan = "high", !.status = "active", !.ends = day + Paid,
                                !.sched = Never, !.eff = 0]
               h == [proc[p] EXCEPT !.at = "write", !.next = "config", !.new = s]
    <3>1. Takes(p, h)  BY <1>2, <2>2, Zenon DEF LoadForEvent, Takes
    <3>2. h.at = "write" /\ h.event = proc[p].event  OBVIOUS
    <3> HIDE DEF h
    <3>3. Others(p) /\ proc'[p] = h  BY <3>1, Put
    <3>4. QED  BY <1>2, <3>2, <3>3, QuietShape DEF LoadForEvent, counts, invoices, Failing
  <2>3. QED  BY <2>1, <2>2
<1>3. CASE WriteRow(p)
  <2> DEFINE h == [proc[p] EXCEPT !.sub = Written(proc[p].new)]
  <2>1. Takes(p, Moved(h, proc[p].next))  BY <1>3, Zenon DEF WriteRow, Upsert, Takes
  <2> HIDE DEF h
  <2>2. proc[p].next \in Place  BY DEF After, Place
  <2>3. Others(p) /\ proc'[p].event = Never /\ proc'[p].at \in After
    BY <2>1, <2>2, Put, MovedShape
  <2>4. UNCHANGED <<day, failed, ops, settled, crashes, active>>
    BY <1>3 DEF WriteRow, counts, invoices
  <2>5. CountShape(p)  BY <2>3, <2>4 DEF CountShape, Failing, After
  <2>6. CASE proc[p].event = Never
    <3>1. event' = event  BY <1>3, <2>6 DEF WriteRow
    <3>2. QED  BY <2>3, <2>5, <3>1 DEF EventShape, Shape
  <2>7. CASE proc[p].event # Never
    <3>1. event' = [event EXCEPT ![proc[p].event] = @ + 1]  BY <1>3, <2>7 DEF WriteRow
    <3>2. EventShape(p)  BY <2>3, <2>7, <3>1 DEF EventShape
    <3>3. QED  BY <2>5, <3>2 DEF Shape
  <2>8. QED  BY <2>6, <2>7
<1>4. CASE RecordFailure(p)
  <2>1. Takes(p, Idle)  BY <1>4 DEF RecordFailure, Done, Takes
  <2>2. Others(p) /\ proc'[p] = Idle  BY <2>1, Put
  <2>3. p \in Failing /\ p \notin Failing'
    BY <1>0, <1>4, <2>2 DEF RecordFailure, Failing
  <2>4. failed' = failed \/ Len(failed') = Len(failed) + 1
    <3>1. failed' = failed \/ \E x : failed' = Append(failed, x)  BY <1>4 DEF RecordFailure
    <3>2. failed \in Invoices(Latest)  BY DEF SubscriptionInv, TypesWithin
    <3>3. ASSUME NEW x, failed' = Append(failed, x)  PROVE Len(failed') = Len(failed) + 1
      BY <3>2, <3>3 DEF Invoices
    <3>4. QED  BY <3>1, <3>3
  <2>5. UNCHANGED <<day, event, ops, settled, crashes, active>>
    BY <1>4 DEF RecordFailure, counts
  <2>6. CountShape(p)  BY <1>0, <2>2, <2>3, <2>4, <2>5 DEF CountShape
  <2>7. EventShape(p)  BY <1>0, <2>2, <2>5 DEF EventShape
  <2>8. QED  BY <2>6, <2>7 DEF Shape
<1>5. ASSUME NEW e \in Event, RecordEvent(p, e)  PROVE Shape(p)
  <2> DEFINE h == [Idle EXCEPT !.at = "load", !.event = e]
  <2>1. Takes(p, h)  BY <1>5 DEF RecordEvent, Takes
  <2>2. h.at = "load" /\ h.event = e  BY DEF Idle
  <2> HIDE DEF h
  <2>3. Others(p) /\ proc'[p] = h  BY <2>1, Put
  <2>4. /\ UNCHANGED <<day, failed, settled, crashes, active>> /\ ops' = ops + 1 /\ ops < MaxOps
        /\ proc[p].at = "idle" /\ event[e] = Never /\ event' = [event EXCEPT ![e] = 0]
    BY <1>5 DEF RecordEvent, invoices
  <2>5. ops' \in 0 .. MaxOps  BY <2>4, SubscriptionAssumption
  <2>6. CountShape(p)  BY <2>2, <2>3, <2>4, <2>5 DEF CountShape, Failing
  <2>7. EventShape(p)  BY <2>2, <2>3, <2>4 DEF EventShape
  <2>8. QED  BY <2>6, <2>7 DEF Shape
<1>6. CASE Crash(p)
  <2>1. Takes(p, Idle)  BY <1>6 DEF Crash, Done, Takes
  <2>2. Others(p) /\ proc'[p] = Idle  BY <2>1, Put
  <2>3. crashes' \in 0 .. MaxCrashes  BY <1>6, SubscriptionAssumption DEF Crash
  <2>4. QED  BY <1>0, <1>6, <2>2, <2>3, QuietShape DEF Crash, invoices, Failing
<1>7. QED  BY <1>1, <1>2, <1>3, <1>4, <1>5, <1>6

-----------------------------------------------------------------------------
(* What follows for the counts and the events.                             *)

LEMMA Moves ==
    ASSUME NEW S, NEW T, NEW p, IsFiniteSet(S), S \ {p} = T \ {p}
    PROVE  /\ IsFiniteSet(T) /\ Cardinality(S) \in Nat /\ Cardinality(T) \in Nat
           /\ (p \in S <=> p \in T) => T = S
           /\ p \notin S /\ p \in T => Cardinality(T) = Cardinality(S) + 1
           /\ p \in S /\ p \notin T => Cardinality(T) = Cardinality(S) - 1
<1>1. T \subseteq S \cup {p}  OBVIOUS
<1>2. IsFiniteSet(S \cup {p})  BY FS_AddElement
<1>3. IsFiniteSet(T)  BY <1>1, <1>2, FS_Subset
<1>4. Cardinality(S) \in Nat /\ Cardinality(T) \in Nat  BY <1>3, FS_CardinalityType
<1>5. (p \in S <=> p \in T) => T = S  OBVIOUS
<1>6. ASSUME p \notin S, p \in T  PROVE Cardinality(T) = Cardinality(S) + 1
  <2>1. T = S \cup {p}  BY <1>6
  <2>2. QED  BY <1>6, <2>1, FS_AddElement
<1>7. ASSUME p \in S, p \notin T  PROVE Cardinality(T) = Cardinality(S) - 1
  <2>1. T = S \ {p}  BY <1>7
  <2>2. QED  BY <1>7, <2>1, FS_RemoveElement
<1>8. QED  BY <1>3, <1>4, <1>5, <1>6, <1>7

\* The bounds as they are, and after a step.
LEMMA Bounds ==
    ASSUME SubscriptionInv
    PROVE  /\ Bought \in Nat /\ Bought <= MaxOps
           /\ Latest \in Nat /\ MaxDay + Paid <= Latest /\ Latest <= Last
<1>1. ops \in 0 .. MaxOps  BY DEF SubscriptionInv, CountsKept
<1>2. Cardinality(Buying) \in Nat /\ MaxOps \in Nat  BY CountFacts, SubscriptionAssumption
<1>3. row.extra \in 0 .. Bought  BY DEF SubscriptionInv, TypesWithin, Rows
<1>4. QED  BY <1>1, <1>2, <1>3, DateBounds DEF Bought, Latest

LEMMA CountStep ==
    ASSUME SubscriptionInv, NEW p \in Process, CountShape(p)
    PROVE  /\ Bought' \in Nat /\ Bought <= Bought' /\ Bought' <= MaxOps
           /\ p \in Buying /\ p \notin Buying' => Bought + 1 <= Bought'
           /\ Latest' \in Nat /\ Latest <= Latest' /\ Latest' <= Last
           /\ ops' = ops + 1 => Latest' = Latest + Paid
           /\ Len(failed') + Cardinality(Failing') <= MaxFailed
<1>1. \A q \in Process \ {p} : proc'[q] = proc[q]  BY DEF CountShape, Others
<1>2. Buying \ {p} = Buying' \ {p} /\ Failing \ {p} = Failing' \ {p}
  BY <1>1 DEF Buying, Failing
<1>3. /\ IsFiniteSet(Buying) /\ Cardinality(Buying) \in Nat
      /\ IsFiniteSet(Failing) /\ Cardinality(Failing) \in Nat
      /\ Len(failed) \in 0 .. MaxFailed
  BY CountFacts
<1>4. /\ Cardinality(Buying') \in Nat
      /\ (p \in Buying <=> p \in Buying') => Buying' = Buying
      /\ p \notin Buying /\ p \in Buying' => Cardinality(Buying') = Cardinality(Buying) + 1
      /\ p \in Buying /\ p \notin Buying' => Cardinality(Buying') = Cardinality(Buying) - 1
  BY <1>2, <1>3, Moves
<1>5. /\ Cardinality(Failing') \in Nat
      /\ (p \in Failing <=> p \in Failing') => Failing' = Failing
      /\ p \notin Failing /\ p \in Failing' => Cardinality(Failing') = Cardinality(Failing) + 1
      /\ p \in Failing /\ p \notin Failing' => Cardinality(Failing') = Cardinality(Failing) - 1
  BY <1>2, <1>3, Moves
<1>6. /\ ops' \in {ops, ops + 1} /\ ops' \in 0 .. MaxOps /\ ops \in 0 .. MaxOps
      /\ p \in Buying' => p \notin Buying /\ ops' = ops + 1
  BY DEF CountShape, Buying, SubscriptionInv, CountsKept
<1>7. Bought \in Nat /\ MaxOps \in Nat /\ MaxFailed \in Nat
  BY Bounds, SubscriptionAssumption
<1>8. /\ Bought' \in Nat /\ Bought <= Bought' /\ Bought' <= MaxOps
      /\ p \in Buying /\ p \notin Buying' => Bought + 1 <= Bought'
  <2>1. CASE p \in Buying'  BY <1>3, <1>4, <1>6, <1>7, <2>1 DEF Bought
  <2>2. CASE p \notin Buying' /\ p \in Buying  BY <1>3, <1>4, <1>6, <1>7, <2>2 DEF Bought
  <2>3. CASE p \notin Buying' /\ p \notin Buying
    <3>1. Buying' = Buying  BY <1>4, <2>3
    <3>2. QED  BY <1>3, <1>6, <1>7, <2>3, <3>1 DEF Bought
  <2>4. QED  BY <2>1, <2>2, <2>3
<1>9. /\ Latest' \in Nat /\ Latest <= Latest' /\ Latest' <= Last
      /\ ops' = ops + 1 => Latest' = Latest + Paid
  <2>1. /\ Latest \in Nat /\ Latest' \in Nat /\ Latest' <= Last
        /\ MaxDay + Paid * (ops + 1 + 1) = Latest + Paid
    BY <1>6, DateBounds DEF Latest
  <2>2. Paid \in Nat  BY SubscriptionAssumption
  <2>3. CASE ops' = ops  BY <1>6, <2>1, <2>3 DEF Latest
  <2>4. CASE ops' = ops + 1
    <3>1. Latest' = Latest + Paid  BY <2>1, <2>4 DEF Latest
    <3>2. QED  BY <2>1, <2>2, <3>1
  <2>5. QED  BY <1>6, <2>3, <2>4
<1>10. Len(failed') + Cardinality(Failing') <= MaxFailed
  <2>1. Len(failed) + Cardinality(Failing) <= MaxFailed
    BY DEF SubscriptionInv, CountsKept
  <2>2. /\ p \in Failing' => failed' = failed /\ (p \in Failing \/ Room)
        /\ failed' = failed \/ (p \in Failing /\ p \notin Failing' /\ Len(failed') = Len(failed) + 1)
    BY DEF CountShape
  <2>3. CASE p \in Failing' /\ p \in Failing  BY <1>5, <2>1, <2>2, <2>3
  <2>4. CASE p \in Failing' /\ p \notin Failing
    <3>1. Len(failed) + Cardinality(Failing) < MaxFailed  BY <2>2, <2>4 DEF Room
    <3>2. failed' = failed /\ Cardinality(Failing') = Cardinality(Failing) + 1
      BY <1>5, <2>2, <2>4
    <3>3. QED  BY <1>3, <1>7, <3>1, <3>2
  <2>5. CASE p \notin Failing' /\ p \in Failing
    <3>1. Cardinality(Failing') = Cardinality(Failing) - 1  BY <1>5, <2>5
    <3>2. CASE failed' = failed  BY <1>3, <1>7, <2>1, <3>1, <3>2
    <3>3. CASE Len(failed') = Len(failed) + 1  BY <1>3, <1>7, <2>1, <3>1, <3>3
    <3>4. QED  BY <2>2, <3>2, <3>3
  <2>6. CASE p \notin Failing' /\ p \notin Failing  BY <1>5, <2>1, <2>2, <2>6
  <2>7. QED  BY <2>3, <2>4, <2>5, <2>6
<1>11. QED  BY <1>8, <1>9, <1>10

LEMMA EventStep ==
    ASSUME SubscriptionInv, NEW p \in Process, Shape(p)
    PROVE  EventsOnce'
<1>1. \A q \in Process \ {p} : proc'[q] = proc[q]  BY DEF Shape, CountShape, Others
<1>2. /\ event \in [Event -> {Never, 0, 1}]
      /\ \A q \in Process : proc[q].event # Never =>
           /\ proc[q].at \in {"load", "write"}
           /\ event[proc[q].event] = 0
           /\ \A r \in Process : proc[r].event = proc[q].event => r = q
  BY DEF SubscriptionInv, EventsOnce
<1>3. \A q \in Process : proc[q].event \in Event \cup {Never}  BY HandlerFacts
<1>4. Never # 0 /\ Never # 1 /\ Never \notin Event  BY SubscriptionAssumption
<1>5. CASE /\ event' = event
           /\ proc'[p].event \in {Never, proc[p].event}
           /\ proc'[p].event # Never => proc'[p].at \in {"load", "write"}
  BY <1>1, <1>2, <1>5 DEF EventsOnce
<1>6. CASE /\ proc'[p].event \in Event /\ event[proc'[p].event] = Never
           /\ event' = [event EXCEPT ![proc'[p].event] = 0]
           /\ proc'[p].at = "load"
  <2> DEFINE e == proc'[p].event
  <2>1. event'[e] = 0 /\ \A d \in Event \ {e} : event'[d] = event[d]
    BY <1>2, <1>6
  <2>2. event' \in [Event -> {Never, 0, 1}]  BY <1>2, <1>6
  <2>3. \A q \in Process \ {p} : proc'[q].event # Never => proc'[q].event # e
    BY <1>1, <1>2, <1>4, <1>6
  <2>4. ASSUME NEW q \in Process \ {p}, proc'[q].event # Never
        PROVE  /\ proc'[q].at \in {"load", "write"}
               /\ event'[proc'[q].event] = 0
               /\ \A r \in Process : proc'[r].event = proc'[q].event => r = q
    BY <1>1, <1>2, <1>3, <2>1, <2>3, <2>4
  <2>5. \A r \in Process : proc'[r].event = e => r = p  BY <1>4, <1>6, <2>3
  <2>6. QED  BY <1>6, <2>1, <2>2, <2>4, <2>5 DEF EventsOnce
<1>7. CASE /\ proc[p].event \in Event /\ proc[p].event # Never
           /\ event' = [event EXCEPT ![proc[p].event] = @ + 1]
           /\ proc'[p].event = Never
  <2> DEFINE e == proc[p].event
  <2>1. event[e] = 0  BY <1>2, <1>7
  <2>2. event' = [event EXCEPT ![e] = 1]  BY <1>7, <2>1
  <2>3. event' \in [Event -> {Never, 0, 1}] /\ \A d \in Event \ {e} : event'[d] = event[d]
    BY <1>2, <2>2
  <2>4. ASSUME NEW q \in Process \ {p}, proc'[q].event # Never
        PROVE  /\ proc'[q].at \in {"load", "write"}
               /\ event'[proc'[q].event] = 0
               /\ \A r \in Process : proc'[r].event = proc'[q].event => r = q
    <3>1. proc[q].event # e  BY <1>1, <1>2, <1>7, <2>4
    <3>2. event'[proc[q].event] = 0  BY <1>1, <1>2, <1>3, <2>3, <2>4, <3>1
    <3>3. QED  BY <1>1, <1>2, <1>7, <2>4, <3>2
  <2>5. QED  BY <1>7, <2>3, <2>4 DEF EventsOnce
<1>8. QED  BY <1>5, <1>6, <1>7 DEF Shape, EventShape

-----------------------------------------------------------------------------
(* What a step of a handler writes stays within the bounds.                *)

Within(r, c, d, f, h, n, l) ==
    /\ r \in Rows(n, l)
    /\ c \in [plan : Plan, extra : 0 .. n]
    /\ d \subseteq 0 .. l
    /\ f \in Invoices(l)
    /\ h \in Handlers(n, l)

Bounded(n, l) ==
    /\ n \in Nat /\ l \in Nat /\ MaxDay + Paid <= l
    /\ Len(failed) \in 0 .. MaxFailed /\ day \in 0 .. MaxDay

LEMMA LimitsType ==
    ASSUME NEW n, NEW l, NEW s \in Rows(n, l)
    PROVE  Limits(s) \in [plan : Plan, extra : 0 .. n]
  BY DEF Limits, Rows

LEMMA BoundFacts ==
    ASSUME NEW n, NEW l, Bounded(n, l)
    PROVE  /\ n \in Nat /\ l \in Nat /\ Paid <= l
           /\ \A d \in 0 .. MaxDay : d \in 0 .. (l - Paid) /\ d + Paid \in 0 .. l
           /\ \A d \in 0 .. (l - Paid) : d \in 0 .. l /\ d + Paid \in 0 .. l
           /\ 0 \in 0 .. l /\ 0 \in 0 .. n /\ 0 \in Period
           /\ PeriodOf(day) \in Period /\ PeriodOf(day) + 1 \in Period
           /\ Len(failed) \in 0 .. MaxFailed /\ day \in 0 .. MaxDay
           /\ FirstRow \in Rows(n, l) /\ Idle \in Handlers(n, l)
           /\ \A s \in Rows(n, l) : BillingDate(s) \in 0 .. l
<1>1. Paid \in Nat /\ MaxDay \in Nat  BY SubscriptionAssumption
<1>2. n \in Nat /\ l \in Nat /\ Paid <= l /\ MaxDay + Paid <= l
      /\ Len(failed) \in 0 .. MaxFailed /\ day \in 0 .. MaxDay
  BY <1>1 DEF Bounded
<1>3. /\ \A d \in 0 .. MaxDay : d \in 0 .. (l - Paid) /\ d + Paid \in 0 .. l
      /\ \A d \in 0 .. (l - Paid) : d \in 0 .. l /\ d + Paid \in 0 .. l
      /\ 0 \in 0 .. l /\ 0 \in 0 .. n
  BY <1>1, <1>2
<1>4. 0 \in Period  BY <1>1 DEF Period
<1>5. \A s \in Rows(n, l) : BillingDate(s) \in 0 .. l
  BY <1>1, <1>2 DEF Rows, BillingDate
<1>6. QED  BY <1>2, <1>3, <1>4, <1>5, PeriodType, IdleType

\* An upsert of a row within the bounds, by a handler within them.
LEMMA UpsertType ==
    ASSUME SubscriptionInv, NEW p \in Process, NEW n, NEW l, Bounded(n, l),
           proc[p] \in Handlers(n, l), NEW s \in Rows(n, l), NEW place \in Place,
           Upsert(p, s, place)
    PROVE  row' \in Rows(n, l) /\ proc'[p] \in Handlers(n, l)
<1>1. n \in Nat /\ l \in Nat /\ Paid <= l /\ Len(failed) \in 0 .. MaxFailed
  BY BoundFacts
<1>2. Written(s) \in Rows(n, l)  BY <1>1, WrittenType
<1> DEFINE h == [proc[p] EXCEPT !.sub = Written(s)]
<1>3. h \in Handlers(n, l)  BY <1>2 DEF Handlers
<1>4. Takes(p, Moved(h, place))  BY Zenon DEF Upsert, Takes
<1> HIDE DEF h
<1>5. proc'[p] = Moved(h, place)  BY <1>4, Put
<1>6. Moved(h, place) \in Handlers(n, l)  BY <1>1, <1>3, MovedType
<1>7. QED  BY <1>2, <1>5, <1>6 DEF Upsert

LEMMA GotoType ==
    ASSUME SubscriptionInv, NEW p \in Process, NEW n, NEW l, Bounded(n, l),
           proc[p] \in Handlers(n, l), NEW place \in Place, Goto(p, place)
    PROVE  proc'[p] \in Handlers(n, l)
<1>1. n \in Nat /\ l \in Nat /\ Paid <= l  BY BoundFacts
<1>2. Takes(p, Moved(proc[p], place))  BY Zenon DEF Goto, Takes
<1>3. proc'[p] = Moved(proc[p], place)  BY <1>2, Put
<1>4. QED  BY <1>1, <1>3, MovedType

LEMMA DoneType ==
    ASSUME SubscriptionInv, NEW p \in Process, NEW n, NEW l, Bounded(n, l), Done(p)
    PROVE  proc'[p] \in Handlers(n, l)
<1>1. Takes(p, Idle)  BY DEF Done, Takes
<1>2. QED  BY <1>1, Put, BoundFacts

LEMMA CycleType ==
    ASSUME SubscriptionInv, NEW p \in Process, NEW n, NEW l, Bounded(n, l),
           Within(row, config, paid, failed, proc[p], n, l),
           \/ BeginCycle(p) \/ BeginCheck(p) \/ Access(p) \/ Elsewhere(p)
           \/ Renew(p) \/ SyncStatus(p) \/ WriteStatus(p)
    PROVE  Within(row', config', paid', failed', proc'[p], n, l)
<1>1. /\ row \in Rows(n, l) /\ proc[p] \in Handlers(n, l)
      /\ proc[p].sub \in Rows(n, l) /\ proc[p].new \in Rows(n, l) /\ proc[p].next \in After
  BY DEF Within, Handlers
<1>2. After \subseteq Place /\ "sync" \in Place /\ "status" \in Place /\ "renew" \in Place
  BY DEF After, Place
<1>3. UNCHANGED <<config, paid, failed>>
  BY DEF BeginCycle, BeginCheck, Access, Elsewhere, Renew, SyncStatus, WriteStatus, invoices
<1>4. n \in Nat /\ l \in Nat /\ Paid <= l /\ Idle \in Handlers(n, l)  BY BoundFacts
<1>5. ASSUME row' \in Rows(n, l), proc'[p] \in Handlers(n, l)
      PROVE  Within(row', config', paid', failed', proc'[p], n, l)
  BY <1>3, <1>5 DEF Within
<1>6. CASE BeginCycle(p)
  <2> DEFINE h == [Idle EXCEPT !.at = "renew", !.sub = row, !.next = "due"]
  <2>1. Takes(p, h)  BY <1>6 DEF BeginCycle, Takes
  <2>2. h \in Handlers(n, l)  BY <1>1, <1>2, <1>4 DEF Handlers, After
  <2> HIDE DEF h
  <2>3. proc'[p] \in Handlers(n, l)  BY <2>1, <2>2, Put
  <2>4. QED  BY <1>1, <1>5, <1>6, <2>3 DEF BeginCycle
<1>7. ASSUME NEW next \in {"config", "idle"}, row' = row,
             Takes(p, [Idle EXCEPT !.at = "sync", !.sub = row, !.next = next])
      PROVE  Within(row', config', paid', failed', proc'[p], n, l)
  <2> DEFINE h == [Idle EXCEPT !.at = "sync", !.sub = row, !.next = next]
  <2>2. h \in Handlers(n, l)  BY <1>1, <1>2, <1>4 DEF Handlers, After
  <2>3. Takes(p, h)  BY <1>7
  <2> HIDE DEF h
  <2>4. proc'[p] \in Handlers(n, l)  BY <2>2, <2>3, Put
  <2>5. QED  BY <1>1, <1>5, <1>7, <2>4
<1>12. CASE BeginCheck(p)  BY <1>7, <1>12 DEF BeginCheck, Takes
<1>13. CASE Access(p)  BY <1>7, <1>13 DEF Access, Takes
<1>14. CASE Elsewhere(p)
  <2>1. proc'[p] \in Handlers(n, l)  BY <1>14, DoneType DEF Elsewhere
  <2>2. QED  BY <1>1, <1>5, <1>14, <2>1 DEF Elsewhere
<1>8. CASE Renew(p)
  <2>1. CASE DueNow(proc[p].sub) /\ Upsert(p, Scheduled(proc[p].sub), "sync")
    <3>1. Scheduled(proc[p].sub) \in Rows(n, l)  BY <1>1, <2>1, ScheduledType DEF DueNow
    <3>2. QED  BY <1>1, <1>2, <1>5, <2>1, <3>1, UpsertType
  <2>2. CASE Goto(p, "sync") /\ UNCHANGED row
    BY <1>1, <1>2, <1>5, <2>2, GotoType
  <2>3. QED  BY <1>8, <2>1, <2>2 DEF Renew
<1>9. CASE SyncStatus(p)
  <2>1. row' = row  BY <1>9 DEF SyncStatus
  <2>2. CASE Resolved(proc[p].sub) = proc[p].sub.status
    <3> DEFINE h == [proc[p] EXCEPT !.new = proc[p].sub]
    <3>1. Takes(p, Moved(h, proc[p].next))  BY <1>9, <2>2, Zenon DEF SyncStatus, Takes
    <3>2. h \in Handlers(n, l)  BY <1>1 DEF Handlers
    <3> HIDE DEF h
    <3>3. proc'[p] = Moved(h, proc[p].next)  BY <3>1, Put
    <3>4. Moved(h, proc[p].next) \in Handlers(n, l)  BY <1>1, <1>2, <1>4, <3>2, MovedType
    <3>5. QED  BY <1>1, <1>5, <2>1, <3>3, <3>4
  <2>3. CASE Resolved(proc[p].sub) # proc[p].sub.status
    <3> DEFINE s == [proc[p].sub EXCEPT !.status = Resolved(proc[p].sub)]
    <3>1. proc' = [proc EXCEPT ![p].at = "status", ![p].new = s]
      BY <1>9, <2>3, Zenon DEF SyncStatus
    <3>2. Resolved(proc[p].sub) \in {"trial", "active", "restricted"}  BY DEF Resolved
    <3>3. s \in Rows(n, l)  BY <1>1, <3>2 DEF Rows
    <3> HIDE DEF s
    <3> DEFINE h == [proc[p] EXCEPT !.at = "status", !.new = s]
    <3>4. Takes(p, h)  BY <3>1 DEF SubscriptionInv, TypesWithin, Takes
    <3>5. h \in Handlers(n, l)  BY <1>1, <1>2, <3>3 DEF Handlers
    <3> HIDE DEF h
    <3>6. proc'[p] = h  BY <3>4, Put
    <3>7. QED  BY <1>1, <1>5, <2>1, <3>5, <3>6
  <2>4. QED  BY <2>2, <2>3
<1>10. CASE WriteStatus(p)
  <2>1. Upsert(p, proc[p].new, proc[p].next)  BY <1>10 DEF WriteStatus
  <2>2. QED  BY <1>1, <1>2, <1>5, <2>1, UpsertType
<1>11. QED  BY <1>6, <1>8, <1>9, <1>10, <1>12, <1>13, <1>14

LEMMA BillingType ==
    ASSUME SubscriptionInv, NEW p \in Process, NEW n, NEW l, Bounded(n, l),
           Within(row, config, paid, failed, proc[p], n, l),
           \/ CheckDue(p) \/ ApplyScheduled(p) \/ ReadInvoices(p) \/ CreateInvoice(p)
           \/ Extend(p) \/ SyncConfig(p) \/ Checkout(p)
    PROVE  Within(row', config', paid', failed', proc'[p], n, l)
<1>1. /\ row \in Rows(n, l) /\ proc[p] \in Handlers(n, l) /\ paid \subseteq 0 .. l
      /\ failed \in Invoices(l) /\ config \in [plan : Plan, extra : 0 .. n]
      /\ proc[p].sub \in Rows(n, l) /\ proc[p].new \in Rows(n, l) /\ proc[p].next \in After
      /\ proc[p].due \in 0 .. (l - Paid) /\ proc[p].key \in 0 .. l
  BY DEF Within, Handlers
<1>2. After \subseteq Place
      /\ {"config", "cycled", "access", "billing", "key", "fail", "invoice", "extend",
           "checkout", "idle"} \subseteq Place
  BY DEF After, Place
<1>3. /\ n \in Nat /\ l \in Nat /\ Paid <= l /\ Idle \in Handlers(n, l)
      /\ \A d \in 0 .. MaxDay : d \in 0 .. (l - Paid)
      /\ \A d \in 0 .. (l - Paid) : d \in 0 .. l /\ d + Paid \in 0 .. l
      /\ 0 \in Period
      /\ \A s \in Rows(n, l) : BillingDate(s) \in 0 .. l
  BY BoundFacts
<1>4. CASE CheckDue(p)
  <2> DEFINE s == proc[p].sub
             last == IF p = Worker THEN "config" ELSE "cycled"
             h == [proc[p] EXCEPT !.new = s, !.due = BillingDate(s), !.ok = TRUE, !.next = last]
  <2>1. \/ Takes(p, Moved(h, "billing")) /\ BillingDate(s) <= day
        \/ Takes(p, Moved(h, last))
    BY <1>4, Zenon DEF CheckDue, Takes
  <2>2. BillingDate(s) \in 0 .. l  BY <1>1, <1>3
  <2>3. CASE Takes(p, Moved(h, "billing")) /\ BillingDate(s) <= day
    <3>1. day \in 0 .. MaxDay /\ MaxDay \in Nat  BY BoundFacts, SubscriptionAssumption
    <3>2. BillingDate(s) \in 0 .. MaxDay  BY <1>3, <2>2, <2>3, <3>1
    <3>3. BillingDate(s) \in 0 .. (l - Paid)  BY <1>3, <3>2
    <3>8. last \in After  BY DEF After
    <3> HIDE DEF last
    <3>4. h \in Handlers(n, l)  BY <1>1, <3>3, <3>8 DEF Handlers
    <3> HIDE DEF h
    <3>5. proc'[p] = Moved(h, "billing")  BY <2>3, Put
    <3>6. Moved(h, "billing") \in Handlers(n, l)  BY <1>2, <1>3, <3>4, MovedType
    <3>7. QED  BY <1>1, <1>4, <3>5, <3>6 DEF CheckDue, Within, invoices
  <2>4. CASE Takes(p, Moved(h, last))
    <3>6. last \in {"config", "cycled"}  OBVIOUS
    <3>2. h.new = proc[p].sub  BY <1>1 DEF Handlers
    <3> HIDE DEF h, last
    <3>1. Moved(h, last) = [Idle EXCEPT !.at = last, !.new = h.new]
      BY <3>6 DEF Moved
    <3>3. Moved(h, last) \in Handlers(n, l)
      BY <1>1, <1>2, <1>3, <3>1, <3>2, <3>6 DEF Handlers
    <3>4. proc'[p] = Moved(h, last)  BY <2>4, Put
    <3>5. QED  BY <1>1, <1>4, <3>3, <3>4 DEF CheckDue, Within, invoices
  <2>5. QED  BY <2>1, <2>3, <2>4
<1>5. CASE ApplyScheduled(p)
  <2>1. UNCHANGED <<config, paid, failed>>  BY <1>5 DEF ApplyScheduled, invoices
  <2> DEFINE place == IF p = Worker THEN "idle" ELSE IF proc[p].ok THEN "key" ELSE "fail"
  <2>2. place \in Place  BY <1>2
  <2>3. \/ DueNow(proc[p].sub) /\ Upsert(p, Scheduled(proc[p].sub), place)
        \/ Goto(p, place) /\ row' = row
    BY <1>5, Zenon DEF ApplyScheduled
  <2> HIDE DEF place
  <2>4. CASE DueNow(proc[p].sub) /\ Upsert(p, Scheduled(proc[p].sub), place)
    <3>1. Scheduled(proc[p].sub) \in Rows(n, l)  BY <1>1, <2>4, ScheduledType DEF DueNow
    <3>2. row' \in Rows(n, l) /\ proc'[p] \in Handlers(n, l)
      BY <1>1, <2>2, <2>4, <3>1, UpsertType
    <3>3. QED  BY <1>1, <2>1, <3>2 DEF Within
  <2>5. CASE Goto(p, place) /\ row' = row
    <3>1. proc'[p] \in Handlers(n, l)  BY <1>1, <2>2, <2>5, GotoType
    <3>2. QED  BY <1>1, <2>1, <2>5, <3>1 DEF Within
  <2>6. QED  BY <2>3, <2>4, <2>5
<1>6. CASE ReadInvoices(p)
  <2> DEFINE k == IF FailedOpen THEN LastFailed.key ELSE proc[p].due
             f == k \in paid
  <2>1. proc' = [proc EXCEPT ![p].at = "invoice", ![p].key = k, ![p].found = f]
    BY <1>6, Zenon DEF ReadInvoices
  <2>2. k \in 0 .. l
    <3>1. CASE FailedOpen
      <4>1. settled \in Nat /\ Len(failed) \in Nat /\ settled < Len(failed)
        BY <3>1, HandlerFacts DEF FailedOpen
      <4>2. Len(failed) \in 1 .. Len(failed)  BY <4>1
      <4>3. LastFailed \in [key : 0 .. l, due : 0 .. l]
        <5>1. ASSUME NEW S, failed \in Seq(S)  PROVE failed[Len(failed)] \in S
          BY <4>2, <5>1
        <5>2. QED  BY <1>1, <5>1 DEF LastFailed, Invoices
      <4>4. QED  BY <3>1, <4>3
    <3>2. CASE ~FailedOpen  BY <1>1, <1>3, <3>2
    <3>3. QED  BY <3>1, <3>2
  <2>3. f \in BOOLEAN  OBVIOUS
  <2> HIDE DEF k, f
  <2> DEFINE h == [proc[p] EXCEPT !.at = "invoice", !.key = k, !.found = f]
  <2>4. Takes(p, h)  BY <2>1 DEF SubscriptionInv, TypesWithin, Takes
  <2>5. h \in Handlers(n, l)  BY <1>1, <1>2, <2>2, <2>3 DEF Handlers
  <2> HIDE DEF h
  <2>6. proc'[p] = h  BY <2>4, Put
  <2>7. QED  BY <1>1, <1>6, <2>5, <2>6 DEF ReadInvoices, Within, invoices
<1>7. CASE CreateInvoice(p)
  <2>1. UNCHANGED <<row, config, failed>>  BY <1>7 DEF CreateInvoice, invoices
  <2>2. paid' \subseteq 0 .. l
    <3>1. paid' = paid \/ paid' = paid \cup {proc[p].key}
      BY <1>7 DEF CreateInvoice, invoices
    <3>2. QED  BY <1>1, <3>1
  <2>3. Goto(p, "extend") \/ Done(p)  BY <1>7 DEF CreateInvoice
  <2>4. proc'[p] \in Handlers(n, l)  BY <1>1, <1>2, <2>3, GotoType, DoneType
  <2>5. QED  BY <1>1, <2>1, <2>2, <2>4 DEF Within
<1>8. CASE Extend(p)
  <2> DEFINE s == [proc[p].sub EXCEPT !.plan = IF proc[p].sub.sched # Never
                                               THEN proc[p].sub.sched ELSE proc[p].sub.plan,
                                      !.status = "active", !.ends = proc[p].due + Paid,
                                      !.sched = Never, !.eff = 0]
  <2>1. Upsert(p, s, proc[p].next)  BY <1>8, Zenon DEF Extend
  <2>2. proc[p].due + Paid \in 0 .. l  BY <1>1, <1>3
  <2>3. s \in Rows(n, l)  BY <1>1, <1>3, <2>2 DEF Rows
  <2> HIDE DEF s
  <2>4. row' \in Rows(n, l) /\ proc'[p] \in Handlers(n, l)
    BY <1>1, <1>2, <2>1, <2>3, UpsertType
  <2>5. QED  BY <1>1, <1>8, <2>4 DEF Extend, Within, invoices
<1>9. CASE SyncConfig(p)
  <2>1. PICK place \in {"access", "checkout", "idle"} : Goto(p, place)
    BY <1>9, Zenon DEF SyncConfig, AfterConfig
  <2>2. proc'[p] \in Handlers(n, l)  BY <1>1, <1>2, <2>1, GotoType
  <2>3. config' \in [plan : Plan, extra : 0 .. n]  BY <1>1, <1>9, LimitsType DEF SyncConfig
  <2>4. QED  BY <1>1, <1>9, <2>2, <2>3 DEF SyncConfig, Within, invoices
<1>10. CASE Checkout(p)
  <2>1. proc'[p] \in Handlers(n, l)  BY <1>10, DoneType DEF Checkout
  <2>2. QED  BY <1>1, <1>10, <2>1 DEF Checkout, Within
<1>11. QED  BY <1>4, <1>5, <1>6, <1>7, <1>8, <1>9, <1>10

LEMMA OperationType ==
    ASSUME SubscriptionInv, NEW p \in Process, NEW n, NEW l, Bounded(n, l),
           Within(row, config, paid, failed, proc[p], n, l),
           \/ \E plan \in Plan : SchedulePlan(p, plan) \/ ChangePlan(p, plan)
           \/ WarnQuestions(p) \/ PurchaseAddon(p)
    PROVE  Within(row', config', paid', failed', proc'[p], n, l)
<1>1. row \in Rows(n, l) /\ proc[p] \in Handlers(n, l)  BY DEF Within
<1>2. /\ n \in Nat /\ l \in Nat /\ Paid <= l /\ Idle \in Handlers(n, l)
      /\ 0 \in Period /\ PeriodOf(day) + 1 \in Period
      /\ day + Paid \in 0 .. l
  <2>1. day \in 0 .. MaxDay  BY BoundFacts
  <2>2. QED  BY <2>1, BoundFacts
<1>3. "write" \in Place /\ "load" \in Place /\ "config" \in After /\ "idle" \in After
      /\ "first" \in After
  BY DEF Place, After
<1>4. UNCHANGED <<row, config, paid, failed>>
  BY DEF SchedulePlan, ChangePlan, WarnQuestions, PurchaseAddon, Begin, invoices
<1>5. ASSUME proc'[p] \in Handlers(n, l)
      PROVE  Within(row', config', paid', failed', proc'[p], n, l)
  BY <1>4, <1>5 DEF Within
<1>6. ASSUME NEW s \in Rows(n, l), NEW next \in After, Change(p, s, next)
      PROVE  Within(row', config', paid', failed', proc'[p], n, l)
  <2> DEFINE h == [Idle EXCEPT !.at = "write", !.new = s, !.next = next]
  <2>1. Takes(p, h)  BY <1>6 DEF Change, Takes
  <2>2. h \in Handlers(n, l)  BY <1>2, <1>3 DEF Handlers
  <2> HIDE DEF h
  <2>3. proc'[p] = h  BY <2>1, Put
  <2>4. QED  BY <1>5, <2>2, <2>3
<1>7. ASSUME NEW plan \in Plan, SchedulePlan(p, plan)
      PROVE  Within(row', config', paid', failed', proc'[p], n, l)
  <2> DEFINE s == [row EXCEPT !.sched = plan, !.eff = PeriodOf(day) + 1]
  <2>1. s \in Rows(n, l)  BY <1>1, <1>2 DEF Rows
  <2>2. Change(p, s, "config")  BY <1>7 DEF SchedulePlan
  <2> HIDE DEF s
  <2>3. QED  BY <1>3, <1>6, <2>1, <2>2
<1>8. ASSUME NEW plan \in Plan, ChangePlan(p, plan)
      PROVE  Within(row', config', paid', failed', proc'[p], n, l)
  <2> DEFINE s == [row EXCEPT !.plan = plan, !.status = "active",
                              !.ends = IF row.plan = "free" THEN day + Paid ELSE Never,
                              !.sched = Never, !.eff = 0]
             next == IF row.plan = "free" THEN "first" ELSE "config"
  <2>1. s \in Rows(n, l)  BY <1>1, <1>2 DEF Rows
  <2>2. Change(p, s, next)  BY <1>8, Zenon DEF ChangePlan
  <2>3. next \in After  BY <1>3
  <2> HIDE DEF s, next
  <2>4. QED  BY <1>6, <2>1, <2>2, <2>3
<1>9. CASE WarnQuestions(p)  BY <1>1, <1>3, <1>6, <1>9 DEF WarnQuestions
<1>10. CASE PurchaseAddon(p)
  <2> DEFINE h == [Idle EXCEPT !.at = "load"]
  <2>1. Takes(p, h)  BY <1>10 DEF PurchaseAddon, Takes
  <2>2. h \in Handlers(n, l)  BY <1>2, <1>3 DEF Handlers
  <2> HIDE DEF h
  <2>3. proc'[p] = h  BY <2>1, Put
  <2>4. QED  BY <1>5, <2>2, <2>3
<1>11. QED  BY <1>7, <1>8, <1>9, <1>10

LEMMA EventType ==
    ASSUME SubscriptionInv, NEW p \in Process, NEW n, NEW l, Bounded(n, l),
           Within(row, config, paid, failed, proc[p], n, l),
           \/ LoadForEvent(p) \/ WriteRow(p) \/ RecordFailure(p)
           \/ (\E e \in Event : RecordEvent(p, e)) \/ Crash(p)
    PROVE  Within(row', config', paid', failed', proc'[p], n, l)
<1>1. /\ row \in Rows(n, l) /\ proc[p] \in Handlers(n, l)
      /\ failed \in Invoices(l)
      /\ proc[p].new \in Rows(n, l) /\ proc[p].next \in After
      /\ proc[p].due \in 0 .. (l - Paid)
  BY DEF Within, Handlers
<1>2. /\ n \in Nat /\ l \in Nat /\ Paid <= l /\ Idle \in Handlers(n, l)
      /\ 0 \in Period
      /\ \A d \in 0 .. (l - Paid) : d \in 0 .. l
      /\ day + Paid \in 0 .. l
  <2>1. day \in 0 .. MaxDay  BY BoundFacts
  <2>2. QED  BY <2>1, BoundFacts
<1>3. After \subseteq Place /\ "write" \in Place /\ "load" \in Place /\ "config" \in After
  BY DEF Place, After
<1>4. CASE LoadForEvent(p)
  <2>1. UNCHANGED <<row, config, paid, failed>>  BY <1>4 DEF LoadForEvent, invoices
  <2>2. CASE Done(p)
    <3>1. proc'[p] \in Handlers(n, l)  BY <2>2, DoneType
    <3>2. QED  BY <2>1, <3>1 DEF Within
  <2>3. CASE ~Done(p)
    <3> DEFINE s == [row EXCEPT !.plan = "high", !.status = "active", !.ends = day + Paid,
                                !.sched = Never, !.eff = 0]
               h == [proc[p] EXCEPT !.at = "write", !.next = "config", !.new = s]
    <3>1. Takes(p, h)  BY <1>4, <2>3, Zenon DEF LoadForEvent, Takes
    <3>2. s \in Rows(n, l)  BY <1>1, <1>2 DEF Rows, Plan
    <3> HIDE DEF s
    <3>3. h \in Handlers(n, l)  BY <1>1, <1>3, <3>2 DEF Handlers
    <3> HIDE DEF h
    <3>4. proc'[p] = h  BY <3>1, Put
    <3>5. QED  BY <2>1, <3>3, <3>4 DEF Within
  <2>4. QED  BY <2>2, <2>3
<1>5. CASE WriteRow(p)
  <2>1. UNCHANGED <<config, paid, failed>>  BY <1>5 DEF WriteRow, invoices
  <2>2. Upsert(p, proc[p].new, proc[p].next)  BY <1>5 DEF WriteRow
  <2>3. row' \in Rows(n, l) /\ proc'[p] \in Handlers(n, l)
    BY <1>1, <1>3, <2>2, UpsertType
  <2>4. QED  BY <2>1, <2>3 DEF Within
<1>6. CASE RecordFailure(p)
  <2>1. UNCHANGED <<row, config, paid>>  BY <1>6 DEF RecordFailure
  <2>2. proc'[p] \in Handlers(n, l)  BY <1>6, DoneType DEF RecordFailure
  <2>3. failed' \in Invoices(l)
    <3> DEFINE d == IF FailedOpen THEN LastFailed.due ELSE proc[p].due
               x == [key |-> proc[p].due, due |-> d]
    <3>1. failed' = failed \/ failed' = Append(failed, x)  BY <1>6 DEF RecordFailure
    <3>2. d \in 0 .. l
      <4>1. CASE FailedOpen
        <5>1. settled \in Nat /\ Len(failed) \in Nat /\ settled < Len(failed)
          BY <4>1, HandlerFacts DEF FailedOpen
        <5>2. Len(failed) \in 1 .. Len(failed)  BY <5>1
        <5>3. ASSUME NEW S, failed \in Seq(S)  PROVE failed[Len(failed)] \in S
          BY <5>2, <5>3
        <5>4. LastFailed \in [key : 0 .. l, due : 0 .. l]
          BY <1>1, <5>3 DEF LastFailed, Invoices
        <5>5. QED  BY <4>1, <5>4
      <4>2. CASE ~FailedOpen  BY <1>1, <1>2, <4>2
      <4>3. QED  BY <4>1, <4>2
    <3>3. x \in [key : 0 .. l, due : 0 .. l]  BY <1>1, <1>2, <3>2
    <3> HIDE DEF x
    <3>4. ASSUME NEW S, failed \in Seq(S), x \in S  PROVE Append(failed, x) \in Seq(S)
      BY <3>4
    <3>5. Append(failed, x) \in Invoices(l)  BY <1>1, <3>3, <3>4 DEF Invoices
    <3>6. QED  BY <1>1, <3>1, <3>5
  <2>4. QED  BY <2>1, <2>2, <2>3 DEF Within
<1>7. ASSUME NEW e \in Event, RecordEvent(p, e)
      PROVE  Within(row', config', paid', failed', proc'[p], n, l)
  <2>1. UNCHANGED <<row, config, paid, failed>>  BY <1>7 DEF RecordEvent, invoices
  <2> DEFINE h == [Idle EXCEPT !.at = "load", !.event = e]
  <2>2. Takes(p, h)  BY <1>7 DEF RecordEvent, Takes
  <2>3. h \in Handlers(n, l)  BY <1>2, <1>3 DEF Handlers
  <2> HIDE DEF h
  <2>4. proc'[p] = h  BY <2>2, Put
  <2>5. QED  BY <2>1, <2>3, <2>4 DEF Within
<1>8. CASE Crash(p)
  <2>1. UNCHANGED <<row, config, paid, failed>>  BY <1>8 DEF Crash, invoices
  <2>2. proc'[p] \in Handlers(n, l)  BY <1>8, DoneType DEF Crash
  <2>3. QED  BY <2>1, <2>2 DEF Within
<1>9. QED  BY <1>4, <1>5, <1>6, <1>7, <1>8

\* A settlement takes the billing date of the row, which leaves room for one
\* more period because the operation has just been counted.
LEMMA SettleType ==
    ASSUME SubscriptionInv, NEW p \in Process, NEW n, NEW l, Bounded(n, l),
           Within(row, config, paid, failed, proc[p], n, l),
           row \in Rows(n, l - Paid), Paid + Paid <= l, SettleSubscription(p)
    PROVE  Within(row', config', paid', failed', proc'[p], n, l)
<1>1. UNCHANGED <<row, config, paid, failed>>  BY DEF SettleSubscription, Begin, invoices
<1>2. PICK ok \in BOOLEAN :
        Takes(p, [Idle EXCEPT !.at = "billing", !.sub = row, !.due = BillingDate(row), !.ok = ok])
  BY DEF SettleSubscription, Takes
<1>3. BillingDate(row) \in 0 .. (l - Paid)
  <2>1. Paid \in Nat /\ l \in Nat  BY SubscriptionAssumption DEF Bounded
  <2>2. row.ends \in (0 .. (l - Paid)) \cup {Never}  BY DEF Rows
  <2>3. Paid \in 0 .. (l - Paid)  BY <2>1
  <2>4. QED  BY <2>2, <2>3 DEF BillingDate
<1>4. Idle \in Handlers(n, l) /\ row \in Rows(n, l) /\ "billing" \in Place
  BY BoundFacts DEF Within, Place
<1> DEFINE h == [Idle EXCEPT !.at = "billing", !.sub = row, !.due = BillingDate(row), !.ok = ok]
<1>5. h \in Handlers(n, l)  BY <1>3, <1>4 DEF Handlers
<1>6. Takes(p, h)  BY <1>2
<1> HIDE DEF h
<1>7. proc'[p] = h  BY <1>6, Put
<1>8. QED  BY <1>1, <1>5, <1>7 DEF Within

\* The row to be written shows the add-on that is no longer to be loaded.
LEMMA AddonType ==
    ASSUME SubscriptionInv, NEW p \in Process, NEW n, NEW l, Bounded(n, l),
           Within(row, config, paid, failed, proc[p], n, l),
           row \in Rows(n - 1, l), LoadForAddon(p)
    PROVE  Within(row', config', paid', failed', proc'[p], n, l)
<1>1. UNCHANGED <<row, config, paid, failed>>  BY DEF LoadForAddon, invoices
<1> DEFINE s == [row EXCEPT !.extra = row.extra + 1]
           h == [Idle EXCEPT !.at = "write", !.new = s, !.next = "config"]
<1>2. Takes(p, h)  BY DEF LoadForAddon, Change, Takes
<1>3. row.extra \in 0 .. (n - 1) /\ n \in Nat  BY DEF Rows, Bounded
<1>4. row.extra + 1 \in 0 .. n  BY <1>3
<1>5. s \in Rows(n, l)  BY <1>4 DEF Rows
<1> HIDE DEF s
<1>6. Idle \in Handlers(n, l) /\ "write" \in Place /\ "config" \in After
  BY BoundFacts DEF Place, After
<1>7. h \in Handlers(n, l)  BY <1>5, <1>6 DEF Handlers
<1> HIDE DEF h
<1>8. proc'[p] = h  BY <1>2, Put
<1>9. QED  BY <1>1, <1>7, <1>8 DEF Within

-----------------------------------------------------------------------------
LEMMA InitSubscription == Init => SubscriptionInv
<1> SUFFICES ASSUME Init PROVE SubscriptionInv  OBVIOUS
<1>1. ops = 0 /\ MaxOps \in Nat /\ 0 \in 0 .. MaxOps  BY SubscriptionAssumption DEF Init
<1>2. proc = [p \in Process |-> Idle] /\ failed = <<>>  BY DEF Init
<1>3. \A p \in Process : proc[p].at = "idle" /\ proc[p].event = Never  BY <1>2 DEF Idle
<1>4. Buying = {} /\ Failing = {}  BY <1>3 DEF Buying, Failing
<1>5. Cardinality(Buying) = 0 /\ Cardinality(Failing) = 0  BY <1>4, FS_EmptySet
<1>6. Bought = 0  BY <1>1, <1>5 DEF Bought
<1>7. Latest \in Nat /\ MaxDay + Paid <= Latest
  BY <1>1, DateBounds DEF Latest
<1>8. Paid \in Nat /\ MaxDay \in Nat \ {0} /\ Paid <= Latest
  BY <1>7, SubscriptionAssumption
<1>9. FirstRow \in Rows(0, Latest) /\ Idle \in Handlers(0, Latest)  BY <1>7, <1>8, IdleType
<1>10. TypesWithin
  <2>1. Limits(FirstRow) \in [plan : Plan, extra : 0 .. 0]  BY <1>9, LimitsType
  <2>2. failed \in Invoices(Latest)  BY <1>2 DEF Invoices
  <2>3. QED  BY <1>2, <1>6, <1>9, <2>1, <2>2 DEF Init, TypesWithin
<1>11. CountsKept
  <2>1. Len(failed) = 0  BY <1>2
  <2>2. QED  BY <1>1, <1>5, <1>8, <2>1, SubscriptionAssumption DEF Init, CountsKept
<1>12. EventsOnce  BY <1>3 DEF Init, EventsOnce
<1>13. QED  BY <1>10, <1>11, <1>12 DEF SubscriptionInv

\* A step of a handler.
HandlerStep(p) ==
    \/ BeginCycle(p) \/ BeginCheck(p)
    \/ \E plan \in Plan : SchedulePlan(p, plan) \/ ChangePlan(p, plan)
    \/ WarnQuestions(p) \/ PurchaseAddon(p) \/ SettleSubscription(p)
    \/ \E e \in Event : RecordEvent(p, e)
    \/ Continue(p) \/ Crash(p)

LEMMA StepShape ==
    ASSUME SubscriptionInv, NEW p \in Process, HandlerStep(p)
    PROVE  Shape(p)
  BY CycleShape, BillingShape, OperationShape, EventShapes, Zenon DEF HandlerStep, Continue

LEMMA StepTypes ==
    ASSUME SubscriptionInv, NEW p \in Process, HandlerStep(p)
    PROVE  TypesWithin'
<1>1. Shape(p)  BY StepShape
<1>2. /\ Bought' \in Nat /\ Bought <= Bought'
      /\ p \in Buying /\ p \notin Buying' => Bought + 1 <= Bought'
      /\ Latest' \in Nat /\ Latest <= Latest'
      /\ ops' = ops + 1 => Latest' = Latest + Paid
  BY <1>1, CountStep DEF Shape
<1>3. Bought \in Nat /\ Latest \in Nat /\ MaxDay + Paid <= Latest  BY Bounds
<1> DEFINE n == Bought'
           l == Latest'
<1>4. /\ Rows(Bought, Latest) \subseteq Rows(n, l)
      /\ Handlers(Bought, Latest) \subseteq Handlers(n, l)
      /\ Invoices(Latest) \subseteq Invoices(l)
  BY <1>2, <1>3, Wider
<1>5. /\ row \in Rows(Bought, Latest) /\ config \in [plan : Plan, extra : 0 .. Bought]
      /\ paid \subseteq 0 .. Latest /\ failed \in Invoices(Latest)
      /\ proc \in [Process -> Handlers(Bought, Latest)]
  BY DEF SubscriptionInv, TypesWithin
<1>6. 0 .. Latest \subseteq 0 .. l /\ 0 .. Bought \subseteq 0 .. n  BY <1>2, <1>3
<1>7. config \in [plan : Plan, extra : 0 .. n]  BY <1>5, <1>6
<1>8. Within(row, config, paid, failed, proc[p], n, l)
  BY <1>4, <1>5, <1>6, <1>7 DEF Within
<1>9. Paid \in Nat /\ MaxDay \in Nat  BY SubscriptionAssumption
<1>10. Bounded(n, l)
  <2>1. MaxDay + Paid <= l  BY <1>2, <1>3, <1>9
  <2>2. day \in 0 .. MaxDay  BY DEF SubscriptionInv, CountsKept
  <2>3. QED  BY <1>2, <2>1, <2>2, CountFacts DEF Bounded
<1> HIDE DEF n, l
<1>11. Within(row', config', paid', failed', proc'[p], n, l)
  <2>1. CASE \/ BeginCycle(p) \/ BeginCheck(p) \/ Access(p) \/ Elsewhere(p)
             \/ Renew(p) \/ SyncStatus(p) \/ WriteStatus(p)
    BY <1>8, <1>10, <2>1, CycleType
  <2>2. CASE \/ CheckDue(p) \/ ApplyScheduled(p) \/ ReadInvoices(p) \/ CreateInvoice(p)
             \/ Extend(p) \/ SyncConfig(p) \/ Checkout(p)
    BY <1>8, <1>10, <2>2, BillingType
  <2>3. CASE \/ \E plan \in Plan : SchedulePlan(p, plan) \/ ChangePlan(p, plan)
             \/ WarnQuestions(p) \/ PurchaseAddon(p)
    BY <1>8, <1>10, <2>3, OperationType
  <2>4. CASE \/ LoadForEvent(p) \/ WriteRow(p) \/ RecordFailure(p)
             \/ (\E e \in Event : RecordEvent(p, e)) \/ Crash(p)
    BY <1>8, <1>10, <2>4, EventType
  <2>5. CASE SettleSubscription(p)
    <3>1. ops' = ops + 1  BY <2>5 DEF SettleSubscription, Begin
    <3>2. l = Latest + Paid  BY <1>2, <3>1 DEF l
    <3>3. l - Paid = Latest /\ Latest <= Latest  BY <1>3, <1>9, <3>2
    <3>4. Rows(Bought, Latest) \subseteq Rows(n, Latest)  BY <1>2, <1>3, Wider DEF n
    <3>5. row \in Rows(n, l - Paid)  BY <1>5, <3>3, <3>4
    <3>6. Paid + Paid <= l  BY <1>3, <1>9, <3>2
    <3>7. QED  BY <1>8, <1>10, <2>5, <3>5, <3>6, SettleType
  <2>6. CASE LoadForAddon(p)
    <3>1. p \in Buying  BY <2>6 DEF LoadForAddon, Buying
    <3>2. p \notin Buying'
      <4>1. proc[p].at = "load"  BY <2>6 DEF LoadForAddon
      <4>2. proc'[p].at # "load"  BY <1>1, <4>1 DEF Shape, CountShape
      <4>3. QED  BY <4>2 DEF Buying
    <3>3. Bought <= n - 1 /\ n - 1 \in Int
      <4>1. Bought + 1 <= n /\ n \in Nat  BY <1>2, <3>1, <3>2 DEF n
      <4>2. \A x \in Nat : Bought + 1 <= x => Bought <= x - 1 /\ x - 1 \in Int  BY <1>3
      <4>3. QED  BY <4>1, <4>2
    <3>4. Rows(Bought, Latest) \subseteq Rows(n - 1, l)  BY <1>2, <1>3, <3>3, Wider DEF l
    <3>5. row \in Rows(n - 1, l)  BY <1>5, <3>4
    <3>6. QED  BY <1>8, <1>10, <2>6, <3>5, AddonType
  <2>7. QED  BY <2>1, <2>2, <2>3, <2>4, <2>5, <2>6, Zenon DEF HandlerStep, Continue
<1>12. proc' \in [Process -> Handlers(n, l)]
  <2>1. proc' = [q \in Process |-> IF q = p THEN proc'[p] ELSE proc[q]]
    BY <1>1 DEF Shape, CountShape, Others
  <2>2. proc'[p] \in Handlers(n, l)  BY <1>11 DEF Within
  <2>3. \A q \in Process : proc[q] \in Handlers(n, l)  BY <1>4, <1>5
  <2>4. \A q \in Process : (IF q = p THEN proc'[p] ELSE proc[q]) \in Handlers(n, l)
    BY <2>2, <2>3
  <2>5. QED  BY <2>1, <2>4
<1>13. QED  BY <1>11, <1>12 DEF TypesWithin, Within, n, l

LEMMA StepSubscription == SubscriptionInv /\ [Next]_vars => SubscriptionInv'
<1> SUFFICES ASSUME SubscriptionInv, [Next]_vars  PROVE SubscriptionInv'  OBVIOUS
<1>1. ASSUME NEW p \in Process, HandlerStep(p)  PROVE SubscriptionInv'
  <2>1. Shape(p)  BY <1>1, StepShape
  <2>2. TypesWithin'  BY <1>1, StepTypes
  <2>3. EventsOnce'  BY <2>1, EventStep
  <2>4. Len(failed') + Cardinality(Failing') <= MaxFailed  BY <2>1, CountStep DEF Shape
  <2>5. /\ settled' \in 0 .. MaxFailed /\ ops' \in 0 .. MaxOps /\ crashes' \in 0 .. MaxCrashes
        /\ day' = day /\ active' \in BOOLEAN
    BY <2>1 DEF Shape, CountShape
  <2>6. CountsKept'  BY <2>4, <2>5 DEF CountsKept, SubscriptionInv
  <2>7. QED  BY <2>2, <2>3, <2>6 DEF SubscriptionInv
<1>2. ASSUME UNCHANGED <<active, row, config, paid, failed, settled, event, ops, crashes, proc>>,
             day' \in 0 .. MaxDay
      PROVE  SubscriptionInv'
  <2>1. Failing' = Failing /\ Buying' = Buying  BY <1>2 DEF Failing, Buying
  <2>2. Bought' = Bought /\ Latest' = Latest  BY <1>2, <2>1 DEF Bought, Latest
  <2>3. TypesWithin'  BY <1>2, <2>2 DEF SubscriptionInv, TypesWithin
  <2>4. CountsKept'  BY <1>2, <2>1 DEF SubscriptionInv, CountsKept
  <2>5. EventsOnce'  BY <1>2 DEF SubscriptionInv, EventsOnce
  <2>6. QED  BY <2>3, <2>4, <2>5 DEF SubscriptionInv
<1>3. CASE Midnight
  <2>1. day' \in 0 .. MaxDay
    BY <1>3, SubscriptionAssumption DEF Midnight, SubscriptionInv, CountsKept
  <2>2. QED  BY <1>2, <1>3, <2>1 DEF Midnight, invoices, counts
<1>4. CASE UNCHANGED vars
  <2>1. day' \in 0 .. MaxDay  BY <1>4 DEF SubscriptionInv, CountsKept, vars
  <2>2. QED  BY <1>2, <1>4, <2>1 DEF vars
<1>5. QED  BY <1>1, <1>3, <1>4, Zenon DEF Next, HandlerStep

\* The subscription, the invoices and the handlers keep their types: no billing
\* date moves by more than a period per operation, no row shows more add-ons
\* than were bought, and no more payments fail than the bound admits.
THEOREM TypeCorrect == Spec => []TypeOK
<1>1. Spec => []SubscriptionInv
  BY InitSubscription, StepSubscription, PTL DEF Spec
<1>2. SubscriptionInv => TypeOK
  <2> SUFFICES ASSUME SubscriptionInv PROVE TypeOK  OBVIOUS
  <2>1. Bought \in Nat /\ Bought <= MaxOps /\ Latest \in Nat /\ Latest <= Last  BY Bounds
  <2>2. /\ Rows(Bought, Latest) \subseteq Row
        /\ Handlers(Bought, Latest) \subseteq Handler
        /\ Invoices(Latest) \subseteq Seq([key : Date, due : Date])
        /\ 0 .. Latest \subseteq Date /\ 0 .. Bought \subseteq 0 .. MaxOps
    <3>1. Bought \in Int /\ Latest \in Int  BY <2>1
    <3>2. QED  BY <2>1, <3>1, WithinTypes, Zenon
  <2>3. /\ row \in Row /\ config \in [plan : Plan, extra : 0 .. MaxOps] /\ paid \subseteq Date
        /\ failed \in Seq([key : Date, due : Date]) /\ proc \in [Process -> Handler]
    BY <2>2 DEF SubscriptionInv, TypesWithin
  <2>4. event \in [Event -> {Never} \cup Nat]  BY DEF SubscriptionInv, EventsOnce
  <2>5. QED  BY <2>3, <2>4 DEF TypeOK, SubscriptionInv, CountsKept
<1>3. QED  BY <1>1, <1>2, PTL

\* A payment event is applied at most once, however often and to however many
\* handlers it is delivered, and whoever dies meanwhile: the one that recorded
\* it first is the only one that ever has it in its hands
\* (record_payment_event_once, apply_payment_event).
THEOREM AppliedOnce == Spec => []EventAppliedOnce
<1>1. Spec => []SubscriptionInv
  BY InitSubscription, StepSubscription, PTL DEF Spec
<1>2. SubscriptionInv => EventAppliedOnce
  BY DEF SubscriptionInv, EventsOnce, EventAppliedOnce
<1>3. QED  BY <1>1, <1>2, PTL
=============================================================================
