-------------------------- MODULE ProvisioningProofs --------------------------
(***************************************************************************)
(* Safety of the signup, for any number of forms, requests and candidates  *)
(* for a slug, and any failed calls and crashes. Away from spoiled slugs a *)
(* slug has one request that works on it, so its steps can be followed one *)
(* by one, forth and back.                                                 *)
(***************************************************************************)
EXTENDS Provisioning, TLAPS

-----------------------------------------------------------------------------
(* The inductive invariant.                                                *)

\* What k steps of provision leave under a slug, and what they plan to take back.
Built(k, s) ==
    [schema |-> k >= 1, owner |-> IF k >= 3 THEN s ELSE None, tenant |-> k >= 2,
     active |-> k >= 7, actor |-> IF k >= 4 THEN s ELSE None, config |-> k >= 5,
     domain |-> k >= 6]
Planned(k) ==
    {part \in Part : \/ part = "schema" /\ k >= 1
                     \/ part = "tenant" /\ k >= 2
                     \/ part = "actor" /\ k >= 4
                     \/ part = "config" /\ k >= 5
                     \/ part = "domain" /\ k >= 6}

Finished(s) == Built(7, s)

\* Request r has done k steps.
After(r, w, k) ==
    /\ w = Built(k, r.session)
    /\ r.plan = Planned(k) /\ r.prev = None /\ r.held = (k >= 2)

\* What is not in the plan is not there.
Undoable(r, w) ==
    /\ "schema" \notin r.plan => ~w.schema /\ w.owner = None
    /\ "tenant" \notin r.plan =>
         /\ ~w.tenant /\ ~w.active /\ ~w.config /\ ~w.domain
         /\ w.actor = None

\* What request r finds under its slug, by the place it is at.
SiteAt(r, w) ==
    /\ r.at \in {"find", "failed"} => w = Nothing \/ w = Finished(r.session)
    /\ r.at = "schema" => After(r, w, 0)
    /\ r.at = "tenant" => After(r, w, 1)
    /\ r.at = "owner" => After(r, w, 2)
    /\ r.at = "actor" => After(r, w, 3)
    /\ r.at = "config" => After(r, w, 4)
    /\ r.at = "domain" => After(r, w, 5)
    /\ r.at = "activate" => After(r, w, 6)
    /\ r.at = "validate" => After(r, w, 7)
    /\ r.at \in {"load", "notify", "complete"} => w = Finished(r.session)
    /\ r.at = "undo" => Undoable(r, w)
    /\ r.at = "forget" => w = Nothing

\* A request that has built nothing has nothing to take back.
Fresh(r) ==
    r.at \in {"reserved", "candidate", "insert", "again", "find"} =>
        r.plan = {} /\ r.prev = None /\ ~r.held

FreshOK == \A q \in Request : Fresh(try[q])

\* The unique constraint.
SlugsUnique ==
    \A s, t \in Session : row[s].slug \in Slug /\ row[s].slug = row[t].slug => s = t

\* A request works on its session's slug, unless that was taken beside it.
OwnSlug ==
    \A q \in Request : HasSlug(q) =>
        row[try[q].session].slug \in {None, try[q].slug} \cup spoiled

\* On other than spoiled slugs it holds the row, is the only request of its
\* session, and finds what it has built.
Alone(q) ==
    /\ row[try[q].session].slug = try[q].slug
    /\ \A p \in Request : HasSlug(p) /\ try[p].session = try[q].session => p = q
    /\ SiteAt(try[q], site[try[q].slug])
    /\ try[q].at \in Building \cup {"undo"} => ~row[try[q].session].done

WorkAlone == \A q \in Request : HasSlug(q) /\ try[q].slug \notin spoiled => Alone(q)

\* Nobody works on the slug: it is empty, or the tenant of the session that holds it.
Resting ==
    \A g \in Slug \ spoiled :
        Working(g) = {} =>
            \/ site[g] = Nothing
            \/ \E s \in Session : row[s].slug = g /\ site[g] = Finished(s)

ServedFinished ==
    \A s \in Session :
        row[s].slug \in Slug \ spoiled /\ row[s].done => site[row[s].slug] = Finished(s)

ProvisioningInv ==
    /\ TypeOK /\ FreshOK /\ SlugsUnique /\ OwnSlug /\ WorkAlone /\ Resting
    /\ ServedFinished

-----------------------------------------------------------------------------
(* What the invariant says of a row, of a request and of two requests.     *)

LEMMA SlugNotNone == None \notin Slug /\ None \notin Session
  BY ProvisioningAssumption DEF Slug

LEMMA RowFacts ==
    ASSUME TypeOK, NEW s \in Session
    PROVE  /\ row[s] = NoRow \/ row[s] \in RowState
           /\ row[s].slug \in Slug \cup {None}
           /\ row[s] = NoRow <=> row[s].slug = None
           /\ row[s].slug \in Slug => row[s].done \in BOOLEAN
  BY SlugNotNone DEF TypeOK, RowState, NoRow

LEMMA RequestFacts ==
    ASSUME TypeOK, NEW q \in Request
    PROVE  /\ try[q] = Idle \/ try[q] \in RequestState
           /\ HasSlug(q) => try[q] \in RequestState
           /\ try[q].at # "idle" => try[q] \in RequestState
           /\ HasSlug(q) => try[q].slug \in Slug /\ try[q].session \in Session
  BY DEF TypeOK, HasSlug, Idle, RequestState

\* Only one request works on a slug that is not spoiled.
LEMMA OneWorks ==
    ASSUME TypeOK, SlugsUnique, WorkAlone, NEW p \in Request, NEW q \in Request,
           HasSlug(p), HasSlug(q), try[p].slug = try[q].slug, try[p].slug \notin spoiled
    PROVE  p = q
<1>1. Alone(p) /\ Alone(q)  BY DEF WorkAlone
<1>2. try[p].session \in Session /\ try[q].session \in Session /\ try[p].slug \in Slug
  BY RequestFacts
<1>3. try[p].session = try[q].session  BY <1>1, <1>2 DEF Alone, SlugsUnique
<1>4. QED  BY <1>1, <1>3 DEF Alone

-----------------------------------------------------------------------------
(* The kinds of steps. Everything but the types is kept by a request that  *)
(* has no slug, ...                                                        *)

Rest == SlugsUnique /\ OwnSlug /\ WorkAlone /\ Resting /\ ServedFinished

LEMMA OutsideStep ==
    ASSUME TypeOK, Rest, NEW q \in Request, ~HasSlug(q), NEW r, try' = [try EXCEPT ![q] = r],
           r.at \in {"idle", "reserved", "candidate", "insert", "again"},
           UNCHANGED <<row, site, spoiled>>
    PROVE  Rest'
<1> USE DEF Rest
<1>1. /\ try'[q] = r /\ \A p \in Request \ {q} : try'[p] = try[p]
  BY DEF TypeOK
<1>2. \A p \in Request : HasSlug(p)' <=> HasSlug(p)  BY <1>1 DEF HasSlug
<1>3. \A p \in Request : HasSlug(p)' => p # q /\ try'[p] = try[p]  BY <1>1, <1>2
<1>4. \A g : Working(g)' = Working(g)  BY <1>2, <1>3 DEF Working
<1>5. OwnSlug'  BY <1>2, <1>3 DEF OwnSlug
<1>6. WorkAlone'
  <2> SUFFICES ASSUME NEW p \in Request, HasSlug(p)', try'[p].slug \notin spoiled
               PROVE  Alone(p)'
    BY DEF WorkAlone
  <2>1. Alone(p)  BY <1>2, <1>3 DEF WorkAlone
  <2>2. QED  BY <1>2, <1>3, <2>1 DEF Alone
<1>7. Resting'  BY <1>4 DEF Resting
<1>8. SlugsUnique' /\ ServedFinished'  BY DEF SlugsUnique, ServedFinished
<1>9. QED  BY <1>5, <1>6, <1>7, <1>8

\* ... by one that works on under its slug, ...
LEMMA WorkStep ==
    ASSUME TypeOK, Rest, NEW q \in Request, NEW g, HasSlug(q), g = try[q].slug,
           UNCHANGED row, spoiled \subseteq spoiled',
           \A h \in Slug \ {g} : site'[h] = site[h],
           \A p \in Request \ {q} :
             /\ try'[p].at = try[p].at /\ (HasSlug(p) => try'[p].session = try[p].session)
             /\ HasSlug(p) => try'[p].slug = try[p].slug
             /\ p \notin Working(g) => try'[p] = try[p],
           HasSlug(q)', try'[q].session = try[q].session, try'[q].slug = try[q].slug,
           g \notin spoiled' =>
             /\ SiteAt(try'[q], site'[g])
             /\ try'[q].at \in Building \cup {"undo"} => ~row[try[q].session].done
             /\ row[try[q].session].done => site'[g] = Finished(try[q].session)
    PROVE  Rest'
<1> USE DEF Rest
<1>1. \A p \in Request : HasSlug(p)' <=> HasSlug(p)  BY DEF HasSlug
<1>2. \A p \in Request : HasSlug(p) =>
        try'[p].session = try[p].session /\ try'[p].slug = try[p].slug
  OBVIOUS
<1>3. \A h : Working(h)' = Working(h)  BY <1>1, <1>2 DEF Working
<1>4. g \in Slug /\ try[q].session \in Session  BY RequestFacts
<1>5. OwnSlug'  BY <1>1, <1>2 DEF OwnSlug
<1>6. WorkAlone'
  <2> SUFFICES ASSUME NEW p \in Request, HasSlug(p)', try'[p].slug \notin spoiled'
               PROVE  Alone(p)'
    BY DEF WorkAlone
  <2>1. /\ HasSlug(p) /\ try'[p].slug = try[p].slug /\ try'[p].session = try[p].session
        /\ try[p].slug \notin spoiled /\ try[p].slug \in Slug
    BY <1>1, <1>2, RequestFacts
  <2>2. Alone(p)  BY <2>1 DEF WorkAlone
  <2>3. \A x \in Request : HasSlug(x)' /\ try'[x].session = try'[p].session => x = p
    BY <1>1, <1>2, <2>1, <2>2 DEF Alone
  <2>4. CASE p = q  BY <2>1, <2>2, <2>3, <2>4 DEF Alone
  <2>5. CASE p # q
    <3>1. try[p].slug # g  BY <2>1, <2>5, OneWorks
    <3>2. try'[p] = try[p] /\ site'[try[p].slug] = site[try[p].slug]
      BY <2>1, <2>5, <3>1 DEF Working
    <3>3. QED  BY <2>1, <2>2, <2>3, <3>2 DEF Alone
  <2>6. QED  BY <2>4, <2>5
<1>7. Resting'
  <2> SUFFICES ASSUME NEW h \in Slug \ spoiled', Working(h)' = {}
               PROVE  \/ site'[h] = Nothing
                      \/ \E s \in Session : row[s].slug = h /\ site'[h] = Finished(s)
    BY DEF Resting
  <2>1. h # g  BY <1>3 DEF Working
  <2>2. QED  BY <1>3, <2>1 DEF Resting
<1>8. ServedFinished'
  <2> SUFFICES ASSUME NEW s \in Session, row[s].slug \in Slug \ spoiled', row[s].done
               PROVE  site'[row[s].slug] = Finished(s)
    BY DEF ServedFinished
  <2>1. site[row[s].slug] = Finished(s)  BY DEF ServedFinished
  <2>2. CASE row[s].slug # g  BY <2>1, <2>2
  <2>3. CASE row[s].slug = g
    <3>1. Alone(q)  BY <2>3 DEF WorkAlone
    <3>2. s = try[q].session  BY <1>4, <2>3, <3>1 DEF Alone, SlugsUnique
    <3>3. QED  BY <2>3, <3>2
  <2>4. QED  BY <2>2, <2>3
<1>9. SlugsUnique'  BY DEF SlugsUnique
<1>10. QED  BY <1>5, <1>6, <1>7, <1>8, <1>9

\* ... by one that leaves its slug as it is, whatever becomes of its row, ...
LEMMA LeaveStep ==
    ASSUME TypeOK, Rest, NEW q \in Request, NEW g, NEW s, HasSlug(q),
           g = try[q].slug, s = try[q].session,
           try' = [try EXCEPT ![q] = Idle], site' = site, spoiled \subseteq spoiled',
           \/ row' = row
           \/ /\ row[s] # NoRow /\ row' = [row EXCEPT ![s].done = TRUE]
              /\ g \notin spoiled => site[g] = Finished(s)
           \/ /\ row' = [row EXCEPT ![s] = NoRow]
              /\ g \notin spoiled => site[g] = Nothing,
           g \notin spoiled' => site[g] = Nothing \/ site[g] = Finished(s)
    PROVE  Rest'
<1> USE DEF Rest
<1>1. /\ try'[q] = Idle /\ \A p \in Request \ {q} : try'[p] = try[p]
      /\ g \in Slug /\ s \in Session
  BY RequestFacts DEF TypeOK
<1>2. \A p \in Request : HasSlug(p)' <=> p # q /\ HasSlug(p)  BY <1>1 DEF HasSlug, Idle
<1>3. \A h : Working(h)' = Working(h) \ {q}  BY <1>1, <1>2 DEF Working
<1>4. /\ \A t \in Session \ {s} : row'[t] = row[t]
      /\ row'[s].slug \in {row[s].slug, None}
      /\ \/ row'[s] = row[s]
         \/ row'[s] = NoRow /\ (g \notin spoiled => site[g] = Nothing)
         \/ /\ row'[s].slug = row[s].slug /\ row[s] # NoRow
            /\ g \notin spoiled => site[g] = Finished(s)
  <2>1. row \in [Session -> RowState \cup {NoRow}]  BY DEF TypeOK
  <2>2. CASE row' = row  BY <2>2
  <2>3. CASE /\ row[s] # NoRow /\ row' = [row EXCEPT ![s].done = TRUE]
             /\ g \notin spoiled => site[g] = Finished(s)
    <3>1. row[s] \in RowState  BY <1>1, <2>1, <2>3
    <3>2. row'[s].slug = row[s].slug  BY <1>1, <2>1, <2>3, <3>1 DEF RowState
    <3>3. QED  BY <2>1, <2>3, <3>2
  <2>4. CASE /\ row' = [row EXCEPT ![s] = NoRow]
             /\ g \notin spoiled => site[g] = Nothing
    BY <1>1, <2>1, <2>4 DEF NoRow
  <2>5. QED  BY <2>2, <2>3, <2>4
<1>5. \A t \in Session : row'[t].slug \in {row[t].slug, None}  BY <1>4
<1>6. SlugsUnique'  BY <1>5, SlugNotNone DEF SlugsUnique
<1>7. OwnSlug'  BY <1>1, <1>2, <1>5, RequestFacts DEF OwnSlug
<1>8. WorkAlone'
  <2> SUFFICES ASSUME NEW p \in Request, HasSlug(p)', try'[p].slug \notin spoiled'
               PROVE  Alone(p)'
    BY DEF WorkAlone
  <2>1. p # q /\ HasSlug(p) /\ try'[p] = try[p] /\ try[p].slug \notin spoiled
        /\ try[p].session \in Session
    BY <1>1, <1>2, RequestFacts
  <2>2. Alone(p)  BY <2>1 DEF WorkAlone
  <2>3. try[p].session # s  BY <2>1, <2>2 DEF Alone
  <2>4. row'[try[p].session] = row[try[p].session]  BY <1>4, <2>1, <2>3
  <2>5. QED  BY <1>1, <1>2, <2>1, <2>2, <2>4 DEF Alone
<1>9. \A h \in Slug \ spoiled : row[s].slug = h => h = g
  <2>1. row[s].slug \in {None, g} \cup spoiled  BY DEF OwnSlug
  <2>2. QED  BY <2>1, SlugNotNone
<1>10. Resting'
  <2> SUFFICES ASSUME NEW h \in Slug \ spoiled', Working(h)' = {}
               PROVE  \/ site[h] = Nothing
                      \/ \E t \in Session : row'[t].slug = h /\ site[h] = Finished(t)
    BY DEF Resting
  <2>1. CASE h = g
    <3>1. row[s].slug = g  BY <2>1 DEF WorkAlone, Alone
    <3>2. QED  BY <1>1, <1>4, <2>1, <3>1, SlugNotNone
  <2>2. CASE h # g
    <3>1. Working(h) = {}  BY <1>3, <2>2 DEF Working
    <3>2. CASE site[h] = Nothing  BY <3>2
    <3>3. ASSUME NEW t \in Session, row[t].slug = h, site[h] = Finished(t)
          PROVE  row'[t].slug = h
      BY <1>4, <1>9, <2>2, <3>3
    <3>4. QED  BY <3>1, <3>2, <3>3 DEF Resting
  <2>3. QED  BY <2>1, <2>2
<1>11. ServedFinished'
  <2> SUFFICES ASSUME NEW t \in Session, row'[t].slug \in Slug \ spoiled', row'[t].done
               PROVE  site[row'[t].slug] = Finished(t)
    BY DEF ServedFinished
  <2>1. CASE row'[t] = row[t]  BY <2>1 DEF ServedFinished
  <2>2. CASE row'[t] # row[t]
    <3>1. t = s /\ row'[s].slug = row[s].slug /\ (g \notin spoiled => site[g] = Finished(s))
      BY <1>4, <2>2, SlugNotNone DEF NoRow
    <3>2. QED  BY <1>9, <3>1
  <2>3. QED  BY <2>1, <2>2
<1>12. QED  BY <1>6, <1>7, <1>8, <1>10, <1>11

\* ... and by one that goes to work on a slug, which its session has or is given.
LEMMA TakeStep ==
    ASSUME TypeOK, Rest, NEW q \in Request, NEW g \in Slug, NEW s,
           ~HasSlug(q), try[q] \in RequestState, Fresh(try'[q]), Take(q, g),
           s = try[q].session, site' = site,
           \/ row' = row /\ row[s].slug = g
           \/ /\ row[s] = NoRow /\ \A t \in Session : row[t].slug # g
              /\ row' = [row EXCEPT ![s] = [slug |-> g, done |-> FALSE]]
    PROVE  Rest'
<1> USE DEF Rest
<1>1. /\ s \in Session /\ \A p \in Request \ {q} : try'[p] = try[p]
      /\ try'[q].at = "find" /\ try'[q].slug = g /\ try'[q].session = s
  BY DEF Take, Become, TypeOK, RequestState
<1>2. \A p \in Request : HasSlug(p)' <=> p = q \/ HasSlug(p)  BY <1>1 DEF HasSlug
<1>3. /\ spoiled \subseteq spoiled' /\ spoiled' \subseteq spoiled \cup {g}
      /\ \A p \in Request : HasSlug(p) /\ try[p].session = s => g \in spoiled'
  BY DEF Take
<1>4. /\ \A t \in Session \ {s} : row'[t] = row[t]
      /\ row'[s].slug = g
      /\ \/ row'[s] = row[s]
         \/ /\ row[s].slug = None /\ ~row'[s].done
            /\ \A t \in Session : row[t].slug # g
  BY <1>1 DEF TypeOK, NoRow
<1>5. SlugsUnique'  BY <1>1, <1>4, SlugNotNone DEF SlugsUnique
<1>6. ASSUME NEW p \in Request, HasSlug(p), try[p].slug \notin spoiled'
      PROVE  try[p].session # s /\ row[try[p].session].slug = try[p].slug /\ try[p].slug # g
  <2>1. Alone(p) /\ try[p].slug \in Slug /\ try[p].session \in Session
    BY <1>3, <1>6, RequestFacts DEF WorkAlone
  <2>2. row[try[p].session].slug = try[p].slug  BY <2>1 DEF Alone
  <2>3. try[p].session # s  BY <1>3, <1>4, <1>6, <2>1, <2>2, SlugNotNone
  <2>4. try[p].slug # g  BY <1>1, <1>4, <2>1, <2>2, <2>3 DEF SlugsUnique
  <2>5. QED  BY <2>2, <2>3, <2>4
<1>7. g \notin spoiled' => site[g] = Nothing \/ site[g] = Finished(s)
  <2> SUFFICES ASSUME g \notin spoiled' PROVE site[g] = Nothing \/ site[g] = Finished(s)
    OBVIOUS
  <2>1. Working(g) = {}  BY <1>6 DEF Working
  <2>2. \A t \in Session : row[t].slug = g => t = s  BY <1>1, <1>4 DEF SlugsUnique
  <2>3. QED  BY <1>3, <2>1, <2>2 DEF Resting
<1>8. OwnSlug'
  <2> SUFFICES ASSUME NEW p \in Request, HasSlug(p)'
               PROVE  row'[try'[p].session].slug \in {None, try'[p].slug} \cup spoiled'
    BY DEF OwnSlug
  <2>1. CASE p = q  BY <1>1, <1>4, <2>1
  <2>2. CASE p # q
    <3>1. HasSlug(p) /\ try'[p] = try[p] /\ try[p].session \in Session
      BY <1>1, <1>2, <2>2, RequestFacts
    <3>2. CASE try[p].session = s  BY <1>3, <1>4, <3>1, <3>2
    <3>3. CASE try[p].session # s  BY <1>3, <1>4, <3>1, <3>3 DEF OwnSlug
    <3>4. QED  BY <3>2, <3>3
  <2>3. QED  BY <2>1, <2>2
<1>9. WorkAlone'
  <2> SUFFICES ASSUME NEW p \in Request, HasSlug(p)', try'[p].slug \notin spoiled'
               PROVE  Alone(p)'
    BY DEF WorkAlone
  <2>1. CASE p = q
    <3>1. \A x \in Request : HasSlug(x)' /\ try'[x].session = s => x = q
      BY <1>1, <1>2, <1>3, <2>1
    <3>2. SiteAt(try'[q], site[g])  BY <1>1, <1>7, <2>1 DEF SiteAt
    <3>3. try'[q].at \notin Building \cup {"undo"}  BY <1>1 DEF Building, Steps
    <3>4. QED  BY <1>1, <1>4, <2>1, <3>1, <3>2, <3>3 DEF Alone
  <2>2. CASE p # q
    <3>1. HasSlug(p) /\ try'[p] = try[p] /\ try[p].session \in Session
      BY <1>1, <1>2, <2>2, RequestFacts
    <3>2. Alone(p)  BY <1>3, <3>1 DEF WorkAlone
    <3>3. try[p].session # s  BY <1>6, <3>1
    <3>4. \A x \in Request : HasSlug(x)' /\ try'[x].session = try[p].session => x = p
      BY <1>1, <1>2, <3>2, <3>3 DEF Alone
    <3>5. QED  BY <1>4, <3>1, <3>2, <3>3, <3>4 DEF Alone
  <2>3. QED  BY <2>1, <2>2
<1>10. Resting'
  <2> SUFFICES ASSUME NEW h \in Slug \ spoiled', Working(h)' = {}
               PROVE  \/ site[h] = Nothing
                      \/ \E t \in Session : row'[t].slug = h /\ site[h] = Finished(t)
    BY DEF Resting
  <2>1. h # g  BY <1>1, <1>2 DEF Working
  <2>2. Working(h) = {}  BY <1>1, <1>2 DEF Working
  <2>3. \A t \in Session : row[t].slug = h => row'[t].slug = h
    BY <1>4, <2>1, SlugNotNone
  <2>4. QED  BY <1>3, <2>2, <2>3 DEF Resting
<1>11. ServedFinished'
  <2> SUFFICES ASSUME NEW t \in Session, row'[t].slug \in Slug \ spoiled', row'[t].done
               PROVE  site[row'[t].slug] = Finished(t)
    BY DEF ServedFinished
  <2>1. row'[t] = row[t]  BY <1>4
  <2>2. QED  BY <1>3, <2>1 DEF ServedFinished
<1>12. QED  BY <1>5, <1>8, <1>9, <1>10, <1>11

-----------------------------------------------------------------------------
(* What the operators of the model compute.                                *)

LEMMA FollowingSteps ==
    /\ Following("schema") = "tenant" /\ Following("tenant") = "owner"
    /\ Following("owner") = "actor" /\ Following("actor") = "config"
    /\ Following("config") = "domain" /\ Following("domain") = "activate"
    /\ Following("activate") = "validate"
<1>1. \A i \in 1 .. 7 : \A j \in 1 .. 7 : Steps[i] = Steps[j] => i = j  BY DEF Steps
<1>2. \A i \in 1 .. 7 : Following(Steps[i]) = Steps[1 + i]
  <2> TAKE i \in 1 .. 7
  <2>1. (CHOOSE j \in 1 .. 7 : Steps[j] = Steps[i]) = i  BY <1>1
  <2>2. QED  BY <2>1 DEF Following
<1>3. /\ Following(Steps[1]) = Steps[2] /\ Following(Steps[2]) = Steps[3]
      /\ Following(Steps[3]) = Steps[4] /\ Following(Steps[4]) = Steps[5]
      /\ Following(Steps[5]) = Steps[6] /\ Following(Steps[6]) = Steps[7]
      /\ Following(Steps[7]) = Steps[8]
  BY <1>2
<1>4. QED  BY <1>3 DEF Steps

LEMMA PartsAndPlaces ==
    /\ Part = {"domain", "config", "actor", "tenant", "schema"}
    /\ Building = {"schema", "tenant", "owner", "actor", "config", "domain", "activate",
                   "validate"}
    /\ Place = Building \cup {"idle", "reserved", "candidate", "insert", "again", "find",
                              "undo", "load", "notify", "complete", "failed", "forget"}
<1>1. Part = {UndoOrder[1], UndoOrder[2], UndoOrder[3], UndoOrder[4], UndoOrder[5]}
  BY DEF Part
<1>2. Building = {Steps[1], Steps[2], Steps[3], Steps[4], Steps[5], Steps[6], Steps[7],
                  Steps[8]}
  BY DEF Building
<1>3. QED  BY <1>1, <1>2 DEF UndoOrder, Steps, Place

\* The compensation takes back what is planned.
LEMMA FirstOfPlan ==
    ASSUME NEW plan \in SUBSET Part, plan # {}
    PROVE  FirstOf(plan) \in plan
<1> DEFINE First(i) == UndoOrder[i] \in plan /\ \A j \in 1 .. i - 1 : UndoOrder[j] \notin plan
<1>1. \E i \in 1 .. 5 : UndoOrder[i] \in plan  BY DEF Part
<1>2. First(1) \/ First(2) \/ First(3) \/ First(4) \/ First(5)  BY <1>1
<1>3. \E i \in 1 .. 5 : First(i)  BY <1>2
<1>4. QED  BY <1>3 DEF FirstOf

LEMMA BuiltFields ==
    ASSUME NEW w \in SiteState, NEW k \in Int, NEW s
    PROVE  w = Built(k, s) <=>
             /\ w.schema <=> k >= 1
             /\ w.owner = IF k >= 3 THEN s ELSE None
             /\ w.tenant <=> k >= 2
             /\ w.active <=> k >= 7
             /\ w.actor = IF k >= 4 THEN s ELSE None
             /\ w.config <=> k >= 5
             /\ w.domain <=> k >= 6
<1>1. /\ w = [schema |-> w.schema, owner |-> w.owner, tenant |-> w.tenant,
              active |-> w.active, actor |-> w.actor, config |-> w.config,
              domain |-> w.domain]
      /\ w.schema \in BOOLEAN /\ w.tenant \in BOOLEAN /\ w.active \in BOOLEAN
      /\ w.config \in BOOLEAN /\ w.domain \in BOOLEAN
  BY DEF SiteState
<1>2. ASSUME w = Built(k, s)
      PROVE  /\ w.schema = (k >= 1) /\ w.tenant = (k >= 2) /\ w.active = (k >= 7)
             /\ w.config = (k >= 5) /\ w.domain = (k >= 6)
             /\ w.owner = IF k >= 3 THEN s ELSE None
             /\ w.actor = IF k >= 4 THEN s ELSE None
  BY <1>2, Zenon DEF Built
<1>3. ASSUME /\ w.schema = (k >= 1) /\ w.tenant = (k >= 2) /\ w.active = (k >= 7)
             /\ w.config = (k >= 5) /\ w.domain = (k >= 6)
             /\ w.owner = IF k >= 3 THEN s ELSE None
             /\ w.actor = IF k >= 4 THEN s ELSE None
      PROVE  w = Built(k, s)
  BY <1>1, <1>3, Zenon DEF Built
<1>4. /\ (k >= 1) \in BOOLEAN /\ (k >= 2) \in BOOLEAN /\ (k >= 7) \in BOOLEAN
      /\ (k >= 5) \in BOOLEAN /\ (k >= 6) \in BOOLEAN
  OBVIOUS
<1>5. QED  BY <1>1, <1>2, <1>3, <1>4, Zenon

\* What a slug holds before the first step and after the last.
LEMMA BuiltEnds ==
    ASSUME NEW w \in SiteState, NEW s
    PROVE  /\ w = Built(0, s) <=> w = Nothing
           /\ w = Nothing => ~w.tenant
           /\ w = Finished(s) => w.tenant
<1>1. w = Nothing <=> /\ ~w.schema /\ ~w.tenant /\ ~w.active /\ ~w.config /\ ~w.domain
                      /\ w.owner = None /\ w.actor = None
  <2>1. w = [schema |-> w.schema, owner |-> w.owner, tenant |-> w.tenant,
              active |-> w.active, actor |-> w.actor, config |-> w.config,
              domain |-> w.domain]
        /\ w.schema \in BOOLEAN /\ w.tenant \in BOOLEAN /\ w.active \in BOOLEAN
        /\ w.config \in BOOLEAN /\ w.domain \in BOOLEAN
    BY DEF SiteState
  <2>2. ASSUME w = Nothing
        PROVE  /\ ~w.schema /\ ~w.tenant /\ ~w.active /\ ~w.config /\ ~w.domain
               /\ w.owner = None /\ w.actor = None
    BY <2>2 DEF Nothing
  <2>3. ASSUME /\ w.schema = FALSE /\ w.tenant = FALSE /\ w.active = FALSE
               /\ w.config = FALSE /\ w.domain = FALSE
               /\ w.owner = None /\ w.actor = None
        PROVE  w = Nothing
    BY <2>1, <2>3, Zenon DEF Nothing
  <2>4. QED  BY <2>1, <2>2, <2>3
<1>2. w = Built(0, s) <=> w = Nothing
  <2>1. w = Built(0, s) <=>
             /\ w.schema <=> 0 >= 1
             /\ w.owner = IF 0 >= 3 THEN s ELSE None
             /\ w.tenant <=> 0 >= 2
             /\ w.active <=> 0 >= 7
             /\ w.actor = IF 0 >= 4 THEN s ELSE None
             /\ w.config <=> 0 >= 5
             /\ w.domain <=> 0 >= 6
    BY BuiltFields
  <2>2. QED  BY <1>1, <2>1
<1>3. w = Finished(s) => w.tenant
  <2>1. w = Built(7, s) => (w.tenant <=> 7 >= 2)  BY BuiltFields
  <2>2. QED  BY <2>1 DEF Finished
<1>4. QED  BY <1>1, <1>2, <1>3

LEMMA PlannedParts ==
    /\ Planned(0) = {}
    /\ Planned(1) = {"schema"}
    /\ Planned(2) = {"schema", "tenant"} /\ Planned(3) = Planned(2)
    /\ Planned(4) = Planned(3) \cup {"actor"}
    /\ Planned(5) = Planned(4) \cup {"config"}
    /\ Planned(6) = Planned(5) \cup {"domain"} /\ Planned(7) = Planned(6)
<1>1. \A k \in Int : \A part :
        part \in Planned(k) <=> \/ part = "schema" /\ k >= 1
                                \/ part = "tenant" /\ k >= 2
                                \/ part = "actor" /\ k >= 4
                                \/ part = "config" /\ k >= 5
                                \/ part = "domain" /\ k >= 6
  BY PartsAndPlaces DEF Planned
<1>2. Planned(0) = {}  BY <1>1
<1>3. Planned(1) = {"schema"}  BY <1>1
<1>4. Planned(2) = {"schema", "tenant"}  BY <1>1
<1>5. \A part : part \in Planned(3) <=> part \in Planned(2)  BY <1>1
<1>6. \A part : part \in Planned(4) <=> part \in Planned(3) \cup {"actor"}  BY <1>1
<1>7. \A part : part \in Planned(5) <=> part \in Planned(4) \cup {"config"}  BY <1>1
<1>8. \A part : part \in Planned(6) <=> part \in Planned(5) \cup {"domain"}  BY <1>1
<1>9. \A part : part \in Planned(7) <=> part \in Planned(6)  BY <1>1
<1>10. QED  BY <1>2, <1>3, <1>4, <1>5, <1>6, <1>7, <1>8, <1>9

-----------------------------------------------------------------------------
(* The actions, and the types. A request's own step ...                    *)

LEMMA OwnRequest ==
    ASSUME TypeOK, FreshOK, NEW q \in Request, NEW r, Become(q, r),
           r \in RequestState \cup {Idle}, Fresh(r)
    PROVE  /\ try' \in [Request -> RequestState \cup {Idle}] /\ FreshOK'
           /\ try'[q] = r /\ \A p \in Request \ {q} : try'[p] = try[p]
  BY DEF TypeOK, FreshOK, Become

\* ... under the slug it has, with the other requests left as they are.
LEMMA OwnStep ==
    ASSUME ProvisioningInv, NEW q \in Request, NEW r \in RequestState, HasSlug(q),
           Become(q, r), r.session = try[q].session, r.slug = try[q].slug,
           r.at \notin {"idle", "reserved", "candidate", "insert", "again", "find"},
           UNCHANGED row, site' \in [Slug -> SiteState],
           \A h \in Slug \ {try[q].slug} : site'[h] = site[h],
           spoiled \subseteq spoiled', spoiled' \subseteq Slug, faults' \in 0 .. MaxFaults,
           try[q].slug \notin spoiled' =>
             /\ SiteAt(r, site'[try[q].slug])
             /\ r.at \in Building \cup {"undo"} => ~row[try[q].session].done
             /\ row[try[q].session].done =>
                  site'[try[q].slug] = Finished(try[q].session)
    PROVE  ProvisioningInv'
<1>1. TypeOK /\ Rest /\ FreshOK  BY DEF ProvisioningInv, Rest
<1>2. /\ try' \in [Request -> RequestState \cup {Idle}] /\ FreshOK'
      /\ try'[q] = r /\ \A p \in Request \ {q} : try'[p] = try[p]
  BY <1>1, OwnRequest DEF Fresh
<1>3. HasSlug(q)'  BY <1>2 DEF HasSlug
<1>4. TypeOK'  BY <1>1, <1>2 DEF TypeOK
<1>5. Rest'  BY <1>1, <1>2, <1>3, WorkStep
<1>6. QED  BY <1>2, <1>4, <1>5 DEF ProvisioningInv, Rest

\* Where a request is at work, on a slug that is not spoiled.
LEMMA AtWork ==
    ASSUME ProvisioningInv, NEW q \in Request, HasSlug(q), try[q].slug \notin spoiled
    PROVE  /\ SiteAt(try[q], site[try[q].slug])
           /\ try[q].at \in Building \cup {"undo"} => ~row[try[q].session].done
           /\ row[try[q].session].done =>
                site[try[q].slug] = Finished(try[q].session)
<1>1. TypeOK /\ WorkAlone /\ ServedFinished  BY DEF ProvisioningInv
<1>2. try[q].slug \in Slug /\ try[q].session \in Session  BY <1>1, RequestFacts
<1>3. QED  BY <1>1, <1>2 DEF WorkAlone, Alone, ServedFinished

\* A step that builds: it is done, or fails with or without its effect.
LEMMA EnsureStep ==
    ASSUME ProvisioningInv, NEW q \in Request, try[q].at \in Building, UNCHANGED row,
           NEW w \in SiteState, NEW r \in RequestState, NEW f \in RequestState,
           Ensure(q, w, r, f),
           r.session = try[q].session, r.slug = try[q].slug,
           f.session = try[q].session, f.slug = try[q].slug,
           Following(r.at) \in Building,
           try[q].slug \notin spoiled =>
             /\ SiteAt([r EXCEPT !.at = Following(@)], w)
             /\ Undoable(f, site[try[q].slug])
             /\ (r.plan \ f.plan) \cap {"schema", "tenant"} = {} => Undoable(f, w)
    PROVE  ProvisioningInv'
<1> DEFINE g == try[q].slug
           s == try[q].session
           next == [r EXCEPT !.at = Following(@)]
           fail == [f EXCEPT !.at = "undo"]
<1>1. /\ HasSlug(q) /\ TypeOK /\ try[q] \in RequestState /\ g \in Slug
      /\ spoiled \subseteq Slug
  BY PartsAndPlaces, RequestFacts DEF HasSlug, ProvisioningInv, TypeOK
<1>2. /\ next \in RequestState /\ next.session = s /\ next.slug = g
      /\ next.at = Following(r.at)
      /\ next.at \notin {"idle", "reserved", "candidate", "insert", "again", "find"}
  BY PartsAndPlaces DEF RequestState
<1>3. /\ fail \in RequestState /\ fail.session = s /\ fail.slug = g
      /\ fail.at = "undo" /\ fail.plan = f.plan
  BY PartsAndPlaces DEF RequestState
<1>4. /\ site \in [Slug -> SiteState]
      /\ [site EXCEPT ![g] = w] \in [Slug -> SiteState]
      /\ [site EXCEPT ![g] = w][g] = w
      /\ \A h \in Slug \ {g} : [site EXCEPT ![g] = w][h] = site[h]
  BY <1>1 DEF TypeOK
<1>5. g \notin spoiled => ~row[s].done  BY <1>1, AtWork
<1>6. ASSUME NEW v, Undoable(f, v)  PROVE SiteAt(fail, v)
  BY <1>3, <1>6 DEF SiteAt, Undoable
<1>7. g \notin spoiled => SiteAt(next, w)  OBVIOUS
<1>8. faults \in 0 .. MaxFaults /\ (Fault => faults' \in 0 .. MaxFaults)
  BY <1>1, ProvisioningAssumption DEF TypeOK, Fault
<1>9. CASE /\ site' = [site EXCEPT ![g] = w] /\ Become(q, next)
           /\ UNCHANGED <<spoiled, faults>>
  <2> HIDE DEF next
  <2>1. site' \in [Slug -> SiteState] /\ site'[g] = w
        /\ (\A h \in Slug \ {g} : site'[h] = site[h]) /\ spoiled' = spoiled
        /\ faults' \in 0 .. MaxFaults
    BY <1>4, <1>8, <1>9
  <2>2. QED  BY <1>1, <1>2, <1>5, <1>7, <1>9, <2>1, OwnStep
<1>10. CASE Fault /\ Become(q, fail) /\ UNCHANGED <<site, spoiled>>
  <2> HIDE DEF fail
  <2>1. g \notin spoiled => SiteAt(fail, site[g])  BY <1>6
  <2>2. fail.at \notin {"idle", "reserved", "candidate", "insert", "again", "find"}
    BY <1>3
  <2>3. QED  BY <1>1, <1>3, <1>4, <1>5, <1>8, <1>10, <2>1, <2>2, OwnStep
<1>11. CASE /\ Fault /\ Become(q, fail) /\ site' = [site EXCEPT ![g] = w]
            /\ spoiled' = IF (r.plan \ f.plan) \cap {"schema", "tenant"} = {}
                          THEN spoiled ELSE spoiled \cup {g}
  <2> HIDE DEF fail
  <2>1. site' \in [Slug -> SiteState] /\ site'[g] = w
        /\ (\A h \in Slug \ {g} : site'[h] = site[h])
        /\ spoiled \subseteq spoiled' /\ spoiled' \subseteq Slug
    BY <1>1, <1>4, <1>11
  <2>2. g \notin spoiled' => g \notin spoiled /\ SiteAt(fail, w)  BY <1>6, <1>11
  <2>3. fail.at \notin {"idle", "reserved", "candidate", "insert", "again", "find"}
    BY <1>3
  <2>4. QED  BY <1>1, <1>3, <1>5, <1>8, <1>11, <2>1, <2>2, <2>3, OwnStep
<1>12. QED  BY <1>9, <1>10, <1>11 DEF Ensure

LEMMA AfterFields ==
    ASSUME NEW r \in RequestState, NEW w \in SiteState
    PROVE  /\ After(r, w, 0) <=>
                /\ ~w.schema /\ ~w.tenant /\ ~w.config /\ ~w.domain /\ ~w.active
                /\ w.owner = None /\ w.actor = None
                /\ r.plan = Planned(0) /\ r.prev = None /\ ~r.held
           /\ After(r, w, 1) <=>
                /\ w.schema /\ ~w.tenant /\ ~w.config /\ ~w.domain /\ ~w.active
                /\ w.owner = None /\ w.actor = None
                /\ r.plan = Planned(1) /\ r.prev = None /\ ~r.held
           /\ After(r, w, 2) <=>
                /\ w.schema /\ w.tenant /\ ~w.config /\ ~w.domain /\ ~w.active
                /\ w.owner = None /\ w.actor = None
                /\ r.plan = Planned(2) /\ r.prev = None /\ r.held
           /\ After(r, w, 3) <=>
                /\ w.schema /\ w.tenant /\ ~w.config /\ ~w.domain /\ ~w.active
                /\ w.owner = r.session /\ w.actor = None
                /\ r.plan = Planned(3) /\ r.prev = None /\ r.held
           /\ After(r, w, 4) <=>
                /\ w.schema /\ w.tenant /\ ~w.config /\ ~w.domain /\ ~w.active
                /\ w.owner = r.session /\ w.actor = r.session
                /\ r.plan = Planned(4) /\ r.prev = None /\ r.held
           /\ After(r, w, 5) <=>
                /\ w.schema /\ w.tenant /\ w.config /\ ~w.domain /\ ~w.active
                /\ w.owner = r.session /\ w.actor = r.session
                /\ r.plan = Planned(5) /\ r.prev = None /\ r.held
           /\ After(r, w, 6) <=>
                /\ w.schema /\ w.tenant /\ w.config /\ w.domain /\ ~w.active
                /\ w.owner = r.session /\ w.actor = r.session
                /\ r.plan = Planned(6) /\ r.prev = None /\ r.held
           /\ After(r, w, 7) <=>
                /\ w.schema /\ w.tenant /\ w.config /\ w.domain /\ w.active
                /\ w.owner = r.session /\ w.actor = r.session
                /\ r.plan = Planned(7) /\ r.prev = None /\ r.held
<1> DEFINE Fields(k) ==
      After(r, w, k) <=>
        /\ w.schema <=> k >= 1
        /\ w.owner = IF k >= 3 THEN r.session ELSE None
        /\ w.tenant <=> k >= 2
        /\ w.active <=> k >= 7
        /\ w.actor = IF k >= 4 THEN r.session ELSE None
        /\ w.config <=> k >= 5
        /\ w.domain <=> k >= 6
        /\ r.plan = Planned(k) /\ r.prev = None
        /\ r.held <=> k >= 2
<1>1. \A k \in Int : Fields(k)
  <2> TAKE k \in Int
  <2>1. r.held \in BOOLEAN  BY DEF RequestState
  <2>2. r.held = (k >= 2) <=> (r.held <=> k >= 2)  BY <2>1
  <2>3. QED  BY <2>2, BuiltFields DEF After
<1> HIDE DEF Fields
<1>2. /\ Fields(0) /\ Fields(1) /\ Fields(2) /\ Fields(3)
      /\ Fields(4) /\ Fields(5) /\ Fields(6) /\ Fields(7)
  BY <1>1
<1>3. QED  BY <1>2 DEF Fields

\* The request and the slug at a place of provision.
LEMMA AtBuilding ==
    ASSUME ProvisioningInv, NEW q \in Request, try[q].at \in Building
    PROVE  /\ try[q] \in RequestState /\ try[q].slug \in Slug
           /\ site[try[q].slug] \in SiteState /\ HasSlug(q)
           /\ try[q].slug \notin spoiled =>
                SiteAt(try[q], site[try[q].slug]) /\ ~row[try[q].session].done
  BY PartsAndPlaces, AtWork, RequestFacts DEF ProvisioningInv, HasSlug, TypeOK

LEMMA SchemaStep ==
    ASSUME ProvisioningInv, NEW q \in Request, try[q].at = "schema", UNCHANGED row,
           EnsureSchema(q, site[try[q].slug], try[q])
    PROVE  ProvisioningInv'
<1> DEFINE r == try[q]
           w == site[r.slug]
           built == [w EXCEPT !.schema = TRUE]
           planned == [r EXCEPT !.plan = IF w.schema THEN @ ELSE @ \cup {"schema"}]
           next == [planned EXCEPT !.at = Following(@)]
<1>1. /\ r \in RequestState /\ w \in SiteState /\ r.at \in Building
      /\ r.slug \notin spoiled => SiteAt(r, w)
  BY AtBuilding, PartsAndPlaces
<1>2. /\ built \in SiteState /\ planned \in RequestState /\ next \in RequestState
      /\ planned.session = r.session /\ planned.slug = r.slug /\ planned.at = r.at
      /\ next.at = "tenant" /\ next.session = r.session /\ next.held = r.held
      /\ next.prev = r.prev /\ next.plan = planned.plan
      /\ planned.plan = IF w.schema THEN r.plan ELSE r.plan \cup {"schema"}
      /\ built.schema /\ built.owner = w.owner /\ built.tenant = w.tenant
      /\ built.active = w.active /\ built.actor = w.actor /\ built.config = w.config
      /\ built.domain = w.domain
  BY <1>1, FollowingSteps, PartsAndPlaces DEF SiteState, RequestState
<1>3. ASSUME r.slug \notin spoiled
      PROVE  /\ SiteAt(next, built) /\ Undoable(r, w)
             /\ (planned.plan \ r.plan) \cap {"schema", "tenant"} = {} => Undoable(r, built)
  <2>1. After(r, w, 0)  BY <1>1, <1>3 DEF SiteAt
  <2>2. /\ ~w.schema /\ ~w.tenant /\ ~w.active /\ ~w.config /\ ~w.domain
        /\ w.owner = None /\ w.actor = None /\ r.plan = {} /\ r.prev = None /\ ~r.held
    BY <1>1, <2>1, AfterFields, PlannedParts
  <2> HIDE DEF r, w, built, planned, next
  <2>3. After(next, built, 1)  BY <1>2, <2>2, AfterFields, PlannedParts
  <2>4. SiteAt(next, built)  BY <1>2, <2>3 DEF SiteAt
  <2>5. QED  BY <1>2, <2>2, <2>4 DEF Undoable
<1>4. Ensure(q, built, planned, r)  BY DEF EnsureSchema
<1>5. Following(planned.at) \in Building  BY <1>2, FollowingSteps, PartsAndPlaces
<1> HIDE DEF built, planned
<1>6. QED  BY <1>1, <1>2, <1>3, <1>4, <1>5, EnsureStep

LEMMA TenantStep ==
    ASSUME ProvisioningInv, NEW q \in Request, try[q].at = "tenant", UNCHANGED row,
           EnsureTenant(q, site[try[q].slug], try[q])
    PROVE  ProvisioningInv'
<1> DEFINE r == try[q]
           w == site[r.slug]
           built == [w EXCEPT !.tenant = TRUE]
           planned == [r EXCEPT !.plan = IF w.tenant THEN @ ELSE @ \cup {"tenant"},
                                !.held = TRUE]
           next == [planned EXCEPT !.at = Following(@)]
<1>1. /\ r \in RequestState /\ w \in SiteState /\ r.at \in Building
      /\ r.slug \notin spoiled => SiteAt(r, w)
  BY AtBuilding, PartsAndPlaces
<1>2. /\ built \in SiteState /\ planned \in RequestState /\ next \in RequestState
      /\ planned.session = r.session /\ planned.slug = r.slug /\ planned.at = r.at
      /\ next.at = "owner" /\ next.session = r.session /\ next.held
      /\ next.prev = r.prev /\ next.plan = planned.plan
      /\ planned.plan = IF w.tenant THEN r.plan ELSE r.plan \cup {"tenant"}
      /\ built.schema = w.schema /\ built.owner = w.owner /\ built.tenant
      /\ built.active = w.active /\ built.actor = w.actor /\ built.config = w.config
      /\ built.domain = w.domain
  BY <1>1, FollowingSteps, PartsAndPlaces DEF SiteState, RequestState
<1>3. ASSUME r.slug \notin spoiled
      PROVE  /\ SiteAt(next, built) /\ Undoable(r, w)
             /\ (planned.plan \ r.plan) \cap {"schema", "tenant"} = {} => Undoable(r, built)
  <2>1. After(r, w, 1)  BY <1>1, <1>3 DEF SiteAt
  <2>2. /\ w.schema /\ ~w.tenant /\ ~w.active /\ ~w.config /\ ~w.domain
        /\ w.owner = None /\ w.actor = None /\ r.plan = {"schema"} /\ r.prev = None
    BY <1>1, <2>1, AfterFields, PlannedParts
  <2> HIDE DEF r, w, built, planned, next
  <2>3. next.plan = Planned(2)  BY <1>2, <2>2, PlannedParts
  <2>4. After(next, built, 2)  BY <1>2, <2>2, <2>3, AfterFields
  <2>5. SiteAt(next, built)  BY <1>2, <2>4 DEF SiteAt
  <2>6. QED  BY <1>2, <2>2, <2>5 DEF Undoable
<1>4. Ensure(q, built, planned, r)  BY DEF EnsureTenant
<1>5. Following(planned.at) \in Building  BY <1>2, FollowingSteps, PartsAndPlaces
<1> HIDE DEF built, planned
<1>6. QED  BY <1>1, <1>2, <1>3, <1>4, <1>5, EnsureStep

\* Schema and tenant are planned: whatever else a step does can be taken back.
LEMMA LaterStep ==
    ASSUME ProvisioningInv, NEW q \in Request, try[q].at \in Building, UNCHANGED row,
           NEW w \in SiteState, NEW r \in RequestState, NEW f \in RequestState,
           Ensure(q, w, r, f),
           r.session = try[q].session, r.slug = try[q].slug,
           f.session = try[q].session, f.slug = try[q].slug,
           Following(r.at) \in Building,
           try[q].slug \notin spoiled =>
             /\ SiteAt([r EXCEPT !.at = Following(@)], w)
             /\ {"schema", "tenant"} \subseteq f.plan
    PROVE  ProvisioningInv'
  BY EnsureStep DEF Undoable

\* A step that cannot be done.
LEMMA RaiseStep ==
    ASSUME ProvisioningInv, NEW q \in Request, try[q].at \in Building, UNCHANGED row,
           NEW f \in RequestState, f.session = try[q].session, f.slug = try[q].slug,
           Become(q, [f EXCEPT !.at = "undo"]), UNCHANGED <<site, spoiled>>,
           UNCHANGED faults \/ Fault,
           try[q].slug \notin spoiled => {"schema", "tenant"} \subseteq f.plan
    PROVE  ProvisioningInv'
<1> DEFINE r == [f EXCEPT !.at = "undo"]
<1>1. /\ r \in RequestState /\ r.session = try[q].session /\ r.slug = try[q].slug
      /\ r.at = "undo" /\ r.plan = f.plan
  BY PartsAndPlaces DEF RequestState
<1>2. HasSlug(q) /\ (try[q].slug \notin spoiled => ~row[try[q].session].done)
  BY AtBuilding
<1>3. /\ site' \in [Slug -> SiteState] /\ spoiled' \subseteq Slug
      /\ faults' \in 0 .. MaxFaults
  BY ProvisioningAssumption DEF ProvisioningInv, TypeOK, Fault
<1>4. try[q].slug \notin spoiled => SiteAt(r, site'[try[q].slug])
  BY <1>1 DEF SiteAt, Undoable
<1> HIDE DEF r
<1>5. Become(q, r)  BY DEF r
<1>6. QED  BY <1>1, <1>2, <1>3, <1>4, <1>5, OwnStep

LEMMA OwnerStep ==
    ASSUME ProvisioningInv, NEW q \in Request, try[q].at = "owner", UNCHANGED row,
           EnsureOwner(q, site[try[q].slug], try[q])
    PROVE  ProvisioningInv'
<1> DEFINE r == try[q]
           w == site[r.slug]
           built == [w EXCEPT !.owner = r.session]
           next == [r EXCEPT !.at = Following(@)]
<1>1. /\ r \in RequestState /\ w \in SiteState /\ r.at \in Building
      /\ r.slug \notin spoiled => SiteAt(r, w)
  BY AtBuilding, PartsAndPlaces
<1>2. /\ built \in SiteState /\ next \in RequestState
      /\ next.at = "actor" /\ next.session = r.session /\ next.held = r.held
      /\ next.prev = r.prev /\ next.plan = r.plan
      /\ built.schema = w.schema /\ built.owner = r.session /\ built.tenant = w.tenant
      /\ built.active = w.active /\ built.actor = w.actor /\ built.config = w.config
      /\ built.domain = w.domain
  BY <1>1, FollowingSteps, PartsAndPlaces DEF SiteState, RequestState
<1>3. ASSUME r.slug \notin spoiled
      PROVE  SiteAt(next, built) /\ {"schema", "tenant"} \subseteq r.plan
  <2>1. After(r, w, 2)  BY <1>1, <1>3 DEF SiteAt
  <2>2. /\ w.schema /\ w.tenant /\ ~w.active /\ ~w.config /\ ~w.domain
        /\ w.owner = None /\ w.actor = None /\ r.plan = Planned(2) /\ r.prev = None
        /\ r.held
    BY <1>1, <2>1, AfterFields
  <2> HIDE DEF r, w, built, next
  <2>3. next.plan = Planned(3) /\ {"schema", "tenant"} \subseteq r.plan
    BY <1>2, <2>2, PlannedParts
  <2>4. After(next, built, 3)  BY <1>2, <2>2, <2>3, AfterFields
  <2>5. QED  BY <1>2, <2>3, <2>4 DEF SiteAt
<1>4. CASE Ensure(q, built, r, r)
  <2>1. Following(r.at) \in Building  BY FollowingSteps, PartsAndPlaces
  <2> HIDE DEF built
  <2>2. QED  BY <1>1, <1>2, <1>3, <1>4, <2>1, LaterStep
<1>5. CASE Raise(q)  BY <1>1, <1>3, <1>5, RaiseStep DEF Raise, Goto
<1>6. QED  BY <1>4, <1>5 DEF EnsureOwner

LEMMA ActorStep ==
    ASSUME ProvisioningInv, NEW q \in Request, try[q].at = "actor", UNCHANGED row,
           EnsureActor(q, site[try[q].slug], try[q])
    PROVE  ProvisioningInv'
<1> DEFINE r == try[q]
           w == site[r.slug]
           built == [w EXCEPT !.actor = IF r.held THEN r.session ELSE @]
           planned == [r EXCEPT !.plan = @ \cup {"actor"},
                                !.prev = IF r.held THEN w.actor ELSE None]
           next == [planned EXCEPT !.at = Following(@)]
<1>1. /\ r \in RequestState /\ w \in SiteState /\ r.at \in Building
      /\ r.slug \notin spoiled => SiteAt(r, w)
  BY AtBuilding, PartsAndPlaces
<1>2. /\ built \in SiteState /\ planned \in RequestState /\ next \in RequestState
      /\ planned.session = r.session /\ planned.slug = r.slug /\ planned.at = r.at
      /\ next.at = "config" /\ next.session = r.session /\ next.held = r.held
      /\ next.prev = planned.prev /\ next.plan = planned.plan
      /\ planned.plan = r.plan \cup {"actor"}
      /\ planned.prev = IF r.held THEN w.actor ELSE None
      /\ built.schema = w.schema /\ built.owner = w.owner /\ built.tenant = w.tenant
      /\ built.active = w.active /\ built.config = w.config /\ built.domain = w.domain
      /\ built.actor = IF r.held THEN r.session ELSE w.actor
  BY <1>1, FollowingSteps, PartsAndPlaces DEF SiteState, RequestState
<1>3. ASSUME r.slug \notin spoiled
      PROVE  /\ SiteAt(next, built) /\ {"schema", "tenant"} \subseteq r.plan
             /\ ~(r.held /\ w.actor = r.session)
  <2>1. After(r, w, 3)  BY <1>1, <1>3 DEF SiteAt
  <2>2. /\ w.schema /\ w.tenant /\ ~w.active /\ ~w.config /\ ~w.domain
        /\ w.owner = r.session /\ w.actor = None /\ r.plan = Planned(3) /\ r.prev = None
        /\ r.held /\ r.session \in Session
    BY <1>1, <2>1, AfterFields DEF RequestState
  <2> HIDE DEF r, w, built, planned, next
  <2>3. next.plan = Planned(4) /\ {"schema", "tenant"} \subseteq r.plan
    BY <1>2, <2>2, PlannedParts
  <2>4. After(next, built, 4)  BY <1>2, <2>2, <2>3, AfterFields
  <2>5. w.actor # r.session  BY <2>2, SlugNotNone
  <2>6. QED  BY <1>2, <2>3, <2>4, <2>5 DEF SiteAt
<1>4. Following(r.at) \in Building  BY FollowingSteps, PartsAndPlaces
<1>5. CASE (r.held /\ w.actor = r.session) /\ Ensure(q, w, r, r)
  BY <1>1, <1>3, <1>4, <1>5, LaterStep
<1>6. CASE Ensure(q, built, planned, r)
  <2> HIDE DEF built, planned
  <2>1. QED  BY <1>1, <1>2, <1>3, <1>4, <1>6, LaterStep
<1>7. QED  BY <1>5, <1>6 DEF EnsureActor

LEMMA ConfigStep ==
    ASSUME ProvisioningInv, NEW q \in Request, try[q].at = "config", UNCHANGED row,
           EnsureConfig(q, site[try[q].slug], try[q])
    PROVE  ProvisioningInv'
<1> DEFINE r == try[q]
           w == site[r.slug]
           built == [w EXCEPT !.config = TRUE]
           planned == [r EXCEPT !.plan = IF w.config /\ r.held THEN @
                                         ELSE @ \cup {"config"}]
           next == [planned EXCEPT !.at = Following(@)]
<1>1. /\ r \in RequestState /\ w \in SiteState /\ r.at \in Building
      /\ r.slug \notin spoiled => SiteAt(r, w)
  BY AtBuilding, PartsAndPlaces
<1>2. /\ built \in SiteState /\ planned \in RequestState /\ next \in RequestState
      /\ planned.session = r.session /\ planned.slug = r.slug /\ planned.at = r.at
      /\ next.at = "domain" /\ next.session = r.session /\ next.held = r.held
      /\ next.prev = r.prev /\ next.plan = planned.plan
      /\ planned.plan = IF w.config /\ r.held THEN r.plan ELSE r.plan \cup {"config"}
      /\ built.schema = w.schema /\ built.owner = w.owner /\ built.tenant = w.tenant
      /\ built.active = w.active /\ built.config /\ built.domain = w.domain
      /\ built.actor = w.actor
  BY <1>1, FollowingSteps, PartsAndPlaces DEF SiteState, RequestState
<1>3. ASSUME r.slug \notin spoiled
      PROVE  SiteAt(next, built) /\ {"schema", "tenant"} \subseteq planned.plan
  <2>1. After(r, w, 4)  BY <1>1, <1>3 DEF SiteAt
  <2>2. /\ w.schema /\ w.tenant /\ ~w.active /\ ~w.config /\ ~w.domain
        /\ w.owner = r.session /\ w.actor = r.session /\ r.plan = Planned(4)
        /\ r.prev = None /\ r.held
    BY <1>1, <2>1, AfterFields
  <2> HIDE DEF r, w, built, planned, next
  <2>3. next.plan = Planned(5) /\ {"schema", "tenant"} \subseteq planned.plan
    BY <1>2, <2>2, PlannedParts
  <2>4. /\ built.schema /\ built.tenant /\ built.config /\ ~built.domain /\ ~built.active
        /\ built.owner = next.session /\ built.actor = next.session
        /\ next.prev = None /\ next.held /\ next.at = "domain"
        /\ next \in RequestState /\ built \in SiteState
    BY <1>2, <2>2
  <2>5. After(next, built, 5)  BY <2>3, <2>4, AfterFields
  <2>6. QED  BY <2>3, <2>4, <2>5 DEF SiteAt
<1>4. Following(planned.at) \in Building  BY <1>2, FollowingSteps, PartsAndPlaces
<1>5. CASE Ensure(q, built, planned, planned)
  <2> HIDE DEF built, planned
  <2>1. QED  BY <1>1, <1>2, <1>3, <1>4, <1>5, LaterStep
<1>6. CASE /\ Become(q, [planned EXCEPT !.at = "undo"])
           /\ UNCHANGED <<site, spoiled, faults>>
  <2> HIDE DEF built, planned
  <2>1. QED  BY <1>1, <1>2, <1>3, <1>6, RaiseStep
<1>7. QED  BY <1>5, <1>6 DEF EnsureConfig

LEMMA DomainStep ==
    ASSUME ProvisioningInv, NEW q \in Request, try[q].at = "domain", UNCHANGED row,
           EnsureDomain(q, site[try[q].slug], try[q])
    PROVE  ProvisioningInv'
<1> DEFINE r == try[q]
           w == site[r.slug]
           built == [w EXCEPT !.domain = TRUE]
           planned == [r EXCEPT !.plan = IF w.domain THEN @ ELSE @ \cup {"domain"}]
           next == [planned EXCEPT !.at = Following(@)]
<1>1. /\ r \in RequestState /\ w \in SiteState /\ r.at \in Building
      /\ r.slug \notin spoiled => SiteAt(r, w)
  BY AtBuilding, PartsAndPlaces
<1>2. /\ built \in SiteState /\ planned \in RequestState /\ next \in RequestState
      /\ planned.session = r.session /\ planned.slug = r.slug /\ planned.at = r.at
      /\ next.at = "activate" /\ next.session = r.session /\ next.held = r.held
      /\ next.prev = r.prev /\ next.plan = planned.plan
      /\ planned.plan = IF w.domain THEN r.plan ELSE r.plan \cup {"domain"}
      /\ built.schema = w.schema /\ built.owner = w.owner /\ built.tenant = w.tenant
      /\ built.active = w.active /\ built.config = w.config /\ built.domain
      /\ built.actor = w.actor
  BY <1>1, FollowingSteps, PartsAndPlaces DEF SiteState, RequestState
<1>3. ASSUME r.slug \notin spoiled
      PROVE  SiteAt(next, built) /\ {"schema", "tenant"} \subseteq r.plan
  <2>1. After(r, w, 5)  BY <1>1, <1>3 DEF SiteAt
  <2>2. /\ w.schema /\ w.tenant /\ ~w.active /\ w.config /\ ~w.domain
        /\ w.owner = r.session /\ w.actor = r.session /\ r.plan = Planned(5)
        /\ r.prev = None /\ r.held
    BY <1>1, <2>1, AfterFields
  <2> HIDE DEF r, w, built, planned, next
  <2>3. next.plan = Planned(6) /\ {"schema", "tenant"} \subseteq r.plan
    BY <1>2, <2>2, PlannedParts
  <2>4. /\ built.schema /\ built.tenant /\ built.config /\ built.domain /\ ~built.active
        /\ built.owner = next.session /\ built.actor = next.session
        /\ next.prev = None /\ next.held /\ next.at = "activate"
        /\ next \in RequestState /\ built \in SiteState
    BY <1>2, <2>2
  <2>5. After(next, built, 6)  BY <2>3, <2>4, AfterFields
  <2>6. QED  BY <2>3, <2>4, <2>5 DEF SiteAt
<1>4. Following(planned.at) \in Building  BY <1>2, FollowingSteps, PartsAndPlaces
<1>5. CASE Ensure(q, built, planned, r)
  <2> HIDE DEF built, planned
  <2>1. QED  BY <1>1, <1>2, <1>3, <1>4, <1>5, LaterStep
<1>6. CASE Raise(q)  BY <1>1, <1>3, <1>6, RaiseStep DEF Raise, Goto
<1>7. QED  BY <1>5, <1>6 DEF EnsureDomain

LEMMA ActivateStep ==
    ASSUME ProvisioningInv, NEW q \in Request, try[q].at = "activate", UNCHANGED row,
           EnsureActivation(q, site[try[q].slug], try[q])
    PROVE  ProvisioningInv'
<1> DEFINE r == try[q]
           w == site[r.slug]
           built == [w EXCEPT !.active = @ \/ r.held]
           next == [r EXCEPT !.at = Following(@)]
<1>1. /\ r \in RequestState /\ w \in SiteState /\ r.at \in Building
      /\ r.slug \notin spoiled => SiteAt(r, w)
  BY AtBuilding, PartsAndPlaces
<1>2. /\ built \in SiteState /\ next \in RequestState
      /\ next.at = "validate" /\ next.session = r.session /\ next.held = r.held
      /\ next.prev = r.prev /\ next.plan = r.plan
      /\ built.schema = w.schema /\ built.owner = w.owner /\ built.tenant = w.tenant
      /\ built.active <=> w.active \/ r.held
      /\ built.config = w.config /\ built.domain = w.domain /\ built.actor = w.actor
  BY <1>1, FollowingSteps, PartsAndPlaces DEF SiteState, RequestState
<1>3. ASSUME r.slug \notin spoiled
      PROVE  SiteAt(next, built) /\ {"schema", "tenant"} \subseteq r.plan
  <2>1. After(r, w, 6)  BY <1>1, <1>3 DEF SiteAt
  <2>2. /\ w.schema /\ w.tenant /\ ~w.active /\ w.config /\ w.domain
        /\ w.owner = r.session /\ w.actor = r.session /\ r.plan = Planned(6)
        /\ r.prev = None /\ r.held
    BY <1>1, <2>1, AfterFields
  <2> HIDE DEF r, w, built, next
  <2>3. next.plan = Planned(7) /\ {"schema", "tenant"} \subseteq r.plan
    BY <1>2, <2>2, PlannedParts
  <2>4. After(next, built, 7)  BY <1>2, <2>2, <2>3, AfterFields
  <2>5. QED  BY <1>2, <2>3, <2>4 DEF SiteAt
<1>4. Following(r.at) \in Building  BY FollowingSteps, PartsAndPlaces
<1>5. CASE Ensure(q, built, r, r)
  <2> HIDE DEF built
  <2>1. QED  BY <1>1, <1>2, <1>3, <1>4, <1>5, LaterStep
<1>6. CASE Raise(q)  BY <1>1, <1>3, <1>6, RaiseStep DEF Raise, Goto
<1>7. QED  BY <1>5, <1>6 DEF EnsureActivation

\* A step that leaves the slug as it is, for place.
LEMMA GoOn ==
    ASSUME ProvisioningInv, NEW q \in Request, NEW place \in Place, HasSlug(q),
           \/ Goto(q, place)
           \/ Leave(q, place),
           place \notin Building \cup
              {"idle", "reserved", "candidate", "insert", "again", "find", "undo"},
           UNCHANGED <<row, site>>, spoiled \subseteq spoiled', spoiled' \subseteq Slug,
           UNCHANGED faults \/ Fault,
           try[q].slug \notin spoiled' =>
             LET w == site[try[q].slug]
                 s == try[q].session
             IN  /\ place = "failed" => w = Nothing \/ w = Finished(s)
                 /\ place = "forget" => w = Nothing
                 /\ place \notin {"failed", "forget"} => w = Finished(s)
    PROVE  ProvisioningInv'
<1> DEFINE g == try[q].slug
           s == try[q].session
<1>1. try[q] \in RequestState /\ g \in Slug  BY RequestFacts DEF ProvisioningInv
<1>2. PICK r \in RequestState : /\ Become(q, r) /\ r.session = s /\ r.slug = g
                                /\ r.at = place
  <2> DEFINE on == [try[q] EXCEPT !.at = place]
             off == [try[q] EXCEPT !.at = place, !.plan = {}, !.prev = None, !.held = FALSE]
  <2>1. on \in RequestState /\ on.session = s /\ on.slug = g /\ on.at = place
    BY <1>1 DEF RequestState
  <2>2. off \in RequestState /\ off.session = s /\ off.slug = g /\ off.at = place
    BY <1>1 DEF RequestState
  <2>3. Become(q, on) \/ Become(q, off)  BY DEF Goto, Leave
  <2> HIDE DEF on, off
  <2>4. QED  BY <2>1, <2>2, <2>3
<1>3. /\ site' \in [Slug -> SiteState] /\ faults' \in 0 .. MaxFaults
      /\ row' = row /\ \A h \in Slug \ {g} : site'[h] = site[h]
  BY ProvisioningAssumption DEF ProvisioningInv, TypeOK, Fault
<1>4. g \notin spoiled' => SiteAt(r, site'[g])
  BY <1>2, PartsAndPlaces DEF SiteAt
<1>5. g \notin spoiled' => (row[s].done => site'[g] = Finished(s))
  BY AtWork
<1>6. QED  BY <1>2, <1>3, <1>4, <1>5, OwnStep

LEMMA ValidateStep ==
    ASSUME ProvisioningInv, NEW q \in Request, try[q].at = "validate", UNCHANGED row,
           Validate(q, site[try[q].slug], try[q])
    PROVE  ProvisioningInv'
<1> DEFINE r == try[q]
           w == site[r.slug]
<1>1. /\ r \in RequestState /\ w \in SiteState /\ r.at \in Building /\ HasSlug(q)
      /\ r.slug \notin spoiled => SiteAt(r, w)
      /\ spoiled \subseteq Slug
  BY AtBuilding, PartsAndPlaces DEF ProvisioningInv, TypeOK
<1>2. ASSUME r.slug \notin spoiled
      PROVE  w = Finished(r.session) /\ {"schema", "tenant"} \subseteq r.plan
  <2>1. After(r, w, 7)  BY <1>1, <1>2 DEF SiteAt
  <2>2. r.plan = Planned(7)  BY <2>1 DEF After
  <2>3. QED  BY <2>1, <2>2, PlannedParts DEF After, Finished
<1>3. CASE Leave(q, "load") /\ UNCHANGED <<site, spoiled, faults>>
  BY <1>1, <1>2, <1>3, GoOn, PartsAndPlaces
<1>4. CASE Raise(q)  BY <1>1, <1>2, <1>4, RaiseStep DEF Raise, Goto
<1>5. CASE Fault /\ Goto(q, "undo") /\ UNCHANGED <<site, spoiled>>
  BY <1>1, <1>2, <1>5, RaiseStep DEF Goto
<1>6. QED  BY <1>3, <1>4, <1>5 DEF Validate

LEMMA ProvisionStep ==
    ASSUME ProvisioningInv, NEW q \in Request, Provision(q)
    PROVE  ProvisioningInv'
<1> DEFINE r == try[q]
           w == site[r.slug]
<1>1. UNCHANGED row  BY DEF Provision
<1>2. CASE r.at = "schema" /\ EnsureSchema(q, w, r)  BY <1>1, <1>2, SchemaStep
<1>3. CASE r.at = "tenant" /\ EnsureTenant(q, w, r)  BY <1>1, <1>3, TenantStep
<1>4. CASE r.at = "owner" /\ EnsureOwner(q, w, r)  BY <1>1, <1>4, OwnerStep
<1>5. CASE r.at = "actor" /\ EnsureActor(q, w, r)  BY <1>1, <1>5, ActorStep
<1>6. CASE r.at = "config" /\ EnsureConfig(q, w, r)  BY <1>1, <1>6, ConfigStep
<1>7. CASE r.at = "domain" /\ EnsureDomain(q, w, r)  BY <1>1, <1>7, DomainStep
<1>8. CASE r.at = "activate" /\ EnsureActivation(q, w, r)  BY <1>1, <1>8, ActivateStep
<1>9. CASE r.at = "validate" /\ Validate(q, w, r)  BY <1>1, <1>9, ValidateStep
<1>10. QED  BY <1>2, <1>3, <1>4, <1>5, <1>6, <1>7, <1>8, <1>9 DEF Provision

\* What is left of a slug when a part of the plan is taken back can be taken back.
LEMMA WithoutPart ==
    ASSUME NEW w \in SiteState, NEW r \in RequestState, NEW part \in r.plan
    PROVE  /\ Without(w, part, r) \in SiteState
           /\ \A f : f.plan = r.plan \ {part} /\ Undoable(r, w)
                => Undoable(f, Without(w, part, r))
<1>1. part \in {"domain", "config", "actor", "tenant", "schema"}
  BY PartsAndPlaces DEF RequestState
<1>2. r.prev \in Session \cup {None}  BY DEF RequestState
<1>3. CASE part = "domain"
  <2>1. Without(w, part, r) = [w EXCEPT !.domain = FALSE]  BY <1>3 DEF Without
  <2>2. QED  BY <1>3, <2>1 DEF Undoable, SiteState
<1>4. CASE part = "config"
  <2>1. Without(w, part, r) = [w EXCEPT !.config = FALSE]  BY <1>4 DEF Without
  <2>2. QED  BY <1>4, <2>1 DEF Undoable, SiteState
<1>5. CASE part = "actor"
  <2>1. Without(w, part, r) = [w EXCEPT !.actor = IF w.tenant THEN r.prev ELSE @]
    BY <1>5 DEF Without
  <2>2. QED  BY <1>2, <1>5, <2>1 DEF Undoable, SiteState
<1>6. CASE part = "tenant"
  <2>1. Without(w, part, r) = [Nothing EXCEPT !.schema = w.schema, !.owner = w.owner]
    BY <1>6 DEF Without
  <2>2. QED  BY <1>6, <2>1 DEF Undoable, SiteState, Nothing
<1>7. CASE part = "schema"
  <2>1. Without(w, part, r) = [w EXCEPT !.schema = FALSE, !.owner = None]
    BY <1>7 DEF Without
  <2>2. QED  BY <1>7, <2>1 DEF Undoable, SiteState
<1>8. QED  BY <1>1, <1>3, <1>4, <1>5, <1>6, <1>7

LEMMA UndoStep ==
    ASSUME ProvisioningInv, NEW q \in Request, Undo(q)
    PROVE  ProvisioningInv'
<1> DEFINE r == try[q]
           g == r.slug
           part == FirstOf(r.plan)
           next == [r EXCEPT !.plan = @ \ {part}]
<1>1. /\ TypeOK /\ FreshOK /\ Rest /\ HasSlug(q) /\ r \in RequestState /\ g \in Slug
      /\ site[g] \in SiteState /\ r.plan \subseteq Part /\ r.at = "undo" /\ row' = row
      /\ spoiled \subseteq Slug
      /\ g \notin spoiled => Undoable(r, site[g]) /\ ~row[r.session].done
  <2>1. r.at = "undo" /\ row' = row  BY DEF Undo
  <2>2. TypeOK /\ FreshOK /\ Rest /\ HasSlug(q)
    BY <2>1 DEF ProvisioningInv, Rest, HasSlug
  <2>3. /\ r \in RequestState /\ g \in Slug /\ site[g] \in SiteState
        /\ r.plan \subseteq Part /\ spoiled \subseteq Slug
    BY <2>2, RequestFacts DEF TypeOK, RequestState
  <2>4. g \notin spoiled => Undoable(r, site[g]) /\ ~row[r.session].done
    BY <2>1, <2>2, AtWork DEF SiteAt
  <2>5. QED  BY <2>1, <2>2, <2>3, <2>4
<1>2. CASE r.plan = {} /\ Leave(q, "failed") /\ UNCHANGED <<site, spoiled, faults>>
  <2>1. g \notin spoiled => site[g] = Nothing
    <3> SUFFICES ASSUME g \notin spoiled PROVE site[g] = Nothing
      OBVIOUS
    <3> DEFINE w == site[g]
    <3>1. /\ ~w.schema /\ ~w.tenant /\ ~w.active /\ ~w.config /\ ~w.domain
          /\ w.owner = None /\ w.actor = None
      BY <1>1, <1>2 DEF Undoable
    <3>2. w = Built(0, r.session)
      BY <1>1, <3>1, BuiltFields
    <3>3. QED  BY <1>1, <3>2, BuiltEnds
  <2>2. QED  BY <1>1, <1>2, <2>1, GoOn, PartsAndPlaces
<1>3. CASE r.plan # {} /\ Leave(q, "failed") /\ spoiled' = spoiled \cup {g}
           /\ UNCHANGED <<site, faults>>
  <2>1. spoiled' \subseteq Slug  BY <1>1, <1>3
  <2>2. QED  BY <1>1, <1>3, <2>1, GoOn, PartsAndPlaces
<1>4. CASE /\ r.plan # {}
           /\ site' = [site EXCEPT ![g] = Without(@, part, r)]
           /\ try' = [p \in Request |->
                        IF p = q THEN next
                        ELSE IF part = "tenant" /\ p \in Working(g)
                        THEN [try[p] EXCEPT !.held = FALSE] ELSE try[p]]
           /\ UNCHANGED <<spoiled, faults>>
  <2>1. part \in r.plan  BY <1>1, <1>4, FirstOfPlan
  <2>2. /\ next \in RequestState /\ next.session = r.session /\ next.slug = g
        /\ next.at = "undo" /\ next.plan = r.plan \ {part}
    BY <1>1 DEF RequestState
  <2>3. /\ Without(site[g], part, r) \in SiteState
        /\ g \notin spoiled => SiteAt(next, Without(site[g], part, r))
    BY <1>1, <2>1, <2>2, WithoutPart DEF SiteAt
  <2> HIDE DEF next, part
  <2>4. /\ site' \in [Slug -> SiteState] /\ site'[g] = Without(site[g], part, r)
        /\ \A h \in Slug \ {g} : site'[h] = site[h]
    BY <1>1, <1>4, <2>3 DEF TypeOK
  <2>5. ASSUME NEW p \in Request, p # q
        PROVE  /\ try'[p] \in RequestState \cup {Idle} /\ Fresh(try'[p])
               /\ try'[p].at = try[p].at
               /\ HasSlug(p) => /\ try'[p].session = try[p].session
                                /\ try'[p].slug = try[p].slug
               /\ p \notin Working(g) => try'[p] = try[p]
    <3> DEFINE let == [try[p] EXCEPT !.held = FALSE]
    <3>1. Fresh(try[p]) /\ try[p] \in RequestState \cup {Idle}
      BY <1>1 DEF FreshOK, TypeOK
    <3>2. CASE try'[p] = try[p]  BY <3>1, <3>2
    <3>3. CASE p \in Working(g) /\ try'[p] = let
      <4>1. try[p] \in RequestState  BY <1>1, <3>3, RequestFacts DEF Working
      <4>2. /\ let \in RequestState /\ let.at = try[p].at /\ let.slug = try[p].slug
            /\ let.session = try[p].session /\ let.plan = try[p].plan
            /\ let.prev = try[p].prev /\ ~let.held
        BY <4>1 DEF RequestState
      <4>3. Fresh(let)  BY <3>1, <4>2 DEF Fresh
      <4> HIDE DEF let
      <4>4. QED  BY <3>3, <4>2, <4>3
    <3>4. QED  BY <1>4, <2>5, <3>2, <3>3
  <2>6. try'[q] = next  BY <1>4
  <2>7. try' \in [Request -> RequestState \cup {Idle}] /\ FreshOK'
    <3>1. \A p \in Request : try'[p] \in RequestState \cup {Idle} /\ Fresh(try'[p])
      BY <2>2, <2>5, <2>6 DEF Fresh
    <3>2. try' = [p \in Request |-> try'[p]]  BY <1>4
    <3>3. QED  BY <3>1, <3>2 DEF FreshOK
  <2>8. TypeOK'  BY <1>1, <1>4, <2>4, <2>7 DEF TypeOK
  <2>9. HasSlug(q)'  BY <2>2, <2>6 DEF HasSlug
  <2>10. /\ spoiled \subseteq spoiled'
         /\ g \notin spoiled' =>
              /\ SiteAt(try'[q], site'[g])
              /\ try'[q].at \in Building \cup {"undo"} => ~row[try[q].session].done
              /\ row[try[q].session].done => site'[g] = Finished(try[q].session)
    BY <1>1, <1>4, <2>3, <2>4, <2>6
  <2>11. Rest'
    BY <1>1, <2>2, <2>4, <2>5, <2>6, <2>9, <2>10, WorkStep
  <2>12. QED  BY <2>7, <2>8, <2>11 DEF ProvisioningInv, Rest
<1>5. QED  BY <1>2, <1>3, <1>4 DEF Undo

\* A request without a slug looks on for one, or gives up.
LEMMA LookOn ==
    ASSUME ProvisioningInv, NEW q \in Request, ~HasSlug(q), NEW r \in RequestState \cup {Idle},
           r.at \in {"idle", "reserved", "candidate", "insert", "again"}, Fresh(r),
           Become(q, r), UNCHANGED <<row, site, spoiled>>, faults' \in 0 .. MaxFaults
    PROVE  ProvisioningInv'
<1>1. TypeOK /\ Rest /\ FreshOK  BY DEF ProvisioningInv, Rest
<1>2. try' \in [Request -> RequestState \cup {Idle}] /\ FreshOK'
  BY <1>1, OwnRequest
<1>3. TypeOK'  BY <1>1, <1>2 DEF TypeOK
<1>4. Rest'  BY <1>1, OutsideStep DEF Become
<1>5. QED  BY <1>2, <1>3, <1>4 DEF ProvisioningInv, Rest

LEMMA BeginStep ==
    ASSUME ProvisioningInv, NEW q \in Request, NEW s \in Session, Begin(q, s)
    PROVE  ProvisioningInv'
<1> DEFINE r == [at |-> "reserved", session |-> s, slug |-> 1, plan |-> {},
                 prev |-> None, held |-> FALSE]
<1>1. r \in RequestState /\ Fresh(r) /\ r.at = "reserved"
  BY ProvisioningAssumption, PartsAndPlaces DEF RequestState, Slug, Fresh
<1>2. ~HasSlug(q) /\ faults' \in 0 .. MaxFaults
  BY DEF Begin, HasSlug, ProvisioningInv, TypeOK
<1> HIDE DEF r
<1>3. Become(q, r) /\ UNCHANGED <<row, site, spoiled>>  BY DEF Begin, r
<1>4. QED  BY <1>1, <1>2, <1>3, LookOn

\* The request and its session, before it has a slug.
LEMMA Looking ==
    ASSUME ProvisioningInv, NEW q \in Request,
           try[q].at \in {"reserved", "candidate", "insert", "again"}
    PROVE  /\ ~HasSlug(q) /\ try[q] \in RequestState /\ try[q].session \in Session
           /\ try[q].slug \in Slug /\ TypeOK /\ FreshOK /\ Rest
           /\ try[q].plan = {} /\ try[q].prev = None /\ ~try[q].held
<1>1. TypeOK /\ FreshOK /\ Rest /\ ~HasSlug(q)  BY DEF ProvisioningInv, Rest, HasSlug
<1>2. try[q] \in RequestState  BY <1>1, RequestFacts
<1>3. QED  BY <1>1, <1>2 DEF FreshOK, Fresh, RequestState

LEMMA CandidateStep ==
    ASSUME ProvisioningInv, NEW q \in Request,
           try[q].at \in {"reserved", "candidate", "insert", "again"},
           \/ NextCandidate(q) \/ Goto(q, "candidate") \/ Goto(q, "insert")
           \/ Goto(q, "again"),
           UNCHANGED <<row, site, spoiled, faults>>
    PROVE  ProvisioningInv'
<1> DEFINE r(place) == [try[q] EXCEPT !.at = place]
           up == [try[q] EXCEPT !.at = "candidate", !.slug = @ + 1]
<1>1. /\ ~HasSlug(q) /\ try[q] \in RequestState /\ faults' \in 0 .. MaxFaults
      /\ try[q].plan = {} /\ try[q].prev = None /\ ~try[q].held
  BY Looking DEF TypeOK
<1>2. ASSUME NEW place \in {"candidate", "insert", "again"}
      PROVE  /\ r(place) \in RequestState /\ r(place).at = place /\ Fresh(r(place))
  BY <1>1, PartsAndPlaces DEF RequestState, Fresh
<1>3. ASSUME try[q].slug # MaxSlug
      PROVE  up \in RequestState /\ up.at = "candidate" /\ Fresh(up)
  <2>1. try[q].slug + 1 \in Slug
    BY <1>1, <1>3, ProvisioningAssumption DEF RequestState, Slug
  <2>2. QED  BY <1>1, <2>1, PartsAndPlaces DEF RequestState, Fresh
<1>4. Idle.at = "idle" /\ Fresh(Idle)  BY DEF Idle, Fresh
<1> HIDE DEF r, up
<1>5. ASSUME NEW place \in {"candidate", "insert", "again"}, Become(q, r(place))
      PROVE  ProvisioningInv'
  BY <1>1, <1>2, <1>5, LookOn
<1>6. CASE NextCandidate(q)
  <2>1. CASE try[q].slug = MaxSlug /\ Become(q, Idle)  BY <1>1, <1>4, <2>1, LookOn
  <2>2. CASE try[q].slug # MaxSlug /\ Become(q, up)  BY <1>1, <1>3, <2>2, LookOn
  <2>3. QED  BY <1>6, <2>1, <2>2 DEF NextCandidate, Done, up
<1>7. QED  BY <1>5, <1>6 DEF Goto, r

\* The request takes a slug.
LEMMA Taken ==
    ASSUME ProvisioningInv, NEW q \in Request, NEW g \in Slug, NEW s,
           try[q].at \in {"reserved", "candidate", "insert", "again"},
           Take(q, g), s = try[q].session, UNCHANGED <<site, faults>>,
           \/ row' = row /\ row[s].slug = g
           \/ /\ row[s] = NoRow /\ \A t \in Session : row[t].slug # g
              /\ row' = [row EXCEPT ![s] = [slug |-> g, done |-> FALSE]]
    PROVE  ProvisioningInv'
<1> DEFINE r == [try[q] EXCEPT !.at = "find", !.slug = g]
<1>1. /\ ~HasSlug(q) /\ try[q] \in RequestState /\ s \in Session
      /\ TypeOK /\ FreshOK /\ Rest
      /\ try[q].plan = {} /\ try[q].prev = None /\ ~try[q].held
  BY Looking
<1>2. r \in RequestState /\ Fresh(r)  BY <1>1, PartsAndPlaces DEF RequestState, Fresh
<1>3. Become(q, r)  BY DEF Take
<1> HIDE DEF r
<1>4. try' \in [Request -> RequestState \cup {Idle}] /\ FreshOK' /\ try'[q] = r
  BY <1>1, <1>2, <1>3, OwnRequest
<1>5. row' \in [Session -> RowState \cup {NoRow}]
  <2>1. [slug |-> g, done |-> FALSE] \in RowState  BY DEF RowState
  <2>2. QED  BY <1>1, <2>1 DEF TypeOK
<1>6. spoiled' \subseteq Slug  BY <1>1 DEF Take, TypeOK
<1>7. TypeOK'  BY <1>1, <1>4, <1>5, <1>6 DEF TypeOK
<1>8. Rest'  BY <1>1, <1>2, <1>4, TakeStep
<1>9. QED  BY <1>4, <1>7, <1>8 DEF ProvisioningInv, Rest

LEMMA FindSlugStep ==
    ASSUME ProvisioningInv, NEW q \in Request,
           \/ FindReserved(q) \/ TryCandidate(q) \/ ReserveSlug(q) \/ FindAgain(q)
    PROVE  ProvisioningInv'
<1> DEFINE s == try[q].session
<1>1. ASSUME s \in Session, row[s] # NoRow  PROVE row[s].slug \in Slug
  BY <1>1, RowFacts DEF ProvisioningInv
<1>2. CASE FindReserved(q)
  <2>1. s \in Session  BY <1>2, Looking DEF FindReserved
  <2>2. QED  BY <1>1, <1>2, <2>1, Taken, CandidateStep DEF FindReserved
<1>3. CASE TryCandidate(q)  BY <1>3, CandidateStep DEF TryCandidate
<1>4. CASE ReserveSlug(q)
  <2>1. try[q].slug \in Slug  BY <1>4, Looking DEF ReserveSlug
  <2>2. QED  BY <1>4, <2>1, Taken, CandidateStep DEF ReserveSlug
<1>5. CASE FindAgain(q)
  <2>1. s \in Session  BY <1>5, Looking DEF FindAgain
  <2>2. QED  BY <1>1, <1>5, <2>1, Taken, CandidateStep DEF FindAgain
<1>6. QED  BY <1>2, <1>3, <1>4, <1>5

\* A tenant that is there is a finished one.
LEMMA FindTenantStep ==
    ASSUME ProvisioningInv, NEW q \in Request, FindTenant(q)
    PROVE  ProvisioningInv'
<1> DEFINE g == try[q].slug
           w == site[g]
           s == try[q].session
           r == [try[q] EXCEPT !.at = "schema"]
<1>1. /\ HasSlug(q) /\ try[q] \in RequestState /\ g \in Slug /\ w \in SiteState
      /\ try[q].plan = {} /\ try[q].prev = None /\ ~try[q].held
      /\ TypeOK
  <2>1. try[q].at = "find" /\ HasSlug(q)  BY DEF FindTenant, HasSlug
  <2>2. TypeOK /\ FreshOK  BY DEF ProvisioningInv
  <2>3. QED  BY <2>1, <2>2, RequestFacts DEF FreshOK, Fresh, TypeOK
<1>2. g \notin spoiled => /\ w = Nothing \/ w = Finished(s)
                          /\ row[s].done => w = Finished(s)
  BY <1>1, AtWork DEF SiteAt, FindTenant
<1>3. (w = Nothing => ~w.tenant) /\ (w = Finished(s) => w.tenant)  BY <1>1, BuiltEnds
<1>4. CASE w.tenant /\ Goto(q, "load")
  <2>1. UNCHANGED <<row, site, spoiled, faults>> /\ spoiled \subseteq Slug
    BY <1>1 DEF FindTenant, TypeOK
  <2>2. QED  BY <1>1, <1>2, <1>3, <1>4, <2>1, GoOn, PartsAndPlaces
<1>5. CASE ~w.tenant /\ Goto(q, "schema")
  <2>1. /\ r \in RequestState /\ r.at = "schema" /\ r.session = s /\ r.slug = g
        /\ r.plan = {} /\ r.prev = None /\ ~r.held
    BY <1>1, PartsAndPlaces DEF RequestState
  <2>2. Become(q, r)  BY <1>5 DEF Goto
  <2> HIDE DEF r
  <2>3. g \notin spoiled => After(r, w, 0)
    <3>1. SUFFICES ASSUME w = Nothing  PROVE After(r, w, 0)
      BY <1>2, <1>3, <1>5
    <3>2. w = Built(0, r.session)  BY <1>1, <3>1, BuiltEnds
    <3>3. r.held = (0 >= 2)  BY <2>1 DEF RequestState
    <3>4. QED  BY <2>1, <3>2, <3>3, PlannedParts DEF After
  <2>4. g \notin spoiled => SiteAt(r, w) /\ ~row[s].done
    BY <1>2, <1>3, <1>5, <2>1, <2>3 DEF SiteAt
  <2>5. /\ UNCHANGED <<row, site, spoiled, faults>>
        /\ spoiled \subseteq Slug /\ faults' \in 0 .. MaxFaults
        /\ site' \in [Slug -> SiteState]
    BY <1>1 DEF FindTenant, TypeOK
  <2>6. QED  BY <1>1, <2>1, <2>2, <2>4, <2>5, OwnStep
<1>6. QED  BY <1>4, <1>5 DEF FindTenant

LEMMA LastSteps ==
    ASSUME ProvisioningInv, NEW q \in Request, LoadOwner(q) \/ Notify(q)
    PROVE  ProvisioningInv'
<1> DEFINE w == site[try[q].slug]
           s == try[q].session
<1>1. /\ HasSlug(q) /\ spoiled \subseteq Slug
      /\ try[q].slug \notin spoiled => w = Finished(s)
  <2>1. try[q].at \in {"load", "notify"}  BY DEF LoadOwner, Notify
  <2>2. HasSlug(q)  BY <2>1 DEF HasSlug
  <2>3. QED  BY <2>1, <2>2, AtWork DEF SiteAt, ProvisioningInv, TypeOK
<1>2. ASSUME Goto(q, "notify") \/ Goto(q, "complete") \/ Goto(q, "failed"),
             UNCHANGED <<row, site, spoiled>>, UNCHANGED faults \/ Fault
      PROVE  ProvisioningInv'
  BY <1>1, <1>2, GoOn, PartsAndPlaces
<1>3. QED  BY <1>2 DEF LoadOwner, Notify

\* A request that is done leaves its slug.
LEMMA EndStep ==
    ASSUME ProvisioningInv, NEW q \in Request, HasSlug(q), Done(q), UNCHANGED site,
           spoiled \subseteq spoiled', spoiled' \subseteq Slug, faults' \in 0 .. MaxFaults,
           NEW g, NEW s, g = try[q].slug, s = try[q].session,
           \/ row' = row
           \/ /\ row[s] # NoRow /\ row' = [row EXCEPT ![s].done = TRUE]
              /\ g \notin spoiled => site[g] = Finished(s)
           \/ /\ row' = [row EXCEPT ![s] = NoRow]
              /\ g \notin spoiled => site[g] = Nothing,
           g \notin spoiled' => site[g] = Nothing \/ site[g] = Finished(s)
    PROVE  ProvisioningInv'
<1>1. TypeOK /\ FreshOK /\ Rest /\ s \in Session
  <2>1. TypeOK /\ FreshOK /\ Rest  BY DEF ProvisioningInv, Rest
  <2>2. QED  BY <2>1, RequestFacts
<1>2. try' \in [Request -> RequestState \cup {Idle}] /\ FreshOK'
  <2>1. Fresh(Idle)  BY DEF Fresh, Idle
  <2>2. QED  BY <1>1, <2>1, OwnRequest DEF Done
<1>3. row' \in [Session -> RowState \cup {NoRow}]
  <2>1. row \in [Session -> RowState \cup {NoRow}]  BY <1>1 DEF TypeOK
  <2>2. CASE row[s] # NoRow /\ row' = [row EXCEPT ![s].done = TRUE]
    <3>1. row[s] \in RowState  BY <1>1, <2>1, <2>2
    <3>2. [row[s] EXCEPT !.done = TRUE] \in RowState  BY <3>1 DEF RowState
    <3>3. QED  BY <1>1, <2>1, <2>2, <3>2
  <2>3. QED  BY <1>1, <2>1, <2>2
<1>4. TypeOK'  BY <1>1, <1>2, <1>3 DEF TypeOK
<1>5. Rest'  BY <1>1, LeaveStep DEF Done, Become
<1>6. QED  BY <1>2, <1>4, <1>5 DEF ProvisioningInv, Rest

\* The request and its slug at the end, or anywhere but in the middle of building.
LEMMA AtEnd ==
    ASSUME ProvisioningInv, NEW q \in Request, HasSlug(q)
    PROVE  LET g == try[q].slug
               w == site[g]
               s == try[q].session
           IN  /\ g \in Slug /\ s \in Session /\ w \in SiteState
               /\ g \notin spoiled =>
                    /\ try[q].at \notin (Building \ {"schema"}) \cup {"undo"} =>
                         w = Nothing \/ w = Finished(s)
                    /\ try[q].at = "complete" => w = Finished(s)
                    /\ try[q].at = "forget" => w = Nothing
<1> DEFINE g == try[q].slug
           w == site[g]
           s == try[q].session
<1>1. /\ try[q] \in RequestState /\ g \in Slug /\ s \in Session /\ w \in SiteState
      /\ try[q].at \in Place
  BY RequestFacts DEF ProvisioningInv, TypeOK, RequestState
<1>2. ASSUME g \notin spoiled, try[q].at \notin (Building \ {"schema"}) \cup {"undo"}
      PROVE  w = Nothing \/ w = Finished(s)
  <2>1. SiteAt(try[q], w)  BY <1>2, AtWork
  <2>2. CASE try[q].at = "schema"
    <3>1. After(try[q], w, 0)  BY <2>1, <2>2 DEF SiteAt
    <3>2. QED  BY <1>1, <3>1, BuiltEnds DEF After
  <2>3. CASE try[q].at \in {"find", "failed", "load", "notify", "complete", "forget"}
    BY <2>1, <2>3 DEF SiteAt
  <2>4. QED  BY <1>1, <1>2, <2>2, <2>3, PartsAndPlaces DEF HasSlug
<1>3. ASSUME g \notin spoiled
      PROVE  /\ try[q].at = "complete" => w = Finished(s)
             /\ try[q].at = "forget" => w = Nothing
  BY <1>3, AtWork DEF SiteAt
<1>4. QED  BY <1>1, <1>2, <1>3

LEMMA CompleteStep ==
    ASSUME ProvisioningInv, NEW q \in Request, Complete(q)
    PROVE  ProvisioningInv'
<1> DEFINE g == try[q].slug
           s == try[q].session
<1>1. /\ HasSlug(q) /\ g \in Slug /\ s \in Session
      /\ g \notin spoiled => site[g] = Finished(s)
      /\ spoiled \subseteq Slug /\ faults \in 0 .. MaxFaults
      /\ row \in [Session -> RowState \cup {NoRow}]
      /\ site' = site /\ spoiled' = spoiled
  <2>1. try[q].at = "complete" /\ HasSlug(q) /\ site' = site /\ spoiled' = spoiled
    BY DEF Complete, HasSlug
  <2>2. QED  BY <2>1, AtEnd DEF ProvisioningInv, TypeOK
<1>2. CASE /\ row' = [row EXCEPT ![s] = IF @ = NoRow THEN @ ELSE [@ EXCEPT !.done = TRUE]]
           /\ Done(q) /\ UNCHANGED faults
  <2>1. \/ row' = row
        \/ row[s] # NoRow /\ row' = [row EXCEPT ![s].done = TRUE]
    <3>1. CASE row[s] = NoRow  BY <1>1, <1>2, <3>1
    <3>2. CASE row[s] # NoRow  BY <1>1, <1>2, <3>2
    <3>3. QED  BY <3>1, <3>2
  <2>2. QED  BY <1>1, <1>2, <2>1, EndStep
<1>3. CASE Fault /\ Goto(q, "failed") /\ UNCHANGED row
  BY <1>1, <1>3, GoOn, PartsAndPlaces
<1>4. QED  BY <1>2, <1>3 DEF Complete

\* The session is kept while there is a tenant, and only then.
LEMMA FailSteps ==
    ASSUME ProvisioningInv, NEW q \in Request, Fail(q) \/ Forget(q)
    PROVE  ProvisioningInv'
<1> DEFINE g == try[q].slug
           w == site[g]
           s == try[q].session
<1>1. /\ HasSlug(q) /\ g \in Slug /\ s \in Session /\ w \in SiteState
      /\ g \notin spoiled => w = Nothing \/ w = Finished(s)
      /\ g \notin spoiled => (try[q].at = "forget" => w = Nothing)
      /\ spoiled \subseteq Slug /\ faults \in 0 .. MaxFaults
      /\ UNCHANGED <<site, spoiled, faults>>
  <2>1. try[q].at \in {"failed", "forget"}  BY DEF Fail, Forget
  <2>2. HasSlug(q) /\ try[q].at \notin (Building \ {"schema"}) \cup {"undo"}
    BY <2>1, PartsAndPlaces DEF HasSlug
  <2>3. QED  BY <2>2, AtEnd DEF Fail, Forget, ProvisioningInv, TypeOK
<1>2. w = Finished(s) => w.tenant  BY <1>1, BuiltEnds
<1>3. CASE Fail(q)
  <2>1. CASE w.tenant /\ Done(q)  BY <1>1, <1>3, <2>1, EndStep DEF Fail
  <2>2. CASE ~w.tenant /\ Goto(q, "forget")
    BY <1>1, <1>2, <1>3, <2>2, GoOn, PartsAndPlaces DEF Fail
  <2>3. QED  BY <1>3, <2>1, <2>2 DEF Fail
<1>4. CASE Forget(q)  BY <1>1, <1>4, EndStep DEF Forget
<1>5. QED  BY <1>3, <1>4

\* A process that dies in the middle of building spoils its slug.
LEMMA CrashStep ==
    ASSUME ProvisioningInv, NEW q \in Request, Crash(q)
    PROVE  ProvisioningInv'
<1> DEFINE g == try[q].slug
<1>1. /\ Done(q) /\ UNCHANGED <<row, site>> /\ faults' \in 0 .. MaxFaults
      /\ spoiled \subseteq Slug /\ try[q].at # "idle"
      /\ spoiled' = IF try[q].at \in (Building \ {"schema"}) \cup {"undo"}
                    THEN spoiled \cup {g} ELSE spoiled
  BY ProvisioningAssumption DEF Crash, Fault, ProvisioningInv, TypeOK
<1>2. CASE HasSlug(q)
  <2>1. g \in Slug  BY <1>2, AtEnd
  <2>2. /\ spoiled \subseteq spoiled' /\ spoiled' \subseteq Slug
        /\ g \notin spoiled' => site[g] = Nothing \/ site[g] = Finished(try[q].session)
    BY <1>1, <1>2, <2>1, AtEnd
  <2>3. QED  BY <1>1, <1>2, <2>2, EndStep
<1>3. CASE ~HasSlug(q)
  <2>1. spoiled' = spoiled  BY <1>1, <1>3, PartsAndPlaces DEF HasSlug
  <2>2. Idle.at = "idle" /\ Fresh(Idle)  BY DEF Idle, Fresh
  <2>3. QED  BY <1>1, <1>3, <2>1, <2>2, LookOn DEF Done
<1>4. QED  BY <1>2, <1>3

-----------------------------------------------------------------------------
(* The theorems.                                                           *)

LEMMA InitInv == Init => ProvisioningInv
<1> SUFFICES ASSUME Init PROVE ProvisioningInv
  OBVIOUS
<1>1. /\ \A s \in Session : row[s] = NoRow
      /\ \A g \in Slug : site[g] = Nothing
      /\ \A q \in Request : try[q] = Idle /\ ~HasSlug(q)
  BY DEF Init, HasSlug, Idle
<1>2. TypeOK
  BY ProvisioningAssumption DEF Init, TypeOK, SiteState, Nothing
<1>3. FreshOK  BY <1>1 DEF FreshOK, Fresh, Idle
<1>4. SlugsUnique /\ ServedFinished  BY <1>1, SlugNotNone DEF SlugsUnique, ServedFinished, NoRow
<1>5. OwnSlug /\ WorkAlone  BY <1>1 DEF OwnSlug, WorkAlone
<1>6. Resting  BY <1>1 DEF Resting
<1>7. QED  BY <1>2, <1>3, <1>4, <1>5, <1>6 DEF ProvisioningInv

LEMMA NextInv == ProvisioningInv /\ [Next]_vars => ProvisioningInv'
<1> SUFFICES ASSUME ProvisioningInv, [Next]_vars  PROVE ProvisioningInv'
  OBVIOUS
<1>1. ASSUME NEW q \in Request, NEW s \in Session, Begin(q, s)  PROVE ProvisioningInv'
  BY <1>1, BeginStep
<1>2. ASSUME NEW q \in Request, Continue(q)  PROVE ProvisioningInv'
  BY <1>2, FindSlugStep, FindTenantStep, ProvisionStep, UndoStep, LastSteps,
     CompleteStep, FailSteps
  DEF Continue
<1>3. ASSUME NEW q \in Request, Crash(q)  PROVE ProvisioningInv'
  BY <1>3, CrashStep
<1>4. CASE UNCHANGED vars
  BY <1>4
  DEF vars, ProvisioningInv, TypeOK, FreshOK, SlugsUnique, OwnSlug, WorkAlone, Alone,
      Resting, ServedFinished, HasSlug, Working
<1>5. QED  BY <1>1, <1>2, <1>3, <1>4 DEF Next

\* What holds of a slug that is not spoiled is an invariant.
LEMMA Invariance == Spec => []ProvisioningInv
  BY InitInv, NextInv, PTL DEF Spec

LEMMA FinishedIsWhole ==
    ASSUME NEW g, NEW s, site[g] = Finished(s)
    PROVE  Whole(g, s)
<1>1. /\ (7 >= 1) = TRUE /\ (7 >= 2) = TRUE /\ (7 >= 3) = TRUE /\ (7 >= 4) = TRUE
      /\ (7 >= 5) = TRUE /\ (7 >= 6) = TRUE /\ (7 >= 7) = TRUE
  OBVIOUS
<1>2. QED  BY <1>1, Zenon DEF Finished, Built, Whole

\* The types hold.
THEOREM TypeCorrect == Spec => []TypeOK
<1>1. ProvisioningInv => TypeOK  BY DEF ProvisioningInv
<1>2. QED  BY <1>1, Invariance, PTL

\* DemoSlugReserver: two forms never build under one slug, however many candidates
\* they race for and however slugs come free.
THEOREM SlugsExclusive == Spec => []SlugExclusive
<1>1. ProvisioningInv => SlugExclusive
  <2> SUFFICES ASSUME ProvisioningInv, NEW g \in Slug \ spoiled,
                      NEW p \in Working(g), NEW q \in Working(g)
               PROVE  try[p].session = try[q].session
    BY DEF SlugExclusive
  <2>1. p = q  BY OneWorks DEF Working, ProvisioningInv
  <2>2. QED  BY <2>1
<1>2. QED  BY <1>1, Invariance, PTL

\* TenantProvisioningService with its compensation: a slug nobody works on, and under
\* which nothing was cut short, has a whole tenant or nothing at all.
THEOREM NoHalfTenant == Spec => []AllOrNothing
<1>1. ProvisioningInv => AllOrNothing
  BY FinishedIsWhole DEF ProvisioningInv, Resting, AllOrNothing
<1>2. QED  BY <1>1, Invariance, PTL

\* A completed signup has its whole tenant from then on, whatever later requests of
\* the same or another form do, and whichever of their steps fail.
THEOREM ServedStaysWhole == Spec => []ServedIsWhole
<1>1. ProvisioningInv => ServedIsWhole
  <2> SUFFICES ASSUME ProvisioningInv, NEW s \in Session, row[s] # NoRow, row[s].done,
                      row[s].slug \notin spoiled
               PROVE  Whole(row[s].slug, s)
    BY DEF ServedIsWhole
  <2>1. row[s].slug \in Slug  BY RowFacts DEF ProvisioningInv
  <2>2. site[row[s].slug] = Finished(s)  BY <2>1 DEF ProvisioningInv, ServedFinished
  <2>3. QED  BY <2>2, FinishedIsWhole
<1>2. QED  BY <1>1, Invariance, PTL

=============================================================================
