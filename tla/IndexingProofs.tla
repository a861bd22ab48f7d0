--------------------------- MODULE IndexingProofs ---------------------------
(***************************************************************************)
(* Safety of the embedding and indexing stages, for any number of items,   *)
(* chunk batches, handler threads, versions, jobs and faults. A job has    *)
(* one thread that works on it, and every verdict in the metrics row or on *)
(* its way back into it names a job that was verified completely.          *)
(***************************************************************************)
EXTENDS Indexing, FiniteSetTheorems, TLAPS

-----------------------------------------------------------------------------
(* The inductive invariant.                                                *)

\* Discovery jobs are numbered as they come; one that has published is of an item
\* with chunks.
SourceOK ==
    /\ \E n \in 0 .. MaxDisc : DOMAIN disc = 1 .. n
    /\ \A d \in DiscId : embReq[d] # "none" =>
         d \in DOMAIN disc /\ version[disc[d]] > 0

\* An embedding job is of a discovery job and of chunks that were there.
JobsOK ==
    /\ \A e \in EmbId :
         IF emb[e].status = "none" THEN emb[e] = NoEmb
         ELSE emb[e].disc \in DOMAIN disc /\ emb[e].version > 0
    /\ \A e \in EmbId : idxReq[e] # "none" => emb[e].status # "none"

\* What an indexing job has indexed is in the vector store.
PointsOK ==
    \A j \in IdxId :
        IF idx[j].status = "none" THEN idx[j] = NoIdx
        ELSE /\ idx[j].emb \in EmbId /\ emb[idx[j].emb].status # "none"
             /\ \A p \in Indexed(j) : point[ChunkOf(idx[j].emb, p)] # 0

\* Nobody has to publish for embedding job e any more, or somebody else will.
Settled(e) ==
    emb[e].status \in {"active", "failed"} \/ idxReq[e] # "none" \/ e \in lost

EmbWork == {"embed", "generate", "embedded"}
IdxWork == {"read", "upsert", "verify", "mark", "finish"}

\* A thread of the embedding stage, by the place it is at.
EmbeddingOK(h) ==
    /\ h.req \in DiscId /\ embReq[h.req] # "none"
    /\ h.at \in {"check", "create", "recalc", "write", "emit", "return"} \cup EmbWork
    /\ h.at = "create" => h.seen > 0
    /\ h.at \in {"check", "create"} => h.job = 0
    /\ h.at \notin {"check", "create"} =>
         h.job \in EmbId /\ emb[h.job].disc = h.req /\ emb[h.job].status # "none"
    /\ h.at \in EmbWork => emb[h.job].status = "active"
    /\ h.at = "return" => Settled(h.job)

\* A thread of the indexing stage. Until it has verified there is no verification;
\* a complete one is one of all that was indexed.
IndexingOK(h) ==
    /\ h.req \in EmbId /\ idxReq[h.req] # "none"
    /\ h.at \in {"check", "create", "recalc", "write", "return"} \cup IdxWork
    /\ h.at \in IdxWork =>
         h.job \in IdxId /\ idx[h.job].emb = h.req /\ idx[h.job].status = "active"
    /\ h.at \in {"read", "upsert", "verify"} => idx[h.job].verification = "none"
    /\ h.at = "mark" => idx[h.job].verification # "none"
    /\ h.at = "finish" => Indexed(h.job) = {} \/ idx[h.job].verification # "none"
    /\ h.at = "verify" => Indexed(h.job) # {}
    /\ h.at \in {"mark", "finish"} /\ idx[h.job].verification = "completed" =>
         Indexed(h.job) # {} /\ idx[h.job].verified = Indexed(h.job)

RunOK(h) ==
    h.at # "idle" =>
      /\ IF h.stage = "embedding" THEN EmbeddingOK(h) ELSE IndexingOK(h)
      /\ h.at \in {"recalc", "write"} => h.left > 0

RunsOK == \A r \in Runner : RunOK(run[r])

\* A thread of the embedding stage that has its job.
HasEmb(h) == h.at \notin {"idle", "check", "create"} /\ h.stage = "embedding"

\* One thread works on a job.
OneEach ==
    \A r, q \in Runner : r # q =>
        /\ HasEmb(run[r]) /\ HasEmb(run[q]) => run[r].job # run[q].job
        /\ run[r].at \in IdxWork /\ run[q].at \in IdxWork => run[r].job # run[q].job

\* A verdict that is ready names a job that was verified completely; at most its
\* end is still to be recorded.
Sound(v) ==
    v.ready =>
        /\ v.job \in IdxId
        /\ idx[v.job].status \in {"active", "completed"}
        /\ idx[v.job].verification = "completed"
        /\ Indexed(v.job) # {} /\ idx[v.job].verified = Indexed(v.job)

\* Wherever a verdict is: in the row, or in the hands of a recalculation.
VerdictsOK ==
    /\ Sound(verdict) /\ Sound(other.snap)
    /\ \A r \in Runner : Sound(run[r].snap)

IndexingInv ==
    /\ TypeOK /\ SourceOK /\ JobsOK /\ PointsOK /\ RunsOK /\ OneEach /\ VerdictsOK
    /\ ChainUnbroken

-----------------------------------------------------------------------------
(* The kinds of steps. A thread moves on, and perhaps acknowledges an      *)
(* event, publishes one or writes a verdict; no job and no point changes.  *)

\* Another thread is where it was.
LEMMA OtherThread ==
    ASSUME NEW q \in Runner, RunOK(run[q]), run'[q] = run[q],
           \A d \in DiscId : embReq[d] # "none" => embReq'[d] # "none",
           \A e \in EmbId : idxReq[e] # "none" => idxReq'[e] # "none",
           lost \subseteq lost',
           HasEmb(run[q]) => emb'[run[q].job] = emb[run[q].job],
           run[q].at \in IdxWork => idx'[run[q].job] = idx[run[q].job]
    PROVE  RunOK(run[q])'
<1>1. CASE run[q].at = "idle"  BY <1>1 DEF RunOK
<1>2. CASE run[q].at # "idle" /\ run[q].stage = "embedding"
  <2>1. EmbeddingOK(run[q])  BY <1>2 DEF RunOK
  <2>2. EmbeddingOK(run[q])'  BY <1>2, <2>1 DEF EmbeddingOK, HasEmb, Settled, EmbWork
  <2>3. QED  BY <1>2, <2>2 DEF RunOK
<1>3. CASE run[q].at # "idle" /\ run[q].stage # "embedding"
  <2>1. IndexingOK(run[q])  BY <1>3 DEF RunOK
  <2>2. IndexingOK(run[q])'
    <3>1. CASE run[q].at \in IdxWork
      BY <2>1, <3>1 DEF IndexingOK, IdxWork, Indexed
    <3>2. CASE run[q].at \notin IdxWork
      BY <2>1, <3>2 DEF IndexingOK, IdxWork
    <3>3. QED  BY <3>1, <3>2
  <2>3. QED  BY <1>3, <2>2 DEF RunOK
<1>4. QED  BY <1>1, <1>2, <1>3

LEMMA ThreadStep ==
    ASSUME IndexingInv, NEW r \in Runner, NEW h \in Handling,
           run' = [run EXCEPT ![r] = h],
           UNCHANGED <<version, disc, emb, idx, point, other>>,
           embReq' \in [DiscId -> Event], idxReq' \in [EmbId -> Event],
           verdict' \in Verdict, lost \subseteq lost', lost' \subseteq EmbId,
           faults' \in 0 .. MaxFaults,
           \A d \in DiscId : embReq[d] = "none" <=> embReq'[d] = "none",
           \A e \in EmbId : idxReq[e] # "none" => idxReq'[e] # "none",
           \A e \in EmbId : idxReq'[e] # "none" => emb[e].status # "none",
           RunOK(run[r])', Sound(verdict'), Sound(h.snap),
           HasEmb(h) => HasEmb(run[r]) /\ h.job = run[r].job,
           h.at \in IdxWork => run[r].at \in IdxWork /\ h.job = run[r].job,
           \A d \in DiscId : embReq'[d] = "acked" /\ embReq[d] # "acked" =>
             \E e \in JobsOf(d) : Settled(e)',
           \A e : HasEmb(run[r]) /\ embReq[run[r].req] = "acked" /\ e = run[r].job =>
             (HasEmb(h) /\ h.req = run[r].req) \/ Settled(e)'
    PROVE  IndexingInv'
<1>0. /\ TypeOK /\ SourceOK /\ JobsOK /\ PointsOK /\ RunsOK /\ OneEach /\ VerdictsOK
      /\ ChainUnbroken
  BY DEF IndexingInv
<1>1. /\ run \in [Runner -> Handling] /\ run' \in [Runner -> Handling]
      /\ run'[r] = h /\ \A q \in Runner \ {r} : run'[q] = run[q]
  BY <1>0 DEF TypeOK
<1>2. TypeOK'  BY <1>0, <1>1 DEF TypeOK
<1>3. SourceOK'  BY <1>0 DEF SourceOK
<1>4. JobsOK'  BY <1>0 DEF JobsOK
<1>5. PointsOK'  BY <1>0 DEF PointsOK, Indexed, ChunkOf
<1>6. RunsOK'
  <2> SUFFICES ASSUME NEW q \in Runner  PROVE RunOK(run[q])'
    BY DEF RunsOK
  <2>1. CASE q # r
    <3>1. RunOK(run[q]) /\ run'[q] = run[q]  BY <1>0, <1>1, <2>1 DEF RunsOK
    <3>2. QED  BY <3>1, OtherThread
  <2>2. QED  BY <2>1
<1>7. OneEach'  BY <1>0, <1>1 DEF OneEach
<1>8. \A v : Sound(v) => Sound(v)'  BY DEF Sound, Indexed
<1>9. VerdictsOK'
  <2>1. Sound(verdict)'  BY DEF Sound, Indexed
  <2>2. Sound(other.snap)'  BY <1>0 DEF VerdictsOK, Sound, Indexed
  <2>3. ASSUME NEW q \in Runner  PROVE Sound(run[q].snap)'
    <3>1. CASE q = r  BY <1>1, <3>1 DEF Sound, Indexed
    <3>2. CASE q # r  BY <1>0, <1>1, <3>2 DEF VerdictsOK, Sound, Indexed
    <3>3. QED  BY <3>1, <3>2
  <2>4. QED  BY <2>1, <2>2, <2>3 DEF VerdictsOK
<1>10. ChainUnbroken'
  <2> SUFFICES ASSUME NEW d \in DiscId, embReq'[d] = "acked"
               PROVE  \E e \in JobsOf(d) :
                        \/ Settled(e)'
                        \/ \E q \in Runner : Handles(q, "embedding", d)' /\ run'[q].job = e
    BY DEF ChainUnbroken, Settled, JobsOf
  <2>1. CASE embReq[d] # "acked"  BY <2>1
  <2>2. CASE embReq[d] = "acked"
    <3>1. PICK e \in JobsOf(d) :
            \/ Settled(e)
            \/ \E q \in Runner : Handles(q, "embedding", d) /\ run[q].job = e
      BY <1>0, <2>2 DEF ChainUnbroken, Settled
    <3>2. CASE Settled(e)
      <4>1. Settled(e)'  BY <3>1, <3>2 DEF Settled, JobsOf
      <4>2. QED  BY <4>1
    <3>3. ASSUME NEW q \in Runner, Handles(q, "embedding", d), run[q].job = e,
                 ~Settled(e)'
          PROVE  Handles(q, "embedding", d)' /\ run'[q].job = e
      <4>1. CASE q # r  BY <1>1, <3>3, <4>1 DEF Handles
      <4>2. CASE q = r /\ HasEmb(run[r])  BY <1>1, <2>2, <3>3, <4>2 DEF Handles, HasEmb
      <4>3. CASE q = r /\ ~HasEmb(run[r])
        <5>1. run[r].at \in {"check", "create"} /\ run[r].stage = "embedding"
          BY <3>3, <4>3 DEF Handles, HasEmb
        <5>2. run[r].job = 0  BY <1>0, <5>1 DEF RunsOK, RunOK, EmbeddingOK
        <5>3. e # 0  BY DEF JobsOf, EmbId
        <5>4. QED  BY <3>3, <4>3, <5>2, <5>3
      <4>4. QED  BY <4>1, <4>2, <4>3
    <3>4. QED  BY <3>1, <3>2, <3>3
  <2>3. QED  BY <2>1, <2>2
<1>11. QED  BY <1>2, <1>3, <1>4, <1>5, <1>6, <1>7, <1>9, <1>10 DEF IndexingInv

\* A thread creates its embedding job or works on it.
LEMMA EmbeddingStep ==
    ASSUME IndexingInv, NEW r \in Runner, NEW h \in Handling, NEW e \in EmbId,
           NEW x \in EmbJob,
           run' = [run EXCEPT ![r] = h], emb' = [emb EXCEPT ![e] = x],
           UNCHANGED <<version, disc, embReq, idxReq, idx, point, verdict, other, lost,
                       faults>>,
           x.status # "none", x.disc \in DOMAIN disc, x.version > 0,
           \/ emb[e].status = "none" /\ ~HasEmb(run[r])
           \/ /\ emb[e].status # "none" /\ HasEmb(run[r]) /\ run[r].job = e
              /\ x.disc = emb[e].disc /\ x.version = emb[e].version,
           HasEmb(h), h.job = e, h.req = x.disc, h.at \in EmbWork \cup {"recalc"},
           h.at \in EmbWork => x.status = "active", h.at = "recalc" => h.left > 0,
           h.req \in DiscId, embReq[h.req] # "none", Sound(h.snap)
    PROVE  IndexingInv'
<1>0. /\ TypeOK /\ SourceOK /\ JobsOK /\ PointsOK /\ RunsOK /\ OneEach /\ VerdictsOK
      /\ ChainUnbroken
  BY DEF IndexingInv
<1>1. /\ run \in [Runner -> Handling] /\ run' \in [Runner -> Handling]
      /\ run'[r] = h /\ \A q \in Runner \ {r} : run'[q] = run[q]
      /\ emb \in [EmbId -> EmbJob] /\ emb' \in [EmbId -> EmbJob]
      /\ emb'[e] = x /\ \A f \in EmbId \ {e} : emb'[f] = emb[f]
  BY <1>0 DEF TypeOK
<1>2. TypeOK'  BY <1>0, <1>1 DEF TypeOK
<1>3. SourceOK'  BY <1>0 DEF SourceOK
<1>4. JobsOK'  BY <1>0, <1>1 DEF JobsOK
<1>5. PointsOK'
  <2> SUFFICES ASSUME NEW k \in IdxId
               PROVE  IF idx[k].status = "none" THEN idx[k] = NoIdx
                      ELSE /\ idx[k].emb \in EmbId /\ emb'[idx[k].emb].status # "none"
                           /\ \A p \in Indexed(k) : point[ChunkOf(idx[k].emb, p)'] # 0
    BY DEF PointsOK, Indexed, ChunkOf
  <2>1. CASE idx[k].status # "none"
    <3>1. /\ idx[k].emb \in EmbId /\ emb[idx[k].emb].status # "none"
          /\ \A p \in Indexed(k) : point[ChunkOf(idx[k].emb, p)] # 0
      BY <1>0, <2>1 DEF PointsOK
    <3>2. /\ emb'[idx[k].emb].disc = emb[idx[k].emb].disc
          /\ emb'[idx[k].emb].version = emb[idx[k].emb].version
          /\ emb'[idx[k].emb].status # "none"
      BY <1>1, <3>1
    <3>3. QED  BY <2>1, <3>1, <3>2 DEF ChunkOf
  <2>2. QED  BY <1>0, <2>1 DEF PointsOK
<1>6. ASSUME NEW q \in Runner, q # r, HasEmb(run[q])
      PROVE  run[q].job \in EmbId \ {e}
  <2>1. run[q].job \in EmbId /\ emb[run[q].job].status # "none"
    BY <1>0, <1>6 DEF RunsOK, RunOK, EmbeddingOK, HasEmb
  <2>2. QED  BY <1>0, <1>6, <2>1 DEF OneEach
<1>7. RunsOK'
  <2>1. ASSUME NEW q \in Runner, q # r  PROVE RunOK(run[q])'
    <3>1. RunOK(run[q]) /\ run'[q] = run[q]  BY <1>0, <1>1, <2>1 DEF RunsOK
    <3>2. HasEmb(run[q]) => emb'[run[q].job] = emb[run[q].job]  BY <1>1, <1>6, <2>1
    <3>3. QED  BY <3>1, <3>2, OtherThread
  <2>2. RunOK(run[r])'  BY <1>1 DEF RunOK, EmbeddingOK, HasEmb, EmbWork
  <2>3. QED  BY <2>1, <2>2 DEF RunsOK
<1>8. OneEach'  BY <1>0, <1>1, <1>6 DEF OneEach, EmbWork, IdxWork
<1>9. VerdictsOK'
  <2>1. Sound(verdict)'  BY <1>0 DEF VerdictsOK, Sound, Indexed
  <2>2. Sound(other.snap)'  BY <1>0 DEF VerdictsOK, Sound, Indexed
  <2>3. ASSUME NEW q \in Runner  PROVE Sound(run[q].snap)'
    <3>1. CASE q = r  BY <1>1, <3>1 DEF Sound, Indexed
    <3>2. CASE q # r  BY <1>0, <1>1, <3>2 DEF VerdictsOK, Sound, Indexed
    <3>3. QED  BY <3>1, <3>2
  <2>4. QED  BY <2>1, <2>2, <2>3 DEF VerdictsOK
<1>10. ChainUnbroken'
  <2> SUFFICES ASSUME NEW d \in DiscId, embReq[d] = "acked"
               PROVE  \E f \in EmbId :
                        /\ emb'[f].disc = d
                        /\ \/ Settled(f)'
                           \/ \E q \in Runner : Handles(q, "embedding", d)' /\ run'[q].job = f
    BY DEF ChainUnbroken, Settled, JobsOf
  <2>1. PICK f \in JobsOf(d) :
          \/ Settled(f)
          \/ \E q \in Runner : Handles(q, "embedding", d) /\ run[q].job = f
    BY <1>0 DEF ChainUnbroken, Settled
  <2>2. CASE f = e
    <3>1. d # 0 /\ emb[e].disc = d  BY <2>1, <2>2 DEF DiscId, JobsOf
    <3>2. emb[e].status # "none"  BY <1>0, <3>1 DEF JobsOK, NoEmb
    <3>3. x.disc = d  BY <3>1, <3>2
    <3>4. Handles(r, "embedding", d)' /\ run'[r].job = e
      BY <1>1, <3>3 DEF Handles, HasEmb
    <3>5. QED  BY <1>1, <3>3, <3>4
  <2>3. CASE f # e
    <3>1. f \in EmbId /\ emb'[f] = emb[f] /\ emb[f].disc = d
      BY <1>1, <2>1, <2>3 DEF JobsOf
    <3>2. CASE Settled(f)
      <4>1. Settled(f)'  BY <3>1, <3>2 DEF Settled
      <4>2. QED  BY <3>1, <4>1
    <3>3. ASSUME NEW q \in Runner, Handles(q, "embedding", d), run[q].job = f
          PROVE  Handles(q, "embedding", d)' /\ run'[q].job = f
      <4>1. f # 0  BY <3>1 DEF EmbId
      <4>2. HasEmb(run[q])
        BY <1>0, <3>3, <4>1 DEF Handles, HasEmb, RunsOK, RunOK, EmbeddingOK
      <4>3. q # r  BY <2>3, <3>3, <4>2
      <4>4. QED  BY <1>1, <3>3, <4>3 DEF Handles
    <3>4. QED  BY <2>1, <3>1, <3>2, <3>3
  <2>4. QED  BY <2>2, <2>3
<1>11. QED  BY <1>2, <1>3, <1>4, <1>5, <1>7, <1>8, <1>9, <1>10 DEF IndexingInv

\* The chunk of a job's part has a place in the vector store.
LEMMA ChunkExists ==
    ASSUME TypeOK, JobsOK, NEW e \in EmbId, emb[e].status # "none", NEW p \in Part
    PROVE  ChunkOf(e, p) \in Chunk
<1>1. emb[e].disc \in DOMAIN disc /\ emb[e].version > 0 /\ emb[e].version \in 0 .. MaxVersion
  BY DEF JobsOK, TypeOK, EmbJob
<1>2. disc[emb[e].disc] \in Item /\ emb[e].version \in 1 .. MaxVersion
  BY <1>1, IndexingAssumption DEF TypeOK
<1>3. QED  BY <1>2 DEF ChunkOf, Chunk

\* A thread creates its indexing job or works on it, and on the vector store.
LEMMA IndexingStep ==
    ASSUME IndexingInv, NEW r \in Runner, NEW h \in Handling, NEW j \in IdxId,
           NEW x \in IdxJob,
           run' = [run EXCEPT ![r] = h], idx' = [idx EXCEPT ![j] = x],
           point' \in [Chunk -> 0 .. MaxEmb],
           \A c \in Chunk : point[c] # 0 => point'[c] # 0,
           UNCHANGED <<version, disc, embReq, emb, idxReq, verdict, other, lost>>,
           faults' \in 0 .. MaxFaults,
           run[r].at # "idle", run[r].stage = "indexing",
           x.status # "none", x.emb = run[r].req,
           \A p \in Part : x.rows[p] = "indexed" => point'[ChunkOf(x.emb, p)] # 0,
           \/ idx[j].status = "none"
           \/ run[r].at \in IdxWork /\ run[r].job = j,
           idx[j].verification = "completed" =>
             /\ x.verification = "completed" /\ x.rows = idx[j].rows
             /\ x.verified = idx[j].verified /\ x.status \in {"active", "completed"},
           RunOK(run[r])', h.snap \in {run[r].snap, NoVerdict},
           h.at \in IdxWork => h.job = j, ~HasEmb(h)
    PROVE  IndexingInv'
<1>0. /\ TypeOK /\ SourceOK /\ JobsOK /\ PointsOK /\ RunsOK /\ OneEach /\ VerdictsOK
      /\ ChainUnbroken
  BY DEF IndexingInv
<1>1. /\ run \in [Runner -> Handling] /\ run' \in [Runner -> Handling]
      /\ run'[r] = h /\ \A q \in Runner \ {r} : run'[q] = run[q]
      /\ idx \in [IdxId -> IdxJob] /\ idx' \in [IdxId -> IdxJob]
      /\ idx'[j] = x /\ \A k \in IdxId \ {j} : idx'[k] = idx[k]
  BY <1>0 DEF TypeOK
<1>2. TypeOK'  BY <1>0, <1>1 DEF TypeOK
<1>3. SourceOK'  BY <1>0 DEF SourceOK
<1>4. JobsOK'  BY <1>0 DEF JobsOK
<1>5. PointsOK'
  <2> SUFFICES ASSUME NEW k \in IdxId
               PROVE  IF idx'[k].status = "none" THEN idx'[k] = NoIdx
                      ELSE /\ idx'[k].emb \in EmbId /\ emb[idx'[k].emb].status # "none"
                           /\ \A p \in Part : idx'[k].rows[p] = "indexed" =>
                                point'[ChunkOf(idx'[k].emb, p)] # 0
    BY DEF PointsOK, Indexed, ChunkOf
  <2>1. CASE k = j
    <3>1. run[r].req \in EmbId /\ emb[run[r].req].status # "none"
      BY <1>0 DEF RunsOK, RunOK, IndexingOK, JobsOK
    <3>2. QED  BY <1>1, <2>1, <3>1
  <2>2. CASE k # j /\ idx[k].status # "none"
    <3>1. /\ idx[k].emb \in EmbId /\ emb[idx[k].emb].status # "none"
          /\ \A p \in Indexed(k) : point[ChunkOf(idx[k].emb, p)] # 0
      BY <1>0, <2>2 DEF PointsOK
    <3>2. \A p \in Part : ChunkOf(idx[k].emb, p) \in Chunk  BY <1>0, <3>1, ChunkExists
    <3>3. \A p \in Indexed(k) : point'[ChunkOf(idx[k].emb, p)] # 0
      BY <3>1, <3>2 DEF Indexed
    <3>4. QED  BY <1>1, <2>2, <3>1, <3>3 DEF Indexed
  <2>3. CASE k # j /\ idx[k].status = "none"  BY <1>0, <1>1, <2>3 DEF PointsOK
  <2>4. QED  BY <2>1, <2>2, <2>3
<1>6. ASSUME NEW q \in Runner, q # r, run[q].at \in IdxWork
      PROVE  run[q].job \in IdxId \ {j}
  <2>1. run[q].stage # "embedding"
    BY <1>0, <1>6 DEF RunsOK, RunOK, EmbeddingOK, IdxWork, EmbWork
  <2>2. run[q].job \in IdxId /\ idx[run[q].job].status = "active"
    BY <1>0, <1>6, <2>1 DEF RunsOK, RunOK, IndexingOK, IdxWork
  <2>3. QED  BY <1>0, <1>6, <2>2 DEF OneEach
<1>7. RunsOK'
  <2>1. ASSUME NEW q \in Runner, q # r  PROVE RunOK(run[q])'
    <3>1. RunOK(run[q]) /\ run'[q] = run[q]  BY <1>0, <1>1, <2>1 DEF RunsOK
    <3>2. run[q].at \in IdxWork => idx'[run[q].job] = idx[run[q].job]
      BY <1>1, <1>6, <2>1
    <3>3. QED  BY <3>1, <3>2, OtherThread
  <2>2. QED  BY <2>1 DEF RunsOK
<1>8. OneEach'  BY <1>0, <1>1, <1>6 DEF OneEach
<1>9. ASSUME NEW v, Sound(v)
      PROVE  v.ready =>
               /\ v.job \in IdxId
               /\ idx'[v.job].status \in {"active", "completed"}
               /\ idx'[v.job].verification = "completed"
               /\ Indexed(v.job)' # {} /\ idx'[v.job].verified = Indexed(v.job)'
  <2> SUFFICES ASSUME v.ready
               PROVE  /\ v.job \in IdxId
                      /\ idx'[v.job].status \in {"active", "completed"}
                      /\ idx'[v.job].verification = "completed"
                      /\ {p \in Part : idx'[v.job].rows[p] = "indexed"} # {}
                      /\ idx'[v.job].verified =
                           {p \in Part : idx'[v.job].rows[p] = "indexed"}
    BY DEF Indexed
  <2>1. /\ v.job \in IdxId /\ idx[v.job].status \in {"active", "completed"}
        /\ idx[v.job].verification = "completed"
        /\ {p \in Part : idx[v.job].rows[p] = "indexed"} # {}
        /\ idx[v.job].verified = {p \in Part : idx[v.job].rows[p] = "indexed"}
    BY <1>9 DEF Sound, Indexed
  <2>2. CASE v.job = j  BY <1>1, <2>1, <2>2
  <2>3. CASE v.job # j  BY <1>1, <2>1, <2>3
  <2>4. QED  BY <2>2, <2>3
<1>10. VerdictsOK'
  <2>1. Sound(verdict)'  BY <1>0, <1>9 DEF VerdictsOK, Sound
  <2>2. Sound(other.snap)'  BY <1>0, <1>9 DEF VerdictsOK, Sound
  <2>3. ASSUME NEW q \in Runner  PROVE Sound(run[q].snap)'
    <3>1. Sound(run[q].snap)  BY <1>0 DEF VerdictsOK
    <3>2. run'[q].snap \in {run[q].snap, NoVerdict}  BY <1>1
    <3>3. Sound(run'[q].snap)  BY <3>1, <3>2 DEF Sound, NoVerdict
    <3>4. QED  BY <1>9, <3>3 DEF Sound
  <2>4. QED  BY <2>1, <2>2, <2>3 DEF VerdictsOK
<1>11. ChainUnbroken'
  <2>1. \A q \in Runner : \A d : Handles(q, "embedding", d) =>
          Handles(q, "embedding", d)' /\ run'[q].job = run[q].job
    BY <1>1 DEF Handles
  <2>2. QED  BY <1>0, <2>1 DEF ChainUnbroken, JobsOf
<1>12. QED  BY <1>2, <1>3, <1>4, <1>5, <1>7, <1>8, <1>10, <1>11 DEF IndexingInv

-----------------------------------------------------------------------------
(* A thread and what it may rely on.                                       *)

LEMMA Thread ==
    ASSUME IndexingInv, NEW r \in Runner
    PROVE  /\ run[r] \in Handling /\ Sound(run[r].snap) /\ RunOK(run[r])
           /\ run[r].at # "idle" /\ run[r].stage = "embedding" => EmbeddingOK(run[r])
           /\ run[r].at # "idle" /\ run[r].stage = "indexing" => IndexingOK(run[r])
           /\ run[r].at \in EmbWork \cup {"emit"} => run[r].stage = "embedding"
           /\ run[r].at \in IdxWork => run[r].stage = "indexing"
           /\ run[r].at \in {"recalc", "write"} => run[r].left > 0
<1>1. run[r] \in Handling /\ Sound(run[r].snap) /\ RunOK(run[r])
  BY DEF IndexingInv, TypeOK, RunsOK, VerdictsOK
<1>2. run[r].stage \in {"embedding", "indexing"}  BY <1>1 DEF Handling
<1>3. run[r].at # "idle" /\ run[r].stage = "embedding" => EmbeddingOK(run[r])
  BY <1>1 DEF RunOK
<1>4. run[r].at # "idle" /\ run[r].stage = "indexing" => IndexingOK(run[r])
  BY <1>1 DEF RunOK
<1>5. run[r].at \in EmbWork \cup {"emit"} => run[r].stage = "embedding"
  BY <1>2, <1>4 DEF IndexingOK, EmbWork, IdxWork
<1>6. run[r].at \in IdxWork => run[r].stage = "indexing"
  BY <1>2, <1>3 DEF EmbeddingOK, EmbWork, IdxWork
<1>7. QED  BY <1>1, <1>3, <1>4, <1>5, <1>6 DEF RunOK

LEMMA Tables ==
    ASSUME IndexingInv
    PROVE  /\ embReq \in [DiscId -> Event] /\ idxReq \in [EmbId -> Event]
           /\ emb \in [EmbId -> EmbJob] /\ idx \in [IdxId -> IdxJob]
           /\ point \in [Chunk -> 0 .. MaxEmb]
           /\ verdict \in Verdict /\ Sound(verdict)
           /\ NoVerdict \in Verdict /\ Sound(NoVerdict)
           /\ lost \subseteq EmbId /\ faults \in 0 .. MaxFaults
           /\ \A e \in EmbId : idxReq[e] # "none" => emb[e].status # "none"
<1>1. TypeOK /\ VerdictsOK /\ JobsOK  BY DEF IndexingInv
<1>2. NoVerdict \in Verdict /\ Sound(NoVerdict)
  BY IndexingAssumption DEF NoVerdict, Verdict, Sound
<1>3. QED  BY <1>1, <1>2 DEF TypeOK, VerdictsOK, JobsOK

\* A thread that does no more than go on.
LEMMA MoveStep ==
    ASSUME IndexingInv, NEW r \in Runner, NEW h \in Handling,
           run' = [run EXCEPT ![r] = h],
           UNCHANGED <<version, disc, embReq, emb, idxReq, idx, point, verdict, other>>,
           lost \subseteq lost', lost' \subseteq EmbId,
           faults' \in 0 .. MaxFaults,
           RunOK(run[r])', Sound(h.snap),
           HasEmb(h) => HasEmb(run[r]) /\ h.job = run[r].job,
           h.at \in IdxWork => run[r].at \in IdxWork /\ h.job = run[r].job,
           \A e : HasEmb(run[r]) /\ embReq[run[r].req] = "acked" /\ e = run[r].job =>
             (HasEmb(h) /\ h.req = run[r].req) \/ Settled(e)'
    PROVE  IndexingInv'
  BY Tables, ThreadStep

-----------------------------------------------------------------------------
(* The actions that only move a thread.                                    *)

\* A thread that has ended: nothing is left of it.
LEMMA IdleThread == Idle \in Handling /\ Idle.snap = NoVerdict /\ Idle.at = "idle" /\ Idle.job = 0
  BY IndexingAssumption DEF Idle, Handling, Step, Verdict, NoVerdict

LEMMA DeliverStep ==
    ASSUME IndexingInv, NEW r \in Runner, DeliverEmbedding(r) \/ DeliverIndexing(r)
    PROVE  IndexingInv'
<1>1. PICK stage \in {"embedding", "indexing"}, k \in Nat :
        /\ Deliver(r, stage, k)
        /\ stage = "embedding" => k \in DiscId /\ embReq[k] = "open"
        /\ stage = "indexing" => k \in EmbId /\ idxReq[k] = "open"
  BY DEF DeliverEmbedding, DeliverIndexing, DiscId, EmbId
<1> DEFINE h == [Idle EXCEPT !.at = "check", !.stage = stage, !.req = k]
<1>2. /\ h.at = "check" /\ h.stage = stage /\ h.req = k /\ h.job = 0 /\ h.snap = NoVerdict
      /\ h \in Handling
  BY IdleThread DEF Handling, Step
<1>3. /\ run' = [run EXCEPT ![r] = h] /\ run[r].at = "idle" /\ lost' = lost
      /\ UNCHANGED <<version, disc, embReq, emb, idxReq, idx, point, verdict, other, faults>>
  BY <1>1 DEF Deliver, sourceVars, embVars, idxVars
<1> HIDE DEF h
<1>4. run'[r] = h  BY <1>3, Tables DEF IndexingInv, TypeOK
<1>5. RunOK(run[r])'
  <2>1. CASE stage = "embedding"
    <3>1. EmbeddingOK(run[r])'  BY <1>1, <1>2, <1>3, <1>4, <2>1 DEF EmbeddingOK, EmbWork
    <3>2. QED  BY <1>2, <1>4, <2>1, <3>1 DEF RunOK
  <2>2. CASE stage = "indexing"
    <3>1. IndexingOK(run[r])'  BY <1>1, <1>2, <1>3, <1>4, <2>2 DEF IndexingOK, IdxWork
    <3>2. QED  BY <1>2, <1>4, <2>2, <3>1 DEF RunOK
  <2>3. QED  BY <1>1, <2>1, <2>2
<1>6. ~HasEmb(h) /\ h.at \notin IdxWork /\ ~HasEmb(run[r])
  BY <1>2, <1>3 DEF HasEmb, IdxWork
<1>7. lost \subseteq lost' /\ lost' \subseteq EmbId /\ faults' \in 0 .. MaxFaults /\ Sound(h.snap)
  BY <1>2, <1>3, Tables
<1>8. QED  BY <1>2, <1>3, <1>5, <1>6, <1>7, MoveStep

LEMMA LoadChunksStep ==
    ASSUME IndexingInv, NEW r \in Runner, LoadChunks(r)
    PROVE  IndexingInv'
<1> DEFINE h == [run[r] EXCEPT !.at = "create", !.seen = version[disc[run[r].req]]]
<1>1. /\ run' = [run EXCEPT ![r] = h] /\ run[r].at = "check" /\ run[r].stage = "embedding"
      /\ UNCHANGED <<version, disc, embReq, emb, idxReq, idx, point, verdict, other, lost,
                     faults>>
  BY DEF LoadChunks, sourceVars, embVars, idxVars
<1>2. EmbeddingOK(run[r]) /\ run[r] \in Handling /\ Sound(run[r].snap)
  BY <1>1, Thread
<1>3. version[disc[run[r].req]] \in 0 .. MaxVersion /\ version[disc[run[r].req]] > 0
  <2>1. run[r].req \in DOMAIN disc /\ version[disc[run[r].req]] > 0
    BY <1>2 DEF EmbeddingOK, IndexingInv, SourceOK
  <2>2. disc[run[r].req] \in Item  BY <2>1 DEF IndexingInv, TypeOK
  <2>3. version[disc[run[r].req]] \in 0 .. MaxVersion
    BY <2>2 DEF IndexingInv, TypeOK
  <2>4. QED  BY <2>1, <2>3
<1>4. /\ h.at = "create" /\ h.stage = "embedding" /\ h.seen > 0 /\ h.job = run[r].job
      /\ h.req = run[r].req /\ h.snap = run[r].snap /\ h \in Handling
  BY <1>1, <1>2, <1>3, IndexingAssumption DEF Handling, Step
<1> HIDE DEF h
<1>5. run'[r] = h  BY <1>1 DEF IndexingInv, TypeOK
<1>6. RunOK(run[r])'
  BY <1>1, <1>2, <1>4, <1>5 DEF RunOK, EmbeddingOK, EmbWork
<1>7. ~HasEmb(h) /\ ~HasEmb(run[r]) /\ h.at \notin IdxWork
  BY <1>1, <1>4 DEF HasEmb, IdxWork
<1>8. lost \subseteq lost' /\ lost' \subseteq EmbId /\ faults' \in 0 .. MaxFaults /\ Sound(h.snap)
  BY <1>1, <1>2, <1>4, Tables
<1>9. QED  BY <1>1, <1>4, <1>6, <1>7, <1>8, MoveStep

\* What a thread may rely on stays when jobs stay as they are.
LEMMA Carried ==
    ASSUME IndexingInv, NEW r \in Runner, NEW h, RunOK(h),
           run' = [run EXCEPT ![r] = h], UNCHANGED <<emb, idx>>,
           \A d \in DiscId : embReq[d] # "none" => embReq'[d] # "none",
           \A e \in EmbId : idxReq[e] # "none" => idxReq'[e] # "none",
           lost \subseteq lost'
    PROVE  RunOK(run[r])'
<1>1. run'[r] = h  BY DEF IndexingInv, TypeOK
<1>2. CASE h.at = "idle"  BY <1>1, <1>2 DEF RunOK
<1>3. CASE h.at # "idle" /\ h.stage = "embedding"
  <2>1. EmbeddingOK(h)  BY <1>3 DEF RunOK
  <2>2. EmbeddingOK(run[r])'  BY <1>1, <2>1 DEF EmbeddingOK, Settled
  <2>3. QED  BY <1>1, <1>3, <2>2 DEF RunOK
<1>4. CASE h.at # "idle" /\ h.stage # "embedding"
  <2>1. IndexingOK(h)  BY <1>4 DEF RunOK
  <2>2. IndexingOK(run[r])'  BY <1>1, <2>1 DEF IndexingOK, Indexed
  <2>3. QED  BY <1>1, <1>4, <2>2 DEF RunOK
<1>5. QED  BY <1>2, <1>3, <1>4

LEMMA FindExistingStep ==
    ASSUME IndexingInv, NEW r \in Runner, FindExisting(r)
    PROVE  IndexingInv'
<1> DEFINE G == UNION {emb[f].ok : f \in {f \in JobsOf(emb[run[r].job].disc) :
                                            emb[f].version = emb[run[r].job].version}}
           h == [run[r] EXCEPT !.at = "generate", !.good = G]
<1>1. /\ run' = [run EXCEPT ![r] = h] /\ run[r].at = "embed"
      /\ UNCHANGED <<version, disc, embReq, emb, idxReq, idx, point, verdict, other, lost,
                     faults>>
  BY DEF FindExisting, sourceVars, embVars, idxVars
<1>2. /\ EmbeddingOK(run[r]) /\ run[r] \in Handling /\ Sound(run[r].snap)
      /\ run[r].stage = "embedding"
  BY <1>1, Thread DEF EmbWork
<1>3. \A f \in EmbId : emb[f].ok \subseteq Part  BY Tables DEF EmbJob
<1>4. G \subseteq Part  BY <1>3 DEF JobsOf
<1> HIDE DEF G
<1>5. /\ h.at = "generate" /\ h.stage = "embedding" /\ h.job = run[r].job
      /\ h.req = run[r].req /\ h.snap = run[r].snap /\ h \in Handling
  BY <1>2, <1>4 DEF Handling, Step
<1> HIDE DEF h
<1>6. RunOK(h)
  <2>1. EmbeddingOK(h)  BY <1>1, <1>2, <1>5 DEF EmbeddingOK, EmbWork
  <2>2. QED  BY <1>5, <2>1 DEF RunOK
<1>7. RunOK(run[r])'  BY <1>1, <1>6, Carried
<1>8. HasEmb(h) /\ HasEmb(run[r]) /\ h.at \notin IdxWork
  BY <1>1, <1>2, <1>5 DEF HasEmb, IdxWork
<1>9. lost \subseteq lost' /\ lost' \subseteq EmbId /\ faults' \in 0 .. MaxFaults /\ Sound(h.snap)
  BY <1>1, <1>2, <1>5, Tables
<1>10. QED  BY <1>1, <1>5, <1>7, <1>8, <1>9, MoveStep

\* A thread of the indexing stage goes on.
LEMMA IndexMove ==
    ASSUME IndexingInv, NEW r \in Runner, NEW h \in Handling,
           run' = [run EXCEPT ![r] = h],
           UNCHANGED <<version, disc, embReq, emb, idxReq, idx, point, verdict, other, lost>>,
           faults' \in 0 .. MaxFaults,
           run[r].stage = "indexing", h.stage = "indexing", IndexingOK(h), h.at # "idle",
           h.snap = run[r].snap, h.job = run[r].job, h.at \notin {"recalc", "write"},
           h.at \in IdxWork => run[r].at \in IdxWork
    PROVE  IndexingInv'
<1>1. RunOK(h)  BY DEF RunOK
<1>2. RunOK(run[r])'  BY <1>1, Carried
<1>3. ~HasEmb(h) /\ ~HasEmb(run[r])  BY DEF HasEmb
<1>4. lost \subseteq lost' /\ lost' \subseteq EmbId /\ Sound(h.snap)  BY Tables, Thread
<1>5. QED  BY <1>2, <1>3, <1>4, MoveStep

LEMMA MayIndexStep ==
    ASSUME IndexingInv, NEW r \in Runner, MayIndex(r)
    PROVE  IndexingInv'
<1> DEFINE h == [run[r] EXCEPT !.at = "create"]
<1>1. /\ run' = [run EXCEPT ![r] = h] /\ run[r].at = "check" /\ run[r].stage = "indexing"
      /\ UNCHANGED <<version, disc, embReq, emb, idxReq, idx, point, verdict, other, lost,
                     faults>>
  BY DEF MayIndex, sourceVars, embVars, idxVars
<1>2. IndexingOK(run[r]) /\ run[r] \in Handling  BY <1>1, Thread
<1>3. /\ h.at = "create" /\ h.stage = "indexing" /\ h.job = run[r].job
      /\ h.req = run[r].req /\ h.snap = run[r].snap /\ h \in Handling
  BY <1>1, <1>2 DEF Handling, Step
<1> HIDE DEF h
<1>4. IndexingOK(h)  BY <1>2, <1>3 DEF IndexingOK, IdxWork
<1>5. faults' \in 0 .. MaxFaults /\ h.at \notin IdxWork  BY <1>1, <1>3, Tables DEF IdxWork
<1>6. QED  BY <1>1, <1>3, <1>4, <1>5, IndexMove

LEMMA ReadChunksStep ==
    ASSUME IndexingInv, NEW r \in Runner, ReadChunks(r)
    PROVE  IndexingInv'
<1> DEFINE job == emb[run[r].req]
           T == IF version[disc[job.disc]] = job.version THEN job.ok ELSE {}
           h == [run[r] EXCEPT !.at = "upsert", !.todo = T]
<1>1. /\ run' = [run EXCEPT ![r] = h] /\ run[r].at = "read"
      /\ UNCHANGED <<version, disc, embReq, emb, idxReq, idx, point, verdict, other, lost,
                     faults>>
  BY DEF ReadChunks, sourceVars, embVars, idxVars
<1>2. IndexingOK(run[r]) /\ run[r] \in Handling /\ run[r].stage = "indexing"
  BY <1>1, Thread DEF IdxWork
<1>3. T \subseteq Part  BY <1>2, Tables DEF IndexingOK, EmbJob
<1> HIDE DEF T
<1>4. /\ h.at = "upsert" /\ h.stage = "indexing" /\ h.job = run[r].job
      /\ h.req = run[r].req /\ h.snap = run[r].snap /\ h \in Handling
  BY <1>1, <1>2, <1>3 DEF Handling, Step
<1> HIDE DEF h
<1>5. IndexingOK(h)  BY <1>1, <1>2, <1>4 DEF IndexingOK, IdxWork
<1>6. faults' \in 0 .. MaxFaults /\ run[r].at \in IdxWork  BY <1>1, Tables DEF IdxWork
<1>7. QED  BY <1>1, <1>2, <1>4, <1>5, <1>6, IndexMove

LEMMA EndUpsertStep ==
    ASSUME IndexingInv, NEW r \in Runner, EndUpsert(r)
    PROVE  IndexingInv'
<1> DEFINE a == IF Indexed(run[r].job) = {} THEN "finish" ELSE "verify"
           h == [run[r] EXCEPT !.at = a, !.todo = Indexed(run[r].job)]
<1>1. /\ run' = [run EXCEPT ![r] = h] /\ run[r].at = "upsert"
      /\ UNCHANGED <<version, disc, embReq, emb, idxReq, idx, point, verdict, other, lost,
                     faults>>
  BY DEF EndUpsert, sourceVars, embVars, idxVars
<1>2. IndexingOK(run[r]) /\ run[r] \in Handling /\ run[r].stage = "indexing"
  BY <1>1, Thread DEF IdxWork
<1>3. Indexed(run[r].job) \subseteq Part /\ a \in {"finish", "verify"}  BY DEF Indexed
<1>4. a = "finish" <=> Indexed(run[r].job) = {}  OBVIOUS
<1> HIDE DEF a
<1>5. /\ h.at = a /\ h.stage = "indexing" /\ h.job = run[r].job
      /\ h.req = run[r].req /\ h.snap = run[r].snap
      /\ h.todo = Indexed(run[r].job)
  BY <1>2 DEF Handling
<1>6. h \in Handling  BY <1>2, <1>3 DEF Handling, Step
<1> HIDE DEF h
<1>7. IndexingOK(h)
  BY <1>1, <1>2, <1>3, <1>4, <1>5 DEF IndexingOK, IdxWork
<1>8. faults' \in 0 .. MaxFaults /\ run[r].at \in IdxWork  BY <1>1, Tables DEF IdxWork
<1>9. h.at \notin {"idle", "recalc", "write"}  BY <1>3, <1>5
<1>10. QED  BY <1>1, <1>2, <1>5, <1>6, <1>7, <1>8, <1>9, IndexMove

LEMMA VerifyPartStep ==
    ASSUME IndexingInv, NEW r \in Runner, VerifyPart(r)
    PROVE  IndexingInv'
<1>1. PICK p \in run[r].todo :
        run' = [run EXCEPT ![r].todo = @ \ {p},
                           ![r].good = IF point[ChunkOf(run[r].req, p)] = run[r].req
                                       THEN @ \cup {p} ELSE @]
  BY DEF VerifyPart
<1> DEFINE G == IF point[ChunkOf(run[r].req, p)] = run[r].req
                THEN run[r].good \cup {p} ELSE run[r].good
           h == [run[r] EXCEPT !.todo = run[r].todo \ {p}, !.good = G]
<1>2. /\ run[r].at = "verify"
      /\ UNCHANGED <<version, disc, embReq, emb, idxReq, idx, point, verdict, other, lost,
                     faults>>
  BY DEF VerifyPart, sourceVars, embVars, idxVars
<1>3. IndexingOK(run[r]) /\ run[r] \in Handling /\ run[r].stage = "indexing"
  BY <1>2, Thread DEF IdxWork
<1>4. run' = [run EXCEPT ![r] = h]
  BY <1>1, <1>3 DEF Handling, IndexingInv, TypeOK
<1>5. G \subseteq Part /\ run[r].todo \ {p} \subseteq Part  BY <1>3 DEF Handling
<1> HIDE DEF G
<1>6. /\ h.at = "verify" /\ h.stage = "indexing" /\ h.job = run[r].job
      /\ h.req = run[r].req /\ h.snap = run[r].snap
  BY <1>2, <1>3 DEF Handling
<1>7. h \in Handling  BY <1>3, <1>5 DEF Handling
<1> HIDE DEF h
<1>8. IndexingOK(h)  BY <1>2, <1>3, <1>6 DEF IndexingOK, IdxWork
<1>9. faults' \in 0 .. MaxFaults /\ run[r].at \in IdxWork  BY <1>2, Tables DEF IdxWork
<1>10. QED  BY <1>2, <1>3, <1>4, <1>6, <1>7, <1>8, <1>9, IndexMove

LEMMA MarkReadyFailsStep ==
    ASSUME IndexingInv, NEW r \in Runner, MarkReadyFails(r)
    PROVE  IndexingInv'
<1> DEFINE h == [run[r] EXCEPT !.at = "finish"]
<1>1. /\ run' = [run EXCEPT ![r] = h] /\ run[r].at = "mark"
      /\ faults < MaxFaults /\ faults' = faults + 1
      /\ UNCHANGED <<version, disc, embReq, emb, idxReq, idx, point, verdict, other, lost>>
  BY DEF MarkReadyFails, sourceVars, embVars, idxVars
<1>2. IndexingOK(run[r]) /\ run[r] \in Handling /\ run[r].stage = "indexing"
  BY <1>1, Thread DEF IdxWork
<1>3. /\ h.at = "finish" /\ h.stage = "indexing" /\ h.job = run[r].job
      /\ h.req = run[r].req /\ h.snap = run[r].snap /\ h \in Handling
  BY <1>1, <1>2 DEF Handling, Step
<1> HIDE DEF h
<1>4. IndexingOK(h)  BY <1>1, <1>2, <1>3 DEF IndexingOK, IdxWork
<1>5. faults' \in 0 .. MaxFaults  BY <1>1, Tables, IndexingAssumption
<1>6. run[r].at \in IdxWork  BY <1>1 DEF IdxWork
<1>7. QED  BY <1>1, <1>2, <1>3, <1>4, <1>5, <1>6, IndexMove

LEMMA TimeOutStep ==
    ASSUME IndexingInv, NEW r \in Runner, TimeOut(r)
    PROVE  IndexingInv'
<1> DEFINE h == [run[r] EXCEPT !.heard = FALSE]
<1>1. run \in [Runner -> Handling] /\ run[r] \in Handling /\ Sound(run[r].snap) /\ RunOK(run[r])
  BY Thread DEF IndexingInv, TypeOK
<1>2. /\ run' = [run EXCEPT ![r] = h] /\ faults < MaxFaults /\ faults' = faults + 1
      /\ UNCHANGED <<version, disc, embReq, emb, idxReq, idx, point, verdict, other, lost>>
  BY <1>1 DEF TimeOut, sourceVars, embVars, idxVars
<1>3. h \in Handling  BY <1>1 DEF Handling
<1>4. /\ h.at = run[r].at /\ h.stage = run[r].stage /\ h.job = run[r].job
      /\ h.req = run[r].req /\ h.snap = run[r].snap /\ h.seen = run[r].seen
      /\ h.left = run[r].left
  BY <1>1 DEF Handling
<1> HIDE DEF h
<1>5. RunOK(h)
  BY <1>1, <1>4 DEF RunOK, EmbeddingOK, IndexingOK
<1>6. RunOK(run[r])'  BY <1>2, <1>5, Carried
<1>7. HasEmb(h) <=> HasEmb(run[r])  BY <1>4 DEF HasEmb
<1>8. faults' \in 0 .. MaxFaults  BY <1>2, Tables, IndexingAssumption
<1>9. lost \subseteq lost' /\ lost' \subseteq EmbId /\ Sound(h.snap)
  BY <1>1, <1>2, <1>4, Tables
<1>10. QED  BY <1>2, <1>3, <1>4, <1>6, <1>7, <1>8, <1>9, MoveStep

LEMMA EmitFailsStep ==
    ASSUME IndexingInv, NEW r \in Runner, EmitFails(r)
    PROVE  IndexingInv'
<1> DEFINE h == [run[r] EXCEPT !.at = "return"]
<1>1. /\ run' = [run EXCEPT ![r] = h] /\ run[r].at = "emit" /\ lost' = lost \cup {run[r].job}
      /\ faults < MaxFaults /\ faults' = faults + 1
      /\ UNCHANGED <<version, disc, embReq, emb, idxReq, idx, point, verdict, other>>
  BY DEF EmitFails, sourceVars, embVars, idxVars
<1>2. /\ EmbeddingOK(run[r]) /\ run[r] \in Handling /\ Sound(run[r].snap)
      /\ run[r].stage = "embedding"
  BY <1>1, Thread
<1>3. /\ h.at = "return" /\ h.stage = "embedding" /\ h.job = run[r].job
      /\ h.req = run[r].req /\ h.snap = run[r].snap /\ h \in Handling
  BY <1>1, <1>2 DEF Handling, Step
<1> HIDE DEF h
<1>4. run'[r] = h  BY <1>1 DEF IndexingInv, TypeOK
<1>5. EmbeddingOK(run[r])'
  BY <1>1, <1>2, <1>3, <1>4 DEF EmbeddingOK, EmbWork, Settled
<1>6. RunOK(run[r])'  BY <1>3, <1>4, <1>5 DEF RunOK
<1>7. HasEmb(h) /\ HasEmb(run[r]) /\ h.at \notin IdxWork
  BY <1>1, <1>2, <1>3 DEF HasEmb, IdxWork
<1>8. run[r].job \in EmbId  BY <1>1, <1>2 DEF EmbeddingOK
<1>9. lost \subseteq lost' /\ lost' \subseteq EmbId /\ Sound(h.snap)
  BY <1>1, <1>2, <1>3, <1>8, Tables
<1>10. faults' \in 0 .. MaxFaults  BY <1>1, Tables, IndexingAssumption
<1>11. QED  BY <1>1, <1>3, <1>6, <1>7, <1>9, <1>10, MoveStep

\* A thread dies; if its job has ended and its event is acknowledged, the job's
\* own event is lost.
LEMMA CrashStep ==
    ASSUME IndexingInv, NEW r \in Runner, Crash(r)
    PROVE  IndexingInv'
<1>1. /\ run' = [run EXCEPT ![r] = Idle] /\ run[r].at # "idle"
      /\ lost' = IF /\ run[r].stage = "embedding"
                    /\ run[r].at \in {"recalc", "write", "emit"}
                    /\ embReq[run[r].req] = "acked"
                 THEN lost \cup {run[r].job} ELSE lost
      /\ faults < MaxFaults /\ faults' = faults + 1
      /\ UNCHANGED <<version, disc, embReq, emb, idxReq, idx, point, verdict, other>>
  BY DEF Crash, sourceVars, embVars, idxVars
<1>2. run[r].stage = "embedding" => EmbeddingOK(run[r])  BY <1>1, Thread
<1>3. run'[r] = Idle  BY <1>1 DEF IndexingInv, TypeOK
<1>4. RunOK(run[r])'  BY <1>3, IdleThread DEF RunOK
<1>5. ~HasEmb(Idle) /\ Idle.at \notin IdxWork /\ Sound(Idle.snap) /\ Idle \in Handling
  BY IdleThread, Tables DEF HasEmb, IdxWork
<1>6. lost \subseteq lost' /\ lost' \subseteq EmbId
  BY <1>1, <1>2, Tables DEF EmbeddingOK, EmbWork
<1>7. faults' \in 0 .. MaxFaults  BY <1>1, Tables, IndexingAssumption
<1>8. ASSUME HasEmb(run[r]), embReq[run[r].req] = "acked", NEW e, e = run[r].job
      PROVE  Settled(e)'
  <2>1. EmbeddingOK(run[r])  BY <1>2, <1>8 DEF HasEmb
  <2>2. CASE run[r].at \in {"recalc", "write", "emit"}
    BY <1>1, <1>8, <2>2 DEF HasEmb, Settled
  <2>3. CASE run[r].at \in EmbWork
    BY <1>1, <1>8, <2>1, <2>3 DEF EmbeddingOK, Settled
  <2>4. CASE run[r].at = "return"
    BY <1>1, <1>6, <1>8, <2>1, <2>4 DEF EmbeddingOK, Settled
  <2>5. QED  BY <1>8, <2>1, <2>2, <2>3, <2>4 DEF EmbeddingOK, HasEmb
<1>9. QED  BY <1>1, <1>4, <1>5, <1>6, <1>7, <1>8, MoveStep

-----------------------------------------------------------------------------
(* Recalculations.                                                         *)

LEMMA RecalcReadStep ==
    ASSUME IndexingInv, NEW r \in Runner, RecalcRead(r)
    PROVE  IndexingInv'
<1> DEFINE h == [run[r] EXCEPT !.at = "write", !.snap = verdict]
<1>1. /\ run' = [run EXCEPT ![r] = h] /\ run[r].at = "recalc"
      /\ UNCHANGED <<version, disc, embReq, emb, idxReq, idx, point, verdict, other, lost,
                     faults>>
  BY DEF RecalcRead, sourceVars, embVars, idxVars
<1>2. run[r] \in Handling /\ RunOK(run[r]) /\ run[r].left > 0  BY <1>1, Thread
<1>3. /\ h.at = "write" /\ h.stage = run[r].stage /\ h.job = run[r].job
      /\ h.req = run[r].req /\ h.snap = verdict /\ h.left = run[r].left
  BY <1>2 DEF Handling
<1>4. h \in Handling  BY <1>2, Tables DEF Handling, Step
<1> HIDE DEF h
<1>5. RunOK(h)
  BY <1>1, <1>2, <1>3 DEF RunOK, EmbeddingOK, IndexingOK, EmbWork, IdxWork
<1>6. RunOK(run[r])'  BY <1>1, <1>5, Carried
<1>7. (HasEmb(h) <=> HasEmb(run[r])) /\ h.at \notin IdxWork
  BY <1>1, <1>3 DEF HasEmb, IdxWork
<1>8. lost \subseteq lost' /\ lost' \subseteq EmbId /\ faults' \in 0 .. MaxFaults /\ Sound(h.snap)
  BY <1>1, <1>3, Tables
<1>9. QED  BY <1>1, <1>3, <1>4, <1>6, <1>7, <1>8, MoveStep

\* A thread that is through with a recalculation, written or not.
Recalculation(h) ==
    [h EXCEPT !.at = AfterRecalc(h), !.left = h.left - 1, !.snap = NoVerdict]

LEMMA Recalculated ==
    ASSUME IndexingInv, NEW r \in Runner, run[r].at \in {"recalc", "write"}
    PROVE  LET h == Recalculation(run[r])
           IN  /\ h \in Handling /\ RunOK(h) /\ Sound(h.snap)
               /\ HasEmb(h) <=> HasEmb(run[r])
               /\ h.job = run[r].job /\ h.req = run[r].req /\ h.at \notin IdxWork
<1> DEFINE h == Recalculation(run[r])
<1>1. /\ run[r] \in Handling /\ RunOK(run[r]) /\ run[r].left > 0 /\ run[r].left \in 0 .. 2
      /\ run[r].stage \in {"embedding", "indexing"}
  BY Thread DEF Handling
<1>2. AfterRecalc(run[r]) \in {"recalc", "emit", "return"}
  BY DEF AfterRecalc
<1>3. /\ h.at = AfterRecalc(run[r]) /\ h.stage = run[r].stage /\ h.job = run[r].job
      /\ h.req = run[r].req /\ h.snap = NoVerdict /\ h.left = run[r].left - 1
  BY <1>1 DEF Handling, Recalculation
<1>4. h \in Handling
  <2>1. run[r].left - 1 \in 0 .. 2  BY <1>1
  <2>2. QED  BY <1>1, <1>2, <2>1, Tables DEF Handling, Step, Recalculation
<1> HIDE DEF h
<1>5. h.at = "recalc" => h.left > 0  BY <1>1, <1>3 DEF AfterRecalc
<1>6. RunOK(h)
  <2>1. CASE h.stage = "embedding"
    <3>1. EmbeddingOK(run[r])  BY <1>3, <2>1, Thread
    <3>2. /\ run[r].job \in EmbId /\ emb[run[r].job].disc = run[r].req
          /\ emb[run[r].job].status # "none"
          /\ run[r].req \in DiscId /\ embReq[run[r].req] # "none"
      BY <3>1 DEF EmbeddingOK
    <3>3. h.at = "return" => emb[run[r].job].status = "failed"
      BY <1>3, <2>1 DEF AfterRecalc
    <3>4. EmbeddingOK(h)
      BY <1>2, <1>3, <3>2, <3>3 DEF EmbeddingOK, EmbWork, Settled
    <3>5. QED  BY <1>2, <1>3, <1>5, <2>1, <3>4 DEF RunOK
  <2>2. CASE h.stage # "embedding"
    <3>1. run[r].req \in EmbId /\ idxReq[run[r].req] # "none"
      BY <1>1, <1>3, <2>2, Thread DEF IndexingOK
    <3>2. h.at \in {"recalc", "return"}  BY <1>3, <2>2 DEF AfterRecalc
    <3>3. IndexingOK(h)  BY <1>3, <3>1, <3>2 DEF IndexingOK, IdxWork
    <3>4. QED  BY <1>2, <1>3, <1>5, <2>2, <3>3 DEF RunOK
  <2>3. QED  BY <2>1, <2>2
<1>7. (HasEmb(h) <=> HasEmb(run[r])) /\ h.at \notin IdxWork
  BY <1>2, <1>3 DEF HasEmb, IdxWork
<1>8. Sound(h.snap)  BY <1>3, Tables
<1>9. QED  BY <1>3, <1>4, <1>6, <1>7, <1>8 DEF h

LEMMA RecalcFailsStep ==
    ASSUME IndexingInv, NEW r \in Runner, RecalcFails(r)
    PROVE  IndexingInv'
<1> DEFINE h == Recalculation(run[r])
<1>1. run \in [Runner -> Handling] /\ run[r] \in Handling
  BY DEF IndexingInv, TypeOK
<1>2. /\ run' = [run EXCEPT ![r] = h] /\ run[r].at \in {"recalc", "write"}
      /\ faults < MaxFaults /\ faults' = faults + 1
      /\ UNCHANGED <<version, disc, embReq, emb, idxReq, idx, point, verdict, other, lost>>
  BY <1>1 DEF RecalcFails, Recalculation, sourceVars, embVars, idxVars
<1>3. /\ h \in Handling /\ RunOK(h) /\ Sound(h.snap)
      /\ HasEmb(h) <=> HasEmb(run[r])
      /\ h.job = run[r].job /\ h.req = run[r].req /\ h.at \notin IdxWork
  BY <1>2, Recalculated
<1> HIDE DEF h
<1>4. RunOK(run[r])'  BY <1>2, <1>3, Carried
<1>5. lost \subseteq lost' /\ lost' \subseteq EmbId  BY <1>2, Tables
<1>6. faults' \in 0 .. MaxFaults  BY <1>2, Tables, IndexingAssumption
<1>7. QED  BY <1>2, <1>3, <1>4, <1>5, <1>6, MoveStep

LEMMA RecalcWriteStep ==
    ASSUME IndexingInv, NEW r \in Runner, RecalcWrite(r)
    PROVE  IndexingInv'
<1> DEFINE h == Recalculation(run[r])
<1>1. /\ run \in [Runner -> Handling] /\ run[r] \in Handling /\ run[r].snap \in Verdict
      /\ Sound(run[r].snap)
  BY Thread DEF IndexingInv, TypeOK, Handling
<1>2. /\ run' = [run EXCEPT ![r] = h] /\ run[r].at = "write" /\ verdict' = run[r].snap
      /\ UNCHANGED <<version, disc, embReq, emb, idxReq, idx, point, other, lost, faults>>
  BY <1>1 DEF RecalcWrite, Recalculation, sourceVars, embVars, idxVars
<1>3. /\ h \in Handling /\ RunOK(h) /\ Sound(h.snap)
      /\ HasEmb(h) <=> HasEmb(run[r])
      /\ h.job = run[r].job /\ h.req = run[r].req /\ h.at \notin IdxWork
  BY <1>2, Recalculated
<1> HIDE DEF h
<1>4. RunOK(run[r])'  BY <1>2, <1>3, Carried
<1>5. verdict' \in Verdict /\ Sound(verdict')  BY <1>1, <1>2
<1>6. QED  BY <1>2, <1>3, <1>4, <1>5, Tables, ThreadStep

-----------------------------------------------------------------------------
(* Acknowledgements, the indexing event and the verdict.                   *)

\* A handler returns, and its event is done if its worker still listens.
LEMMA AckStep ==
    ASSUME IndexingInv, NEW r \in Runner, Ack(r), run[r].at # "idle",
           UNCHANGED <<version, disc, emb, idx, point, verdict, other, lost, faults>>,
           run[r].stage = "embedding" =>
             /\ \E e \in JobsOf(run[r].req) : Settled(e)
             /\ HasEmb(run[r]) => Settled(run[r].job)
    PROVE  IndexingInv'
<1>0. TypeOK /\ JobsOK  BY DEF IndexingInv
<1>1. run' = [run EXCEPT ![r] = Idle] /\ run'[r] = Idle  BY <1>0 DEF Ack, TypeOK
<1>2. /\ run[r].stage = "embedding" => EmbeddingOK(run[r])
      /\ run[r].stage = "indexing" => IndexingOK(run[r])
  BY Thread
<1>3. /\ \/ embReq' = embReq
         \/ run[r].stage = "embedding" /\ embReq' = [embReq EXCEPT ![run[r].req] = "acked"]
      /\ \/ idxReq' = idxReq
         \/ run[r].stage = "indexing" /\ idxReq' = [idxReq EXCEPT ![run[r].req] = "acked"]
  BY DEF Ack
<1>4. /\ embReq' \in [DiscId -> Event]
      /\ \A d \in DiscId : embReq[d] = "none" <=> embReq'[d] = "none"
      /\ \A d \in DiscId : embReq'[d] = "acked" /\ embReq[d] # "acked" =>
           run[r].stage = "embedding" /\ d = run[r].req
  BY <1>2, <1>3, Tables DEF Event, EmbeddingOK
<1>5. /\ idxReq' \in [EmbId -> Event]
      /\ \A e \in EmbId : idxReq[e] # "none" => idxReq'[e] # "none"
      /\ \A e \in EmbId : idxReq'[e] # "none" => idxReq[e] # "none"
  BY <1>2, <1>3, Tables DEF Event, IndexingOK
<1>6. \A e \in EmbId : idxReq'[e] # "none" => emb[e].status # "none"
  BY <1>5, Tables
<1>7. RunOK(run[r])'  BY <1>1, IdleThread DEF RunOK
<1>8. ~HasEmb(Idle) /\ Idle.at \notin IdxWork /\ Sound(Idle.snap) /\ Idle \in Handling
  BY IdleThread, Tables DEF HasEmb, IdxWork
<1>9. ASSUME NEW e \in EmbId, Settled(e)  PROVE Settled(e)'
  BY <1>5, <1>9 DEF Settled
<1>10. \A d \in DiscId : embReq'[d] = "acked" /\ embReq[d] # "acked" =>
         \E e \in JobsOf(d) : Settled(e)'
  BY <1>4, <1>9 DEF JobsOf
<1>11. \A e : HasEmb(run[r]) /\ embReq[run[r].req] = "acked" /\ e = run[r].job => Settled(e)'
  <2> SUFFICES ASSUME NEW e, HasEmb(run[r]), e = run[r].job  PROVE Settled(e)'
    OBVIOUS
  <2>1. e \in EmbId /\ Settled(e)  BY <1>2 DEF HasEmb, EmbeddingOK
  <2>2. QED  BY <2>1, <1>9
<1>12. QED
  BY <1>1, <1>4, <1>5, <1>6, <1>7, <1>8, <1>10, <1>11, Tables, ThreadStep

LEMMA EmbeddingRefusedStep ==
    ASSUME IndexingInv, NEW r \in Runner, EmbeddingRefused(r)
    PROVE  IndexingInv'
<1>1. /\ Ack(r) /\ run[r].at = "check" /\ EmbeddingActive(run[r].req)
      /\ UNCHANGED <<version, disc, emb, idx, point, verdict, other, lost, faults>>
  BY DEF EmbeddingRefused, sourceVars
<1>2. \E e \in JobsOf(run[r].req) : Settled(e)  BY <1>1 DEF EmbeddingActive, Settled
<1>3. ~HasEmb(run[r])  BY <1>1 DEF HasEmb
<1>4. QED  BY <1>1, <1>2, <1>3, AckStep

LEMMA IndexingRefusedStep ==
    ASSUME IndexingInv, NEW r \in Runner, IndexingRefused(r)
    PROVE  IndexingInv'
<1>1. /\ Ack(r) /\ run[r].at = "check" /\ run[r].stage = "indexing"
      /\ UNCHANGED <<version, disc, emb, idx, point, verdict, other, lost, faults>>
  BY DEF IndexingRefused, sourceVars
<1>2. QED  BY <1>1, AckStep

LEMMA ReturnStep ==
    ASSUME IndexingInv, NEW r \in Runner, Return(r)
    PROVE  IndexingInv'
<1>1. /\ Ack(r) /\ run[r].at = "return"
      /\ UNCHANGED <<version, disc, emb, idx, point, verdict, other, lost, faults>>
  BY DEF Return, sourceVars
<1>2. ASSUME run[r].stage = "embedding"
      PROVE  /\ \E e \in JobsOf(run[r].req) : Settled(e)
             /\ HasEmb(run[r]) => Settled(run[r].job)
  <2>1. EmbeddingOK(run[r])  BY <1>1, <1>2, Thread
  <2>2. QED  BY <1>1, <2>1 DEF EmbeddingOK, JobsOf
<1>3. QED  BY <1>1, <1>2, AckStep

LEMMA EmitIndexingStep ==
    ASSUME IndexingInv, NEW r \in Runner, EmitIndexing(r)
    PROVE  IndexingInv'
<1> DEFINE h == [run[r] EXCEPT !.at = "return"]
<1>1. /\ run' = [run EXCEPT ![r] = h] /\ run[r].at = "emit"
      /\ idxReq' = [idxReq EXCEPT ![run[r].job] = "open"]
      /\ UNCHANGED <<version, disc, embReq, emb, idx, point, verdict, other, lost, faults>>
  BY DEF EmitIndexing, sourceVars, embVars
<1>2. /\ EmbeddingOK(run[r]) /\ run[r] \in Handling /\ Sound(run[r].snap)
      /\ run[r].stage = "embedding"
  BY <1>1, Thread
<1>3. run[r].job \in EmbId /\ emb[run[r].job].status # "none"
  BY <1>1, <1>2 DEF EmbeddingOK
<1>4. /\ h.at = "return" /\ h.stage = "embedding" /\ h.job = run[r].job
      /\ h.req = run[r].req /\ h.snap = run[r].snap /\ h \in Handling
  BY <1>1, <1>2 DEF Handling, Step
<1> HIDE DEF h
<1>5. run'[r] = h  BY <1>1 DEF IndexingInv, TypeOK
<1>6. /\ idxReq' \in [EmbId -> Event] /\ idxReq'[run[r].job] = "open"
      /\ \A e \in EmbId : idxReq[e] # "none" => idxReq'[e] # "none"
      /\ \A e \in EmbId : idxReq'[e] # "none" => emb[e].status # "none"
  BY <1>1, <1>3, Tables DEF Event
<1>7. EmbeddingOK(run[r])'
  BY <1>1, <1>2, <1>4, <1>5, <1>6 DEF EmbeddingOK, EmbWork, Settled
<1>8. RunOK(run[r])'  BY <1>4, <1>5, <1>7 DEF RunOK
<1>9. HasEmb(h) /\ HasEmb(run[r]) /\ h.at \notin IdxWork
  BY <1>1, <1>2, <1>4 DEF HasEmb, IdxWork
<1>10. Sound(h.snap)  BY <1>2, <1>4
<1>11. QED  BY <1>1, <1>4, <1>6, <1>8, <1>9, <1>10, Tables, ThreadStep

\* The verdict is written while the job is active; it is ready only if all of what
\* was indexed has been verified.
LEMMA MarkReadyStep ==
    ASSUME IndexingInv, NEW r \in Runner, MarkReady(r)
    PROVE  IndexingInv'
<1> DEFINE h == [run[r] EXCEPT !.at = "finish"]
<1>1. /\ run' = [run EXCEPT ![r] = h] /\ run[r].at = "mark"
      /\ verdict' = [job |-> run[r].job, ready |-> StatusOf(run[r].job) = "completed"]
      /\ UNCHANGED <<version, disc, embReq, emb, idxReq, idx, point, other, lost, faults>>
  BY DEF MarkReady, sourceVars, embVars, idxVars
<1>2. /\ IndexingOK(run[r]) /\ run[r] \in Handling /\ run[r].stage = "indexing"
      /\ Sound(run[r].snap)
  BY <1>1, Thread DEF IdxWork
<1>3. /\ h.at = "finish" /\ h.stage = "indexing" /\ h.job = run[r].job
      /\ h.req = run[r].req /\ h.snap = run[r].snap /\ h \in Handling
  BY <1>1, <1>2 DEF Handling, Step
<1> HIDE DEF h
<1>4. RunOK(h)
  <2>1. IndexingOK(h)  BY <1>1, <1>2, <1>3 DEF IndexingOK, IdxWork
  <2>2. QED  BY <1>3, <2>1 DEF RunOK
<1>5. RunOK(run[r])'  BY <1>1, <1>4, Carried
<1>6. run[r].job \in IdxId /\ idx[run[r].job].status = "active"
  BY <1>1, <1>2 DEF IndexingOK, IdxWork
<1>7. (StatusOf(run[r].job) = "completed") \in BOOLEAN  OBVIOUS
<1>8. verdict' \in Verdict
  BY <1>1, <1>6, <1>7, IndexingAssumption DEF Verdict, IdxId
<1>9. Sound(verdict')
  <2> SUFFICES ASSUME StatusOf(run[r].job) = "completed"
               PROVE  /\ idx[run[r].job].verification = "completed"
                      /\ Indexed(run[r].job) # {}
                      /\ idx[run[r].job].verified = Indexed(run[r].job)
    BY <1>1, <1>6 DEF Sound
  <2>1. Indexed(run[r].job) # {} /\ idx[run[r].job].verification = "completed"
    BY DEF StatusOf
  <2>2. QED  BY <1>1, <1>2, <2>1 DEF IndexingOK
<1>10. ~HasEmb(h) /\ ~HasEmb(run[r]) /\ run[r].at \in IdxWork
  BY <1>1, <1>2, <1>3 DEF HasEmb, IdxWork
<1>11. Sound(h.snap)  BY <1>2, <1>3
<1>12. QED  BY <1>1, <1>3, <1>5, <1>8, <1>9, <1>10, <1>11, Tables, ThreadStep

-----------------------------------------------------------------------------
(* The steps of the embedding stage on its jobs.                           *)

LEMMA CreateEmbeddingStep ==
    ASSUME IndexingInv, NEW r \in Runner, CreateEmbedding(r)
    PROVE  IndexingInv'
<1>1. PICK e \in EmbId :
        /\ emb[e].status = "none"
        /\ emb' = [emb EXCEPT ![e] = [disc |-> run[r].req, version |-> run[r].seen,
                                      ok |-> {}, status |-> "active"]]
        /\ run' = [run EXCEPT ![r] = [@ EXCEPT !.at = "embed", !.job = e, !.seen = 0]]
  BY Zenon DEF CreateEmbedding
<1> DEFINE x == [disc |-> run[r].req, version |-> run[r].seen, ok |-> {},
                 status |-> "active"]
           h == [run[r] EXCEPT !.at = "embed", !.job = e, !.seen = 0]
<1>2. /\ run[r].at = "create" /\ run[r].stage = "embedding"
      /\ UNCHANGED <<version, disc, embReq, idxReq, idx, point, verdict, other, lost, faults>>
  BY DEF CreateEmbedding, sourceVars, idxVars
<1>3. EmbeddingOK(run[r]) /\ run[r] \in Handling /\ Sound(run[r].snap)
  BY <1>2, Thread
<1>4. /\ run[r].req \in DiscId /\ embReq[run[r].req] # "none"
      /\ run[r].seen \in 0 .. MaxVersion /\ run[r].seen > 0
      /\ run[r].req \in DOMAIN disc
  BY <1>2, <1>3 DEF EmbeddingOK, Handling, IndexingInv, SourceOK
<1>5. run' = [run EXCEPT ![r] = h] /\ emb' = [emb EXCEPT ![e] = x]
  BY <1>1, <1>3 DEF Handling, IndexingInv, TypeOK
<1>6. x \in EmbJob
  BY <1>4, IndexingAssumption DEF EmbJob, DiscId
<1>7. x.status = "active" /\ x.disc = run[r].req /\ x.version = run[r].seen
  OBVIOUS
<1>8. /\ h.at = "embed" /\ h.stage = "embedding" /\ h.job = e
      /\ h.req = run[r].req /\ h.snap = run[r].snap
  BY <1>2, <1>3 DEF Handling
<1>9. h \in Handling
  <2>1. e \in Nat /\ 0 \in 0 .. MaxVersion /\ "embed" \in Step
    BY IndexingAssumption DEF EmbId, Step
  <2>2. QED  BY <1>3, <2>1 DEF Handling
<1> HIDE DEF x, h
<1>10. /\ HasEmb(h) /\ ~HasEmb(run[r]) /\ h.at \in EmbWork \cup {"recalc"}
       /\ h.at # "recalc" /\ Sound(h.snap)
  BY <1>2, <1>3, <1>8 DEF HasEmb, EmbWork
<1>11. x.status # "none" /\ x.disc \in DOMAIN disc /\ x.version > 0 /\ h.req = x.disc
  BY <1>4, <1>7, <1>8
<1>12. h.req \in DiscId /\ embReq[h.req] # "none"  BY <1>4, <1>8
<1>13. QED
  BY <1>1, <1>2, <1>5, <1>6, <1>7, <1>8, <1>9, <1>10, <1>11, <1>12, EmbeddingStep

LEMMA EmbedStep ==
    ASSUME IndexingInv, NEW r \in Runner, Embed(r)
    PROVE  IndexingInv'
<1>1. PICK ok \in SUBSET Part : emb' = [emb EXCEPT ![run[r].job].ok = ok]
  BY DEF Embed
<1> DEFINE e == run[r].job
           x == [emb[e] EXCEPT !.ok = ok]
           h == [run[r] EXCEPT !.at = "embedded", !.good = {}]
<1>2. /\ run[r].at = "generate" /\ run' = [run EXCEPT ![r] = h]
      /\ UNCHANGED <<version, disc, embReq, idxReq, idx, point, verdict, other, lost, faults>>
  BY DEF Embed, sourceVars, idxVars
<1>3. /\ EmbeddingOK(run[r]) /\ run[r] \in Handling /\ Sound(run[r].snap)
      /\ run[r].stage = "embedding"
  BY <1>2, Thread DEF EmbWork
<1>4. /\ run[r].req \in DiscId /\ embReq[run[r].req] # "none"
      /\ e \in EmbId /\ emb[e].disc = run[r].req /\ emb[e].status = "active"
      /\ emb[e] \in EmbJob
  BY <1>2, <1>3, Tables DEF EmbeddingOK, EmbWork
<1>5. emb' = [emb EXCEPT ![e] = x]  BY <1>1, <1>4, Tables DEF EmbJob
<1>6. x \in EmbJob  BY <1>4 DEF EmbJob
<1>7. x.status = "active" /\ x.disc = emb[e].disc /\ x.version = emb[e].version
  BY <1>4 DEF EmbJob
<1>8. /\ h.at = "embedded" /\ h.stage = "embedding" /\ h.job = e
      /\ h.req = run[r].req /\ h.snap = run[r].snap /\ h \in Handling
  BY <1>2, <1>3 DEF Handling, Step
<1>9. emb[e].disc \in DOMAIN disc /\ emb[e].version > 0
  BY <1>4 DEF IndexingInv, JobsOK
<1> HIDE DEF x, h
<1>10. /\ HasEmb(h) /\ HasEmb(run[r]) /\ h.at \in EmbWork /\ h.at # "recalc"
       /\ Sound(h.snap)
  BY <1>2, <1>3, <1>8 DEF HasEmb, EmbWork
<1>11. QED
  BY <1>2, <1>4, <1>5, <1>6, <1>7, <1>8, <1>9, <1>10, EmbeddingStep

LEMMA FinishEmbeddingStep ==
    ASSUME IndexingInv, NEW r \in Runner, FinishEmbedding(r)
    PROVE  IndexingInv'
<1> DEFINE e == run[r].job
           x == [emb[e] EXCEPT !.status = EmbStatus(emb[e].ok)]
           h == [run[r] EXCEPT !.at = "recalc", !.left = 1]
<1>0. run \in [Runner -> Handling]  BY DEF IndexingInv, TypeOK
<1>1. /\ run[r].at = "embedded" /\ run' = [run EXCEPT ![r] = h]
      /\ emb' = [emb EXCEPT ![e].status = EmbStatus(emb[e].ok)]
      /\ UNCHANGED <<version, disc, embReq, idxReq, idx, point, verdict, other, lost, faults>>
  BY <1>0 DEF FinishEmbedding, sourceVars, idxVars
<1>2. /\ EmbeddingOK(run[r]) /\ run[r] \in Handling /\ Sound(run[r].snap)
      /\ run[r].stage = "embedding"
  BY <1>1, Thread DEF EmbWork
<1>3. /\ run[r].req \in DiscId /\ embReq[run[r].req] # "none"
      /\ e \in EmbId /\ emb[e].disc = run[r].req /\ emb[e].status = "active"
      /\ emb[e] \in EmbJob
  BY <1>1, <1>2, Tables DEF EmbeddingOK, EmbWork
<1>4. emb' = [emb EXCEPT ![e] = x]  BY <1>1, <1>3, Tables DEF EmbJob
<1>5. EmbStatus(emb[e].ok) \in Terminal  BY DEF EmbStatus, Terminal
<1>6. x \in EmbJob  BY <1>3, <1>5 DEF EmbJob
<1>7. x.status \in Terminal /\ x.disc = emb[e].disc /\ x.version = emb[e].version
  BY <1>3, <1>5 DEF EmbJob
<1>8. /\ h.at = "recalc" /\ h.stage = "embedding" /\ h.job = e /\ h.left = 1
      /\ h.req = run[r].req /\ h.snap = run[r].snap
  BY <1>2 DEF Handling
<1>12. h \in Handling
  <2>1. 1 \in 0 .. 2 /\ "recalc" \in Step  BY DEF Step
  <2>2. QED  BY <1>2, <2>1 DEF Handling
<1>9. emb[e].disc \in DOMAIN disc /\ emb[e].version > 0
  BY <1>3 DEF IndexingInv, JobsOK
<1> HIDE DEF x, h
<1>10. /\ HasEmb(h) /\ HasEmb(run[r]) /\ h.at \notin EmbWork /\ h.left > 0
       /\ h.at \in EmbWork \cup {"recalc"} /\ Sound(h.snap) /\ x.status # "none"
  BY <1>1, <1>2, <1>7, <1>8 DEF HasEmb, EmbWork, Terminal
<1>11. emb[e].status # "none" /\ h.req = x.disc  BY <1>3, <1>7, <1>8
<1>13. QED
  BY <1>1, <1>3, <1>4, <1>6, <1>7, <1>8, <1>12, <1>9, <1>10, <1>11, EmbeddingStep

-----------------------------------------------------------------------------
(* The steps of the indexing stage on its jobs and the vector store.       *)

\* A thread that has an indexing job.
LEMMA JobInHand ==
    ASSUME IndexingInv, NEW r \in Runner, run[r].at \in IdxWork
    PROVE  LET j == run[r].job
           IN  /\ IndexingOK(run[r]) /\ run[r].stage = "indexing" /\ run[r].at # "idle"
               /\ run[r].req \in EmbId /\ idxReq[run[r].req] # "none"
               /\ emb[run[r].req].status # "none"
               /\ j \in IdxId /\ idx[j] \in IdxJob /\ idx[j].status = "active"
               /\ idx[j].emb = run[r].req
               /\ \A p \in Part : idx[j].rows[p] = "indexed" =>
                    point[ChunkOf(run[r].req, p)] # 0
<1>1. IndexingOK(run[r]) /\ run[r].stage = "indexing" /\ run[r].at # "idle"
  BY Thread DEF IdxWork
<1>2. /\ run[r].req \in EmbId /\ idxReq[run[r].req] # "none"
      /\ run[r].job \in IdxId /\ idx[run[r].job].status = "active"
      /\ idx[run[r].job].emb = run[r].req
  BY <1>1 DEF IndexingOK
<1>3. idx[run[r].job] \in IdxJob /\ emb[run[r].req].status # "none"  BY <1>2, Tables
<1>4. \A p \in Part : idx[run[r].job].rows[p] = "indexed" =>
        point[ChunkOf(run[r].req, p)] # 0
  BY <1>2 DEF IndexingInv, PointsOK, Indexed
<1>5. QED  BY <1>1, <1>2, <1>3, <1>4

\* A new indexing job, active or refused.
NewJob(e, status) == [NoIdx EXCEPT !.emb = e, !.status = status]

LEMMA NewIndexing ==
    ASSUME IndexingInv, NEW r \in Runner, NEW j \in IdxId, NEW status \in {"active", "failed"},
           run[r].at = "create", run[r].stage = "indexing", idx[j].status = "none"
    PROVE  LET x == NewJob(run[r].req, status)
           IN  /\ x \in IdxJob /\ x.emb = run[r].req /\ x.status = status
               /\ x.verification = "none" /\ idx[j].verification # "completed"
               /\ \A p \in Part : x.rows[p] # "indexed"
               /\ IndexingOK(run[r]) /\ run[r] \in Handling
<1> DEFINE x == NewJob(run[r].req, status)
<1>1. IndexingOK(run[r]) /\ run[r] \in Handling  BY Thread
<1>2. run[r].req \in EmbId  BY <1>1 DEF IndexingOK
<1>3. idx[j] = NoIdx  BY DEF IndexingInv, PointsOK
<1>4. /\ x.emb = run[r].req /\ x.status = status /\ x.verification = "none"
      /\ \A p \in Part : x.rows[p] # "indexed"
  BY DEF NoIdx, NewJob
<1>5. NoIdx \in IdxJob  BY IndexingAssumption DEF NoIdx, IdxJob, Terminal
<1>6. run[r].req \in 0 .. MaxEmb  BY <1>2 DEF EmbId
<1>7. x \in IdxJob  BY <1>5, <1>6 DEF IdxJob, Terminal, NewJob
<1>8. idx[j].verification # "completed"  BY <1>3 DEF NoIdx
<1>9. QED  BY <1>1, <1>4, <1>7, <1>8

LEMMA CreateIndexingStep ==
    ASSUME IndexingInv, NEW r \in Runner, CreateIndexing(r)
    PROVE  IndexingInv'
<1>1. PICK j \in IdxId :
        /\ NewIdx(j)
        /\ idx' = [idx EXCEPT ![j] = [NoIdx EXCEPT !.emb = run[r].req,
                                                   !.status = "active"]]
        /\ run' = [run EXCEPT ![r].at = "read", ![r].job = j]
  BY Zenon DEF CreateIndexing
<1> DEFINE x == NewJob(run[r].req, "active")
           h == [run[r] EXCEPT !.at = "read", !.job = j]
<1>2. /\ run[r].at = "create" /\ run[r].stage = "indexing" /\ idx[j].status = "none"
      /\ UNCHANGED <<version, disc, embReq, emb, idxReq, point, verdict, other, lost, faults>>
  BY <1>1 DEF CreateIndexing, sourceVars, embVars, NewIdx
<1>3. /\ x \in IdxJob /\ x.emb = run[r].req /\ x.status = "active"
      /\ x.verification = "none" /\ idx[j].verification # "completed"
      /\ \A p \in Part : x.rows[p] # "indexed"
      /\ IndexingOK(run[r]) /\ run[r] \in Handling
  BY <1>2, NewIndexing
<1>4. run' = [run EXCEPT ![r] = h] /\ idx' = [idx EXCEPT ![j] = x]
  BY <1>1, <1>3 DEF IndexingInv, TypeOK, NewJob
<1>5. /\ h.at = "read" /\ h.stage = "indexing" /\ h.job = j
      /\ h.req = run[r].req /\ h.snap = run[r].snap
  BY <1>2, <1>3 DEF Handling
<1>6. h \in Handling
  <2>1. j \in Nat /\ "read" \in Step  BY DEF IdxId, Step
  <2>2. QED  BY <1>3, <2>1 DEF Handling
<1> HIDE DEF x, h
<1>7. run'[r] = h /\ idx'[j] = x  BY <1>4, Tables DEF IndexingInv, TypeOK
<1>8. IndexingOK(run[r])'
  BY <1>2, <1>3, <1>5, <1>7 DEF IndexingOK, IdxWork
<1>9. RunOK(run[r])'  BY <1>5, <1>7, <1>8 DEF RunOK
<1>10. ~HasEmb(h)  BY <1>5 DEF HasEmb
<1>11. /\ point' \in [Chunk -> 0 .. MaxEmb] /\ faults' \in 0 .. MaxFaults
       /\ \A c \in Chunk : point[c] # 0 => point'[c] # 0
  BY <1>2, Tables
<1>12. x.status # "none" /\ run[r].at # "idle" /\ h.snap \in {run[r].snap, NoVerdict}
  BY <1>2, <1>3, <1>5
<1>13. QED
  BY <1>2, <1>3, <1>4, <1>5, <1>6, <1>9, <1>10, <1>11, <1>12, IndexingStep

LEMMA RefuseIndexingStep ==
    ASSUME IndexingInv, NEW r \in Runner, RefuseIndexing(r)
    PROVE  IndexingInv'
<1>1. PICK j \in IdxId :
        /\ NewIdx(j)
        /\ idx' = [idx EXCEPT ![j] = [NoIdx EXCEPT !.emb = run[r].req,
                                                   !.status = "failed"]]
  BY Zenon DEF RefuseIndexing
<1> DEFINE x == NewJob(run[r].req, "failed")
           h == [run[r] EXCEPT !.at = "return"]
<1>2. /\ run[r].at = "create" /\ run[r].stage = "indexing" /\ idx[j].status = "none"
      /\ run' = [run EXCEPT ![r] = h] /\ faults < MaxFaults /\ faults' = faults + 1
      /\ UNCHANGED <<version, disc, embReq, emb, idxReq, point, verdict, other, lost>>
  BY <1>1 DEF RefuseIndexing, sourceVars, embVars, NewIdx
<1>3. /\ x \in IdxJob /\ x.emb = run[r].req /\ x.status = "failed"
      /\ x.verification = "none" /\ idx[j].verification # "completed"
      /\ \A p \in Part : x.rows[p] # "indexed"
      /\ IndexingOK(run[r]) /\ run[r] \in Handling
  BY <1>2, NewIndexing
<1>4. idx' = [idx EXCEPT ![j] = x]  BY <1>1 DEF NewJob
<1>5. /\ h.at = "return" /\ h.stage = "indexing" /\ h.job = run[r].job
      /\ h.req = run[r].req /\ h.snap = run[r].snap /\ h \in Handling
  BY <1>2, <1>3 DEF Handling, Step
<1> HIDE DEF x, h
<1>6. run'[r] = h  BY <1>2 DEF IndexingInv, TypeOK
<1>7. IndexingOK(run[r])'
  BY <1>2, <1>3, <1>5, <1>6 DEF IndexingOK, IdxWork
<1>8. RunOK(run[r])'  BY <1>5, <1>6, <1>7 DEF RunOK
<1>9. ~HasEmb(h) /\ h.at \notin IdxWork  BY <1>5 DEF HasEmb, IdxWork
<1>10. /\ point' \in [Chunk -> 0 .. MaxEmb]
       /\ \A c \in Chunk : point[c] # 0 => point'[c] # 0
  BY <1>2, Tables
<1>11. faults' \in 0 .. MaxFaults  BY <1>2, Tables, IndexingAssumption
<1>12. x.status # "none" /\ run[r].at # "idle" /\ h.snap \in {run[r].snap, NoVerdict}
  BY <1>2, <1>3, <1>5
<1>13. QED
  BY <1>2, <1>3, <1>4, <1>5, <1>8, <1>9, <1>10, <1>11, <1>12, IndexingStep

\* A thread works on its job; what has been indexed is in the vector store before
\* and after.
LEMMA WorkStep ==
    ASSUME IndexingInv, NEW r \in Runner, NEW h \in Handling, NEW x \in IdxJob,
           run' = [run EXCEPT ![r] = h], idx' = [idx EXCEPT ![run[r].job] = x],
           point' \in [Chunk -> 0 .. MaxEmb],
           \A c \in Chunk : point[c] # 0 => point'[c] # 0,
           UNCHANGED <<version, disc, embReq, emb, idxReq, verdict, other, lost>>,
           faults' \in 0 .. MaxFaults, run[r].at \in IdxWork,
           x.status # "none", x.emb = run[r].req,
           \A p \in Part : x.rows[p] = "indexed" => point'[ChunkOf(run[r].req, p)] # 0,
           idx[run[r].job].verification = "completed" =>
             /\ x.verification = "completed" /\ x.rows = idx[run[r].job].rows
             /\ x.verified = idx[run[r].job].verified
             /\ x.status \in {"active", "completed"},
           h.at # "idle" => h.stage = "indexing" /\ IndexingOK(run[r])',
           h.at \in {"recalc", "write"} => h.left > 0,
           h.snap \in {run[r].snap, NoVerdict},
           h.at \in IdxWork => h.job = run[r].job
    PROVE  IndexingInv'
<1>1. /\ run[r].stage = "indexing" /\ run[r].at # "idle" /\ run[r].job \in IdxId
  BY JobInHand
<1>2. run'[r] = h  BY DEF IndexingInv, TypeOK
<1>3. RunOK(run[r])'  BY <1>2 DEF RunOK
<1>4. ~HasEmb(h)  BY DEF HasEmb
<1>5. \A p \in Part : x.rows[p] = "indexed" => point'[ChunkOf(x.emb, p)] # 0
  OBVIOUS
<1>6. QED  BY <1>1, <1>3, <1>4, <1>5, ZenonT(60), IndexingStep

LEMMA EnsureFailsStep ==
    ASSUME IndexingInv, NEW r \in Runner, EnsureFails(r)
    PROVE  IndexingInv'
<1> DEFINE j == run[r].job
           x == [idx[j] EXCEPT !.status = "failed"]
           h == [run[r] EXCEPT !.at = "return"]
<1>1. /\ run[r].at = "read" /\ run[r].at \in IdxWork /\ run[r] \in Handling
      /\ run' = [run EXCEPT ![r] = h] /\ faults < MaxFaults /\ faults' = faults + 1
      /\ UNCHANGED <<version, disc, embReq, emb, idxReq, point, verdict, other, lost>>
  BY Thread DEF EnsureFails, sourceVars, embVars, IdxWork
<1>2. /\ j \in IdxId /\ idx[j] \in IdxJob /\ idx[j].emb = run[r].req
      /\ IndexingOK(run[r]) /\ run[r].stage = "indexing"
      /\ run[r].req \in EmbId /\ idxReq[run[r].req] # "none"
      /\ \A p \in Part : idx[j].rows[p] = "indexed" => point[ChunkOf(run[r].req, p)] # 0
  BY <1>1, JobInHand
<1>3. idx' = [idx EXCEPT ![j] = x]
  BY <1>2, Tables DEF EnsureFails, IdxJob
<1>4. x \in IdxJob  BY <1>2 DEF IdxJob, Terminal
<1>5. x.status = "failed" /\ x.emb = idx[j].emb /\ x.rows = idx[j].rows
  BY <1>2 DEF IdxJob
<1>6. idx[j].verification = "none"  BY <1>1, <1>2 DEF IndexingOK
<1>7. /\ h.at = "return" /\ h.stage = "indexing" /\ h.job = j
      /\ h.req = run[r].req /\ h.snap = run[r].snap /\ h \in Handling
  BY <1>1, <1>2 DEF Handling, Step
<1> HIDE DEF x, h
<1>8. run'[r] = h  BY <1>1 DEF IndexingInv, TypeOK
<1>9. IndexingOK(run[r])'  BY <1>1, <1>2, <1>7, <1>8 DEF IndexingOK, IdxWork
<1>10. /\ point' \in [Chunk -> 0 .. MaxEmb] /\ faults' \in 0 .. MaxFaults
       /\ \A c \in Chunk : point[c] # 0 => point'[c] # 0
  BY <1>1, Tables, IndexingAssumption
<1>11. h.at \notin IdxWork  BY <1>7 DEF IdxWork
<1>12. QED
  BY <1>1, <1>2, <1>3, <1>4, <1>5, <1>6, <1>7, <1>9, <1>10, <1>11, WorkStep

\* A batch is stored, or not.
LEMMA PointStored ==
    ASSUME IndexingInv, NEW r \in Runner, run[r].at = "upsert", NEW p \in run[r].todo,
           point' \in {point, [point EXCEPT ![ChunkOf(run[r].req, p)] = run[r].req]}
    PROVE  /\ p \in Part /\ ChunkOf(run[r].req, p) \in Chunk
           /\ point' \in [Chunk -> 0 .. MaxEmb]
           /\ \A c \in Chunk : point[c] # 0 => point'[c] # 0
           /\ point' # point => point'[ChunkOf(run[r].req, p)] # 0
<1>1. run[r].req \in EmbId /\ emb[run[r].req].status # "none"
  BY JobInHand DEF IdxWork
<1>2. p \in Part  BY Thread DEF Handling
<1>3. ChunkOf(run[r].req, p) \in Chunk  BY <1>1, <1>2, ChunkExists DEF IndexingInv
<1>4. run[r].req \in 0 .. MaxEmb /\ run[r].req # 0  BY <1>1 DEF EmbId
<1>5. QED  BY <1>2, <1>3, <1>4, Tables

LEMMA UpsertStep ==
    ASSUME IndexingInv, NEW r \in Runner, Upsert(r)
    PROVE  IndexingInv'
<1>1. PICK p \in run[r].todo :
         /\ point' = [point EXCEPT ![ChunkOf(run[r].req, p)] = run[r].req]
         /\ idx' = [idx EXCEPT ![run[r].job].rows[p] = "indexed"]
         /\ run' = [run EXCEPT ![r].todo = @ \ {p}]
  BY Zenon DEF Upsert
<1> DEFINE j == run[r].job
           x == [idx[j] EXCEPT !.rows[p] = "indexed"]
           h == [run[r] EXCEPT !.todo = run[r].todo \ {p}]
<1>2. /\ run[r].at = "upsert" /\ run[r].at \in IdxWork /\ run[r] \in Handling
      /\ UNCHANGED <<version, disc, embReq, emb, idxReq, verdict, other, lost, faults>>
  BY Thread DEF Upsert, sourceVars, embVars, IdxWork
<1>3. /\ j \in IdxId /\ idx[j] \in IdxJob /\ idx[j].emb = run[r].req
      /\ idx[j].status = "active"
      /\ IndexingOK(run[r]) /\ run[r].stage = "indexing"
      /\ run[r].req \in EmbId /\ idxReq[run[r].req] # "none"
      /\ \A q \in Part : idx[j].rows[q] = "indexed" => point[ChunkOf(run[r].req, q)] # 0
  BY <1>2, JobInHand
<1>4. /\ p \in Part /\ ChunkOf(run[r].req, p) \in Chunk
      /\ point' \in [Chunk -> 0 .. MaxEmb]
      /\ \A c \in Chunk : point[c] # 0 => point'[c] # 0
  BY <1>1, <1>2, PointStored
<1>5. point'[ChunkOf(run[r].req, p)] # 0
  BY <1>1, <1>3, <1>4, Tables DEF EmbId
<1>6. /\ idx' = [idx EXCEPT ![j] = x] /\ run' = [run EXCEPT ![r] = h]
  BY <1>1, <1>2, <1>3, Tables DEF IdxJob, Handling, IndexingInv, TypeOK
<1>7. x \in IdxJob  BY <1>3, <1>4 DEF IdxJob
<1>8. /\ x.status = "active" /\ x.emb = idx[j].emb /\ x.verification = idx[j].verification
      /\ \A q \in Part : x.rows[q] = "indexed" => q = p \/ idx[j].rows[q] = "indexed"
  BY <1>3, <1>4 DEF IdxJob
<1>9. idx[j].verification = "none"  BY <1>2, <1>3 DEF IndexingOK
<1>10. /\ h.at = "upsert" /\ h.stage = "indexing" /\ h.job = j
       /\ h.req = run[r].req /\ h.snap = run[r].snap /\ h \in Handling
  BY <1>2, <1>3 DEF Handling
<1> HIDE DEF x, h
<1>11. run'[r] = h /\ idx'[j] = x  BY <1>3, <1>6, Tables DEF IndexingInv, TypeOK
<1>12. IndexingOK(run[r])'
  BY <1>2, <1>3, <1>8, <1>9, <1>10, <1>11 DEF IndexingOK, IdxWork
<1>13. \A q \in Part : ChunkOf(run[r].req, q) \in Chunk
  BY <1>3, Tables, ChunkExists DEF IndexingInv
<1>14. \A q \in Part : x.rows[q] = "indexed" => point'[ChunkOf(run[r].req, q)] # 0
  BY <1>3, <1>4, <1>5, <1>8, <1>13
<1>15. faults' \in 0 .. MaxFaults  BY <1>2, Tables
<1>16. x.status # "none" /\ h.at \notin {"idle", "recalc", "write"}  BY <1>8, <1>10
<1>17. QED
  BY <1>2, <1>3, <1>4, <1>6, <1>7, <1>8, <1>9, <1>10, <1>12, <1>14, <1>15, <1>16, WorkStep

LEMMA UpsertFailsStep ==
    ASSUME IndexingInv, NEW r \in Runner, UpsertFails(r)
    PROVE  IndexingInv'
<1> DEFINE j == run[r].job
           first == \A p \in Part : idx[j].rows[p] = "none"
<1>1. PICK p \in run[r].todo :
         /\ point' \in {point, [point EXCEPT ![ChunkOf(run[r].req, p)] = run[r].req]}
         /\ idx' = [idx EXCEPT ![run[r].job].rows[p] = "failed"]
         /\ run' = IF first THEN [run EXCEPT ![r] = Idle]
                   ELSE [run EXCEPT ![r].todo = @ \ {p}]
  BY DEF UpsertFails
<1> DEFINE x == [idx[j] EXCEPT !.rows[p] = "failed"]
           h == IF first THEN Idle ELSE [run[r] EXCEPT !.todo = run[r].todo \ {p}]
<1>2. /\ run[r].at = "upsert" /\ run[r].at \in IdxWork /\ run[r] \in Handling
      /\ faults < MaxFaults /\ faults' = faults + 1
      /\ UNCHANGED <<version, disc, embReq, emb, idxReq, verdict, other, lost>>
  BY Thread DEF UpsertFails, sourceVars, embVars, IdxWork
<1>3. /\ j \in IdxId /\ idx[j] \in IdxJob /\ idx[j].emb = run[r].req
      /\ idx[j].status = "active"
      /\ IndexingOK(run[r]) /\ run[r].stage = "indexing"
      /\ run[r].req \in EmbId /\ idxReq[run[r].req] # "none"
      /\ \A q \in Part : idx[j].rows[q] = "indexed" => point[ChunkOf(run[r].req, q)] # 0
  BY <1>2, JobInHand
<1>4. /\ p \in Part /\ point' \in [Chunk -> 0 .. MaxEmb]
      /\ \A c \in Chunk : point[c] # 0 => point'[c] # 0
  BY <1>1, <1>2, PointStored
<1>5. idx' = [idx EXCEPT ![j] = x]  BY <1>1, <1>2, <1>3, Tables DEF IdxJob
<1>6. run' = [run EXCEPT ![r] = h]
  BY <1>1, <1>2 DEF Handling, IndexingInv, TypeOK
<1>7. x \in IdxJob  BY <1>3, <1>4 DEF IdxJob
<1>8. /\ x.status = "active" /\ x.emb = idx[j].emb /\ x.verification = idx[j].verification
      /\ \A q \in Part : x.rows[q] = "indexed" => idx[j].rows[q] = "indexed"
  BY <1>3, <1>4 DEF IdxJob
<1>9. idx[j].verification = "none"  BY <1>2, <1>3 DEF IndexingOK
<1>10. h \in Handling  BY <1>2, IdleThread DEF Handling
<1>11. \/ h.at = "idle" /\ h.snap = NoVerdict
       \/ /\ h.at = "upsert" /\ h.stage = "indexing" /\ h.job = j
          /\ h.req = run[r].req /\ h.snap = run[r].snap
  <2>1. CASE first
    <3>1. h = Idle  BY <2>1
    <3>2. QED  BY <3>1, IdleThread
  <2>2. CASE ~first
    BY <1>2, <1>3, <2>2 DEF Handling
  <2>3. QED  BY <2>1, <2>2
<1> HIDE DEF x, h, first
<1>12. run'[r] = h /\ idx'[j] = x  BY <1>3, <1>5, <1>6, Tables DEF IndexingInv, TypeOK
<1>13. h.at # "idle" => h.stage = "indexing" /\ IndexingOK(run[r])'
  BY <1>2, <1>3, <1>8, <1>9, <1>11, <1>12 DEF IndexingOK, IdxWork
<1>14. \A q \in Part : ChunkOf(run[r].req, q) \in Chunk
  BY <1>3, Tables, ChunkExists DEF IndexingInv
<1>15. \A q \in Part : x.rows[q] = "indexed" => point'[ChunkOf(run[r].req, q)] # 0
  BY <1>3, <1>4, <1>8, <1>14
<1>16. faults' \in 0 .. MaxFaults  BY <1>2, Tables, IndexingAssumption
<1>17. /\ x.status # "none" /\ h.at \notin {"recalc", "write"}
       /\ h.snap \in {run[r].snap, NoVerdict}
       /\ h.at \in IdxWork => h.job = j
  BY <1>8, <1>11 DEF IdxWork
<1>18. x.emb = run[r].req /\ idx[j].verification # "completed"  BY <1>3, <1>8, <1>9
<1>19. QED
  BY <1>2, <1>4, <1>5, <1>6, <1>7, <1>10, <1>13, <1>15, <1>16, <1>17, <1>18, WorkStep

\* The job's own row is written when its points have been compared.
LEMMA EndVerifyStep ==
    ASSUME IndexingInv, NEW r \in Runner, EndVerify(r)
    PROVE  IndexingInv'
<1> DEFINE j == run[r].job
           w == VerificationOf(j, run[r].good)
           x == [idx[j] EXCEPT !.verified = run[r].good, !.verification = w]
           h == [run[r] EXCEPT !.at = "mark"]
<1>1. /\ run[r].at = "verify" /\ run[r].at \in IdxWork /\ run[r] \in Handling
      /\ run' = [run EXCEPT ![r] = h]
      /\ UNCHANGED <<version, disc, embReq, emb, idxReq, point, verdict, other, lost, faults>>
  BY Thread DEF EndVerify, sourceVars, embVars, IdxWork
<1>2. /\ j \in IdxId /\ idx[j] \in IdxJob /\ idx[j].emb = run[r].req
      /\ idx[j].status = "active"
      /\ IndexingOK(run[r]) /\ run[r].stage = "indexing"
      /\ run[r].req \in EmbId /\ idxReq[run[r].req] # "none"
      /\ \A p \in Part : idx[j].rows[p] = "indexed" => point[ChunkOf(run[r].req, p)] # 0
  BY <1>1, JobInHand
<1>3. idx' = [idx EXCEPT ![j] = x]
  BY <1>2, Tables DEF EndVerify, IdxJob
<1>4. /\ w \in {"completed", "partial", "failed"}
      /\ w = "completed" => run[r].good = Indexed(j)
  BY DEF VerificationOf
<1> HIDE DEF w
<1>5. x \in IdxJob  BY <1>1, <1>2, <1>4 DEF IdxJob, Terminal, Handling
<1>6. /\ x.status = "active" /\ x.emb = idx[j].emb /\ x.rows = idx[j].rows
      /\ x.verified = run[r].good /\ x.verification = w
  BY <1>2 DEF IdxJob
<1>7. idx[j].verification = "none"  BY <1>1, <1>2 DEF IndexingOK
<1>8. /\ h.at = "mark" /\ h.stage = "indexing" /\ h.job = j
      /\ h.req = run[r].req /\ h.snap = run[r].snap /\ h \in Handling
  BY <1>1, <1>2 DEF Handling, Step
<1> HIDE DEF x, h
<1>9. run'[r] = h /\ idx'[j] = x  BY <1>1, <1>2, <1>3, Tables DEF IndexingInv, TypeOK
<1>10. IndexingOK(run[r])'
  BY <1>1, <1>2, <1>4, <1>6, <1>8, <1>9 DEF IndexingOK, IdxWork, Indexed
<1>11. /\ point' \in [Chunk -> 0 .. MaxEmb] /\ faults' \in 0 .. MaxFaults
       /\ \A c \in Chunk : point[c] # 0 => point'[c] # 0
  BY <1>1, Tables
<1>12. \A p \in Part : x.rows[p] = "indexed" => point'[ChunkOf(run[r].req, p)] # 0
  BY <1>1, <1>2, <1>6
<1>13. x.status # "none" /\ x.emb = run[r].req /\ idx[j].verification # "completed"
  BY <1>2, <1>6, <1>7
<1>14. h.at \notin {"idle", "recalc", "write"}  BY <1>8
<1>15. QED
  BY <1>1, <1>3, <1>5, <1>8, <1>10, <1>11, <1>12, <1>13, <1>14, WorkStep

LEMMA RetrieveFailsStep ==
    ASSUME IndexingInv, NEW r \in Runner, RetrieveFails(r)
    PROVE  IndexingInv'
<1> DEFINE j == run[r].job
           x == [idx[j] EXCEPT !.verification = "failed"]
           h == [run[r] EXCEPT !.at = "mark", !.todo = {}, !.good = {}]
<1>1. /\ run[r].at = "verify" /\ run[r].at \in IdxWork /\ run[r] \in Handling
      /\ run' = [run EXCEPT ![r] = h] /\ faults < MaxFaults /\ faults' = faults + 1
      /\ UNCHANGED <<version, disc, embReq, emb, idxReq, point, verdict, other, lost>>
  BY Thread DEF RetrieveFails, sourceVars, embVars, IdxWork
<1>2. /\ j \in IdxId /\ idx[j] \in IdxJob /\ idx[j].emb = run[r].req
      /\ idx[j].status = "active"
      /\ IndexingOK(run[r]) /\ run[r].stage = "indexing"
      /\ run[r].req \in EmbId /\ idxReq[run[r].req] # "none"
      /\ \A p \in Part : idx[j].rows[p] = "indexed" => point[ChunkOf(run[r].req, p)] # 0
  BY <1>1, JobInHand
<1>3. idx' = [idx EXCEPT ![j] = x]
  BY <1>2, Tables DEF RetrieveFails, IdxJob
<1>4. x \in IdxJob  BY <1>2 DEF IdxJob, Terminal
<1>5. /\ x.status = "active" /\ x.emb = idx[j].emb /\ x.rows = idx[j].rows
      /\ x.verification = "failed"
  BY <1>2 DEF IdxJob
<1>6. idx[j].verification = "none"  BY <1>1, <1>2 DEF IndexingOK
<1>7. /\ h.at = "mark" /\ h.stage = "indexing" /\ h.job = j
      /\ h.req = run[r].req /\ h.snap = run[r].snap /\ h \in Handling
  BY <1>1, <1>2 DEF Handling, Step
<1> HIDE DEF x, h
<1>8. run'[r] = h /\ idx'[j] = x  BY <1>1, <1>2, <1>3, Tables DEF IndexingInv, TypeOK
<1>9. IndexingOK(run[r])'
  BY <1>1, <1>2, <1>5, <1>7, <1>8 DEF IndexingOK, IdxWork
<1>10. /\ point' \in [Chunk -> 0 .. MaxEmb]
       /\ \A c \in Chunk : point[c] # 0 => point'[c] # 0
  BY <1>1, Tables
<1>11. \A p \in Part : x.rows[p] = "indexed" => point'[ChunkOf(run[r].req, p)] # 0
  BY <1>1, <1>2, <1>5
<1>12. faults' \in 0 .. MaxFaults  BY <1>1, Tables, IndexingAssumption
<1>13. x.status # "none" /\ x.emb = run[r].req /\ idx[j].verification # "completed"
  BY <1>2, <1>5, <1>6
<1>14. h.at \notin {"idle", "recalc", "write"}  BY <1>7
<1>15. QED
  BY <1>1, <1>3, <1>4, <1>7, <1>9, <1>10, <1>11, <1>12, <1>13, <1>14, WorkStep

\* The job ends as what its verification says, which a verdict already says.
LEMMA FinishIndexingStep ==
    ASSUME IndexingInv, NEW r \in Runner, FinishIndexing(r)
    PROVE  IndexingInv'
<1> DEFINE j == run[r].job
           x == [idx[j] EXCEPT !.status = StatusOf(j)]
           h == [run[r] EXCEPT !.at = "recalc", !.left = 2]
<1>0. run \in [Runner -> Handling]  BY DEF IndexingInv, TypeOK
<1>1. /\ run[r].at = "finish" /\ run[r].at \in IdxWork /\ run[r] \in Handling
      /\ Sound(run[r].snap) /\ run' = [run EXCEPT ![r] = h]
      /\ UNCHANGED <<version, disc, embReq, emb, idxReq, point, verdict, other, lost, faults>>
  BY <1>0, Thread DEF FinishIndexing, sourceVars, embVars, IdxWork
<1>2. /\ j \in IdxId /\ idx[j] \in IdxJob /\ idx[j].emb = run[r].req
      /\ IndexingOK(run[r]) /\ run[r].stage = "indexing"
      /\ run[r].req \in EmbId /\ idxReq[run[r].req] # "none"
      /\ \A p \in Part : idx[j].rows[p] = "indexed" => point[ChunkOf(run[r].req, p)] # 0
  BY <1>1, JobInHand
<1>3. idx' = [idx EXCEPT ![j] = x]
  BY <1>2, Tables DEF FinishIndexing, IdxJob
<1>4. Indexed(j) = {} \/ idx[j].verification # "none"
  BY <1>1, <1>2 DEF IndexingOK
<1>5. StatusOf(j) \in Terminal
  BY <1>2, <1>4 DEF StatusOf, IdxJob, Terminal
<1>6. x \in IdxJob  BY <1>2, <1>5 DEF IdxJob
<1>7. /\ x.status = StatusOf(j) /\ x.emb = idx[j].emb /\ x.rows = idx[j].rows
      /\ x.verification = idx[j].verification /\ x.verified = idx[j].verified
  BY <1>2 DEF IdxJob
<1>8. /\ h.at = "recalc" /\ h.stage = "indexing" /\ h.job = j
      /\ h.req = run[r].req /\ h.snap = run[r].snap /\ h.left = 2
  BY <1>1, <1>2 DEF Handling
<1>9. h \in Handling
  <2>1. 2 \in 0 .. 2 /\ "recalc" \in Step  BY DEF Step
  <2>2. QED  BY <1>1, <2>1 DEF Handling
<1> HIDE DEF x, h
<1>10. run'[r] = h /\ idx'[j] = x  BY <1>1, <1>2, <1>3, Tables DEF IndexingInv, TypeOK
<1>11. IndexingOK(run[r])'
  BY <1>1, <1>2, <1>8, <1>10 DEF IndexingOK, IdxWork
<1>12. /\ point' \in [Chunk -> 0 .. MaxEmb] /\ faults' \in 0 .. MaxFaults
       /\ \A c \in Chunk : point[c] # 0 => point'[c] # 0
  BY <1>1, Tables
<1>13. \A p \in Part : x.rows[p] = "indexed" => point'[ChunkOf(run[r].req, p)] # 0
  BY <1>1, <1>2, <1>7
<1>14. /\ x.status # "none" /\ x.emb = run[r].req
       /\ h.at \notin {"idle", "write"} /\ h.left > 0 /\ h.at \notin IdxWork
  BY <1>2, <1>5, <1>7, <1>8 DEF Terminal, IdxWork
<1>15. idx[j].verification = "completed" =>
         /\ x.verification = "completed" /\ x.rows = idx[j].rows
         /\ x.verified = idx[j].verified /\ x.status \in {"active", "completed"}
  BY <1>1, <1>2, <1>7 DEF IndexingOK, StatusOf
<1>16. QED
  BY <1>1, <1>3, <1>6, <1>8, <1>9, <1>11, <1>12, <1>13, <1>14, <1>15, WorkStep

-----------------------------------------------------------------------------
(* The stages before, and the recalculations of others.                    *)

LEMMA SourceStep ==
    ASSUME IndexingInv, TypeOK', SourceOK',
           UNCHANGED <<emb, idxReq, idx, point, run, lost>>,
           \A d \in DOMAIN disc : d \in DOMAIN disc' /\ disc'[d] = disc[d],
           \A d \in DiscId : embReq'[d] = "acked" => embReq[d] = "acked",
           \A d \in DiscId : embReq[d] # "none" => embReq'[d] # "none",
           Sound(verdict'), Sound((other').snap)
    PROVE  IndexingInv'
<1>0. /\ TypeOK /\ SourceOK /\ JobsOK /\ PointsOK /\ RunsOK /\ OneEach /\ VerdictsOK
      /\ ChainUnbroken
  BY DEF IndexingInv
<1>1. JobsOK'  BY <1>0 DEF JobsOK
<1>2. PointsOK'
  <2> SUFFICES ASSUME NEW k \in IdxId
               PROVE  IF idx[k].status = "none" THEN idx[k] = NoIdx
                      ELSE /\ idx[k].emb \in EmbId /\ emb[idx[k].emb].status # "none"
                           /\ \A p \in Indexed(k) :
                                point[<<disc'[emb[idx[k].emb].disc], emb[idx[k].emb].version,
                                        p>>] # 0
    BY DEF PointsOK, Indexed, ChunkOf
  <2>1. CASE idx[k].status # "none"
    <3>1. /\ idx[k].emb \in EmbId /\ emb[idx[k].emb].status # "none"
          /\ \A p \in Indexed(k) : point[ChunkOf(idx[k].emb, p)] # 0
      BY <1>0, <2>1 DEF PointsOK
    <3>2. disc'[emb[idx[k].emb].disc] = disc[emb[idx[k].emb].disc]
      BY <1>0, <3>1 DEF JobsOK
    <3>3. QED  BY <2>1, <3>1, <3>2 DEF ChunkOf
  <2>2. QED  BY <1>0, <2>1 DEF PointsOK
<1>3. RunsOK'
  <2> SUFFICES ASSUME NEW q \in Runner  PROVE RunOK(run[q])'
    BY DEF RunsOK
  <2>1. RunOK(run[q]) /\ run'[q] = run[q]  BY <1>0 DEF RunsOK
  <2>2. QED  BY <2>1, OtherThread
<1>4. OneEach'  BY <1>0 DEF OneEach
<1>5. VerdictsOK'
  <2>1. Sound(verdict)'  BY DEF Sound, Indexed
  <2>2. Sound(other.snap)'  BY DEF Sound, Indexed
  <2>3. ASSUME NEW q \in Runner  PROVE Sound(run[q].snap)'
    BY <1>0 DEF VerdictsOK, Sound, Indexed
  <2>4. QED  BY <2>1, <2>2, <2>3 DEF VerdictsOK
<1>6. ChainUnbroken'  BY <1>0 DEF ChainUnbroken, JobsOf, Handles
<1>7. QED  BY <1>1, <1>2, <1>3, <1>4, <1>5, <1>6 DEF IndexingInv

LEMMA RechunkStep ==
    ASSUME IndexingInv, NEW i \in Item, Rechunk(i)
    PROVE  IndexingInv'
<1>0. TypeOK /\ SourceOK /\ VerdictsOK  BY DEF IndexingInv
<1>1. /\ version[i] < MaxVersion /\ version' = [version EXCEPT ![i] = version[i] + 1]
      /\ other' = [other EXCEPT !.owed = other.owed + 1]
      /\ UNCHANGED <<disc, embReq, emb, idxReq, idx, point, verdict, run, lost, faults>>
  BY <1>0 DEF Rechunk, embVars, idxVars, TypeOK
<1>2. /\ other \in [owed : Nat, busy : BOOLEAN, snap : Verdict]
      /\ version \in [Item -> 0 .. MaxVersion]
  BY <1>0 DEF TypeOK
<1>3. /\ other' \in [owed : Nat, busy : BOOLEAN, snap : Verdict]
      /\ (other').snap = other.snap
  BY <1>1, <1>2
<1>4. /\ version' \in [Item -> 0 .. MaxVersion]
      /\ \A k \in Item : version[k] > 0 => version'[k] > 0
  BY <1>1, <1>2, IndexingAssumption
<1>5. TypeOK'  BY <1>0, <1>1, <1>3, <1>4 DEF TypeOK
<1>6. SourceOK'
  <2>1. \A d \in DOMAIN disc : disc[d] \in Item  BY <1>0 DEF TypeOK
  <2>2. QED  BY <1>0, <1>1, <1>4, <2>1 DEF SourceOK
<1>7. Sound(verdict') /\ Sound((other').snap)  BY <1>0, <1>1, <1>3 DEF VerdictsOK
<1>8. QED  BY <1>1, <1>5, <1>6, <1>7, SourceStep

\* The next discovery job.
LEMMA DiscoverStep ==
    ASSUME IndexingInv, NEW i \in Item, Discover(i)
    PROVE  IndexingInv'
<1>0. TypeOK /\ SourceOK /\ VerdictsOK  BY DEF IndexingInv
<1>1. PICK n \in 0 .. MaxDisc : DOMAIN disc = 1 .. n  BY <1>0 DEF SourceOK
<1>2. Cardinality(DOMAIN disc) = n
  <2>1. Cardinality(1 .. n) = n  BY FS_Interval
  <2>2. QED  BY <1>1, <2>1
<1>3. /\ version[i] > 0 /\ n < MaxDisc
      /\ disc' = [k \in 1 .. (n + 1) |-> IF k = n + 1 THEN i ELSE disc[k]]
      /\ embReq' = [embReq EXCEPT ![n + 1] = "open"]
      /\ UNCHANGED <<version, emb, idxReq, idx, point, verdict, run, other, lost, faults>>
  BY <1>2 DEF Discover, idxVars
<1>4. n + 1 \in DiscId /\ n + 1 \in 0 .. MaxDisc /\ n \in Nat
  BY <1>3, IndexingAssumption DEF DiscId
<1>5. /\ DOMAIN disc' = 1 .. (n + 1) /\ disc'[n + 1] = i
      /\ \A d \in DOMAIN disc : d \in DOMAIN disc' /\ disc'[d] = disc[d]
      /\ \A d \in DOMAIN disc' : d = n + 1 \/ d \in DOMAIN disc
  BY <1>1, <1>3, <1>4
<1>6. /\ embReq' \in [DiscId -> Event] /\ embReq'[n + 1] = "open"
      /\ \A d \in DiscId : d # n + 1 => embReq'[d] = embReq[d]
  BY <1>3, <1>4, Tables DEF Event
<1>7. TypeOK'
  <2>1. \A d \in DOMAIN disc : disc[d] \in Item  BY <1>0 DEF TypeOK
  <2>2. \A d \in DOMAIN disc' : disc'[d] \in Item  BY <1>5, <2>1
  <2>3. DOMAIN disc' \subseteq DiscId
    <3>1. n < MaxDisc /\ n \in Nat /\ MaxDisc \in Nat  BY <1>3, <1>4, IndexingAssumption
    <3>2. 1 .. (n + 1) \subseteq 1 .. MaxDisc  BY <3>1
    <3>3. QED  BY <1>5, <3>2 DEF DiscId
  <2>4. QED  BY <1>0, <1>3, <1>6, <2>2, <2>3 DEF TypeOK
<1>8. SourceOK'
  <2>1. \A d \in DiscId : embReq'[d] # "none" =>
          d \in DOMAIN disc' /\ version[disc'[d]] > 0
    BY <1>0, <1>3, <1>5, <1>6 DEF SourceOK
  <2>2. QED  BY <1>3, <1>4, <1>5, <2>1 DEF SourceOK
<1>9. Sound(verdict') /\ Sound((other').snap)  BY <1>0, <1>3 DEF VerdictsOK
<1>10. QED  BY <1>3, <1>5, <1>6, <1>7, <1>8, <1>9, SourceStep

LEMMA OtherReadsStep ==
    ASSUME IndexingInv, OtherReads
    PROVE  IndexingInv'
<1>0. TypeOK /\ SourceOK /\ VerdictsOK  BY DEF IndexingInv
<1>1. /\ other.owed > 0
      /\ other' = [owed |-> other.owed - 1, busy |-> TRUE, snap |-> verdict]
      /\ UNCHANGED <<version, disc, embReq, emb, idxReq, idx, point, verdict, run, lost,
                     faults>>
  BY DEF OtherReads, sourceVars, embVars, idxVars
<1>2. other \in [owed : Nat, busy : BOOLEAN, snap : Verdict]  BY <1>0 DEF TypeOK
<1>3. /\ other' \in [owed : Nat, busy : BOOLEAN, snap : Verdict]
      /\ (other').snap = verdict
  BY <1>1, <1>2, Tables
<1>4. TypeOK'  BY <1>0, <1>1, <1>3 DEF TypeOK
<1>5. SourceOK'  BY <1>0, <1>1 DEF SourceOK
<1>6. Sound(verdict') /\ Sound((other').snap)  BY <1>0, <1>1, <1>3 DEF VerdictsOK
<1>7. QED  BY <1>1, <1>4, <1>5, <1>6, SourceStep

LEMMA OtherWritesStep ==
    ASSUME IndexingInv, OtherWrites
    PROVE  IndexingInv'
<1>0. TypeOK /\ SourceOK /\ VerdictsOK  BY DEF IndexingInv
<1>1. /\ verdict' = other.snap
      /\ other' = [other EXCEPT !.busy = FALSE, !.snap = NoVerdict]
      /\ UNCHANGED <<version, disc, embReq, emb, idxReq, idx, point, run, lost, faults>>
  BY DEF OtherWrites, sourceVars, embVars, idxVars
<1>2. other \in [owed : Nat, busy : BOOLEAN, snap : Verdict]  BY <1>0 DEF TypeOK
<1>3. /\ other' \in [owed : Nat, busy : BOOLEAN, snap : Verdict]
      /\ (other').snap = NoVerdict
  BY <1>1, <1>2, Tables
<1>4. verdict' \in Verdict  BY <1>1, <1>2
<1>5. TypeOK'  BY <1>0, <1>1, <1>3, <1>4 DEF TypeOK
<1>6. SourceOK'  BY <1>0, <1>1 DEF SourceOK
<1>7. Sound(verdict') /\ Sound((other').snap)
  BY <1>0, <1>1, <1>3, Tables DEF VerdictsOK
<1>8. QED  BY <1>1, <1>5, <1>6, <1>7, SourceStep

-----------------------------------------------------------------------------
(* The invariant, and what it gives.                                       *)

LEMMA InitInv == Init => IndexingInv
<1> SUFFICES ASSUME Init  PROVE IndexingInv
  OBVIOUS
<1>1. /\ NoVerdict \in Verdict /\ ~NoVerdict.ready
      /\ NoEmb \in EmbJob /\ NoEmb.status = "none"
      /\ NoIdx \in IdxJob /\ NoIdx.status = "none"
  BY IndexingAssumption DEF NoVerdict, Verdict, NoEmb, EmbJob, NoIdx, IdxJob, Terminal
<1>2. DOMAIN disc = 1 .. 0 /\ 0 \in 0 .. MaxDisc /\ 0 \in 0 .. MaxFaults
      /\ 0 \in 0 .. MaxEmb /\ 0 \in 0 .. MaxVersion
  BY IndexingAssumption DEF Init
<1>3. TypeOK
  <2>1. /\ version \in [Item -> 0 .. MaxVersion] /\ embReq \in [DiscId -> Event]
        /\ idxReq \in [EmbId -> Event] /\ point \in [Chunk -> 0 .. MaxEmb]
        /\ emb \in [EmbId -> EmbJob] /\ idx \in [IdxId -> IdxJob]
    BY <1>1, <1>2 DEF Init, Event
  <2>2. run \in [Runner -> Handling]  BY IdleThread DEF Init
  <2>3. verdict \in Verdict /\ other \in [owed : Nat, busy : BOOLEAN, snap : Verdict]
    BY <1>1 DEF Init
  <2>4. lost \subseteq EmbId /\ faults \in 0 .. MaxFaults  BY <1>2 DEF Init
  <2>5. DOMAIN disc = {}  BY <1>2
  <2>6. QED  BY <2>1, <2>2, <2>3, <2>4, <2>5 DEF TypeOK
<1>4. SourceOK  BY <1>2 DEF Init, SourceOK
<1>5. JobsOK  BY <1>1 DEF Init, JobsOK
<1>6. PointsOK  BY <1>1 DEF Init, PointsOK
<1>7. \A r \in Runner : run[r] = Idle /\ run[r].at = "idle" /\ run[r].snap = NoVerdict
  BY IdleThread DEF Init
<1>8. RunsOK /\ OneEach  BY <1>7 DEF RunsOK, RunOK, OneEach, HasEmb, IdxWork
<1>9. VerdictsOK  BY <1>1, <1>7 DEF Init, VerdictsOK, Sound
<1>10. ChainUnbroken  BY DEF Init, ChainUnbroken
<1>11. QED  BY <1>3, <1>4, <1>5, <1>6, <1>8, <1>9, <1>10 DEF IndexingInv

LEMMA StepInv == IndexingInv /\ [Next]_vars => IndexingInv'
<1> SUFFICES ASSUME IndexingInv, [Next]_vars  PROVE IndexingInv'
  OBVIOUS
<1>1. CASE Source  BY <1>1, RechunkStep, DiscoverStep DEF Source
<1>2. ASSUME NEW r \in Runner, Embedding(r)  PROVE IndexingInv'
  BY <1>2, DeliverStep, EmbeddingRefusedStep, LoadChunksStep, CreateEmbeddingStep,
     FindExistingStep, EmbedStep, FinishEmbeddingStep, EmitIndexingStep DEF Embedding
<1>3. ASSUME NEW r \in Runner, Index(r)  PROVE IndexingInv'
  BY <1>3, DeliverStep, IndexingRefusedStep, MayIndexStep, CreateIndexingStep,
     ReadChunksStep, UpsertStep, EndUpsertStep, VerifyPartStep, EndVerifyStep,
     MarkReadyStep, FinishIndexingStep DEF Index
<1>4. ASSUME NEW r \in Runner, RecalcRead(r) \/ RecalcWrite(r) \/ Return(r)
      PROVE  IndexingInv'
  BY <1>4, RecalcReadStep, RecalcWriteStep, ReturnStep
<1>5. ASSUME NEW r \in Runner, Fault(r)  PROVE IndexingInv'
  BY <1>5, EmitFailsStep, RefuseIndexingStep, EnsureFailsStep, UpsertFailsStep,
     RetrieveFailsStep, MarkReadyFailsStep, RecalcFailsStep, TimeOutStep, CrashStep
     DEF Fault
<1>6. CASE OtherReads \/ OtherWrites  BY <1>6, OtherReadsStep, OtherWritesStep
<1>7. CASE UNCHANGED vars
  BY <1>7 DEF vars, IndexingInv, TypeOK, SourceOK, JobsOK, PointsOK, RunsOK, RunOK,
     EmbeddingOK, IndexingOK, Settled, OneEach, HasEmb, VerdictsOK, Sound, ChainUnbroken,
     JobsOf, Handles, Indexed, ChunkOf
<1>8. QED  BY <1>1, <1>2, <1>3, <1>4, <1>5, <1>6, <1>7 DEF Next

LEMMA Invariant == Spec => []IndexingInv
  BY InitInv, StepInv, PTL DEF Spec

\* Every variable keeps its type, for any items, batches and threads and any
\* bounds on versions, jobs and faults.
THEOREM TypeCorrect == Spec => []TypeOK
<1>1. IndexingInv => TypeOK  BY DEF IndexingInv
<1>2. QED  BY Invariant, <1>1, PTL

\* A knowledge base that search accepts has the verdict of a job that ended as
\* completed and has all it indexed verified and in the vector store, whatever
\* recalculation wrote an older verdict back and whoever else wrote its points. Of
\* the jobs after that one it says nothing.
THEOREM SearchedIsVerified == Spec => []ReadyMeansVerified
<1>1. IndexingInv => ReadyMeansVerified
  <2> SUFFICES ASSUME IndexingInv, Searchable
               PROVE  /\ idx[verdict.job].status = "completed"
                      /\ Indexed(verdict.job) # {}
                      /\ idx[verdict.job].verified = Indexed(verdict.job)
                      /\ \A p \in Indexed(verdict.job) :
                           point[ChunkOf(idx[verdict.job].emb, p)] # 0
    BY DEF ReadyMeansVerified
  <2>1. Sound(verdict) /\ verdict.ready  BY DEF IndexingInv, VerdictsOK, Searchable
  <2>2. /\ verdict.job \in IdxId /\ idx[verdict.job].status \in {"active", "completed"}
        /\ Indexed(verdict.job) # {} /\ idx[verdict.job].verified = Indexed(verdict.job)
    BY <2>1 DEF Sound
  <2>3. idx[verdict.job].status = "completed"  BY <2>2 DEF Searchable
  <2>4. \A p \in Indexed(verdict.job) : point[ChunkOf(idx[verdict.job].emb, p)] # 0
    BY <2>2, <2>3 DEF IndexingInv, PointsOK
  <2>5. QED  BY <2>2, <2>3, <2>4
<1>2. QED  BY Invariant, <1>1, PTL

\* Behind an acknowledged embedding event the chain goes on, unless a publication
\* was lost: a job of it has failed, is active, in the hands of a thread, or has
\* its indexing event out.
THEOREM ChainGoesOn == Spec => []ChainUnbroken
<1>1. IndexingInv => ChainUnbroken  BY DEF IndexingInv
<1>2. QED  BY Invariant, <1>1, PTL

=============================================================================
