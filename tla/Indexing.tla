------------------------------ MODULE Indexing ------------------------------
(***************************************************************************)
(* The end of the knowledge base pipeline: the embedding and the indexing  *)
(* stage (apps/kb/kb_embedding, kb_indexing) of the items of one knowledge *)
(* base, the readiness verdict they leave in its metrics row (kb_processing) *)
(* and the check search makes before it answers (kb_search).               *)
(*                                                                         *)
(*   version   each item's chunk set: every understanding run makes new ids *)
(*   disc      the item of each discovery job, by job id                   *)
(*   embReq    the outbox event kb.embedding_requested, by discovery job   *)
(*   emb       the embedding jobs and the parts they embedded              *)
(*   idxReq    the outbox event kb.indexing_requested, by embedding job    *)
(*   idx       the indexing jobs, their chunk rows and verification        *)
(*   point     the vector store: whose embedding a chunk's point carries   *)
(*   verdict   the readiness part of the metrics row                       *)
(*   run       what each handler thread is doing                           *)
(*   other     the recalculations of the understanding stage               *)
(*   lost      history: embedding jobs whose event was lost for good       *)
(*   faults    crashes, timeouts, outages and database errors so far       *)
(*                                                                         *)
(* A part stands for one batch of chunks, the unit of upsert and retrieve. *)
(***************************************************************************)
EXTENDS Integers, FiniteSets

CONSTANTS
    Item, Part,     \* documents, and the chunk batches of each
    Runner,         \* handler threads of the outbox workers
    MaxVersion,     \* bound: understanding runs per item
    MaxDisc,        \* bound: discovery jobs
    MaxEmb, MaxIdx, \* bounds: embedding and indexing jobs
    MaxFaults       \* bound: crashes, timeouts, outages and database errors

ASSUME IndexingAssumption ==
    {MaxVersion, MaxDisc, MaxEmb, MaxIdx, MaxFaults} \subseteq Nat

VARIABLES version, disc, embReq, emb, idxReq, idx, point, verdict, run, other,
          lost, faults

sourceVars == <<version, disc>>
embVars == <<embReq, emb>>
idxVars == <<idxReq, idx, point>>
vars == <<version, disc, embReq, emb, idxReq, idx, point, verdict, run, other,
          lost, faults>>

DiscId == 1 .. MaxDisc
EmbId == 1 .. MaxEmb
IdxId == 1 .. MaxIdx
Terminal == {"completed", "partial", "failed"}
Event == {"none", "open", "acked"}
Chunk == Item \X (1 .. MaxVersion) \X Part

EmbJob == [disc : 0 .. MaxDisc, version : 0 .. MaxVersion, ok : SUBSET Part,
           status : {"none", "active"} \cup Terminal]

IdxJob == [emb : 0 .. MaxEmb, rows : [Part -> {"none", "indexed", "failed"}],
           verified : SUBSET Part,   \* kb_index_verification_items
           verification : {"none"} \cup Terminal,
           status : {"none", "active"} \cup Terminal]

\* job 0: the metrics row has no verdict yet.
Verdict == [job : 0 .. MaxIdx, ready : BOOLEAN]

Step == {"idle", "check", "create", "embed", "generate", "embedded", "emit",
         "read", "upsert", "verify", "mark", "finish", "recalc", "write", "return"}

Handling == [at : Step,
             stage : {"embedding", "indexing"},
             heard : BOOLEAN,       \* the worker is waiting for the thread
             req : Nat,             \* the event's discovery or embedding job
             job : Nat,             \* the job the handler has created
             seen : 0 .. MaxVersion,\* the chunk set it has loaded
             todo : SUBSET Part,    \* batches still to upsert or to verify
             good : SUBSET Part,    \* batches that were found embedded, or verified
             left : 0 .. 2,         \* recalculations still to do
             snap : Verdict]        \* the verdict a recalculation preserves

NoVerdict == [job |-> 0, ready |-> FALSE]
NoEmb == [disc |-> 0, version |-> 0, ok |-> {}, status |-> "none"]
NoIdx == [emb |-> 0, rows |-> [p \in Part |-> "none"], verified |-> {},
          verification |-> "none", status |-> "none"]
Idle == [at |-> "idle", stage |-> "embedding", heard |-> TRUE, req |-> 0, job |-> 0,
         seen |-> 0, todo |-> {}, good |-> {}, left |-> 0, snap |-> NoVerdict]

TypeOK ==
    /\ version \in [Item -> 0 .. MaxVersion]
    /\ \A d \in DOMAIN disc : disc[d] \in Item
    /\ DOMAIN disc \subseteq DiscId
    /\ embReq \in [DiscId -> Event]
    /\ emb \in [EmbId -> EmbJob]
    /\ idxReq \in [EmbId -> Event]
    /\ idx \in [IdxId -> IdxJob]
    /\ point \in [Chunk -> 0 .. MaxEmb]
    /\ verdict \in Verdict
    /\ run \in [Runner -> Handling]
    /\ other \in [owed : Nat, busy : BOOLEAN, snap : Verdict]
    /\ lost \subseteq EmbId
    /\ faults \in 0 .. MaxFaults

Init ==
    /\ version = [i \in Item |-> 0]
    /\ disc = <<>>
    /\ embReq = [d \in DiscId |-> "none"]
    /\ emb = [e \in EmbId |-> NoEmb]
    /\ idxReq = [e \in EmbId |-> "none"]
    /\ idx = [j \in IdxId |-> NoIdx]
    /\ point = [c \in Chunk |-> 0]
    /\ verdict = NoVerdict
    /\ run = [r \in Runner |-> Idle]
    /\ other = [owed |-> 0, busy |-> FALSE, snap |-> NoVerdict]
    /\ lost = {}
    /\ faults = 0

-----------------------------------------------------------------------------
(* The stages before: understanding and discovery.                         *)

\* An understanding run replaces the item's chunks, under new ids; the last thing
\* it will do is to recalculate the metrics.
Rechunk(i) ==
    /\ version[i] < MaxVersion
    /\ version' = [version EXCEPT ![i] = @ + 1]
    /\ other' = [other EXCEPT !.owed = @ + 1]
    /\ UNCHANGED <<disc, embVars, idxVars, verdict, run, lost, faults>>

\* A discovery job of the item completes and publishes its embedding event.
Discover(i) ==
    /\ version[i] > 0
    /\ Cardinality(DOMAIN disc) < MaxDisc
    /\ LET d == Cardinality(DOMAIN disc) + 1
       IN  /\ disc' = [k \in 1 .. d |-> IF k = d THEN i ELSE disc[k]]
           /\ embReq' = [embReq EXCEPT ![d] = "open"]
    /\ UNCHANGED <<version, emb, idxVars, verdict, run, other, lost, faults>>

-----------------------------------------------------------------------------
(* Delivery.                                                               *)

Handles(r, stage, q) ==
    run[r].at # "idle" /\ run[r].stage = stage /\ run[r].req = q

\* The outbox dispatches an event again only when the last dispatch of it has
\* ended: its handler returned, raised, timed out or died.
Free(stage, q) == \A r \in Runner : Handles(r, stage, q) => ~run[r].heard

Deliver(r, stage, q) ==
    /\ run[r].at = "idle"
    /\ Free(stage, q)
    /\ run' = [run EXCEPT ![r] = [Idle EXCEPT !.at = "check", !.stage = stage,
                                              !.req = q]]
    /\ UNCHANGED <<sourceVars, embVars, idxVars, verdict, other, lost, faults>>

DeliverEmbedding(r) ==
    \E d \in DiscId : embReq[d] = "open" /\ Deliver(r, "embedding", d)

DeliverIndexing(r) ==
    \E e \in EmbId : idxReq[e] = "open" /\ Deliver(r, "indexing", e)

\* The handler returns: the worker marks the event processed, unless it has
\* stopped waiting for it.
Ack(r) ==
    /\ run' = [run EXCEPT ![r] = Idle]
    /\ \/ ~run[r].heard /\ UNCHANGED <<embReq, idxReq>>
       \/ /\ run[r].heard /\ run[r].stage = "embedding"
          /\ embReq' = [embReq EXCEPT ![run[r].req] = "acked"]
          /\ UNCHANGED idxReq
       \/ /\ run[r].heard /\ run[r].stage = "indexing"
          /\ idxReq' = [idxReq EXCEPT ![run[r].req] = "acked"]
          /\ UNCHANGED embReq

Return(r) ==
    /\ run[r].at = "return"
    /\ Ack(r)
    /\ UNCHANGED <<sourceVars, emb, idx, point, verdict, other, lost, faults>>

\* The dispatch times out; the event will be retried, the thread works on.
TimeOut(r) ==
    /\ run[r].at # "idle" /\ run[r].heard
    /\ faults < MaxFaults
    /\ run' = [run EXCEPT ![r].heard = FALSE]
    /\ faults' = faults + 1
    /\ UNCHANGED <<sourceVars, embVars, idxVars, verdict, other, lost>>

-----------------------------------------------------------------------------
(* The embedding stage.                                                    *)

JobsOf(d) == {e \in EmbId : emb[e].disc = d}

\* Mutant: a job that has ended counts as well, so a redelivery does nothing.
EmbeddingAnswered(d) == JobsOf(d) # {}

\* has_active_job_for_discovery.
EmbeddingActive(d) == \E e \in JobsOf(d) : emb[e].status = "active"

\* A job is under way: JOB_ALREADY_RUNNING, which the handler takes for done.
EmbeddingRefused(r) ==
    /\ run[r].at = "check" /\ run[r].stage = "embedding"
    /\ EmbeddingActive(run[r].req)
    /\ Ack(r)
    /\ UNCHANGED <<sourceVars, emb, idx, point, verdict, other, lost, faults>>

\* No active job; the item's chunks are loaded as they are now.
LoadChunks(r) ==
    /\ run[r].at = "check" /\ run[r].stage = "embedding"
    /\ ~EmbeddingActive(run[r].req)
    /\ run' = [run EXCEPT ![r].at = "create", ![r].seen = version[disc[run[r].req]]]
    /\ UNCHANGED <<sourceVars, embVars, idxVars, verdict, other, lost, faults>>

CreateEmbedding(r) ==
    /\ run[r].at = "create" /\ run[r].stage = "embedding"
    /\ \E e \in EmbId :
         /\ emb[e].status = "none"
         /\ \A f \in EmbId : f < e => emb[f].status # "none"
         /\ emb' = [emb EXCEPT ![e] = [disc |-> run[r].req, version |-> run[r].seen,
                                       ok |-> {}, status |-> "active"]]
         /\ run' = [run EXCEPT ![r] = [@ EXCEPT !.at = "embed", !.job = e, !.seen = 0]]
    /\ UNCHANGED <<sourceVars, embReq, idxVars, verdict, other, lost, faults>>

\* find_existing, by input hash: what a job of the same discovery result has
\* embedded is stored for this job as well.
FindExisting(r) ==
    LET e == run[r].job
    IN  /\ run[r].at = "embed"
        /\ run' = [run EXCEPT
                     ![r].at = "generate",
                     ![r].good = UNION {emb[f].ok : f \in {f \in JobsOf(emb[e].disc) :
                                                   emb[f].version = emb[e].version}}]
        /\ UNCHANGED <<sourceVars, embVars, idxVars, verdict, other, lost, faults>>

\* The provider may fail for any of the others.
Embed(r) ==
    /\ run[r].at = "generate"
    /\ \E ok \in SUBSET Part :
         /\ run[r].good \subseteq ok
         /\ emb' = [emb EXCEPT ![run[r].job].ok = ok]
    /\ run' = [run EXCEPT ![r].at = "embedded", ![r].good = {}]
    /\ UNCHANGED <<sourceVars, embReq, idxVars, verdict, other, lost, faults>>

EmbStatus(ok) ==
    IF ok = {} THEN "failed" ELSE IF ok = Part THEN "completed" ELSE "partial"

\* _finish_job: the job ends before the metrics are recalculated and the
\* indexing event is published.
FinishEmbedding(r) ==
    /\ run[r].at = "embedded"
    /\ emb' = [emb EXCEPT ![run[r].job].status = EmbStatus(emb[run[r].job].ok)]
    /\ run' = [run EXCEPT ![r].at = "recalc", ![r].left = 1]
    /\ UNCHANGED <<sourceVars, embReq, idxVars, verdict, other, lost, faults>>

EmitIndexing(r) ==
    /\ run[r].at = "emit"
    /\ idxReq' = [idxReq EXCEPT ![run[r].job] = "open"]
    /\ run' = [run EXCEPT ![r].at = "return"]
    /\ UNCHANGED <<sourceVars, embVars, idx, point, verdict, other, lost, faults>>

\* _safe_emit swallows a failed publication.
EmitFails(r) ==
    /\ run[r].at = "emit"
    /\ faults < MaxFaults
    /\ lost' = lost \cup {run[r].job}
    /\ run' = [run EXCEPT ![r].at = "return"]
    /\ faults' = faults + 1
    /\ UNCHANGED <<sourceVars, embVars, idxVars, verdict, other>>

-----------------------------------------------------------------------------
(* The indexing stage.                                                     *)

IndexingActive(e) == \E j \in IdxId : idx[j].emb = e /\ idx[j].status = "active"

IndexingRefused(r) ==
    /\ run[r].at = "check" /\ run[r].stage = "indexing"
    /\ IndexingActive(run[r].req)
    /\ Ack(r)
    /\ UNCHANGED <<sourceVars, emb, idx, point, verdict, other, lost, faults>>

MayIndex(r) ==
    /\ run[r].at = "check" /\ run[r].stage = "indexing"
    /\ ~IndexingActive(run[r].req)
    /\ run' = [run EXCEPT ![r].at = "create"]
    /\ UNCHANGED <<sourceVars, embVars, idxVars, verdict, other, lost, faults>>

NewIdx(j) == idx[j].status = "none" /\ \A k \in IdxId : k < j => idx[k].status # "none"

CreateIndexing(r) ==
    /\ run[r].at = "create" /\ run[r].stage = "indexing"
    /\ \E j \in IdxId :
         /\ NewIdx(j)
         /\ idx' = [idx EXCEPT ![j] = [NoIdx EXCEPT !.emb = run[r].req,
                                                    !.status = "active"]]
         /\ run' = [run EXCEPT ![r].at = "read", ![r].job = j]
    /\ UNCHANGED <<sourceVars, embVars, idxReq, point, verdict, other, lost, faults>>

\* create_failed_job: the vector store is not configured, or the knowledge base
\* is gone. The refusal is recorded as a failed job.
RefuseIndexing(r) ==
    /\ run[r].at = "create" /\ run[r].stage = "indexing"
    /\ faults < MaxFaults
    /\ \E j \in IdxId :
         /\ NewIdx(j)
         /\ idx' = [idx EXCEPT ![j] = [NoIdx EXCEPT !.emb = run[r].req,
                                                    !.status = "failed"]]
    /\ run' = [run EXCEPT ![r].at = "return"]
    /\ faults' = faults + 1
    /\ UNCHANGED <<sourceVars, embVars, idxReq, point, verdict, other, lost>>

\* Points are built for the job's embeddings whose chunks are still there.
ReadChunks(r) ==
    LET job == emb[run[r].req]
    IN  /\ run[r].at = "read"
        /\ run' = [run EXCEPT
                     ![r].at = "upsert",
                     ![r].todo = IF version[disc[job.disc]] = job.version
                                 THEN job.ok ELSE {}]
        /\ UNCHANGED <<sourceVars, embVars, idxVars, verdict, other, lost, faults>>

\* The collection cannot be ensured: _finish_failed.
EnsureFails(r) ==
    /\ run[r].at = "read"
    /\ faults < MaxFaults
    /\ idx' = [idx EXCEPT ![run[r].job].status = "failed"]
    /\ run' = [run EXCEPT ![r].at = "return"]
    /\ faults' = faults + 1
    /\ UNCHANGED <<sourceVars, embVars, idxReq, point, verdict, other, lost>>

\* The chunk that a part of an embedding job is an embedding of. The id of its
\* point is computed from the chunk id alone (stable_point_id).
ChunkOf(e, p) == <<disc[emb[e].disc], emb[e].version, p>>

Upsert(r) ==
    /\ run[r].at = "upsert"
    /\ \E p \in run[r].todo :
         /\ point' = [point EXCEPT ![ChunkOf(run[r].req, p)] = run[r].req]
         /\ idx' = [idx EXCEPT ![run[r].job].rows[p] = "indexed"]
         /\ run' = [run EXCEPT ![r].todo = @ \ {p}]
    /\ UNCHANGED <<sourceVars, embVars, idxReq, verdict, other, lost, faults>>

\* A batch fails, before or after the vector store has taken it. The first one
\* raises: the handler ends, its job stays active and the event open. A later
\* one is only counted.
UpsertFails(r) ==
    LET first == \A p \in Part : idx[run[r].job].rows[p] = "none"
    IN  /\ run[r].at = "upsert"
        /\ faults < MaxFaults
        /\ \E p \in run[r].todo, taken \in BOOLEAN :
             /\ point' = IF taken
                         THEN [point EXCEPT ![ChunkOf(run[r].req, p)] = run[r].req]
                         ELSE point
             /\ idx' = [idx EXCEPT ![run[r].job].rows[p] = "failed"]
             /\ run' = IF first THEN [run EXCEPT ![r] = Idle]
                       ELSE [run EXCEPT ![r].todo = @ \ {p}]
        /\ faults' = faults + 1
        /\ UNCHANGED <<sourceVars, embVars, idxReq, verdict, other, lost>>

Indexed(j) == {p \in Part : idx[j].rows[p] = "indexed"}

\* All batches are through. With nothing indexed the job has failed without a
\* verification and without a verdict.
EndUpsert(r) ==
    /\ run[r].at = "upsert" /\ run[r].todo = {}
    /\ run' = [run EXCEPT ![r].at = IF Indexed(run[r].job) = {} THEN "finish" ELSE "verify",
                          ![r].todo = Indexed(run[r].job)]
    /\ UNCHANGED <<sourceVars, embVars, idxVars, verdict, other, lost, faults>>

\* _check_chunk_row: the point is there, and its payload names the embedding of
\* this job.
VerifyPart(r) ==
    /\ run[r].at = "verify"
    /\ \E p \in run[r].todo :
         run' = [run EXCEPT ![r].todo = @ \ {p},
                            ![r].good = IF point[ChunkOf(run[r].req, p)] = run[r].req
                                        THEN @ \cup {p} ELSE @]
    /\ UNCHANGED <<sourceVars, embVars, idxVars, verdict, other, lost, faults>>

\* Mutant: one verified point is enough.
VerificationOfAny(j, good) == IF good # {} THEN "completed" ELSE "failed"

VerificationOf(j, good) ==
    IF good = Indexed(j) THEN "completed" ELSE IF good # {} THEN "partial" ELSE "failed"

EndVerify(r) ==
    /\ run[r].at = "verify" /\ run[r].todo = {}
    /\ idx' = [idx EXCEPT
                 ![run[r].job].verified = run[r].good,
                 ![run[r].job].verification = VerificationOf(run[r].job, run[r].good)]
    /\ run' = [run EXCEPT ![r].at = "mark"]
    /\ UNCHANGED <<sourceVars, embVars, idxReq, point, verdict, other, lost, faults>>

\* The vector store cannot be read: nothing counts as verified.
RetrieveFails(r) ==
    /\ run[r].at = "verify" /\ run[r].todo # {}
    /\ faults < MaxFaults
    /\ idx' = [idx EXCEPT ![run[r].job].verification = "failed"]
    /\ run' = [run EXCEPT ![r].at = "mark", ![r].todo = {}, ![r].good = {}]
    /\ faults' = faults + 1
    /\ UNCHANGED <<sourceVars, embVars, idxReq, point, verdict, other, lost>>

\* The verification decides the status: failed batches, which made the job
\* partial before, do not count any more.
StatusOf(j) ==
    IF Indexed(j) = {} THEN "failed" ELSE idx[j].verification

\* mark_if_ready, before the job itself is finished. Of the metrics row it
\* replaces all that search looks at.
MarkReady(r) ==
    LET j == run[r].job
    IN  /\ run[r].at = "mark"
        /\ verdict' = [job |-> j, ready |-> StatusOf(j) = "completed"]
        /\ run' = [run EXCEPT ![r].at = "finish"]
        /\ UNCHANGED <<sourceVars, embVars, idxVars, other, lost, faults>>

\* _merge_metrics_metadata swallows a database error.
MarkReadyFails(r) ==
    /\ run[r].at = "mark"
    /\ faults < MaxFaults
    /\ run' = [run EXCEPT ![r].at = "finish"]
    /\ faults' = faults + 1
    /\ UNCHANGED <<sourceVars, embVars, idxVars, verdict, other, lost>>

\* mark_finished; the metrics are recalculated twice after it, by the updater
\* and by the flow recorder.
FinishIndexing(r) ==
    /\ run[r].at = "finish"
    /\ idx' = [idx EXCEPT ![run[r].job].status = StatusOf(run[r].job)]
    /\ run' = [run EXCEPT ![r].at = "recalc", ![r].left = 2]
    /\ UNCHANGED <<sourceVars, embVars, idxReq, point, verdict, other, lost, faults>>

-----------------------------------------------------------------------------
(* The metrics row: a recalculation reads it, counts, and writes the whole *)
(* row back with the metadata it has read.                                 *)

RecalcRead(r) ==
    /\ run[r].at = "recalc"
    /\ run' = [run EXCEPT ![r].at = "write", ![r].snap = verdict]
    /\ UNCHANGED <<sourceVars, embVars, idxVars, verdict, other, lost, faults>>

\* Mutant: one recalculation too many.
AfterRecalcAgain(h) ==
    IF h.left > 0 THEN "recalc"
    ELSE IF h.stage = "embedding" /\ emb[h.job].status # "failed" THEN "emit"
    ELSE "return"

AfterRecalc(h) ==
    IF h.left > 1 THEN "recalc"
    ELSE IF h.stage = "embedding" /\ emb[h.job].status # "failed" THEN "emit"
    ELSE "return"

RecalcWrite(r) ==
    /\ run[r].at = "write"
    /\ verdict' = run[r].snap
    /\ run' = [run EXCEPT ![r].at = AfterRecalc(run[r]), ![r].left = @ - 1,
                          ![r].snap = NoVerdict]
    /\ UNCHANGED <<sourceVars, embVars, idxVars, other, lost, faults>>

\* recalculate_for_knowledge_base swallows a database error.
RecalcFails(r) ==
    /\ run[r].at \in {"recalc", "write"}
    /\ faults < MaxFaults
    /\ run' = [run EXCEPT ![r].at = AfterRecalc(run[r]), ![r].left = @ - 1,
                          ![r].snap = NoVerdict]
    /\ faults' = faults + 1
    /\ UNCHANGED <<sourceVars, embVars, idxVars, verdict, other, lost>>

\* The understanding run, after it has published its discovery event.
OtherReads ==
    /\ other.owed > 0 /\ ~other.busy
    /\ other' = [owed |-> other.owed - 1, busy |-> TRUE, snap |-> verdict]
    /\ UNCHANGED <<sourceVars, embVars, idxVars, verdict, run, lost, faults>>

OtherWrites ==
    /\ other.busy
    /\ verdict' = other.snap
    /\ other' = [other EXCEPT !.busy = FALSE, !.snap = NoVerdict]
    /\ UNCHANGED <<sourceVars, embVars, idxVars, run, lost, faults>>

-----------------------------------------------------------------------------
\* A handler thread dies with its process. If its event has been acknowledged
\* in the meantime and its job has ended, nobody publishes for that job.
Crash(r) ==
    /\ run[r].at # "idle"
    /\ faults < MaxFaults
    /\ lost' = IF /\ run[r].stage = "embedding"
                  /\ run[r].at \in {"recalc", "write", "emit"}
                  /\ embReq[run[r].req] = "acked"
               THEN lost \cup {run[r].job} ELSE lost
    /\ run' = [run EXCEPT ![r] = Idle]
    /\ faults' = faults + 1
    /\ UNCHANGED <<sourceVars, embVars, idxVars, verdict, other>>

Source == \E i \in Item : Rechunk(i) \/ Discover(i)

Embedding(r) ==
    \/ DeliverEmbedding(r) \/ EmbeddingRefused(r) \/ LoadChunks(r)
    \/ CreateEmbedding(r) \/ FindExisting(r) \/ Embed(r) \/ FinishEmbedding(r)
    \/ EmitIndexing(r)

Index(r) ==
    \/ DeliverIndexing(r) \/ IndexingRefused(r) \/ MayIndex(r)
    \/ CreateIndexing(r) \/ ReadChunks(r) \/ Upsert(r) \/ EndUpsert(r)
    \/ VerifyPart(r) \/ EndVerify(r) \/ MarkReady(r) \/ FinishIndexing(r)

Fault(r) ==
    \/ EmitFails(r) \/ RefuseIndexing(r) \/ EnsureFails(r) \/ UpsertFails(r)
    \/ RetrieveFails(r) \/ MarkReadyFails(r) \/ RecalcFails(r)
    \/ TimeOut(r) \/ Crash(r)

Next ==
    \/ Source
    \/ \E r \in Runner :
         Embedding(r) \/ Index(r) \/ RecalcRead(r) \/ RecalcWrite(r)
           \/ Return(r) \/ Fault(r)
    \/ OtherReads \/ OtherWrites

Spec == Init /\ [][Next]_vars

-----------------------------------------------------------------------------
(* Search, and the properties.                                             *)

\* SearchReadinessService.check: the flag, the last job, the last verification
\* and a collection that is not empty.
Searchable ==
    /\ verdict.ready /\ verdict.job # 0
    /\ idx[verdict.job].status \in {"completed", "partial"}
    /\ idx[verdict.job].verification = "completed"
    /\ \E c \in Chunk : point[c] # 0

\* A knowledge base is searched only on the verdict of a job that has ended as
\* completed, has indexed something, has verified all of it and finds it in the
\* vector store, although the check itself (SearchReadinessService) would take a
\* partial job, the verdict is written before the job ends, two jobs may write the
\* same points, and any stage may write an older verdict back. The job is the one
\* the verdict names, not the last one that docs/kb-search-readiness.md asks for: a
\* later one may have failed, or its verdict may have been written over.
ReadyMeansVerified ==
    Searchable =>
      LET j == verdict.job
      IN  /\ idx[j].status = "completed"
          /\ Indexed(j) # {} /\ idx[j].verified = Indexed(j)
          /\ \A p \in Indexed(j) : point[ChunkOf(idx[j].emb, p)] # 0

\* The chain goes on behind an acknowledged embedding event, whatever crashed
\* before: one of its jobs has failed, is still being worked on or was left
\* active by a crash, or its indexing event is out. Only a lost publication
\* ends it.
ChainUnbroken ==
    \A d \in DiscId :
      embReq[d] = "acked" =>
        \E e \in JobsOf(d) :
          \/ emb[e].status \in {"active", "failed"}
          \/ idxReq[e] # "none"
          \/ e \in lost
          \/ \E r \in Runner : Handles(r, "embedding", d) /\ run[r].job = e
=============================================================================
