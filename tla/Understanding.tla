---------------------------- MODULE Understanding ----------------------------
(***************************************************************************)
(* The understanding stage of the knowledge-base pipeline, for one         *)
(* training item: requests are delivered from the outbox to handler        *)
(* threads, which start a job, extract, normalise, chunk and validate the  *)
(* item's document and ask for discovery; a user may ask for a retry.      *)
(*                                                                         *)
(*   request     the item's understanding_requested events, by retry       *)
(*               number: 0 is the one kb_ingest wrote                      *)
(*   job         the understanding jobs of the item, in order of creation  *)
(*   run         the handler threads, each where it is in the pipeline     *)
(*   client      the retry call in progress                                *)
(*   extracted, normalized, chunks    the three content tables, as sets of *)
(*               copies of the document, each named by who wrote it        *)
(*   discovery   the discovery_requested events, by understanding job      *)
(*   deliveries  handler threads started so far                            *)
(*   faults      crashes and database errors so far                        *)
(*   alone       history: no other thread has written a content table since *)
(*               this one began to extract                                 *)
(*   tidy        history: the thread that wrote the chunks was alone       *)
(*   lost        history: the publication of a discovery event has failed  *)
(*   orphaned    history: a thread has died before publishing one, when    *)
(*               another was at work or its request was not open           *)
(*                                                                         *)
(* Every repository method has a session of its own, so each call that     *)
(* reads or writes a table is a step. The outbox is used through what      *)
(* module Outbox shows of it: a request stays open until a handler returns,*)
(* a failed one is open again until it is dead, and two threads may be     *)
(* given the same request.                                                 *)
(***************************************************************************)
EXTENDS Integers, FiniteSets

CONSTANTS
    Runner,        \* handler threads
    Streaming,     \* TRUE: the file is too large for the IN_MEMORY strategy
    Overlap,       \* TRUE: a request may be delivered while a thread has it
    TimeLimited,   \* TRUE: the outbox may give up waiting for a thread
    AllowForce,    \* TRUE: users may ask for force=True
    PublishFails,  \* TRUE: an event may fail to reach the outbox
    MaxTries,      \* the outbox's max_retries
    MaxJobs,       \* bound: jobs created
    MaxRetries,    \* bound: retries of one job
    MaxDeliveries, \* bound: handler threads started
    MaxFaults      \* bound: crashes and database errors

ASSUME UnderstandingAssumption ==
    /\ Streaming \in BOOLEAN /\ Overlap \in BOOLEAN
    /\ TimeLimited \in BOOLEAN /\ AllowForce \in BOOLEAN
    /\ PublishFails \in BOOLEAN
    /\ MaxTries \in Nat \ {0} /\ MaxJobs \in Nat /\ MaxRetries \in Nat
    /\ MaxDeliveries \in Nat /\ MaxFaults \in Nat

VARIABLES request, job, run, client, extracted, normalized, chunks,
          discovery, deliveries, faults, alone, tidy, lost, orphaned

content == <<extracted, normalized, chunks, alone, tidy>>
downstream == <<discovery, lost, orphaned>>
vars == <<request, job, run, client, extracted, normalized, chunks,
          discovery, deliveries, faults, alone, tidy, lost, orphaned>>

Request == 0 .. MaxRetries
JobId == 1 .. MaxJobs
Delivery == 1 .. MaxDeliveries

Success == {"ready_for_discovery", "partial"}
Terminal == Success \cup {"failed", "retryable"}
Working == {"extracting", "normalizing", "chunking", "validating"}
Status == {"none", "created", "queued"} \cup Working \cup Terminal

\* Where a handler thread is: in StartUnderstandingService, between the status
\* update and the work of a step, at the end of the pipeline, or returning.
Place == {"idle", "latest", "active", "create", "queue",
          "extract", "extracting", "replacing",
          "normalize", "normalizing", "copying", "inserting",
          "chunk", "chunking", "versioning", "deleting", "rechunking",
          "validate", "validating", "complete", "emit", "fail", "announce",
          "return"}

\* A normalised copy is named by the delivery that wrote it and the extracted
\* copy it came from; a chunk set by its version, writer and normalised copies.
NormalCopy == Delivery \X Delivery
ChunkSet == [version : Nat, by : Delivery, from : SUBSET NormalCopy]

Run == [at : Place, req : Request, id : Nat, job : Nat, zombie : BOOLEAN,
        outcome : Terminal \cup {"none"},
        seenExtracted : SUBSET Delivery,   \* extracted copies read or to delete
        seenNormal : SUBSET NormalCopy,    \* normalised copies read
        seenChunks : SUBSET ChunkSet,      \* chunk sets to delete
        version : Nat]

TypeOK ==
    /\ request \in [Request -> [state : {"none", "open", "done", "dead"}, tries : Nat]]
    /\ job \in [JobId -> [status : Status, retries : Nat]]
    /\ run \in [Runner -> Run]
    /\ client \in [at : {"idle", "checked", "queued"}, job : Nat, retry : Nat]
    /\ extracted \subseteq Delivery
    /\ normalized \subseteq NormalCopy
    /\ chunks \subseteq ChunkSet
    /\ discovery \in [JobId -> {"none", "open", "done"}]
    /\ deliveries \in Nat
    /\ faults \in Nat
    /\ alone \in [Runner -> BOOLEAN]
    /\ tidy \in BOOLEAN /\ lost \in BOOLEAN /\ orphaned \in BOOLEAN

-----------------------------------------------------------------------------
IdleRun == [at |-> "idle", req |-> 0, id |-> 0, job |-> 0, zombie |-> FALSE,
            outcome |-> "none", seenExtracted |-> {}, seenNormal |-> {},
            seenChunks |-> {}, version |-> 0]

IdleClient == [at |-> "idle", job |-> 0, retry |-> 0]

\* kb_ingest has stored the item and published its request.
Init ==
    /\ request = [q \in Request |->
                    [state |-> IF q = 0 THEN "open" ELSE "none", tries |-> 0]]
    /\ job = [j \in JobId |-> [status |-> "none", retries |-> 0]]
    /\ run = [r \in Runner |-> IdleRun]
    /\ client = IdleClient
    /\ extracted = {} /\ normalized = {} /\ chunks = {}
    /\ discovery = [j \in JobId |-> "none"]
    /\ deliveries = 0
    /\ faults = 0
    /\ alone = [r \in Runner |-> FALSE]
    /\ tidy = TRUE /\ lost = FALSE /\ orphaned = FALSE

Created == {j \in JobId : job[j].status # "none"}

IsLatest(j) == j \in Created /\ \A i \in Created : i <= j

Active == {j \in Created : job[j].status \notin Terminal}

Goto(r, place) == run' = [run EXCEPT ![r].at = place]

\* A crash or a database error, of which a run allows MaxFaults.
Fault == faults < MaxFaults /\ faults' = faults + 1

-----------------------------------------------------------------------------
(* The outbox: delivery, and what becomes of the request afterwards.       *)

Held(q) == \E s \in Runner : run[s].at # "idle" /\ run[s].req = q /\ ~run[s].zombie

Deliver(r, q) ==
    /\ run[r].at = "idle"
    /\ request[q].state = "open"
    /\ Overlap \/ ~Held(q)
    /\ deliveries < MaxDeliveries
    /\ deliveries' = deliveries + 1
    /\ run' = [run EXCEPT ![r] =
                 [IdleRun EXCEPT !.at = "latest", !.req = q, !.id = deliveries + 1]]
    /\ UNCHANGED <<request, job, client, content, downstream, faults>>

Nacked(q) ==
    LET n == request[q].tries + 1
    IN  [state |-> IF n >= MaxTries THEN "dead" ELSE "open", tries |-> n]

\* A thread the outbox no longer waits for settles nothing.
Settle(r, outcome) ==
    request' = IF run[r].zombie THEN request
               ELSE [request EXCEPT ![run[r].req] = outcome]

Return(r) ==
    /\ run[r].at = "return"
    /\ Settle(r, [request[run[r].req] EXCEPT !.state = "done"])
    /\ run' = [run EXCEPT ![r] = IdleRun]
    /\ UNCHANGED <<job, client, content, downstream, deliveries, faults>>

\* A database error where no try block of the handler catches it.
Raise(r) ==
    /\ run[r].at \in {"latest", "active", "create", "queue", "complete", "fail"}
    /\ Fault
    /\ Settle(r, Nacked(run[r].req))
    /\ run' = [run EXCEPT ![r] = IdleRun]
    /\ UNCHANGED <<job, client, content, downstream, deliveries>>

TimeOut(r) ==
    /\ TimeLimited
    /\ run[r].at # "idle" /\ ~run[r].zombie
    /\ Settle(r, Nacked(run[r].req))
    /\ run' = [run EXCEPT ![r].zombie = TRUE]
    /\ UNCHANGED <<job, client, content, downstream, deliveries, faults>>

\* The worker process dies; the row's lease runs out and it is open again.
Crash(r) ==
    /\ run[r].at # "idle"
    /\ Fault
    /\ run' = [run EXCEPT ![r] = IdleRun]
    /\ orphaned' = (orphaned \/ /\ run[r].at = "emit"
                                /\ \/ request[run[r].req].state # "open"
                                   \/ \E s \in Runner \ {r} : run[s].at # "idle")
    /\ UNCHANGED <<request, job, client, content, discovery, lost, deliveries>>

-----------------------------------------------------------------------------
(* StartUnderstandingService.start                                         *)

\* Mutant: a job put back into the queue is not taken up again.
IgnoreQueued(r) ==
    /\ run[r].at = "latest"
    /\ Goto(r, "active")
    /\ UNCHANGED <<request, job, client, content, downstream, deliveries, faults>>

ReadLatest(r) ==
    /\ run[r].at = "latest"
    /\ \/ \E j \in Created :
            /\ IsLatest(j) /\ job[j].status = "queued"
            /\ run' = [run EXCEPT ![r].at = "extract", ![r].job = j]
       \/ /\ \A j \in Created : IsLatest(j) => job[j].status # "queued"
          /\ Goto(r, "active")
    /\ UNCHANGED <<request, job, client, content, downstream, deliveries, faults>>

\* JOB_ALREADY_RUNNING makes the handler return as if it had done the work.
CheckActive(r) ==
    /\ run[r].at = "active"
    /\ Goto(r, IF Active = {} THEN "create" ELSE "return")
    /\ UNCHANGED <<request, job, client, content, downstream, deliveries, faults>>

CreateJob(r) ==
    /\ run[r].at = "create"
    /\ LET j == Cardinality(Created) + 1
       IN  /\ j \in JobId
           /\ job' = [job EXCEPT ![j].status = "created"]
           /\ run' = [run EXCEPT ![r].at = "queue", ![r].job = j]
    /\ UNCHANGED <<request, client, content, downstream, deliveries, faults>>

SetStatus(r, from, status, to) ==
    /\ run[r].at = from
    /\ job' = [job EXCEPT ![run[r].job].status = status]
    /\ Goto(r, to)
    /\ UNCHANGED <<request, client, content, downstream, deliveries, faults>>

QueueJob(r) == SetStatus(r, "queue", "queued", "extract")

-----------------------------------------------------------------------------
(* UnderstandingPipelineService.run: every step sets the job's status and  *)
(* then works. A table is replaced for the item by a delete, which sees    *)
(* the rows committed when it starts, and inserts in one transaction.      *)

StartStep(r) ==
    \/ SetStatus(r, "extract", "extracting", "extracting")
    \/ SetStatus(r, "normalize", "normalizing", "normalizing")
    \/ SetStatus(r, "chunk", "chunking", "chunking")
    \/ SetStatus(r, "validate", "validating", "validating")

\* The rows a thread is in the middle of replacing are no longer its own.
Wrote(r) == alone' = [s \in Runner |-> s = r /\ alone[s]]

\* For a large file begin_extract commits the delete on its own.
BeginExtract(r) ==
    /\ run[r].at = "extracting"
    /\ run' = [run EXCEPT ![r].at = "replacing", ![r].seenExtracted = extracted]
    /\ extracted' = IF Streaming THEN {} ELSE extracted
    /\ alone' = [s \in Runner |-> s = r \/ (alone[s] /\ ~Streaming)]
    /\ UNCHANGED <<request, job, client, normalized, chunks, tidy, downstream,
                   deliveries, faults>>

CommitExtract(r) ==
    /\ run[r].at = "replacing"
    /\ extracted' = (extracted \ run[r].seenExtracted) \cup {run[r].id}
    /\ run' = [run EXCEPT ![r].at = "normalize", ![r].seenExtracted = {}]
    /\ Wrote(r)
    /\ UNCHANGED <<request, job, client, normalized, chunks, tidy, downstream,
                   deliveries, faults>>

\* Mutant: the normalised parts of an earlier run are kept.
KeepNormalized(r) ==
    /\ run[r].at = "normalizing"
    /\ Goto(r, "copying")
    /\ UNCHANGED <<request, job, client, content, downstream, deliveries, faults>>

ClearNormalized(r) ==
    /\ run[r].at = "normalizing"
    /\ normalized' = {}
    /\ Goto(r, "copying")
    /\ Wrote(r)
    /\ UNCHANGED <<request, job, client, extracted, chunks, tidy, downstream,
                   deliveries, faults>>

\* No part to normalise is an error.
ReadExtracted(r) ==
    /\ run[r].at = "copying"
    /\ extracted # {}
    /\ run' = [run EXCEPT ![r].at = "inserting", ![r].seenExtracted = extracted]
    /\ UNCHANGED <<request, job, client, content, downstream, deliveries, faults>>

InsertNormalized(r) ==
    /\ run[r].at = "inserting"
    /\ normalized' = normalized \cup {<<run[r].id, e>> : e \in run[r].seenExtracted}
    /\ run' = [run EXCEPT ![r].at = "chunk", ![r].seenExtracted = {}]
    /\ Wrote(r)
    /\ UNCHANGED <<request, job, client, extracted, chunks, tidy, downstream,
                   deliveries, faults>>

\* No chunk is an error, raised before the chunk table is touched.
ReadNormalized(r) ==
    /\ run[r].at = "chunking"
    /\ normalized # {}
    /\ run' = [run EXCEPT ![r].at = "versioning", ![r].seenNormal = normalized]
    /\ UNCHANGED <<request, job, client, content, downstream, deliveries, faults>>

MaxVersion == CHOOSE v \in {0} \cup {c.version : c \in chunks} :
                \A c \in chunks : c.version <= v

\* Mutant: the version number is reused.
ReadVersionReused(r) ==
    /\ run[r].at = "versioning"
    /\ run' = [run EXCEPT ![r].at = "deleting",
                          ![r].version = IF MaxVersion = 0 THEN 1 ELSE MaxVersion]
    /\ UNCHANGED <<request, job, client, content, downstream, deliveries, faults>>

\* The version is read in a transaction of its own.
ReadVersion(r) ==
    /\ run[r].at = "versioning"
    /\ run' = [run EXCEPT ![r].at = "deleting", ![r].version = MaxVersion + 1]
    /\ UNCHANGED <<request, job, client, content, downstream, deliveries, faults>>

\* Mutant: the delete is committed on its own.
BeginRechunkCommitted(r) ==
    /\ run[r].at = "deleting"
    /\ run' = [run EXCEPT ![r].at = "rechunking", ![r].seenChunks = chunks]
    /\ chunks' = {}
    /\ UNCHANGED <<request, job, client, extracted, normalized, alone, tidy, downstream,
                   deliveries, faults>>

BeginRechunk(r) ==
    /\ run[r].at = "deleting"
    /\ run' = [run EXCEPT ![r].at = "rechunking", ![r].seenChunks = chunks]
    /\ UNCHANGED <<request, job, client, content, downstream, deliveries, faults>>

CommitRechunk(r) ==
    /\ run[r].at = "rechunking"
    /\ chunks' = (chunks \ run[r].seenChunks) \cup
                   {[version |-> run[r].version, by |-> run[r].id,
                     from |-> run[r].seenNormal]}
    /\ run' = [run EXCEPT ![r].at = "validate", ![r].seenChunks = {},
                          ![r].seenNormal = {}, ![r].version = 0]
    /\ Wrote(r)
    /\ tidy' = alone[r]
    /\ UNCHANGED <<request, job, client, extracted, normalized, downstream,
                   deliveries, faults>>

\* The chunks carry raw_ref as their source, which start has found non-empty,
\* so the checklist has its chunks and source link whenever chunks exist.
Validate(r) ==
    /\ run[r].at = "validating"
    /\ \/ /\ chunks # {}
          /\ run' = [run EXCEPT ![r].at = "complete",
                                ![r].outcome = IF extracted # {} /\ normalized # {}
                                               THEN "ready_for_discovery" ELSE "partial"]
       \/ /\ chunks = {}
          /\ run' = [run EXCEPT ![r].at = "fail", ![r].outcome = "failed"]
    /\ UNCHANGED <<request, job, client, content, downstream, deliveries, faults>>

\* An exception in a step or in the status update before it: only a storage
\* error, met while extracting, is retryable.
StepFails(r) ==
    /\ \/ /\ run[r].at \in {"extract", "extracting", "replacing",
                            "normalize", "normalizing", "copying", "inserting",
                            "chunk", "chunking", "versioning", "deleting", "rechunking",
                            "validate", "validating"}
          /\ run' = [run EXCEPT ![r].at = "fail", ![r].outcome = "failed"]
       \/ /\ run[r].at = "extracting"
          /\ run' = [run EXCEPT ![r].at = "fail", ![r].outcome = "retryable"]
    /\ UNCHANGED <<request, job, client, content, downstream, deliveries, faults>>

MarkCompleted(r) == SetStatus(r, "complete", run[r].outcome, "emit")

\* Mutant: one discovery event for the item, whichever job asks for it.
EmitDiscoveryOnce(r) ==
    /\ run[r].at = "emit"
    /\ discovery' = IF \A j \in JobId : discovery[j] = "none"
                    THEN [discovery EXCEPT ![run[r].job] = "open"] ELSE discovery
    /\ Goto(r, "return")
    /\ UNCHANGED <<request, job, client, content, lost, orphaned, deliveries, faults>>

\* The idempotency key is the understanding job's id: a second publication for
\* the same job finds the first row and changes nothing.
EmitDiscovery(r) ==
    /\ run[r].at = "emit"
    /\ discovery' = IF discovery[run[r].job] = "none"
                    THEN [discovery EXCEPT ![run[r].job] = "open"] ELSE discovery
    /\ Goto(r, "return")
    /\ UNCHANGED <<request, job, client, content, lost, orphaned, deliveries, faults>>

\* _safe_emit logs the exception and the pipeline goes on.
EmitFails(r) ==
    /\ PublishFails
    /\ run[r].at = "emit"
    /\ Fault
    /\ Goto(r, "return")
    /\ lost' = TRUE
    /\ UNCHANGED <<request, job, client, content, discovery, orphaned, deliveries>>

\* Mutant: a status of its own that the enumeration does not have.
MarkFailedUnknown(r) == SetStatus(r, "fail", "error", "announce")

MarkFailed(r) == SetStatus(r, "fail", run[r].outcome, "announce")

\* add_understanding_failed_event takes neither of the arguments
\* training_batch_id and created_by that it is given: the call raises TypeError,
\* _safe_emit logs it, and no event is written.
EmitFailed(r) ==
    /\ run[r].at = "announce"
    /\ Goto(r, "return")
    /\ UNCHANGED <<request, job, client, content, downstream, deliveries, faults>>

-----------------------------------------------------------------------------
(* RetryUnderstandingService.retry, called by a user.                      *)

CheckRetryable(force) ==
    /\ client.at = "idle"
    /\ \E j \in Created :
         /\ IsLatest(j)
         /\ job[j].status \in {"retryable", "failed"} \cup (IF force THEN Terminal ELSE {})
         /\ job[j].retries < MaxRetries
         /\ client' = [at |-> "checked", job |-> j, retry |-> 0]
    /\ UNCHANGED <<request, job, run, content, downstream, deliveries, faults>>

IncrementRetry ==
    LET n == job[client.job].retries + 1
    IN  /\ client.at = "checked"
        /\ n <= MaxRetries
        /\ job' = [job EXCEPT ![client.job] = [status |-> "queued", retries |-> n]]
        /\ client' = [client EXCEPT !.at = "queued", !.retry = n]
        /\ UNCHANGED <<request, run, content, downstream, deliveries, faults>>

\* The key is made of the item and the retry number.
EmitRetry ==
    /\ client.at = "queued"
    /\ request' = IF request[client.retry].state = "none"
                  THEN [request EXCEPT ![client.retry].state = "open"] ELSE request
    /\ client' = IdleClient
    /\ UNCHANGED <<job, run, content, downstream, deliveries, faults>>

\* The API process dies, or publishing fails and the user sees an error.
RetryDies ==
    /\ PublishFails
    /\ client.at # "idle"
    /\ Fault
    /\ client' = IdleClient
    /\ UNCHANGED <<request, job, run, content, downstream, deliveries>>

-----------------------------------------------------------------------------
\* The discovery stage settles its event: it has read the item's chunks, without
\* which it raises CHUNKS_MISSING and the event comes again, and has worked on
\* them, or it has answered JOB_ALREADY_RUNNING and left them to a discovery job
\* that had begun before.
Discover(j) ==
    /\ discovery[j] = "open"
    /\ chunks # {}
    /\ discovery' = [discovery EXCEPT ![j] = "done"]
    /\ UNCHANGED <<request, job, run, client, content, lost, orphaned, deliveries, faults>>

-----------------------------------------------------------------------------
Start(r) == ReadLatest(r) \/ CheckActive(r) \/ CreateJob(r) \/ QueueJob(r)

Work(r) ==
    \/ StartStep(r)
    \/ BeginExtract(r) \/ CommitExtract(r)
    \/ ClearNormalized(r) \/ ReadExtracted(r) \/ InsertNormalized(r)
    \/ ReadNormalized(r) \/ ReadVersion(r) \/ BeginRechunk(r) \/ CommitRechunk(r)
    \/ Validate(r) \/ StepFails(r)

Finish(r) ==
    \/ MarkCompleted(r) \/ EmitDiscovery(r)
    \/ MarkFailed(r) \/ EmitFailed(r)
    \/ Return(r)

Disturb(r) == EmitFails(r) \/ Raise(r) \/ TimeOut(r) \/ Crash(r)

Retry ==
    \/ \E force \in {FALSE, AllowForce} : CheckRetryable(force)
    \/ IncrementRetry
    \/ EmitRetry
    \/ RetryDies

Next ==
    \/ \E r \in Runner :
         \/ \E q \in Request : Deliver(r, q)
         \/ Start(r) \/ Work(r) \/ Finish(r) \/ Disturb(r)
    \/ Retry
    \/ \E j \in JobId : Discover(j)

Spec == Init /\ [][Next]_vars

\* The outbox delivers open requests and discovery events, and a handler thread
\* and an API call, once started, go on. No user has to ask for a retry.
Fairness ==
    /\ \A q \in Request : WF_vars(\E r \in Runner : Deliver(r, q))
    /\ \A r \in Runner : WF_vars(Start(r) \/ Work(r) \/ Finish(r))
    /\ WF_vars(IncrementRetry) /\ WF_vars(EmitRetry)
    /\ \A j \in JobId : WF_vars(Discover(j))

FairSpec == Spec /\ Fairness

-----------------------------------------------------------------------------
(* Properties.                                                             *)

Quiet ==
    /\ \A r \in Runner : run[r].at = "idle"
    /\ client.at = "idle"
    /\ \A q \in Request : request[q].state # "open"
    /\ \A j \in JobId : discovery[j] # "open"

\* The document is in the chunk table once, one chunk set made from one normalised
\* copy, whenever the thread that wrote the chunks was alone from extraction on:
\* whatever overlapping, dying or timed-out threads have left in the three tables
\* before, a run that nobody disturbs replaces all of it. This is what replacing
\* the item's rows in every step is for ("Idempotens: a lepesek
\* replace-szemantikajuak").
SingleCopy ==
    tidy => /\ Cardinality(chunks) <= 1
            /\ \A c \in chunks : Cardinality(c.from) = 1

NoneDead == \A q \in Request : request[q].state # "dead"

\* When nothing is going on and the item's latest job has succeeded, discovery has
\* been asked for, although mark_completed and the event are two transactions: a
\* thread that dies between them is made good by the redelivery of its request,
\* which finds no active job and starts a new one. The code does not promise it
\* when another thread has acknowledged, or can acknowledge, that request as
\* JOB_ALREADY_RUNNING, when the publication failed, when the outbox has given up a
\* request, or while a retry has put an older job back into the queue.
SuccessAnnounced ==
    Quiet /\ Active = {} /\ NoneDead /\ ~lost /\ ~orphaned =>
      \A j \in JobId : IsLatest(j) /\ job[j].status \in Success => discovery[j] # "none"

\* A thread that is alone raises the version when it rewrites the chunk table, above
\* whatever racing threads have left there, so that from then on a version again
\* identifies the chunks an evidence reference was made to (ChunkContentService.run
\* reads the highest version in one transaction and writes the next in another).
ChunkVersionGrows ==
    [][chunks' # chunks /\ tidy' =>
         \A c \in chunks, d \in chunks' \ chunks : c.version < d.version]_vars

\* A discovery event finds chunks when it is handled, however the deliveries
\* interleave: StartDiscoveryService raises CHUNKS_MISSING otherwise. The chunk
\* table must not be empty between a delete and its inserts.
DiscoveryHasChunks ==
    \A j \in JobId : discovery[j] # "none" => chunks # {}

\* The item does not stay in the middle of the pipeline: its latest job gets to
\* a terminal status, and so does every job the retry service has put back into
\* the queue, although its event is published in a transaction of its own.
ItemSettles ==
    /\ <>(\E j \in JobId : IsLatest(j) /\ job[j].status \in Terminal)
    /\ \A j \in JobId : job[j].status = "queued" ~> job[j].status \in Terminal

=============================================================================
