------------------------- MODULE UnderstandingProofs -------------------------
(***************************************************************************)
(* Safety of the understanding stage for any number of handler threads,    *)
(* deliveries, jobs and retries, with overlapping deliveries, timeouts,    *)
(* forced retries, crashes and lost publications.                          *)
(***************************************************************************)
EXTENDS Understanding, FiniteSetTheorems, WellFoundedInduction, TLAPS

\* The places where a thread works for a job it has chosen.
HasJob == Place \ {"idle", "latest", "active", "create", "return"}

\* What a thread and the retry call carry from step to step is in range.
RunOK ==
    \A r \in Runner :
      /\ run[r].at # "idle" => run[r].id \in Delivery
      /\ run[r].at \in HasJob => run[r].job \in JobId
      /\ run[r].at = "complete" => run[r].outcome \in Success
      /\ run[r].at = "fail" => run[r].outcome \in {"failed", "retryable"}

ClientOK ==
    /\ client.at # "idle" => client.job \in JobId
    /\ client.at = "queued" => client.retry \in Request

\* The chunk table has a highest version: this is why max_version is a number.
VersionsBounded == \E n \in Nat : \A c \in chunks : c.version <= n

TypeInv == TypeOK /\ RunOK /\ ClientOK /\ VersionsBounded

-----------------------------------------------------------------------------
LEMMA LeastNumber ==
    ASSUME NEW S, S \subseteq Nat, S # {}
    PROVE  \E x \in S : \A y \in S : x <= y
<1> DEFINE R == {ss \in Nat \X Nat : ss[1] < ss[2]}
<1>1. IsWellFoundedOn(R, Nat)  BY NatLessThanWellFounded DEF OpToRel
<1>2. PICK x \in S : \A y \in S : ~ (<<y, x>> \in R)
  <2> HIDE DEF R
  <2> QED  BY <1>1, WFMin, Zenon
<1>3. \A y \in S : <<y, x>> \in Nat \X Nat /\ <<y, x>>[1] = y /\ <<y, x>>[2] = x
  OBVIOUS
<1>4. \A y \in S : ~(y < x)  BY <1>2, <1>3
<1>5. x \in Nat /\ \A y \in S : y \in Nat  OBVIOUS
<1>6. QED  BY <1>4, <1>5

LEMMA GreatestNumber ==
    ASSUME NEW S, S \subseteq Nat, S # {}, NEW n \in Nat, \A x \in S : x <= n
    PROVE  \E x \in S : \A y \in S : y <= x
<1> DEFINE D == {n - x : x \in S}
<1>1. D \subseteq Nat /\ D # {}
  <2>1. \A x \in S : n - x \in Nat  OBVIOUS
  <2>2. PICK x \in S : TRUE  OBVIOUS
  <2>3. n - x \in D  BY <2>2
  <2>4. QED  BY <2>1, <2>3
<1>2. PICK d \in D : \A e \in D : d <= e
  <2> HIDE DEF D
  <2> QED  BY <1>1, LeastNumber
<1>3. PICK x \in S : d = n - x  OBVIOUS
<1>4. \A y \in S : n - x <= n - y  BY <1>2, <1>3
<1>5. QED  BY <1>4

LEMMA MaxVersionType ==
    ASSUME TypeOK, VersionsBounded
    PROVE  MaxVersion \in Nat
<1> DEFINE S == {0} \cup {c.version : c \in chunks}
<1>1. S \subseteq Nat /\ S # {}  BY DEF TypeOK, ChunkSet
<1>2. PICK n \in Nat : \A c \in chunks : c.version <= n  BY DEF VersionsBounded
<1>3. \A x \in S : x <= n  BY <1>2
<1>4. \E v \in S : \A y \in S : y <= v
  <2> HIDE DEF S
  <2> QED  BY <1>1, <1>3, GreatestNumber
<1>5. \E v \in S : \A c \in chunks : c.version <= v  BY <1>4
<1>6. MaxVersion \in S  BY <1>5 DEF MaxVersion
<1>7. QED  BY <1>1, <1>6

-----------------------------------------------------------------------------
LEMMA InitType == Init => TypeInv
<1> SUFFICES ASSUME Init PROVE TypeInv  OBVIOUS
<1> USE UnderstandingAssumption
<1>1. 0 \in Request  BY DEF Request
<1>2. IdleRun \in Run  BY <1>1 DEF IdleRun, Run, Place, Delivery, NormalCopy, ChunkSet
<1>3. TypeOK
  <2>1. alone \in [Runner -> BOOLEAN] /\ tidy \in BOOLEAN /\ lost \in BOOLEAN
        /\ orphaned \in BOOLEAN
    BY Zenon DEF Init
  <2>2. QED
    BY <1>1, <1>2, <2>1 DEF Init, TypeOK, Status, IdleClient, Working, Terminal, Success
<1>4. RunOK  BY DEF Init, RunOK, IdleRun, HasJob, Place
<1>5. ClientOK  BY DEF Init, ClientOK, IdleClient
<1>6. VersionsBounded  BY DEF Init, VersionsBounded
<1>7. QED  BY <1>3, <1>4, <1>5, <1>6 DEF TypeInv

\* A step that changes only which place a thread is at, and its job's status.
LEMMA SetStatusType ==
    ASSUME TypeInv, NEW r \in Runner, NEW from \in HasJob,
           NEW to \in (HasJob \ {"complete", "fail"}) \cup {"return"}, NEW status \in Status,
           SetStatus(r, from, status, to)
    PROVE  TypeInv'
<1> USE DEF TypeInv
<1>1. run[r] \in Run /\ run[r].job \in JobId  BY DEF TypeOK, SetStatus, RunOK
<1>2. to \in Place  BY DEF HasJob, Place
<1>3. [run[r] EXCEPT !.at = to] \in Run  BY <1>1, <1>2 DEF Run
<1>4. TypeOK'
  BY <1>1, <1>3 DEF SetStatus, Goto, TypeOK, content, downstream
<1>5. RunOK'
  BY <1>1 DEF SetStatus, Goto, RunOK, TypeOK, HasJob, Place
<1>6. ClientOK'  BY DEF SetStatus, ClientOK
<1>7. VersionsBounded'  BY DEF SetStatus, content, VersionsBounded
<1>8. QED  BY <1>4, <1>5, <1>6, <1>7

\* A thread that starts, gives up or ends.
LEMMA OutboxType ==
    ASSUME TypeInv, NEW r \in Runner,
           \/ \E q \in Request : Deliver(r, q)
           \/ Return(r) \/ Raise(r) \/ TimeOut(r) \/ Crash(r)
    PROVE  TypeInv'
<1> USE UnderstandingAssumption DEF TypeInv
<1>0. IdleRun \in Run
  BY DEF IdleRun, Run, Place, Delivery, NormalCopy, ChunkSet, Request
<1>1. ASSUME NEW q \in Request, Deliver(r, q)  PROVE TypeInv'
  <2> DEFINE d == [IdleRun EXCEPT !.at = "latest", !.req = q, !.id = deliveries + 1]
  <2>0. run' = [run EXCEPT ![r] = d]  BY <1>1 DEF Deliver
  <2>1. deliveries + 1 \in Delivery /\ deliveries' \in Nat
    <3>1. deliveries \in Nat  BY DEF TypeOK
    <3>2. deliveries < MaxDeliveries /\ deliveries' = deliveries + 1
      BY <1>1 DEF Deliver
    <3>3. QED  BY <3>1, <3>2 DEF Delivery
  <2>2. d \in Run /\ d.at = "latest" /\ d.id \in Delivery
    <3> DEFINE a == [IdleRun EXCEPT !.at = "latest"]
               b == [a EXCEPT !.req = q]
               c == [b EXCEPT !.id = deliveries + 1]
    <3>1. a \in Run /\ a.at = "latest"  BY <1>0 DEF Run, Place
    <3> HIDE DEF a
    <3>2. b \in Run /\ b.at = "latest"  BY <3>1 DEF Run
    <3> HIDE DEF b
    <3>3. c \in Run /\ c.at = "latest" /\ c.id \in Delivery
      BY <2>1, <3>2 DEF Run, Delivery
    <3>4. d = c  BY DEF a, b
    <3>5. QED  BY <3>3, <3>4
  <2> HIDE DEF d
  <2>3. TypeOK'
    BY <1>1, <2>0, <2>1, <2>2 DEF Deliver, TypeOK, content, downstream
  <2>4. RunOK'  BY <2>0, <2>2 DEF RunOK, TypeOK, HasJob
  <2>5. ClientOK' /\ VersionsBounded'
    BY <1>1 DEF Deliver, content, ClientOK, VersionsBounded
  <2>6. QED  BY <2>3, <2>4, <2>5
<1>2. \A q \in Request :
        /\ [request[q] EXCEPT !.state = "done"] \in
             [state : {"none", "open", "done", "dead"}, tries : Nat]
        /\ Nacked(q) \in [state : {"none", "open", "done", "dead"}, tries : Nat]
  BY DEF TypeOK, Nacked
<1>3. run[r].req \in Request  BY DEF TypeOK, Run
<1>4. ASSUME Return(r) \/ Raise(r)  PROVE TypeInv'
  <2>1. run' = [run EXCEPT ![r] = IdleRun]  BY <1>4 DEF Return, Raise
  <2>2. request' \in [Request -> [state : {"none", "open", "done", "dead"}, tries : Nat]]
    BY <1>2, <1>3, <1>4 DEF Return, Raise, Settle, TypeOK
  <2>3. faults' \in Nat  BY <1>4 DEF Return, Raise, Fault, TypeOK
  <2>4. TypeOK'
    BY <1>0, <1>4, <2>1, <2>2, <2>3 DEF Return, Raise, TypeOK, content, downstream
  <2>5. RunOK'  BY <2>1 DEF RunOK, TypeOK, IdleRun, HasJob
  <2>6. ClientOK' /\ VersionsBounded'
    BY <1>4 DEF Return, Raise, content, ClientOK, VersionsBounded
  <2>7. QED  BY <2>4, <2>5, <2>6
<1>5. ASSUME TimeOut(r)  PROVE TypeInv'
  <2>1. request' \in [Request -> [state : {"none", "open", "done", "dead"}, tries : Nat]]
    BY <1>2, <1>3, <1>5 DEF TimeOut, Settle, TypeOK
  <2>2. [run[r] EXCEPT !.zombie = TRUE] \in Run
    <3>1. run[r] \in Run  BY DEF TypeOK
    <3>2. QED  BY <3>1 DEF Run
  <2>3. TypeOK'  BY <1>5, <2>1, <2>2 DEF TimeOut, TypeOK, content, downstream
  <2>4. \A s \in Runner : run'[s].at = run[s].at /\ run'[s].id = run[s].id
                          /\ run'[s].job = run[s].job /\ run'[s].outcome = run[s].outcome
    BY <1>5 DEF TimeOut, TypeOK, Run
  <2>5. RunOK'  BY <2>4 DEF RunOK
  <2>6. ClientOK' /\ VersionsBounded'
    BY <1>5 DEF TimeOut, content, ClientOK, VersionsBounded
  <2>7. QED  BY <2>3, <2>5, <2>6
<1>6. ASSUME Crash(r)  PROVE TypeInv'
  <2>0. orphaned' \in BOOLEAN  BY <1>6, Zenon DEF Crash, TypeOK
  <2>1. TypeOK'  BY <1>0, <1>6, <2>0 DEF Crash, Fault, TypeOK, content
  <2>2. RunOK'  BY <1>6 DEF Crash, RunOK, TypeOK, IdleRun, HasJob
  <2>3. ClientOK' /\ VersionsBounded'
    BY <1>6 DEF Crash, content, ClientOK, VersionsBounded
  <2>4. QED  BY <2>1, <2>2, <2>3
<1>7. QED  BY <1>1, <1>4, <1>5, <1>6

\* A thread that only moves on, with new values in the fields it carries.
LEMMA MoveType ==
    ASSUME TypeInv, NEW r \in Runner, NEW d \in Run, run' = [run EXCEPT ![r] = d],
           d.at # "idle" => d.id \in Delivery,
           d.at \in HasJob => d.job \in JobId,
           d.at = "complete" => d.outcome \in Success,
           d.at = "fail" => d.outcome \in {"failed", "retryable"}
    PROVE  run' \in [Runner -> Run] /\ RunOK'
<1>1. run \in [Runner -> Run]  BY DEF TypeInv, TypeOK
<1>2. run' \in [Runner -> Run]  BY <1>1
<1>3. RunOK'  BY <1>1 DEF TypeInv, RunOK
<1>4. QED  BY <1>2, <1>3

\* The same for a thread that has its job and goes to another working place.
LEMMA StepMoveType ==
    ASSUME TypeInv, NEW r \in Runner, run[r].at \in HasJob,
           NEW d \in Run, run' = [run EXCEPT ![r] = d],
           d.id = run[r].id, d.job = run[r].job,
           d.at \notin {"complete", "fail"}
    PROVE  run' \in [Runner -> Run] /\ RunOK'
<1>1. run[r].id \in Delivery /\ run[r].job \in JobId
  BY DEF TypeInv, RunOK, HasJob
<1>2. QED  BY <1>1, MoveType

LEMMA StartType ==
    ASSUME TypeInv, NEW r \in Runner, ReadLatest(r) \/ CheckActive(r) \/ CreateJob(r)
    PROVE  TypeInv'
<1>0. run[r] \in Run  BY DEF TypeInv, TypeOK
<1>1. run[r].at # "idle" /\ run[r].id \in Delivery
  BY DEF TypeInv, RunOK, ReadLatest, CheckActive, CreateJob
<1>2. ASSUME NEW place \in {"active", "create", "return"},
             run' = [run EXCEPT ![r] = [run[r] EXCEPT !.at = place]]
      PROVE  run' \in [Runner -> Run] /\ RunOK'
  <2> DEFINE d == [run[r] EXCEPT !.at = place]
  <2>1. d \in Run /\ d.at = place /\ d.id = run[r].id
    BY <1>0 DEF Run, Place
  <2>2. run' = [run EXCEPT ![r] = d]  BY <1>2
  <2> HIDE DEF d
  <2>3. d.at \notin HasJob /\ d.at \notin {"complete", "fail"}
    BY <2>1 DEF HasJob
  <2>4. QED  BY <1>1, <2>1, <2>2, <2>3, MoveType
<1>3. ASSUME NEW place \in {"extract", "queue"}, NEW j \in JobId,
             run' = [run EXCEPT ![r] = [[run[r] EXCEPT !.at = place] EXCEPT !.job = j]]
      PROVE  run' \in [Runner -> Run] /\ RunOK'
  <2> DEFINE a == [run[r] EXCEPT !.at = place]
             d == [a EXCEPT !.job = j]
  <2>0. a \in Run /\ a.at = place /\ a.id = run[r].id
    BY <1>0 DEF Run, Place
  <2>2. run' = [run EXCEPT ![r] = d]  BY <1>3
  <2> HIDE DEF a
  <2>1. d \in Run /\ d.at = place /\ d.id = run[r].id /\ d.job = j
    BY <2>0 DEF Run, JobId
  <2> HIDE DEF d
  <2>3. QED  BY <1>1, <2>1, <2>2, MoveType
<1>4. CASE ReadLatest(r)
  <2>1. run' \in [Runner -> Run] /\ RunOK'
    <3>1. CASE \E j \in Created :
                 run' = [run EXCEPT ![r].at = "extract", ![r].job = j]
      <4>1. PICK j \in Created :
              run' = [run EXCEPT ![r].at = "extract", ![r].job = j]  BY <3>1
      <4>2. j \in JobId  BY DEF Created
      <4>3. run' = [run EXCEPT ![r] = [[run[r] EXCEPT !.at = "extract"] EXCEPT !.job = j]]
        BY <4>1, <1>0 DEF TypeInv, TypeOK
      <4>4. QED  BY <1>3, <4>2, <4>3
    <3>2. CASE Goto(r, "active")  BY <1>2, <3>2 DEF Goto
    <3>3. QED  BY <1>4, <3>1, <3>2 DEF ReadLatest
  <2>2. QED
    BY <1>4, <2>1 DEF ReadLatest, TypeInv, TypeOK, ClientOK, VersionsBounded,
                      content, downstream
<1>5. CASE CheckActive(r)
  <2>1. run' \in [Runner -> Run] /\ RunOK'
    BY <1>2, <1>5 DEF CheckActive, Goto
  <2>2. QED
    BY <1>5, <2>1 DEF CheckActive, TypeInv, TypeOK, ClientOK, VersionsBounded,
                      content, downstream
<1>6. CASE CreateJob(r)
  <2> DEFINE j == Cardinality(Created) + 1
  <2>1. j \in JobId /\ job' = [job EXCEPT ![j].status = "created"]
    BY <1>6 DEF CreateJob
  <2>2. run' = [run EXCEPT ![r].at = "queue", ![r].job = j]
    BY <1>6 DEF CreateJob
  <2> HIDE DEF j
  <2>3. run' = [run EXCEPT ![r] = [[run[r] EXCEPT !.at = "queue"] EXCEPT !.job = j]]
    BY <2>2, <1>0 DEF TypeInv, TypeOK
  <2>4. run' \in [Runner -> Run] /\ RunOK'  BY <1>3, <2>1, <2>3
  <2>5. job' \in [JobId -> [status : Status, retries : Nat]]
    BY <2>1 DEF TypeInv, TypeOK, Status
  <2>6. QED
    BY <1>6, <2>4, <2>5 DEF CreateJob, TypeInv, TypeOK, ClientOK, VersionsBounded,
                            content, downstream
<1>7. QED  BY <1>4, <1>5, <1>6

-----------------------------------------------------------------------------
\* Writing one field of a thread's record. y keeps what RunOK speaks of.
SameWork(x, y) == y.at = x.at /\ y.id = x.id /\ y.job = x.job

LEMMA MovedType ==
    ASSUME NEW x \in Run, NEW place \in Place
    PROVE  LET y == [x EXCEPT !.at = place]
           IN  y \in Run /\ y.at = place /\ y.id = x.id /\ y.job = x.job
BY DEF Run

LEMMA FieldType ==
    ASSUME NEW x \in Run
    PROVE  /\ \A e \in SUBSET Delivery : LET y == [x EXCEPT !.seenExtracted = e]
                                         IN  y \in Run /\ SameWork(x, y)
           /\ \A m \in SUBSET NormalCopy : LET y == [x EXCEPT !.seenNormal = m]
                                           IN  y \in Run /\ SameWork(x, y)
           /\ \A c \in SUBSET ChunkSet : LET y == [x EXCEPT !.seenChunks = c]
                                         IN  y \in Run /\ SameWork(x, y)
           /\ \A v \in Nat : LET y == [x EXCEPT !.version = v]
                             IN  y \in Run /\ SameWork(x, y)
<1>1. \A e \in SUBSET Delivery : LET y == [x EXCEPT !.seenExtracted = e]
                                 IN  y \in Run /\ SameWork(x, y)
  BY DEF Run, SameWork
<1>2. \A m \in SUBSET NormalCopy : LET y == [x EXCEPT !.seenNormal = m]
                                   IN  y \in Run /\ SameWork(x, y)
  BY DEF Run, SameWork
<1>3. \A c \in SUBSET ChunkSet : LET y == [x EXCEPT !.seenChunks = c]
                                 IN  y \in Run /\ SameWork(x, y)
  BY DEF Run, SameWork
<1>4. \A v \in Nat : LET y == [x EXCEPT !.version = v]
                     IN  y \in Run /\ SameWork(x, y)
  BY DEF Run, SameWork
<1>5. QED  BY <1>1, <1>2, <1>3, <1>4

\* A working thread that moves on and notes what it has read of the extracted parts.
LEMMA ExtractedMoveType ==
    ASSUME TypeInv, NEW r \in Runner, run[r].at \in HasJob,
           NEW place \in HasJob \ {"complete", "fail"}, NEW e \in SUBSET Delivery,
           run' = [run EXCEPT ![r].at = place, ![r].seenExtracted = e]
    PROVE  run' \in [Runner -> Run] /\ RunOK'
<1> DEFINE a == [run[r] EXCEPT !.at = place]
           d == [a EXCEPT !.seenExtracted = e]
<1>1. a \in Run /\ a.at = place /\ a.id = run[r].id /\ a.job = run[r].job
  BY MovedType DEF TypeInv, TypeOK, HasJob
<1>2. run' = [run EXCEPT ![r] = d]  BY DEF TypeInv, TypeOK
<1> HIDE DEF a
<1>3. d \in Run /\ SameWork(a, d)  BY <1>1, FieldType
<1> HIDE DEF d
<1>4. QED  BY <1>1, <1>2, <1>3, StepMoveType DEF SameWork

\* One that moves on with nothing new.
LEMMA PlainMoveType ==
    ASSUME TypeInv, NEW r \in Runner, run[r].at \in HasJob,
           NEW place \in (HasJob \ {"complete", "fail"}) \cup {"return"}, Goto(r, place)
    PROVE  run' \in [Runner -> Run] /\ RunOK'
<1> DEFINE a == [run[r] EXCEPT !.at = place]
<1>p. run[r] \in Run /\ place \in Place  BY DEF TypeInv, TypeOK, HasJob, Place
<1>1. a \in Run /\ a.at = place /\ a.id = run[r].id /\ a.job = run[r].job
  BY <1>p, MovedType
<1>2. run' = [run EXCEPT ![r] = a]  BY DEF TypeInv, TypeOK, Goto
<1> HIDE DEF a
<1>3. a.at \notin {"complete", "fail"}  BY <1>1
<1>4. QED  BY <1>1, <1>2, <1>3, StepMoveType

\* One that ends the pipeline with a decision about the job.
LEMMA DecideType ==
    ASSUME TypeInv, NEW r \in Runner, run[r].at \in HasJob,
           NEW place \in {"complete", "fail"}, NEW outcome,
           place = "complete" => outcome \in Success,
           place = "fail" => outcome \in {"failed", "retryable"},
           run' = [run EXCEPT ![r].at = place, ![r].outcome = outcome]
    PROVE  run' \in [Runner -> Run] /\ RunOK'
<1> DEFINE a == [run[r] EXCEPT !.at = place]
           d == [a EXCEPT !.outcome = outcome]
<1>0. outcome \in Terminal  BY DEF Terminal
<1>p. run[r] \in Run /\ place \in Place  BY DEF TypeInv, TypeOK, Place
<1>1. a \in Run /\ a.at = place /\ a.id = run[r].id /\ a.job = run[r].job
  BY <1>p, MovedType
<1>2. run' = [run EXCEPT ![r] = d]  BY DEF TypeInv, TypeOK
<1> HIDE DEF a
<1>3. d \in Run /\ SameWork(a, d) /\ d.outcome = outcome
  BY <1>0, <1>1 DEF Run, SameWork
<1> HIDE DEF d
<1>4. run[r].id \in Delivery /\ run[r].job \in JobId
  BY DEF TypeInv, RunOK, HasJob
<1>5. QED  BY <1>1, <1>2, <1>3, <1>4, MoveType DEF SameWork

-----------------------------------------------------------------------------
\* The record of who has written since stays one of threads.
LEMMA WroteType ==
    ASSUME TypeOK, NEW r \in Runner,
           Wrote(r) \/ alone' = [s \in Runner |-> s = r \/ (alone[s] /\ ~Streaming)]
    PROVE  alone' \in [Runner -> BOOLEAN]
<1>1. CASE Wrote(r)
  <2>1. \A s \in Runner : (s = r /\ alone[s]) \in BOOLEAN  OBVIOUS
  <2>2. QED  BY <1>1, <2>1, Zenon DEF Wrote
<1>2. CASE alone' = [s \in Runner |-> s = r \/ (alone[s] /\ ~Streaming)]
  <2>1. \A s \in Runner : (s = r \/ (alone[s] /\ ~Streaming)) \in BOOLEAN  OBVIOUS
  <2>2. QED  BY <1>2, <2>1, Zenon
<1>3. QED  BY <1>1, <1>2

\* The three steps that replace extracted and normalised parts.
LEMMA ExtractType ==
    ASSUME TypeInv, NEW r \in Runner,
           BeginExtract(r) \/ CommitExtract(r) \/ ClearNormalized(r)
             \/ ReadExtracted(r) \/ InsertNormalized(r)
    PROVE  TypeInv'
<1> USE DEF TypeInv
<1>1. CASE BeginExtract(r)
  <2>1. run[r].at \in HasJob /\ "replacing" \in HasJob \ {"complete", "fail"}
    BY <1>1 DEF BeginExtract, HasJob, Place
  <2>2. extracted \in SUBSET Delivery  BY DEF TypeOK
  <2>3. run' \in [Runner -> Run] /\ RunOK'
    BY <1>1, <2>1, <2>2, ExtractedMoveType DEF BeginExtract
  <2>4. extracted' \subseteq Delivery  BY <1>1, <2>2 DEF BeginExtract
  <2>5. alone' \in [Runner -> BOOLEAN]  BY <1>1, WroteType DEF BeginExtract
  <2>6. QED
    BY <1>1, <2>3, <2>4, <2>5 DEF BeginExtract, TypeOK, ClientOK, VersionsBounded, downstream
<1>2. CASE CommitExtract(r)
  <2>1. run[r].at \in HasJob /\ "normalize" \in HasJob \ {"complete", "fail"}
    BY <1>2 DEF CommitExtract, HasJob, Place
  <2>2. run' \in [Runner -> Run] /\ RunOK'
    <3>1. {} \in SUBSET Delivery  OBVIOUS
    <3>2. run' = [run EXCEPT ![r].at = "normalize", ![r].seenExtracted = {}]
      BY <1>2 DEF CommitExtract
    <3>3. QED  BY <2>1, <3>1, <3>2, ExtractedMoveType
  <2>3. run[r].id \in Delivery  BY <2>1 DEF RunOK, HasJob
  <2>4. extracted' \subseteq Delivery  BY <1>2, <2>3 DEF CommitExtract, TypeOK
  <2>5. alone' \in [Runner -> BOOLEAN]  BY <1>2, WroteType DEF CommitExtract
  <2>6. QED
    BY <1>2, <2>2, <2>4, <2>5 DEF CommitExtract, TypeOK, ClientOK, VersionsBounded, downstream
<1>3. CASE ClearNormalized(r)
  <2>1. run[r].at \in HasJob /\ "copying" \in HasJob \ {"complete", "fail"}
    BY <1>3 DEF ClearNormalized, HasJob, Place
  <2>2. run' \in [Runner -> Run] /\ RunOK'
    BY <1>3, <2>1, PlainMoveType DEF ClearNormalized
  <2>3. alone' \in [Runner -> BOOLEAN]  BY <1>3, WroteType DEF ClearNormalized
  <2>4. QED
    BY <1>3, <2>2, <2>3 DEF ClearNormalized, TypeOK, ClientOK, VersionsBounded, downstream
<1>4. CASE ReadExtracted(r)
  <2>1. run[r].at \in HasJob /\ "inserting" \in HasJob \ {"complete", "fail"}
    BY <1>4 DEF ReadExtracted, HasJob, Place
  <2>2. extracted \in SUBSET Delivery  BY DEF TypeOK
  <2>3. run' \in [Runner -> Run] /\ RunOK'
    BY <1>4, <2>1, <2>2, ExtractedMoveType DEF ReadExtracted
  <2>4. QED
    BY <1>4, <2>3 DEF ReadExtracted, content, TypeOK, ClientOK, VersionsBounded,
                      downstream
<1>5. CASE InsertNormalized(r)
  <2>1. run[r].at \in HasJob /\ "chunk" \in HasJob \ {"complete", "fail"}
    BY <1>5 DEF InsertNormalized, HasJob, Place
  <2>2. run' \in [Runner -> Run] /\ RunOK'
    <3>1. {} \in SUBSET Delivery  OBVIOUS
    <3>2. run' = [run EXCEPT ![r].at = "chunk", ![r].seenExtracted = {}]
      BY <1>5 DEF InsertNormalized
    <3>3. QED  BY <2>1, <3>1, <3>2, ExtractedMoveType
  <2>3. run[r].id \in Delivery  BY <2>1 DEF RunOK, HasJob
  <2>4. run[r].seenExtracted \subseteq Delivery  BY DEF TypeOK, Run
  <2>5. normalized' \subseteq NormalCopy
    BY <1>5, <2>3, <2>4 DEF InsertNormalized, TypeOK, NormalCopy
  <2>6. alone' \in [Runner -> BOOLEAN]  BY <1>5, WroteType DEF InsertNormalized
  <2>7. QED
    BY <1>5, <2>2, <2>5, <2>6 DEF InsertNormalized, TypeOK, ClientOK, VersionsBounded,
                                  downstream
<1>6. QED  BY <1>1, <1>2, <1>3, <1>4, <1>5

\* The steps that replace the chunks.
LEMMA ChunkType ==
    ASSUME TypeInv, NEW r \in Runner,
           ReadNormalized(r) \/ ReadVersion(r) \/ BeginRechunk(r) \/ CommitRechunk(r)
    PROVE  TypeInv'
<1> USE DEF TypeInv
<1>0. run[r] \in Run /\ run \in [Runner -> Run]  BY DEF TypeOK
<1>1. CASE ReadNormalized(r)
  <2> DEFINE a == [run[r] EXCEPT !.at = "versioning"]
             d == [a EXCEPT !.seenNormal = normalized]
  <2>1. run[r].at \in HasJob  BY <1>1 DEF ReadNormalized, HasJob, Place
  <2>2. a \in Run /\ a.at = "versioning" /\ a.id = run[r].id /\ a.job = run[r].job
    BY <1>0, MovedType DEF Place
  <2>3. run' = [run EXCEPT ![r] = d]  BY <1>0, <1>1 DEF ReadNormalized
  <2> HIDE DEF a
  <2>4. normalized \in SUBSET NormalCopy  BY DEF TypeOK
  <2>5. d \in Run /\ SameWork(a, d)  BY <2>2, <2>4, FieldType
  <2> HIDE DEF d
  <2>6. run' \in [Runner -> Run] /\ RunOK'
    BY <2>1, <2>2, <2>3, <2>5, StepMoveType DEF SameWork
  <2>7. QED
    BY <1>1, <2>6 DEF ReadNormalized, content, TypeOK, ClientOK, VersionsBounded,
                      downstream
<1>2. CASE ReadVersion(r)
  <2> DEFINE n == MaxVersion + 1
             a == [run[r] EXCEPT !.at = "deleting"]
             d == [a EXCEPT !.version = n]
  <2>1. run[r].at \in HasJob  BY <1>2 DEF ReadVersion, HasJob, Place
  <2>2. n \in Nat  BY MaxVersionType
  <2>3. run' = [run EXCEPT ![r].at = "deleting", ![r].version = n]
    BY <1>2 DEF ReadVersion
  <2> HIDE DEF n
  <2>4. a \in Run /\ a.at = "deleting" /\ a.id = run[r].id /\ a.job = run[r].job
    BY <1>0, MovedType DEF Place
  <2>5. run' = [run EXCEPT ![r] = d]  BY <1>0, <2>3
  <2> HIDE DEF a
  <2>6. d \in Run /\ SameWork(a, d)  BY <2>2, <2>4, FieldType
  <2> HIDE DEF d
  <2>7. run' \in [Runner -> Run] /\ RunOK'
    BY <2>1, <2>4, <2>5, <2>6, StepMoveType DEF SameWork
  <2>8. QED
    BY <1>2, <2>7 DEF ReadVersion, content, TypeOK, ClientOK, VersionsBounded,
                      downstream
<1>4. CASE BeginRechunk(r)
  <2> DEFINE a == [run[r] EXCEPT !.at = "rechunking"]
             d == [a EXCEPT !.seenChunks = chunks]
  <2>1. run[r].at \in HasJob  BY <1>4 DEF BeginRechunk, HasJob, Place
  <2>2. a \in Run /\ a.at = "rechunking" /\ a.id = run[r].id /\ a.job = run[r].job
    BY <1>0, MovedType DEF Place
  <2>3. run' = [run EXCEPT ![r] = d]  BY <1>0, <1>4 DEF BeginRechunk
  <2> HIDE DEF a
  <2>4. chunks \in SUBSET ChunkSet  BY DEF TypeOK
  <2>5. d \in Run /\ SameWork(a, d)  BY <2>2, <2>4, FieldType
  <2> HIDE DEF d
  <2>6. run' \in [Runner -> Run] /\ RunOK'
    BY <2>1, <2>2, <2>3, <2>5, StepMoveType DEF SameWork
  <2>7. QED
    BY <1>4, <2>6 DEF BeginRechunk, content, TypeOK, ClientOK, VersionsBounded,
                      downstream
<1>3. CASE CommitRechunk(r)
  <2> DEFINE a == [run[r] EXCEPT !.at = "validate"]
             b == [a EXCEPT !.seenChunks = {}]
             c == [b EXCEPT !.seenNormal = {}]
             d == [c EXCEPT !.version = 0]
             new == [version |-> run[r].version, by |-> run[r].id,
                     from |-> run[r].seenNormal]
  <2>1. run[r].at \in HasJob /\ run[r].id \in Delivery
    BY <1>3 DEF CommitRechunk, HasJob, Place, RunOK
  <2>2. new \in ChunkSet /\ new.version \in Nat
    BY <1>0, <2>1 DEF ChunkSet, Run
  <2>3. chunks' = (chunks \ run[r].seenChunks) \cup {new}  BY <1>3 DEF CommitRechunk
  <2> HIDE DEF new
  <2>4. chunks' \subseteq ChunkSet  BY <2>2, <2>3 DEF TypeOK
  <2>5. VersionsBounded'
    <3>1. PICK n \in Nat : \A x \in chunks : x.version <= n  BY DEF VersionsBounded
    <3>2. PICK k \in Nat : n <= k /\ new.version <= k
      <4>1. CASE n <= new.version  BY <2>2, <4>1
      <4>2. CASE new.version <= n  BY <4>2
      <4>3. QED  BY <2>2, <3>1, <4>1, <4>2
    <3>3. \A x \in chunks' : x.version <= k
      <4>1. \A x \in chunks : x.version \in Nat  BY DEF TypeOK, ChunkSet
      <4>2. QED  BY <2>3, <3>1, <3>2, <4>1
    <3>4. QED  BY <3>3 DEF VersionsBounded
  <2>6. a \in Run /\ a.at = "validate" /\ a.id = run[r].id /\ a.job = run[r].job
    BY <1>0, MovedType DEF Place
  <2>7. run' = [run EXCEPT ![r] = d]  BY <1>0, <1>3 DEF CommitRechunk
  <2> HIDE DEF a
  <2>8. b \in Run /\ SameWork(a, b)  BY <2>6, FieldType
  <2> HIDE DEF b
  <2>9. c \in Run /\ SameWork(b, c)  BY <2>8, FieldType
  <2> HIDE DEF c
  <2>10. d \in Run /\ SameWork(c, d)  BY <2>9, FieldType
  <2> HIDE DEF d
  <2>11. run' \in [Runner -> Run] /\ RunOK'
    BY <2>1, <2>6, <2>7, <2>8, <2>9, <2>10, StepMoveType DEF SameWork
  <2>12. alone' \in [Runner -> BOOLEAN]  BY <1>3, WroteType DEF CommitRechunk
  <2>13. tidy' \in BOOLEAN
    <3>1. alone[r] \in BOOLEAN  BY Zenon DEF TypeOK
    <3>2. tidy' = alone[r]  BY <1>3 DEF CommitRechunk
    <3>3. QED  BY <3>1, <3>2
  <2>14. QED
    BY <1>3, <2>4, <2>5, <2>11, <2>12, <2>13 DEF CommitRechunk, TypeOK, ClientOK, downstream
<1>5. QED  BY <1>1, <1>2, <1>3, <1>4

\* Status updates, the decisions of the last step and of a failure.
LEMMA StatusType ==
    ASSUME TypeInv, NEW r \in Runner,
           QueueJob(r) \/ StartStep(r) \/ MarkCompleted(r) \/ MarkFailed(r)
    PROVE  TypeInv'
<1>0. Terminal \subseteq Status /\ Working \subseteq Status /\ "queued" \in Status
  BY DEF Status
<1>1. CASE QueueJob(r) \/ StartStep(r)
  <2>1. PICK from \in {"queue", "extract", "normalize", "chunk", "validate"},
             status \in Working \cup {"queued"},
             to \in {"extract", "extracting", "normalizing", "chunking", "validating"} :
               SetStatus(r, from, status, to)
    BY <1>1 DEF QueueJob, StartStep, Working
  <2>2. from \in HasJob /\ to \in (HasJob \ {"complete", "fail"}) \cup {"return"}
    BY DEF HasJob, Place
  <2>3. status \in Status  BY <1>0
  <2>4. QED  BY <2>1, <2>2, <2>3, SetStatusType
<1>2. CASE MarkCompleted(r)
  <2>1. run[r].outcome \in Status
    BY <1>0, <1>2 DEF MarkCompleted, SetStatus, TypeInv, RunOK, Terminal
  <2>2. "complete" \in HasJob /\ "emit" \in (HasJob \ {"complete", "fail"}) \cup {"return"}
    BY DEF HasJob, Place
  <2>3. QED  BY <1>2, <2>1, <2>2, SetStatusType DEF MarkCompleted
<1>3. CASE MarkFailed(r)
  <2>1. run[r].outcome \in Status
    BY <1>0, <1>3 DEF MarkFailed, SetStatus, TypeInv, RunOK, Terminal
  <2>2. "fail" \in HasJob /\ "announce" \in (HasJob \ {"complete", "fail"}) \cup {"return"}
    BY DEF HasJob, Place
  <2>3. QED  BY <1>3, <2>1, <2>2, SetStatusType DEF MarkFailed
<1>4. QED  BY <1>1, <1>2, <1>3

LEMMA DecisionType ==
    ASSUME TypeInv, NEW r \in Runner, Validate(r) \/ StepFails(r)
    PROVE  TypeInv'
<1>1. run[r].at \in HasJob  BY DEF Validate, StepFails, HasJob, Place
<1>2. run' \in [Runner -> Run] /\ RunOK'
  <2>1. PICK place \in {"complete", "fail"},
             outcome \in {"ready_for_discovery", "partial", "failed", "retryable"} :
               /\ run' = [run EXCEPT ![r].at = place, ![r].outcome = outcome]
               /\ place = "complete" => outcome \in Success
               /\ place = "fail" => outcome \in {"failed", "retryable"}
    BY DEF Validate, StepFails, Success
  <2>2. QED  BY <1>1, <2>1, DecideType
<1>3. QED
  BY <1>2 DEF Validate, StepFails, TypeInv, TypeOK, ClientOK, VersionsBounded,
              content, downstream

LEMMA EmitType ==
    ASSUME TypeInv, NEW r \in Runner,
           EmitDiscovery(r) \/ EmitFailed(r) \/ EmitFails(r)
    PROVE  TypeInv'
<1>1. run[r].at \in HasJob /\ run[r].job \in JobId
  BY DEF EmitDiscovery, EmitFailed, EmitFails, HasJob, Place, TypeInv, RunOK
<1>2. run' \in [Runner -> Run] /\ RunOK'
  <2>1. "return" \in (HasJob \ {"complete", "fail"}) \cup {"return"}  OBVIOUS
  <2>2. Goto(r, "return")  BY DEF EmitDiscovery, EmitFailed, EmitFails
  <2>3. QED  BY <1>1, <2>1, <2>2, PlainMoveType
<1>3. CASE EmitDiscovery(r)
  <2>1. discovery' \in [JobId -> {"none", "open", "done"}]
    BY <1>1, <1>3 DEF EmitDiscovery, TypeInv, TypeOK
  <2>2. QED
    BY <1>2, <1>3, <2>1 DEF EmitDiscovery, TypeInv, TypeOK, ClientOK, VersionsBounded,
                            content
<1>4. CASE EmitFailed(r)
  BY <1>2, <1>4 DEF EmitFailed, TypeInv, TypeOK, ClientOK, VersionsBounded,
                    content, downstream
<1>5. CASE EmitFails(r)
  BY <1>2, <1>5 DEF EmitFails, Fault, TypeInv, TypeOK, ClientOK, VersionsBounded,
                    content, downstream
<1>6. QED  BY <1>3, <1>4, <1>5

\* The retry call.
LEMMA RetryType ==
    ASSUME TypeInv, Retry
    PROVE  TypeInv'
<1> USE UnderstandingAssumption DEF TypeInv
<1>1. ASSUME NEW force \in {FALSE, AllowForce}, CheckRetryable(force)  PROVE TypeInv'
  <2>1. PICK j \in Created : client' = [at |-> "checked", job |-> j, retry |-> 0]
    BY <1>1 DEF CheckRetryable
  <2>2. j \in JobId /\ j \in Nat  BY DEF Created, JobId
  <2>3. client' \in [at : {"idle", "checked", "queued"}, job : Nat, retry : Nat]
    BY <2>1, <2>2
  <2>4. ClientOK'  BY <2>1, <2>2 DEF ClientOK
  <2>5. QED
    BY <1>1, <2>3, <2>4 DEF CheckRetryable, TypeOK, RunOK, VersionsBounded,
                            content, downstream
<1>2. CASE IncrementRetry
  <2> DEFINE n == job[client.job].retries + 1
  <2>1. client.job \in JobId  BY <1>2 DEF IncrementRetry, ClientOK
  <2>2. n \in Nat /\ n \in Request
    BY <1>2, <2>1 DEF IncrementRetry, TypeOK, Request
  <2>3. /\ job' = [job EXCEPT ![client.job] = [status |-> "queued", retries |-> n]]
        /\ client' = [client EXCEPT !.at = "queued", !.retry = n]
    BY <1>2 DEF IncrementRetry
  <2> HIDE DEF n
  <2>4. job' \in [JobId -> [status : Status, retries : Nat]]
    BY <2>2, <2>3 DEF TypeOK, Status
  <2>5. client' \in [at : {"idle", "checked", "queued"}, job : Nat, retry : Nat]
    BY <2>2, <2>3 DEF TypeOK
  <2>6. ClientOK'  BY <2>1, <2>2, <2>3 DEF ClientOK, TypeOK
  <2>7. QED
    BY <1>2, <2>4, <2>5, <2>6 DEF IncrementRetry, TypeOK, RunOK, VersionsBounded,
                                  content, downstream
<1>3. IdleClient \in [at : {"idle", "checked", "queued"}, job : Nat, retry : Nat]
  BY DEF IdleClient
<1>4. CASE EmitRetry
  <2>1. client.retry \in Request  BY <1>4 DEF EmitRetry, ClientOK
  <2>2. request' \in [Request -> [state : {"none", "open", "done", "dead"}, tries : Nat]]
    <3>1. [request[client.retry] EXCEPT !.state = "open"] \in
            [state : {"none", "open", "done", "dead"}, tries : Nat]
      BY <2>1 DEF TypeOK
    <3>2. QED  BY <1>4, <2>1, <3>1 DEF EmitRetry, TypeOK
  <2>3. ClientOK'  BY <1>4 DEF EmitRetry, ClientOK, IdleClient
  <2>4. QED
    BY <1>3, <1>4, <2>2, <2>3 DEF EmitRetry, TypeOK, RunOK, VersionsBounded,
                                  content, downstream
<1>5. CASE RetryDies
  <2>1. ClientOK'  BY <1>5 DEF RetryDies, ClientOK, IdleClient
  <2>2. QED
    BY <1>3, <1>5, <2>1 DEF RetryDies, Fault, TypeOK, RunOK, VersionsBounded,
                            content, downstream
<1>6. QED  BY <1>1, <1>2, <1>4, <1>5 DEF Retry

LEMMA DiscoverType ==
    ASSUME TypeInv, NEW j \in JobId, Discover(j)
    PROVE  TypeInv'
BY DEF Discover, TypeInv, TypeOK, RunOK, ClientOK, VersionsBounded, content

LEMMA StepType == TypeInv /\ [Next]_vars => TypeInv'
<1> SUFFICES ASSUME TypeInv, [Next]_vars PROVE TypeInv'  OBVIOUS
<1>1. ASSUME NEW r \in Runner, NEW q \in Request, Deliver(r, q)  PROVE TypeInv'
  BY <1>1, OutboxType
<1>2. ASSUME NEW r \in Runner, Start(r)  PROVE TypeInv'
  BY <1>2, StartType, StatusType DEF Start
<1>3. ASSUME NEW r \in Runner, Work(r)  PROVE TypeInv'
  BY <1>3, StatusType, ExtractType, ChunkType, DecisionType DEF Work
<1>4. ASSUME NEW r \in Runner, Finish(r)  PROVE TypeInv'
  BY <1>4, StatusType, EmitType, OutboxType DEF Finish
<1>5. ASSUME NEW r \in Runner, Disturb(r)  PROVE TypeInv'
  BY <1>5, EmitType, OutboxType DEF Disturb
<1>6. CASE UNCHANGED vars
  BY <1>6 DEF vars, TypeInv, TypeOK, RunOK, ClientOK, VersionsBounded
<1>7. QED  BY <1>1, <1>2, <1>3, <1>4, <1>5, <1>6, RetryType, DiscoverType DEF Next

LEMMA TypeInvariant == Spec => []TypeInv
BY InitType, StepType, PTL DEF Spec

\* Every variable keeps its type; in particular a thread that updates a job has
\* one, and the outcome it writes is a terminal status.
THEOREM TypeCorrect == Spec => []TypeOK
<1>1. TypeInv => TypeOK  BY DEF TypeInv
<1>2. QED  BY <1>1, TypeInvariant, PTL

-----------------------------------------------------------------------------
\* Chunks never disappear altogether: the rows a thread deletes and the ones it
\* inserts are committed together. A thread that has passed validation has seen
\* them, so whoever publishes or has published leaves discovery something to read.
DeliveryInv ==
    /\ \A r \in Runner : run[r].at \in {"complete", "emit"} => chunks # {}
    /\ DiscoveryHasChunks

LEMMA ChunksStay == Next => (chunks # {} => chunks' # {})
<1> SUFFICES ASSUME Next, chunks # {} PROVE chunks' # {}  OBVIOUS
<1>1. ASSUME NEW r \in Runner, CommitRechunk(r)  PROVE chunks' # {}
  BY <1>1 DEF CommitRechunk
<1>2. ASSUME NEW r \in Runner, NEW q \in Request, Deliver(r, q)  PROVE chunks' # {}
  BY <1>2 DEF Deliver, content
<1>3. ASSUME NEW r \in Runner, Start(r)  PROVE chunks' # {}
  BY <1>3 DEF Start, ReadLatest, CheckActive, CreateJob, QueueJob, SetStatus, content
<1>4. ASSUME NEW r \in Runner, Work(r), ~CommitRechunk(r)  PROVE chunks' # {}
  BY <1>4 DEF Work, StartStep, SetStatus, BeginExtract, CommitExtract, ClearNormalized,
              ReadExtracted, InsertNormalized, ReadNormalized, ReadVersion, BeginRechunk,
              Validate, StepFails, content
<1>5. ASSUME NEW r \in Runner, Finish(r) \/ Disturb(r)  PROVE chunks' # {}
  BY <1>5 DEF Finish, Disturb, MarkCompleted, EmitDiscovery, MarkFailed, EmitFailed,
              Return, EmitFails, Raise, TimeOut, Crash, SetStatus, content
<1>6. CASE Retry
  BY <1>6 DEF Retry, CheckRetryable, IncrementRetry, EmitRetry, RetryDies, content
<1>7. ASSUME NEW j \in JobId, Discover(j)  PROVE chunks' # {}
  BY <1>7 DEF Discover, content
<1>8. QED  BY <1>1, <1>2, <1>3, <1>4, <1>5, <1>6, <1>7 DEF Next

\* Only a thread that is past validation can be at the places DeliveryInv names
\* or publish a discovery event.
LEMMA ReachesEmit ==
    ASSUME TypeInv, NEW r \in Runner, NEW s \in Runner,
           (\E q \in Request : Deliver(r, q)) \/ Start(r) \/ Work(r) \/ Finish(r) \/ Disturb(r),
           run'[s].at \in {"complete", "emit"}
    PROVE  run[s].at \in {"complete", "emit"} \/ chunks # {}
<1>1. run \in [Runner -> Run]  BY DEF TypeInv, TypeOK
<1>2. CASE \E q \in Request : Deliver(r, q)
  BY <1>1, <1>2 DEF Deliver, IdleRun
<1>3. CASE Start(r)
  BY <1>1, <1>3 DEF Start, ReadLatest, CheckActive, CreateJob, QueueJob, SetStatus, Goto, Run
<1>4. CASE Work(r)
  <2>1. CASE Validate(r)  BY <1>1, <2>1 DEF Validate, Run
  <2>2. CASE StepFails(r)  BY <1>1, <2>2 DEF StepFails, Run
  <2>3. CASE StartStep(r)  BY <1>1, <2>3 DEF StartStep, SetStatus, Goto, Run
  <2>4. CASE BeginExtract(r) \/ CommitExtract(r) \/ ClearNormalized(r)
               \/ ReadExtracted(r) \/ InsertNormalized(r)
    BY <1>1, <2>4 DEF BeginExtract, CommitExtract, ClearNormalized, ReadExtracted,
                      InsertNormalized, Goto, Run
  <2>5. CASE ReadNormalized(r) \/ ReadVersion(r) \/ BeginRechunk(r) \/ CommitRechunk(r)
    BY <1>1, <2>5 DEF ReadNormalized, ReadVersion, BeginRechunk, CommitRechunk, Run
  <2>6. QED  BY <1>4, <2>1, <2>2, <2>3, <2>4, <2>5 DEF Work
<1>5. CASE Finish(r)
  BY <1>1, <1>5 DEF Finish, MarkCompleted, EmitDiscovery, MarkFailed, EmitFailed, Return,
                    SetStatus, Goto, IdleRun, Run
<1>6. CASE Disturb(r)
  BY <1>1, <1>6 DEF Disturb, EmitFails, Raise, TimeOut, Crash, Goto, IdleRun, Run
<1>7. QED  BY <1>2, <1>3, <1>4, <1>5, <1>6

LEMMA DiscoveryKept ==
    ASSUME TypeInv, Next, NEW j \in JobId, discovery'[j] # "none"
    PROVE  discovery[j] # "none" \/ \E r \in Runner : run[r].at = "emit"
<1>1. discovery \in [JobId -> {"none", "open", "done"}]  BY DEF TypeInv, TypeOK
<1>2. ASSUME NEW r \in Runner, EmitDiscovery(r)
      PROVE  \E s \in Runner : run[s].at = "emit"
  BY <1>2 DEF EmitDiscovery
<1>3. ASSUME NEW i \in JobId, Discover(i)  PROVE discovery[j] # "none"
  BY <1>1, <1>3 DEF Discover
<1>4. ASSUME NEW r \in Runner,
             \/ \E q \in Request : Deliver(r, q)
             \/ Start(r) \/ Work(r) \/ Disturb(r)
             \/ Finish(r) /\ ~EmitDiscovery(r)
      PROVE  discovery' = discovery
  <2>1. CASE (\E q \in Request : Deliver(r, q)) \/ Start(r) \/ Disturb(r)
    BY <2>1 DEF Deliver, Start, ReadLatest, CheckActive, CreateJob, QueueJob, SetStatus,
                Disturb, EmitFails, Raise, TimeOut, Crash, downstream
  <2>2. CASE Work(r)
    BY <2>2 DEF Work, StartStep, SetStatus, BeginExtract, CommitExtract, ClearNormalized,
                ReadExtracted, InsertNormalized, ReadNormalized, ReadVersion, BeginRechunk,
                CommitRechunk, Validate, StepFails, downstream
  <2>3. CASE Finish(r) /\ ~EmitDiscovery(r)
    BY <2>3 DEF Finish, MarkCompleted, MarkFailed, EmitFailed, Return, SetStatus, downstream
  <2>4. QED  BY <1>4, <2>1, <2>2, <2>3
<1>5. CASE Retry
  BY <1>5 DEF Retry, CheckRetryable, IncrementRetry, EmitRetry, RetryDies, downstream
<1>6. QED  BY <1>2, <1>3, <1>4, <1>5 DEF Next

LEMMA DeliveryInit == Init => DeliveryInv
BY DEF Init, DeliveryInv, DiscoveryHasChunks, IdleRun

LEMMA DeliveryStep == TypeInv /\ DeliveryInv /\ [Next]_vars => DeliveryInv'
<1> SUFFICES ASSUME TypeInv, DeliveryInv, [Next]_vars PROVE DeliveryInv'  OBVIOUS
<1>1. CASE UNCHANGED vars
  BY <1>1 DEF vars, DeliveryInv, DiscoveryHasChunks
<1>2. CASE Next
  <2>1. ASSUME NEW s \in Runner, run'[s].at \in {"complete", "emit"}  PROVE chunks' # {}
    <3>1. CASE \E r \in Runner :
                 \/ \E q \in Request : Deliver(r, q)
                 \/ Start(r) \/ Work(r) \/ Finish(r) \/ Disturb(r)
      BY <1>2, <2>1, <3>1, ReachesEmit, ChunksStay DEF DeliveryInv
    <3>2. CASE Retry \/ \E j \in JobId : Discover(j)
      <4>1. run' = run
        BY <3>2 DEF Retry, CheckRetryable, IncrementRetry, EmitRetry, RetryDies, Discover
      <4>2. QED  BY <1>2, <2>1, <4>1, ChunksStay DEF DeliveryInv
    <3>3. QED  BY <1>2, <3>1, <3>2 DEF Next
  <2>2. ASSUME NEW j \in JobId, discovery'[j] # "none"  PROVE chunks' # {}
    BY <1>2, <2>2, DiscoveryKept, ChunksStay DEF DeliveryInv, DiscoveryHasChunks
  <2>3. QED  BY <2>1, <2>2 DEF DeliveryInv, DiscoveryHasChunks
<1>3. QED  BY <1>1, <1>2

\* A discovery event always finds chunks: no interleaving of threads, timeout,
\* crash or retry leaves the chunk table empty once an event has been published
\* (ChunkRepository.replace_for_document deletes and inserts in one transaction).
THEOREM DiscoveryNeverEmpty == Spec => []DiscoveryHasChunks
<1>1. DeliveryInv => DiscoveryHasChunks  BY DEF DeliveryInv
<1>2. QED  BY <1>1, TypeInvariant, DeliveryInit, DeliveryStep, PTL DEF Spec

-----------------------------------------------------------------------------
(* The document in the chunk table, and the version, of a thread alone.    *)

AtMostOne(S) == \A x, y \in S : x = y

\* What a thread that has been alone since it began to extract has read or is to
\* delete is still what the tables hold, and what it has written is one copy.
Replaces(r) ==
    /\ run[r].at = "replacing" => extracted \subseteq run[r].seenExtracted
    /\ run[r].at \in {"normalize", "normalizing", "copying"} => AtMostOne(extracted)
    /\ run[r].at \in {"copying", "inserting"} => normalized = {}
    /\ run[r].at = "inserting" => AtMostOne(run[r].seenExtracted)
    /\ run[r].at \in {"chunk", "chunking"} => AtMostOne(normalized)
    /\ run[r].at \in {"versioning", "deleting", "rechunking"} =>
         run[r].seenNormal # {} /\ AtMostOne(run[r].seenNormal)
    /\ run[r].at \in {"deleting", "rechunking"} =>
         \A c \in chunks : c.version < run[r].version
    /\ run[r].at = "rechunking" => chunks \subseteq run[r].seenChunks

Tidy ==
    /\ AtMostOne(chunks)
    /\ \A c \in chunks : c.from # {} /\ AtMostOne(c.from)

SoloInv == (tidy => Tidy) /\ \A r \in Runner : alone[r] => Replaces(r)

Replacing == {"replacing", "normalize", "normalizing", "copying", "inserting",
              "chunk", "chunking", "versioning", "deleting", "rechunking"}

\* What a thread r is doing leaves the records of the others as they are.
Others(r) == \A s \in Runner \ {r} : run'[s] = run[s]

LEMMA OthersStay ==
    ASSUME TypeInv, NEW r \in Runner,
           \/ \E q \in Request : Deliver(r, q)
           \/ Start(r) \/ Work(r) \/ Finish(r) \/ Disturb(r)
    PROVE  Others(r)
<1>0. run \in [Runner -> Run]  BY DEF TypeInv, TypeOK
<1>1. CASE \E q \in Request : Deliver(r, q)
  BY <1>0, <1>1 DEF Deliver, Others
<1>2. CASE Start(r)
  BY <1>0, <1>2 DEF Start, ReadLatest, CheckActive, CreateJob, QueueJob, SetStatus, Goto,
                    Others
<1>3. CASE Work(r)
  BY <1>0, <1>3 DEF Work, StartStep, SetStatus, BeginExtract, CommitExtract, ClearNormalized,
                    ReadExtracted, InsertNormalized, ReadNormalized, ReadVersion,
                    BeginRechunk, CommitRechunk, Validate, StepFails, Goto, Others
<1>4. CASE Finish(r)
  BY <1>0, <1>4 DEF Finish, MarkCompleted, EmitDiscovery, MarkFailed, EmitFailed, Return,
                    SetStatus, Goto, Others
<1>5. CASE Disturb(r)
  BY <1>0, <1>5 DEF Disturb, EmitFails, Raise, TimeOut, Crash, Goto, Others
<1>6. QED  BY <1>1, <1>2, <1>3, <1>4, <1>5

\* A step of r that writes no content table brings only r nearer to writing one.
LEMMA SoloKept ==
    ASSUME SoloInv, UNCHANGED content, NEW r \in Runner, Others(r),
           alone[r] => Replaces(r)'
    PROVE  SoloInv'
<1>1. tidy' => Tidy'  BY DEF SoloInv, Tidy, content
<1>2. ASSUME NEW s \in Runner, alone'[s]  PROVE Replaces(s)'
  <2>1. CASE s = r  BY <1>2, <2>1 DEF content
  <2>2. CASE s # r
    <3>1. run'[s] = run[s] /\ Replaces(s)  BY <1>2, <2>2 DEF Others, SoloInv, content
    <3>2. QED  BY <3>1 DEF Replaces, content
  <2>3. QED  BY <2>1, <2>2
<1>3. QED  BY <1>1, <1>2 DEF SoloInv

\* A step of r that does leaves nobody else alone.
LEMMA SoloWrote ==
    ASSUME SoloInv, NEW r \in Runner, Wrote(r), tidy' => Tidy', alone[r] => Replaces(r)'
    PROVE  SoloInv'
<1>1. ASSUME NEW s \in Runner, alone'[s]  PROVE s = r /\ alone[s]
  BY <1>1, Zenon DEF Wrote
<1>2. \A s \in Runner : alone'[s] => Replaces(s)'
  <2> SUFFICES ASSUME NEW s \in Runner, alone'[s] PROVE Replaces(s)'  OBVIOUS
  <2>1. s = r /\ alone[r]  BY <1>1
  <2>2. QED  BY <2>1
<1>3. QED  BY <1>2 DEF SoloInv

LEMMA MaxVersionBounds ==
    ASSUME TypeOK, VersionsBounded
    PROVE  \A c \in chunks : c.version <= MaxVersion
<1> DEFINE S == {0} \cup {c.version : c \in chunks}
<1>1. S \subseteq Nat /\ S # {}  BY DEF TypeOK, ChunkSet
<1>2. PICK n \in Nat : \A c \in chunks : c.version <= n  BY DEF VersionsBounded
<1>3. \A x \in S : x <= n  BY <1>2
<1>4. \E v \in S : \A y \in S : y <= v
  <2> HIDE DEF S
  <2> QED  BY <1>1, <1>3, GreatestNumber
<1>5. \E v \in S : \A c \in chunks : c.version <= v  BY <1>4
<1>6. QED  BY <1>5 DEF MaxVersion

-----------------------------------------------------------------------------
\* The steps that write a content table or read one in order to write another.
LEMMA SoloExtract ==
    ASSUME TypeInv, SoloInv, NEW r \in Runner, BeginExtract(r) \/ CommitExtract(r)
    PROVE  SoloInv'
<1>0. run \in [Runner -> Run]  BY DEF TypeInv, TypeOK
<1>1. CASE BeginExtract(r)
  <2>1. run'[r].at = "replacing" /\ run'[r].seenExtracted = extracted
    BY <1>0, <1>1 DEF BeginExtract, Run
  <2>2. (extracted' = {} \/ extracted' = extracted) /\ UNCHANGED <<normalized, chunks, tidy>>
    BY <1>1 DEF BeginExtract
  <2>3. Replaces(r)'  BY <2>1, <2>2 DEF Replaces
  <2>4. tidy' => Tidy'  BY <2>2 DEF SoloInv, Tidy
  <2>5. ASSUME NEW s \in Runner, s # r, alone'[s]  PROVE Replaces(s)'
    <3>1. alone[s] /\ ~Streaming  BY <1>1, <2>5, Zenon DEF BeginExtract
    <3>2. UNCHANGED <<extracted, normalized, chunks>>  BY <1>1, <3>1 DEF BeginExtract
    <3>3. run'[s] = run[s]  BY <1>0, <1>1, <2>5 DEF BeginExtract
    <3>4. Replaces(s)  BY <3>1 DEF SoloInv
    <3>5. QED  BY <3>2, <3>3, <3>4 DEF Replaces
  <2>6. QED  BY <2>3, <2>4, <2>5 DEF SoloInv
<1>2. CASE CommitExtract(r)
  <2>1. run'[r].at = "normalize"  BY <1>0, <1>2 DEF CommitExtract, Run
  <2>2. /\ extracted' = (extracted \ run[r].seenExtracted) \cup {run[r].id}
        /\ UNCHANGED <<chunks, tidy>> /\ Wrote(r) /\ run[r].at = "replacing"
    BY <1>2 DEF CommitExtract
  <2>3. alone[r] => Replaces(r)'
    BY <2>1, <2>2 DEF SoloInv, Replaces, AtMostOne
  <2>4. tidy' => Tidy'  BY <2>2 DEF SoloInv, Tidy
  <2>5. QED  BY <2>2, <2>3, <2>4, SoloWrote
<1>3. QED  BY <1>1, <1>2

LEMMA SoloNormalize ==
    ASSUME TypeInv, SoloInv, NEW r \in Runner,
           ClearNormalized(r) \/ ReadExtracted(r) \/ InsertNormalized(r)
    PROVE  SoloInv'
<1>0. run \in [Runner -> Run]  BY DEF TypeInv, TypeOK
<1>1. CASE ClearNormalized(r)
  <2>1. run'[r].at = "copying"  BY <1>0, <1>1 DEF ClearNormalized, Goto, Run
  <2>2. /\ normalized' = {} /\ UNCHANGED <<extracted, chunks, tidy>> /\ Wrote(r)
        /\ run[r].at = "normalizing"
    BY <1>1 DEF ClearNormalized
  <2>3. alone[r] => Replaces(r)'  BY <2>1, <2>2 DEF SoloInv, Replaces
  <2>4. tidy' => Tidy'  BY <2>2 DEF SoloInv, Tidy
  <2>5. QED  BY <2>2, <2>3, <2>4, SoloWrote
<1>2. CASE ReadExtracted(r)
  <2>1. run'[r].at = "inserting" /\ run'[r].seenExtracted = extracted
    BY <1>0, <1>2 DEF ReadExtracted, Run
  <2>2. UNCHANGED content /\ run[r].at = "copying"  BY <1>2 DEF ReadExtracted
  <2>3. alone[r] => Replaces(r)'  BY <2>1, <2>2 DEF SoloInv, Replaces, content
  <2>4. Others(r)  BY <1>2, OthersStay DEF Work
  <2>5. QED  BY <2>2, <2>3, <2>4, SoloKept
<1>3. CASE InsertNormalized(r)
  <2>1. run'[r].at = "chunk"  BY <1>0, <1>3 DEF InsertNormalized, Run
  <2>2. /\ normalized' = normalized \cup {<<run[r].id, e>> : e \in run[r].seenExtracted}
        /\ UNCHANGED <<extracted, chunks, tidy>> /\ Wrote(r)
        /\ run[r].at = "inserting"
    BY <1>3 DEF InsertNormalized
  <2>3. alone[r] => AtMostOne(normalized')
    BY <2>2 DEF SoloInv, Replaces, AtMostOne
  <2>4. alone[r] => Replaces(r)'  BY <2>1, <2>3 DEF Replaces
  <2>5. tidy' => Tidy'  BY <2>2 DEF SoloInv, Tidy
  <2>6. QED  BY <2>2, <2>4, <2>5, SoloWrote
<1>4. QED  BY <1>1, <1>2, <1>3

LEMMA SoloChunk ==
    ASSUME TypeInv, SoloInv, NEW r \in Runner,
           ReadNormalized(r) \/ ReadVersion(r) \/ BeginRechunk(r) \/ CommitRechunk(r)
    PROVE  SoloInv'
<1>0. run \in [Runner -> Run]  BY DEF TypeInv, TypeOK
<1>1. CASE ReadNormalized(r)
  <2>1. run'[r].at = "versioning" /\ run'[r].seenNormal = normalized
    BY <1>0, <1>1 DEF ReadNormalized, Run
  <2>2. normalized # {} /\ UNCHANGED content /\ run[r].at = "chunking"
    BY <1>1 DEF ReadNormalized
  <2>3. alone[r] => Replaces(r)'  BY <2>1, <2>2 DEF SoloInv, Replaces
  <2>4. Others(r)  BY <1>1, OthersStay DEF Work
  <2>5. QED  BY <2>2, <2>3, <2>4, SoloKept
<1>2. CASE ReadVersion(r)
  <2>1. /\ run'[r].at = "deleting" /\ run'[r].seenNormal = run[r].seenNormal
        /\ run'[r].version = MaxVersion + 1
    BY <1>0, <1>2 DEF ReadVersion, Run
  <2>2. UNCHANGED content /\ run[r].at = "versioning"  BY <1>2 DEF ReadVersion
  <2>3. \A c \in chunks : c.version < MaxVersion + 1
    <3>1. MaxVersion \in Nat /\ \A c \in chunks : c.version \in Nat
      BY MaxVersionType DEF TypeInv, TypeOK, ChunkSet
    <3>2. \A c \in chunks : c.version <= MaxVersion  BY MaxVersionBounds DEF TypeInv
    <3>3. QED  BY <3>1, <3>2
  <2>4. alone[r] => Replaces(r)'
    BY <2>1, <2>2, <2>3 DEF SoloInv, Replaces, content
  <2>5. Others(r)  BY <1>2, OthersStay DEF Work
  <2>6. QED  BY <2>2, <2>4, <2>5, SoloKept
<1>3. CASE BeginRechunk(r)
  <2>1. /\ run'[r].at = "rechunking" /\ run'[r].seenChunks = chunks
        /\ run'[r].seenNormal = run[r].seenNormal /\ run'[r].version = run[r].version
    BY <1>0, <1>3 DEF BeginRechunk, Run
  <2>2. UNCHANGED content /\ run[r].at = "deleting"  BY <1>3 DEF BeginRechunk
  <2>3. alone[r] => Replaces(r)'  BY <2>1, <2>2 DEF SoloInv, Replaces, content
  <2>4. Others(r)  BY <1>3, OthersStay DEF Work
  <2>5. QED  BY <2>2, <2>3, <2>4, SoloKept
<1>4. CASE CommitRechunk(r)
  <2> DEFINE c == [version |-> run[r].version, by |-> run[r].id,
                   from |-> run[r].seenNormal]
  <2>1. run'[r].at = "validate"  BY <1>0, <1>4 DEF CommitRechunk, Run
  <2>2. /\ chunks' = (chunks \ run[r].seenChunks) \cup {c} /\ tidy' = alone[r]
        /\ Wrote(r) /\ run[r].at = "rechunking" /\ c.from = run[r].seenNormal
    BY <1>4 DEF CommitRechunk
  <2> HIDE DEF c
  <2>3. alone[r] => Replaces(r)'  BY <2>1 DEF Replaces
  <2>4. tidy' => Tidy'  BY <2>2 DEF SoloInv, Replaces, Tidy, AtMostOne
  <2>5. QED  BY <2>2, <2>3, <2>4, SoloWrote
<1>5. QED  BY <1>1, <1>2, <1>3, <1>4

\* The other steps of a thread leave the content as it is and write nothing next.
LEMMA SoloOther ==
    ASSUME TypeInv, SoloInv, NEW r \in Runner,
           \/ \E q \in Request : Deliver(r, q)
           \/ Start(r) \/ StartStep(r) \/ Validate(r) \/ StepFails(r)
           \/ Finish(r) \/ Disturb(r)
    PROVE  SoloInv'
<1>0. run \in [Runner -> Run]  BY DEF TypeInv, TypeOK
<1>1. Others(r)  BY OthersStay DEF Work
<1>2. ASSUME UNCHANGED content, run'[r].at \notin Replacing  PROVE SoloInv'
  <2>1. Replaces(r)'  BY <1>2 DEF Replaces, Replacing
  <2>2. QED  BY <1>1, <1>2, <2>1, SoloKept
<1>3. CASE \E q \in Request : Deliver(r, q)
  BY <1>0, <1>2, <1>3 DEF Deliver, IdleRun, Replacing
<1>4. CASE Start(r)
  BY <1>0, <1>2, <1>4 DEF Start, ReadLatest, CheckActive, CreateJob, QueueJob, SetStatus,
                          Goto, Run, Replacing, content
<1>5. CASE StartStep(r)
  <2>1. UNCHANGED content  BY <1>5 DEF StartStep, SetStatus
  <2>2. alone[r] => Replaces(r)'
    BY <1>0, <1>5 DEF StartStep, SetStatus, Goto, Run, SoloInv, Replaces, content
  <2>3. QED  BY <1>1, <2>1, <2>2, SoloKept
<1>6. CASE Validate(r) \/ StepFails(r)
  BY <1>0, <1>2, <1>6 DEF Validate, StepFails, Run, Replacing
<1>7. CASE Finish(r)
  BY <1>0, <1>2, <1>7 DEF Finish, MarkCompleted, EmitDiscovery, MarkFailed, EmitFailed,
                          Return, SetStatus, Goto, IdleRun, Run, Replacing, content
<1>8. CASE EmitFails(r) \/ Raise(r) \/ Crash(r)
  BY <1>0, <1>2, <1>8 DEF EmitFails, Raise, Crash, Goto, IdleRun, Run, Replacing, content
<1>9. CASE TimeOut(r)
  <2>1. UNCHANGED content  BY <1>9 DEF TimeOut
  <2>2. /\ run'[r].at = run[r].at /\ run'[r].version = run[r].version
        /\ run'[r].seenExtracted = run[r].seenExtracted
        /\ run'[r].seenNormal = run[r].seenNormal
        /\ run'[r].seenChunks = run[r].seenChunks
    BY <1>0, <1>9 DEF TimeOut, Run
  <2>3. alone[r] => Replaces(r)'  BY <2>1, <2>2 DEF SoloInv, Replaces, content
  <2>4. QED  BY <1>1, <2>1, <2>3, SoloKept
<1>10. QED  BY <1>3, <1>4, <1>5, <1>6, <1>7, <1>8, <1>9 DEF Disturb

LEMMA SoloInit == Init => SoloInv
<1> SUFFICES ASSUME Init PROVE SoloInv  OBVIOUS
<1>1. \A r \in Runner : ~alone[r]  BY Zenon DEF Init
<1>2. Tidy  BY DEF Init, Tidy, AtMostOne
<1>3. QED  BY <1>1, <1>2 DEF SoloInv

LEMMA SoloStep == TypeInv /\ SoloInv /\ [Next]_vars => SoloInv'
<1> SUFFICES ASSUME TypeInv, SoloInv, [Next]_vars PROVE SoloInv'  OBVIOUS
<1>1. ASSUME NEW r \in Runner, Work(r)  PROVE SoloInv'
  BY <1>1, SoloExtract, SoloNormalize, SoloChunk, SoloOther DEF Work
<1>2. ASSUME NEW r \in Runner,
             (\E q \in Request : Deliver(r, q)) \/ Start(r) \/ Finish(r) \/ Disturb(r)
      PROVE  SoloInv'
  BY <1>2, SoloOther
<1>3. ASSUME UNCHANGED <<run, content>>  PROVE SoloInv'
  BY <1>3 DEF SoloInv, Tidy, Replaces, content
<1>4. CASE Retry
  BY <1>3, <1>4 DEF Retry, CheckRetryable, IncrementRetry, EmitRetry, RetryDies
<1>5. ASSUME NEW j \in JobId, Discover(j)  PROVE SoloInv'  BY <1>3, <1>5 DEF Discover
<1>6. CASE UNCHANGED vars  BY <1>3, <1>6 DEF vars, content
<1>7. QED  BY <1>1, <1>2, <1>4, <1>5, <1>6 DEF Next

LEMMA SoloInvariant == Spec => []SoloInv
<1>1. TypeInv /\ SoloInv /\ [Next]_vars => SoloInv'  BY SoloStep
<1>2. QED  BY <1>1, SoloInit, TypeInvariant, PTL DEF Spec

\* The document is in the chunk table once whenever its last writer was alone,
\* whatever the other threads, crashed, timed out or ahead of it, have left in the
\* tables before: every step replaces the item's rows.
THEOREM DocumentOnce == Spec => []SingleCopy
<1>1. ASSUME NEW S, AtMostOne(S)  PROVE Cardinality(S) <= 1
  <2>1. CASE S = {}  BY <2>1, FS_EmptySet
  <2>2. CASE S # {}
    <3>1. PICK x \in S : TRUE  BY <2>2
    <3>2. S = {x}  BY <1>1, <3>1 DEF AtMostOne
    <3>3. QED  BY <3>2, FS_Singleton
  <2>3. QED  BY <2>1, <2>2
<1>2. ASSUME NEW S, AtMostOne(S), S # {}  PROVE Cardinality(S) = 1
  <2>1. PICK x \in S : TRUE  BY <1>2
  <2>2. S = {x}  BY <1>2, <2>1 DEF AtMostOne
  <2>3. QED  BY <2>2, FS_Singleton
<1>3. SoloInv => SingleCopy
  BY <1>1, <1>2 DEF SoloInv, Tidy, SingleCopy
<1>4. QED  BY <1>3, SoloInvariant, PTL

\* A thread that rewrites the chunk table alone writes a version above all it finds
\* there: nobody has written between its reading of the highest and its commit.
THEOREM VersionsGrow == Spec => ChunkVersionGrows
<1> DEFINE Grows == chunks' # chunks /\ tidy' =>
                      \A c \in chunks, d \in chunks' \ chunks : c.version < d.version
<1>1. ASSUME SoloInv, [Next]_vars  PROVE [Grows]_vars
  <2>1. ASSUME NEW r \in Runner, CommitRechunk(r)  PROVE Grows
    <3> SUFFICES ASSUME tidy', NEW c \in chunks, NEW d \in chunks' \ chunks
                 PROVE  c.version < d.version
      OBVIOUS
    <3>1. d.version = run[r].version  BY <2>1 DEF CommitRechunk
    <3>2. alone[r]  BY <2>1 DEF CommitRechunk
    <3>3. c.version < run[r].version
      BY <1>1, <2>1, <3>2 DEF CommitRechunk, SoloInv, Replaces
    <3>4. QED  BY <3>1, <3>3
  <2>2. ASSUME Next, \A r \in Runner : ~CommitRechunk(r)  PROVE chunks' = chunks
    <3>1. ASSUME NEW r \in Runner, NEW q \in Request, Deliver(r, q)  PROVE chunks' = chunks
      BY <3>1 DEF Deliver, content
    <3>2. ASSUME NEW r \in Runner, Start(r)  PROVE chunks' = chunks
      BY <3>2 DEF Start, ReadLatest, CheckActive, CreateJob, QueueJob, SetStatus, content
    <3>3. ASSUME NEW r \in Runner, Work(r)  PROVE chunks' = chunks
      BY <2>2, <3>3 DEF Work, StartStep, SetStatus, BeginExtract, CommitExtract,
                        ClearNormalized, ReadExtracted, InsertNormalized, ReadNormalized,
                        ReadVersion, BeginRechunk, Validate, StepFails, content
    <3>4. ASSUME NEW r \in Runner, Finish(r) \/ Disturb(r)  PROVE chunks' = chunks
      BY <3>4 DEF Finish, Disturb, MarkCompleted, EmitDiscovery, MarkFailed, EmitFailed,
                  Return, EmitFails, Raise, TimeOut, Crash, SetStatus, content
    <3>5. CASE Retry
      BY <3>5 DEF Retry, CheckRetryable, IncrementRetry, EmitRetry, RetryDies, content
    <3>6. ASSUME NEW j \in JobId, Discover(j)  PROVE chunks' = chunks
      BY <3>6 DEF Discover, content
    <3>7. QED  BY <2>2, <3>1, <3>2, <3>3, <3>4, <3>5, <3>6 DEF Next
  <2>3. QED  BY <1>1, <2>1, <2>2 DEF vars
<1>2. QED  BY <1>1, SoloInvariant, PTL DEF Spec, ChunkVersionGrows

-----------------------------------------------------------------------------
(* A success is announced.                                                 *)

\* Jobs are numbered in the order of their creation; a thread and the retry call
\* work for one there is.
JobsInv ==
    /\ \E k \in 0 .. MaxJobs : Created = 1 .. k
    /\ client.at = "checked" => client.job \in Created
    /\ \A r \in Runner : run[r].at \in HasJob => run[r].job \in Created

\* The latest job has succeeded, and nobody has announced it or is about to.
Forgotten(j) ==
    /\ IsLatest(j) /\ job[j].status \in Success /\ discovery[j] = "none"
    /\ \A r \in Runner : run[r].at = "emit" => run[r].job # j

\* Then no thread is at work, and an older job is in the way, or a request has not
\* been settled and no thread is about to acknowledge one.
Pending ==
    /\ \A r \in Runner : run[r].at \notin HasJob
    /\ \/ Active # {}
       \/ /\ \A r \in Runner : run[r].at # "return"
          /\ \E q \in Request : request[q].state \in {"open", "dead"}

Noticed == \A j \in JobId : Forgotten(j) => Pending

AnnounceInv == JobsInv /\ (~lost /\ ~orphaned => Noticed)

LEMMA JobFacts ==
    ASSUME TypeInv
    PROVE  /\ JobId \subseteq Nat /\ Created \subseteq JobId
           /\ job \in [JobId -> [status : Status, retries : Nat]]
           /\ run \in [Runner -> Run]
           /\ \A r \in Runner : run[r].req \in Request
           /\ \A r \in Runner : run[r].at \in HasJob => run[r].job \in JobId
BY DEF JobId, Created, TypeInv, TypeOK, RunOK, Run

\* Giving a job another status.
LEMMA StatusUpdate ==
    ASSUME TypeInv, NEW j \in JobId, NEW s,
           job' = [job EXCEPT ![j].status = s]
    PROVE  job'[j].status = s /\ \A i \in JobId \ {j} : job'[i] = job[i]
BY DEF TypeInv, TypeOK

\* Giving a status to a job there is changes no number.
LEMMA SameJobs ==
    ASSUME TypeInv, NEW j \in Created, NEW s, s # "none",
           \/ job' = [job EXCEPT ![j].status = s]
           \/ \E n \in Nat : job' = [job EXCEPT ![j] = [status |-> s, retries |-> n]]
    PROVE  /\ Created' = Created
           /\ job'[j].status = s /\ \A i \in JobId \ {j} : job'[i] = job[i]
<1>1. j \in JobId /\ job[j].status # "none"  BY DEF Created
<1>2. job'[j].status = s /\ \A i \in JobId \ {j} : job'[i] = job[i]
  BY <1>1 DEF TypeInv, TypeOK
<1>3. \A i \in JobId : job'[i].status # "none" <=> job[i].status # "none"
  BY <1>1, <1>2
<1>4. Created' = Created  BY <1>3 DEF Created
<1>5. QED  BY <1>2, <1>4

LEMMA GotoMoves ==
    ASSUME TypeInv, NEW r \in Runner, NEW place, Goto(r, place)
    PROVE  run'[r].at = place /\ run'[r].job = run[r].job
BY DEF TypeInv, TypeOK, Run, Goto

\* A step of the pipeline that gives no job another status.
LEMMA WorkMoves ==
    ASSUME TypeInv, NEW r \in Runner, Work(r), ~StartStep(r)
    PROVE  /\ run[r].at \in HasJob \ {"emit"} /\ run'[r].at \in HasJob \ {"emit"}
           /\ run'[r].job = run[r].job /\ UNCHANGED <<job, request, client, discovery>>
<1>0. run \in [Runner -> Run]  BY DEF TypeInv, TypeOK
<1>1. CASE BeginExtract(r) \/ CommitExtract(r)
  BY <1>0, <1>1 DEF BeginExtract, CommitExtract, Run, HasJob, Place, downstream
<1>2. CASE ClearNormalized(r) \/ ReadExtracted(r) \/ InsertNormalized(r)
  BY <1>0, <1>2 DEF ClearNormalized, ReadExtracted, InsertNormalized, Goto, Run, HasJob,
                    Place, downstream
<1>3. CASE ReadNormalized(r) \/ ReadVersion(r) \/ BeginRechunk(r) \/ CommitRechunk(r)
  BY <1>0, <1>3 DEF ReadNormalized, ReadVersion, BeginRechunk, CommitRechunk, Run, HasJob,
                    Place, downstream
<1>4. CASE Validate(r)
  BY <1>0, <1>4 DEF Validate, Run, HasJob, Place, downstream
<1>5. CASE StepFails(r)
  BY <1>0, <1>5 DEF StepFails, Run, HasJob, Place, downstream
<1>6. QED  BY <1>1, <1>2, <1>3, <1>4, <1>5 DEF Work

\* A status update, of a job that succeeds only on the way to its announcement.
Update(r) ==
    \E status \in Status \ {"none"}, to \in HasJob :
      /\ run[r].at \in HasJob \ {"emit"}
      /\ job' = [job EXCEPT ![run[r].job].status = status]
      /\ Goto(r, to)
      /\ UNCHANGED <<client, discovery>>
      /\ status \in Success => to = "emit"

LEMMA Updates ==
    ASSUME TypeInv, NEW r \in Runner,
           QueueJob(r) \/ StartStep(r) \/ MarkCompleted(r) \/ MarkFailed(r)
    PROVE  Update(r)
<1>1. ASSUME NEW from \in HasJob \ {"emit"}, NEW status \in Status \ {"none"},
             NEW to \in HasJob, SetStatus(r, from, status, to), status \in Success => to = "emit"
      PROVE  Update(r)
  BY <1>1 DEF SetStatus, Update, downstream
<1>2. CASE QueueJob(r)
  <2>1. "queued" \in Status \ {"none"} /\ "queued" \notin Success
    BY DEF Status, Success
  <2>2. QED  BY <1>1, <1>2, <2>1 DEF QueueJob, HasJob, Place
<1>3. CASE StartStep(r)
  <2>1. Working \subseteq Status \ {"none"} /\ Working \cap Success = {}
    BY DEF Status, Working, Success
  <2>2. PICK from \in {"extract", "normalize", "chunk", "validate"}, status \in Working,
             to \in {"extracting", "normalizing", "chunking", "validating"} :
               SetStatus(r, from, status, to)
    BY <1>3 DEF StartStep, Working
  <2>3. from \in HasJob \ {"emit"} /\ to \in HasJob  BY DEF HasJob, Place
  <2>4. QED  BY <1>1, <2>1, <2>2, <2>3
<1>4. CASE MarkCompleted(r)
  <2>1. SetStatus(r, "complete", run[r].outcome, "emit") /\ run[r].outcome \in Success
    BY <1>4 DEF MarkCompleted, SetStatus, TypeInv, RunOK
  <2>2. run[r].outcome \in Status \ {"none"}  BY <2>1 DEF Status, Terminal, Success
  <2>3. "complete" \in HasJob \ {"emit"} /\ "emit" \in HasJob  BY DEF HasJob, Place
  <2>4. QED  BY <1>1, <2>1, <2>2, <2>3
<1>5. CASE MarkFailed(r)
  <2>1. /\ SetStatus(r, "fail", run[r].outcome, "announce")
        /\ run[r].outcome \in {"failed", "retryable"}
    BY <1>5 DEF MarkFailed, SetStatus, TypeInv, RunOK
  <2>2. run[r].outcome \in Status \ {"none"} /\ run[r].outcome \notin Success
    BY <2>1 DEF Status, Terminal, Success
  <2>3. "fail" \in HasJob \ {"emit"} /\ "announce" \in HasJob  BY DEF HasJob, Place
  <2>4. QED  BY <1>1, <2>1, <2>2, <2>3
<1>6. QED  BY <1>2, <1>3, <1>4, <1>5

-----------------------------------------------------------------------------
\* How a step of a thread leaves Forgotten, by what it does to the job table, the
\* discovery events and the thread.
LEMMA ForgottenKept ==
    ASSUME NEW r \in Runner, NEW j \in JobId, Forgotten(j)', Others(r),
           job'[j] = job[j], discovery'[j] = discovery[j], Created' = Created,
           run[r].at = "emit" => run[r].job # j
    PROVE  Forgotten(j)
<1>1. IsLatest(j)  BY DEF Forgotten, IsLatest
<1>2. ASSUME NEW s \in Runner, run[s].at = "emit"  PROVE run[s].job # j
  BY <1>2 DEF Others, Forgotten
<1>3. QED  BY <1>1, <1>2 DEF Forgotten

\* A thread that is at work is in nobody's way: its steps forget nothing.
LEMMA WorkNotices ==
    ASSUME TypeInv, JobsInv, Noticed, NEW r \in Runner, run[r].at \in HasJob, Others(r),
           \/ Update(r)
           \/ EmitDiscovery(r)
           \/ UNCHANGED <<job, discovery>> /\ run[r].at # "emit"
           \/ TimeOut(r)
    PROVE  Noticed'
<1>0. /\ run \in [Runner -> Run] /\ run[r].job \in Created /\ run[r].job \in JobId
      /\ discovery \in [JobId -> {"none", "open", "done"}]
  BY JobFacts DEF JobsInv, TypeInv, TypeOK
<1> SUFFICES ASSUME NEW j \in JobId, Forgotten(j)' PROVE FALSE  BY DEF Noticed
<1>1. Forgotten(j)
  <2>1. CASE Update(r)
    <3>1. PICK status \in Status \ {"none"}, to \in HasJob :
             /\ run[r].at # "emit"
             /\ job' = [job EXCEPT ![run[r].job].status = status]
             /\ Goto(r, to) /\ discovery' = discovery
             /\ status \in Success => to = "emit"
      BY <2>1 DEF Update
    <3>2. /\ Created' = Created /\ job'[run[r].job].status = status
          /\ \A i \in JobId \ {run[r].job} : job'[i] = job[i]
      BY <1>0, <3>1, SameJobs
    <3>3. run'[r].at = to /\ run'[r].job = run[r].job  BY <3>1, GotoMoves
    <3>4. j # run[r].job  BY <3>1, <3>2, <3>3 DEF Forgotten
    <3>5. job'[j] = job[j] /\ discovery'[j] = discovery[j]  BY <3>1, <3>2, <3>4
    <3>6. QED  BY <3>1, <3>2, <3>5, ForgottenKept
  <2>2. CASE EmitDiscovery(r)
    <3>1. job' = job /\ Created' = Created  BY <2>2 DEF EmitDiscovery, Created
    <3>2. discovery'[run[r].job] # "none"  BY <1>0, <2>2 DEF EmitDiscovery
    <3>3. j # run[r].job  BY <3>2 DEF Forgotten
    <3>4. discovery'[j] = discovery[j]  BY <1>0, <2>2, <3>3 DEF EmitDiscovery
    <3>5. QED  BY <3>1, <3>3, <3>4, ForgottenKept
  <2>3. CASE UNCHANGED <<job, discovery>> /\ run[r].at # "emit"
    BY <2>3, ForgottenKept DEF Created
  <2>4. CASE TimeOut(r)
    <3>1. UNCHANGED <<job, discovery>>  BY <2>4 DEF TimeOut, downstream
    <3>2. run'[r].at = run[r].at /\ run'[r].job = run[r].job
      BY <1>0, <2>4 DEF TimeOut, Run
    <3>3. run[r].at = "emit" => run[r].job # j  BY <3>2 DEF Forgotten
    <3>4. QED  BY <3>1, <3>3, ForgottenKept DEF Created
  <2>5. QED  BY <2>1, <2>2, <2>3, <2>4
<1>2. QED  BY <1>1 DEF Noticed, Pending

\* A thread that is not at work, and does not begin to, leaves things pending.
LEMMA IdleNotices ==
    ASSUME Noticed, NEW r \in Runner, run[r].at \notin HasJob, Others(r),
           UNCHANGED <<job, discovery>>, run'[r].at \notin HasJob,
           run'[r].at = "return" => run[r].at = "return" \/ Active # {},
           run[r].at = "return" \/ \A q \in Request :
             request[q].state \in {"open", "dead"} => request'[q].state \in {"open", "dead"}
    PROVE  Noticed'
<1> SUFFICES ASSUME NEW j \in JobId, Forgotten(j)' PROVE Pending'  BY DEF Noticed
<1>1. Created' = Created /\ Active' = Active  BY DEF Created, Active
<1>2. Forgotten(j)  BY <1>1, ForgottenKept DEF HasJob, Place
<1>3. Pending  BY <1>2 DEF Noticed
<1>4. \A s \in Runner : run'[s].at \notin HasJob  BY <1>3 DEF Pending, Others
<1>5. CASE Active # {}  BY <1>1, <1>4, <1>5 DEF Pending
<1>6. CASE Active = {}
  <2>1. \A s \in Runner : run[s].at # "return"  BY <1>3, <1>6 DEF Pending
  <2>2. \A s \in Runner : run'[s].at # "return"  BY <1>6, <2>1 DEF Others
  <2>3. \E q \in Request : request'[q].state \in {"open", "dead"}
    BY <1>3, <1>6, <2>1 DEF Pending
  <2>4. QED  BY <1>4, <2>2, <2>3 DEF Pending
<1>7. QED  BY <1>5, <1>6

\* A thread that dies before its announcement, with nobody else about and under a
\* request that is still open.
LEMMA CrashNotices ==
    ASSUME TypeInv, JobsInv, Noticed, NEW r \in Runner, Crash(r), ~orphaned'
    PROVE  Noticed'
<1>0. run \in [Runner -> Run] /\ run[r].req \in Request  BY JobFacts
<1>1. Others(r)  BY OthersStay DEF Disturb
<1>2. /\ UNCHANGED <<job, discovery, request>> /\ run'[r].at = "idle"
      /\ run[r].at # "idle"
  BY <1>0 DEF Crash, IdleRun
<1>3. CASE run[r].at = "emit"
  <2>1. /\ request[run[r].req].state = "open"
        /\ \A s \in Runner \ {r} : run[s].at = "idle"
    BY <1>3, Zenon DEF Crash
  <2>2. \A s \in Runner : run'[s].at = "idle"  BY <1>1, <1>2, <2>1 DEF Others
  <2>3. Pending'  BY <1>0, <1>2, <2>1, <2>2 DEF Pending, HasJob
  <2>4. QED  BY <2>3 DEF Noticed
<1>4. CASE run[r].at \in HasJob \ {"emit"}  BY <1>1, <1>2, <1>4, WorkNotices
<1>5. CASE run[r].at \notin HasJob
  BY <1>1, <1>2, <1>5, IdleNotices DEF HasJob
<1>6. QED  BY <1>3, <1>4, <1>5 DEF HasJob, Place

\* A new job is the latest, and has not succeeded.
LEMMA CreateNotices ==
    ASSUME TypeInv, JobsInv, NEW r \in Runner, CreateJob(r)
    PROVE  JobsInv' /\ Noticed'
<1>0. run \in [Runner -> Run]  BY DEF TypeInv, TypeOK
<1>1. PICK k \in 0 .. MaxJobs : Created = 1 .. k  BY DEF JobsInv
<1>2. k \in Nat /\ MaxJobs \in Nat  BY <1>1, UnderstandingAssumption
<1>3. Cardinality(Created) + 1 = k + 1
  <2>1. Cardinality(1 .. k) = k  BY <1>2, FS_Interval
  <2>2. QED  BY <1>1, <2>1
<1> DEFINE j == k + 1
<1>4. /\ j \in JobId /\ job' = [job EXCEPT ![j].status = "created"]
      /\ run' = [run EXCEPT ![r].at = "queue", ![r].job = j]
      /\ UNCHANGED client
  BY <1>3 DEF CreateJob
<1>5. k + 1 <= MaxJobs  BY <1>2, <1>4 DEF JobId
<1>6. j \notin Created  BY <1>1, <1>2
<1>7. job[j].status = "none"  BY <1>4, <1>6 DEF Created
<1>8. job'[j].status = "created" /\ \A i \in JobId \ {j} : job'[i] = job[i]
  BY <1>4, StatusUpdate
<1>9. Created' = Created \cup {j}
  <2>1. \A i \in JobId : job'[i].status # "none" <=> i = j \/ job[i].status # "none"
    BY <1>7, <1>8
  <2>2. QED  BY <2>1, <1>4 DEF Created
<1>10. Created' = 1 .. j
  BY <1>1, <1>2, <1>9
<1>11. run'[r].at = "queue" /\ run'[r].job = j /\ \A s \in Runner \ {r} : run'[s] = run[s]
  <2> HIDE DEF j
  <2> QED  BY <1>0, <1>4 DEF Run
<1>12. JobsInv'
  <2>1. \E n \in 0 .. MaxJobs : Created' = 1 .. n  BY <1>2, <1>5, <1>10
  <2> HIDE DEF j
  <2>2. client'.at = "checked" => client'.job \in Created'  BY <1>4, <1>9 DEF JobsInv
  <2>3. \A s \in Runner : run'[s].at \in HasJob => run'[s].job \in Created'
    BY <1>9, <1>11 DEF JobsInv
  <2>4. QED  BY <2>1, <2>2, <2>3 DEF JobsInv
<1>13. Noticed'
  <2> SUFFICES ASSUME NEW i \in JobId, Forgotten(i)' PROVE FALSE  BY DEF Noticed
  <2>1. i \in Created' /\ \A e \in Created' : e <= i  BY DEF Forgotten, IsLatest
  <2>2. i = j  BY <1>2, <1>10, <2>1
  <2>3. job'[i].status \in Success  BY DEF Forgotten
  <2>4. QED  BY <1>8, <2>2, <2>3 DEF Success
<1>14. QED  BY <1>12, <1>13

\* The jobs there are, and who works for them, when none is created.
LEMMA JobsKept ==
    ASSUME JobsInv, Created' = Created, client' = client,
           NEW r \in Runner, Others(r), run'[r].at \in HasJob => run'[r].job \in Created
    PROVE  JobsInv'
BY DEF JobsInv, Others

-----------------------------------------------------------------------------
LEMMA AnnounceStart ==
    ASSUME TypeInv, JobsInv, NEW r \in Runner,
           ReadLatest(r) \/ CheckActive(r)
    PROVE  JobsInv' /\ (Noticed => Noticed')
<1>0. run \in [Runner -> Run]  BY DEF TypeInv, TypeOK
<1>1. Others(r)  BY OthersStay DEF Start
<1>2. UNCHANGED <<job, discovery, request, client>> /\ run[r].at \in {"latest", "active"}
  BY DEF ReadLatest, CheckActive, downstream
<1>3. Created' = Created  BY <1>2 DEF Created
<1>4. CASE run'[r].at \notin HasJob
  <2>1. run'[r].at = "return" => Active # {}
    BY <1>0 DEF ReadLatest, CheckActive, Goto, Run
  <2>2. Noticed => Noticed'  BY <1>1, <1>2, <1>4, <2>1, IdleNotices DEF HasJob
  <2>3. QED  BY <1>1, <1>2, <1>3, <1>4, <2>2, JobsKept
<1>5. CASE run'[r].at \in HasJob
  <2>1. PICK i \in Created : /\ IsLatest(i) /\ job[i].status = "queued"
                             /\ run' = [run EXCEPT ![r].at = "extract", ![r].job = i]
    BY <1>0, <1>5 DEF ReadLatest, CheckActive, Goto, Run, HasJob
  <2>2. run'[r].job = i  BY <1>0, <2>1 DEF Run
  <2>3. JobsInv'  BY <1>1, <1>2, <1>3, <2>2, JobsKept
  <2>4. Noticed'
    <3> SUFFICES ASSUME NEW j \in JobId, Forgotten(j)' PROVE FALSE  BY DEF Noticed
    <3>1. IsLatest(j) /\ job[j].status \in Success
      BY <1>2, <1>3 DEF Forgotten, IsLatest
    <3>2. i \in Nat /\ j \in Nat  BY DEF Created, JobId
    <3>3. i <= j /\ j <= i  BY <2>1, <3>1 DEF IsLatest
    <3>4. QED  BY <2>1, <3>1, <3>2, <3>3 DEF Success
  <2>5. QED  BY <2>3, <2>4
<1>6. QED  BY <1>4, <1>5

LEMMA AnnounceUpdate ==
    ASSUME TypeInv, JobsInv, NEW r \in Runner, Others(r), Update(r)
    PROVE  JobsInv' /\ (Noticed => Noticed')
<1>1. run[r].at \in HasJob /\ run[r].job \in Created /\ client' = client
  BY DEF Update, JobsInv
<1>2. PICK status \in Status \ {"none"} :
         job' = [job EXCEPT ![run[r].job].status = status]
  BY DEF Update
<1>3. Created' = Created  BY <1>1, <1>2, SameJobs
<1>4. run'[r].job = run[r].job  BY GotoMoves DEF Update
<1>5. QED  BY <1>1, <1>3, <1>4, JobsKept, WorkNotices

LEMMA AnnounceWork ==
    ASSUME TypeInv, JobsInv, NEW r \in Runner,
           \/ Work(r) /\ ~StartStep(r)
           \/ EmitDiscovery(r) \/ EmitFailed(r)
    PROVE  JobsInv' /\ (Noticed => Noticed')
<1>1. Others(r)  BY OthersStay DEF Finish
<1>2. run[r].at \in HasJob
  BY WorkMoves DEF EmitDiscovery, EmitFailed, HasJob, Place
<1>3. run'[r].job = run[r].job /\ UNCHANGED <<job, client>>
  BY WorkMoves, GotoMoves DEF EmitDiscovery, EmitFailed
<1>4. Created' = Created /\ run[r].job \in Created  BY <1>2, <1>3 DEF Created, JobsInv
<1>5. EmitDiscovery(r) \/ (UNCHANGED <<job, discovery>> /\ run[r].at # "emit")
  <2>1. CASE Work(r) /\ ~StartStep(r)  BY <2>1, WorkMoves
  <2>2. CASE EmitDiscovery(r)  BY <2>2
  <2>3. CASE EmitFailed(r)  BY <2>3 DEF EmitFailed, downstream
  <2>4. QED  BY <2>1, <2>2, <2>3
<1>6. QED  BY <1>1, <1>2, <1>3, <1>4, <1>5, JobsKept, WorkNotices

\* What the outbox does with a request that was not settled leaves it unsettled.
LEMMA Unsettled ==
    ASSUME TypeInv, NEW r \in Runner, Raise(r) \/ TimeOut(r)
    PROVE  \A q \in Request :
             request[q].state \in {"open", "dead"} => request'[q].state \in {"open", "dead"}
<1>1. run[r].req \in Request /\ request \in [Request ->
                [state : {"none", "open", "done", "dead"}, tries : Nat]]
  BY JobFacts DEF TypeInv, TypeOK
<1>2. Nacked(run[r].req).state \in {"open", "dead"}  BY DEF Nacked
<1>3. request' = request \/ request' = [request EXCEPT ![run[r].req] = Nacked(run[r].req)]
  BY DEF Raise, TimeOut, Settle
<1>4. QED  BY <1>1, <1>2, <1>3

LEMMA AnnounceOutbox ==
    ASSUME TypeInv, JobsInv, NEW r \in Runner,
           (\E q \in Request : Deliver(r, q)) \/ Return(r) \/ Raise(r) \/ TimeOut(r)
    PROVE  JobsInv' /\ (Noticed => Noticed')
<1>0. run \in [Runner -> Run]  BY DEF TypeInv, TypeOK
<1>1. Others(r)  BY OthersStay DEF Finish, Disturb
<1>2. UNCHANGED <<job, discovery, client>>
  BY DEF Deliver, Return, Raise, TimeOut, downstream
<1>3. Created' = Created  BY <1>2 DEF Created
<1>4. CASE \E q \in Request : Deliver(r, q)
  <2>1. run[r].at = "idle" /\ run'[r].at = "latest" /\ request' = request
    BY <1>0, <1>4 DEF Deliver, IdleRun
  <2>2. QED  BY <1>1, <1>2, <1>3, <2>1, JobsKept, IdleNotices DEF HasJob
<1>5. CASE Return(r)
  <2>1. run[r].at = "return" /\ run'[r].at = "idle"  BY <1>0, <1>5 DEF Return, IdleRun
  <2>2. QED  BY <1>1, <1>2, <1>3, <2>1, JobsKept, IdleNotices DEF HasJob
<1>6. CASE Raise(r)
  <2>1. run[r].at \notin {"emit", "return"} /\ run'[r].at = "idle"
    BY <1>0, <1>6 DEF Raise, IdleRun
  <2>2. JobsInv'  BY <1>1, <1>2, <1>3, <2>1, JobsKept DEF HasJob
  <2>3. CASE run[r].at \in HasJob  BY <1>1, <1>2, <2>1, <2>2, <2>3, WorkNotices
  <2>4. CASE run[r].at \notin HasJob
    BY <1>1, <1>2, <1>6, <2>1, <2>2, <2>4, IdleNotices, Unsettled DEF HasJob
  <2>5. QED  BY <2>3, <2>4
<1>7. CASE TimeOut(r)
  <2>1. run'[r].at = run[r].at /\ run'[r].job = run[r].job  BY <1>0, <1>7 DEF TimeOut, Run
  <2>2. JobsInv'  BY <1>1, <1>2, <1>3, <2>1, JobsKept DEF JobsInv
  <2>3. CASE run[r].at \in HasJob  BY <1>1, <1>7, <2>2, <2>3, WorkNotices
  <2>4. CASE run[r].at \notin HasJob
    BY <1>1, <1>2, <1>7, <2>1, <2>2, <2>4, IdleNotices, Unsettled
  <2>5. QED  BY <2>3, <2>4
<1>8. QED  BY <1>4, <1>5, <1>6, <1>7

LEMMA AnnounceRetry ==
    ASSUME TypeInv, JobsInv, Retry
    PROVE  JobsInv' /\ (Noticed => Noticed')
<1>0. run' = run /\ discovery' = discovery
  BY DEF Retry, CheckRetryable, IncrementRetry, EmitRetry, RetryDies, downstream
<1>1. ASSUME UNCHANGED job, client'.at = "checked" => client'.job \in Created,
             \A q \in Request : request[q].state \in {"open", "dead"}
                                  => request'[q].state \in {"open", "dead"}
      PROVE  JobsInv' /\ (Noticed => Noticed')
  <2>1. Created' = Created /\ Active' = Active  BY <1>1 DEF Created, Active
  <2>2. JobsInv'  BY <1>0, <1>1, <2>1 DEF JobsInv
  <2>3. \A j \in JobId : Forgotten(j)' => Forgotten(j)
    BY <1>0, <1>1, <2>1 DEF Forgotten, IsLatest
  <2>4. Pending => Pending'  BY <1>0, <1>1, <2>1 DEF Pending
  <2>5. QED  BY <2>2, <2>3, <2>4 DEF Noticed
<1>2. ASSUME NEW force \in {FALSE, AllowForce}, CheckRetryable(force)
      PROVE  JobsInv' /\ (Noticed => Noticed')
  BY <1>1, <1>2 DEF CheckRetryable
<1>3. CASE EmitRetry \/ RetryDies
  <2>1. UNCHANGED job /\ client'.at = "idle"  BY <1>3 DEF EmitRetry, RetryDies, IdleClient
  <2>2. \A q \in Request : request[q].state \in {"open", "dead"}
                            => request'[q].state \in {"open", "dead"}
    BY <1>3 DEF EmitRetry, RetryDies, TypeInv, TypeOK
  <2>3. QED  BY <1>1, <2>1, <2>2
<1>4. CASE IncrementRetry
  <2> DEFINE n == job[client.job].retries + 1
  <2>1. /\ client.at = "checked" /\ client'.at = "queued"
        /\ job' = [job EXCEPT ![client.job] = [status |-> "queued", retries |-> n]]
    BY <1>4 DEF IncrementRetry, TypeInv, TypeOK
  <2>2. client.job \in Created /\ n \in Nat
    BY <2>1, JobFacts DEF JobsInv, TypeInv, TypeOK
  <2>3. /\ Created' = Created /\ job'[client.job].status = "queued"
        /\ \A i \in JobId \ {client.job} : job'[i] = job[i]
    BY <2>1, <2>2, SameJobs, Zenon
  <2> HIDE DEF n
  <2>4. JobsInv'  BY <1>0, <2>1, <2>3 DEF JobsInv
  <2>5. client.job \in Active'  BY <2>2, <2>3 DEF Active, Terminal, Success
  <2>6. ASSUME Noticed, NEW j \in JobId, Forgotten(j)'  PROVE Pending'
    <3>1. j # client.job  BY <2>3, <2>6 DEF Forgotten, Success
    <3>2. Forgotten(j)  BY <1>0, <2>3, <2>6, <3>1 DEF Forgotten, IsLatest
    <3>3. \A s \in Runner : run[s].at \notin HasJob  BY <2>6, <3>2 DEF Noticed, Pending
    <3>4. QED  BY <1>0, <2>5, <3>3 DEF Pending
  <2>7. QED  BY <2>4, <2>6 DEF Noticed
<1>5. QED  BY <1>2, <1>3, <1>4 DEF Retry

LEMMA AnnounceDiscover ==
    ASSUME TypeInv, JobsInv, NEW i \in JobId, Discover(i)
    PROVE  JobsInv' /\ (Noticed => Noticed')
<1>1. UNCHANGED <<job, run, client, request>>  BY DEF Discover
<1>2. Created' = Created /\ Active' = Active  BY <1>1 DEF Created, Active
<1>3. \A j \in JobId : discovery'[j] = "none" => discovery[j] = "none"
  BY DEF Discover, TypeInv, TypeOK
<1>4. \A j \in JobId : Forgotten(j)' => Forgotten(j)
  BY <1>1, <1>2, <1>3 DEF Forgotten, IsLatest
<1>5. Pending => Pending'  BY <1>1, <1>2 DEF Pending
<1>6. QED  BY <1>1, <1>2, <1>4, <1>5 DEF Noticed, JobsInv

\* Jobs stay in order in every step, also in the ones that lose an announcement.
LEMMA JobsLost ==
    ASSUME TypeInv, JobsInv, NEW r \in Runner, EmitFails(r) \/ Crash(r)
    PROVE  JobsInv'
<1>0. run \in [Runner -> Run]  BY DEF TypeInv, TypeOK
<1>1. Others(r)  BY OthersStay DEF Disturb
<1>2. UNCHANGED <<job, client>> /\ run'[r].at \in {"idle", "return"}
  BY <1>0, GotoMoves DEF EmitFails, Crash, IdleRun
<1>3. QED  BY <1>1, <1>2, JobsKept DEF Created, HasJob

LEMMA AnnounceInit == Init => AnnounceInv
<1> SUFFICES ASSUME Init PROVE AnnounceInv  OBVIOUS
<1>1. Created = 1 .. 0  BY DEF Init, Created
<1>2. JobsInv
  <2>1. 0 \in 0 .. MaxJobs  BY UnderstandingAssumption
  <2>2. client.at # "checked" /\ \A r \in Runner : run[r].at \notin HasJob
    BY DEF Init, IdleClient, IdleRun, HasJob
  <2>3. QED  BY <1>1, <2>1, <2>2 DEF JobsInv
<1>3. Noticed  BY <1>1 DEF Noticed, Forgotten, IsLatest
<1>4. QED  BY <1>2, <1>3 DEF AnnounceInv

\* What has been lost stays lost.
LEMMA LossesStay ==
    ASSUME [Next]_vars, ~lost', ~orphaned'
    PROVE  ~lost /\ ~orphaned /\ \A r \in Runner : ~EmitFails(r)
<1>1. \A r \in Runner : ~EmitFails(r)  BY Zenon DEF EmitFails
<1>2. CASE UNCHANGED vars  BY <1>1, <1>2, Zenon DEF vars
<1>3. ASSUME NEW r \in Runner, Crash(r)  PROVE ~lost /\ ~orphaned
  BY <1>3, Zenon DEF Crash
<1>4. ASSUME NEW r \in Runner,
             (\E q \in Request : Deliver(r, q)) \/ Start(r) \/ Work(r) \/ Finish(r)
               \/ Raise(r) \/ TimeOut(r)
      PROVE  UNCHANGED <<lost, orphaned>>
  <2>1. CASE (\E q \in Request : Deliver(r, q)) \/ Start(r) \/ Raise(r) \/ TimeOut(r)
    BY <2>1 DEF Deliver, Start, ReadLatest, CheckActive, CreateJob, QueueJob, SetStatus,
                Raise, TimeOut, downstream
  <2>2. CASE Work(r)
    BY <2>2 DEF Work, StartStep, SetStatus, BeginExtract, CommitExtract, ClearNormalized,
                ReadExtracted, InsertNormalized, ReadNormalized, ReadVersion, BeginRechunk,
                CommitRechunk, Validate, StepFails, downstream
  <2>3. CASE Finish(r)
    BY <2>3 DEF Finish, MarkCompleted, EmitDiscovery, MarkFailed, EmitFailed, Return,
                SetStatus, downstream
  <2>4. QED  BY <1>4, <2>1, <2>2, <2>3
<1>5. ASSUME Retry \/ \E j \in JobId : Discover(j)  PROVE UNCHANGED <<lost, orphaned>>
  BY <1>5 DEF Retry, CheckRetryable, IncrementRetry, EmitRetry, RetryDies, Discover, downstream
<1>6. CASE UNCHANGED <<lost, orphaned>>  BY <1>1, <1>6, Zenon
<1>7. QED  BY <1>1, <1>2, <1>3, <1>4, <1>5, <1>6 DEF Next, Disturb

LEMMA AnnounceStep == TypeInv /\ AnnounceInv /\ [Next]_vars => AnnounceInv'
<1> SUFFICES ASSUME TypeInv, AnnounceInv, [Next]_vars PROVE AnnounceInv'  OBVIOUS
<1>0. JobsInv /\ (~lost' /\ ~orphaned' => Noticed)
  BY LossesStay, Zenon DEF AnnounceInv
<1> DEFINE Goal == JobsInv' /\ (~lost' /\ ~orphaned' => Noticed')
<1>1. ASSUME JobsInv' /\ (Noticed => Noticed')  PROVE Goal  BY <1>0, <1>1
<1>2. ASSUME NEW r \in Runner,
             \/ \E q \in Request : Deliver(r, q)
             \/ Return(r) \/ Raise(r) \/ TimeOut(r)
      PROVE  Goal
  BY <1>0, <1>1, <1>2, AnnounceOutbox
<1>3. ASSUME NEW r \in Runner, Start(r)  PROVE Goal
  <2>1. CASE ReadLatest(r) \/ CheckActive(r)  BY <1>0, <1>1, <2>1, AnnounceStart
  <2>2. CASE CreateJob(r)  BY <1>0, <2>2, CreateNotices
  <2>3. CASE QueueJob(r)
    BY <1>0, <1>1, <1>3, <2>3, Updates, OthersStay, AnnounceUpdate
  <2>4. QED  BY <1>3, <2>1, <2>2, <2>3 DEF Start
<1>4. ASSUME NEW r \in Runner, Work(r)  PROVE Goal
  <2>1. CASE StartStep(r)
    BY <1>0, <1>1, <1>4, <2>1, Updates, OthersStay, AnnounceUpdate
  <2>2. CASE ~StartStep(r)  BY <1>0, <1>1, <1>4, <2>2, AnnounceWork
  <2>3. QED  BY <2>1, <2>2
<1>5. ASSUME NEW r \in Runner, Finish(r)  PROVE Goal
  <2>1. CASE MarkCompleted(r) \/ MarkFailed(r)
    BY <1>0, <1>1, <1>5, <2>1, Updates, OthersStay, AnnounceUpdate
  <2>2. CASE EmitDiscovery(r) \/ EmitFailed(r)  BY <1>0, <1>1, <2>2, AnnounceWork
  <2>3. CASE Return(r)  BY <1>2, <2>3
  <2>4. QED  BY <1>5, <2>1, <2>2, <2>3 DEF Finish
<1>6. ASSUME NEW r \in Runner, Disturb(r)  PROVE Goal
  <2>1. CASE EmitFails(r)
    <3>1. JobsInv'  BY <1>0, <2>1, JobsLost
    <3>2. ~(~lost' /\ ~orphaned')  BY <2>1, LossesStay
    <3>3. QED  BY <3>1, <3>2
  <2>2. CASE Crash(r)
    <3>1. JobsInv'  BY <1>0, <2>2, JobsLost
    <3>2. ASSUME ~lost', ~orphaned'  PROVE Noticed'
      BY <1>0, <2>2, <3>2, CrashNotices
    <3>3. QED  BY <3>1, <3>2
  <2>3. CASE Raise(r) \/ TimeOut(r)  BY <1>2, <2>3
  <2>4. QED  BY <1>6, <2>1, <2>2, <2>3 DEF Disturb
<1>7. ASSUME Retry  PROVE Goal  BY <1>0, <1>1, <1>7, AnnounceRetry
<1>8. ASSUME NEW j \in JobId, Discover(j)  PROVE Goal
  BY <1>0, <1>1, <1>8, AnnounceDiscover
<1>9. ASSUME UNCHANGED vars  PROVE Goal
  <2>1. JobsInv' /\ (Noticed => Noticed')
    BY <1>0, <1>9 DEF vars, JobsInv, Noticed, Forgotten, Pending, IsLatest, Active, Created
  <2>2. QED  BY <1>1, <2>1
<1>10. Goal
  <2> HIDE DEF Goal
  <2> QED  BY <1>2, <1>3, <1>4, <1>5, <1>6, <1>7, <1>8, <1>9 DEF Next
<1>11. QED  BY <1>10 DEF AnnounceInv

\* Nothing is going on, the latest job has succeeded: discovery was asked for. A
\* thread that dies between mark_completed and the event leaves a request behind
\* that is delivered again or dead, unless another thread has taken it for done.
THEOREM SuccessIsAnnounced == Spec => []SuccessAnnounced
<1>1. AnnounceInv => SuccessAnnounced
  <2> SUFFICES ASSUME AnnounceInv, Quiet, Active = {}, NoneDead, ~lost, ~orphaned,
                      NEW j \in JobId, IsLatest(j), job[j].status \in Success,
                      discovery[j] = "none"
               PROVE  FALSE
    BY DEF SuccessAnnounced
  <2>1. Noticed  BY Zenon DEF AnnounceInv
  <2>2. Forgotten(j)  BY DEF Forgotten, Quiet
  <2>3. \E q \in Request : request[q].state \in {"open", "dead"}
    BY <2>1, <2>2 DEF Noticed, Pending
  <2>4. QED  BY <2>3 DEF Quiet, NoneDead
<1>2. QED  BY <1>1, TypeInvariant, AnnounceInit, AnnounceStep, PTL DEF Spec

=============================================================================
