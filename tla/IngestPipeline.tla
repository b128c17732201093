----------------------------- MODULE IngestPipeline -----------------------------
(***************************************************************************)
(* The asynchronous ingest of documents: a REST, crawl, import or MCP      *)
(* handler registers a document and a job and enqueues a Celery chain      *)
(* parse -> chunk -> embed -> index (core/ingest/tasks.py); each task runs *)
(* one stage of core/ingest/pipeline.py, which commits a row of the        *)
(* registry, a file of the work directory or a batch of the vector store   *)
(* at a time.  Between any two of these commits the worker may die, an     *)
(* external call may fail, and a request may delete the document or its    *)
(* whole knowledge base.                                                   *)
(*                                                                         *)
(* One job has one document, so both are indexed by the job.  The chunks   *)
(* written by one set_chunks call carry fresh uuids: they are abstracted   *)
(* to a generation, the number of that call (0: no chunks).  The source of *)
(* a job never changes, hence a digest of source.* or text.txt, once       *)
(* written, stays right; a digest of chunks.json is the generation there.  *)
(***************************************************************************)
EXTENDS IngestState

CONSTANTS
    Jobs,          \* ingest jobs, each with its document
    Kbs,           \* knowledge bases
    KbOf,          \* the knowledge base of a job's document
    EmptyDocs,     \* jobs whose source parses to no text at all
    MaxAttempts,   \* pipeline.MAX_ATTEMPTS, also every task's max_retries
    FaultPoints,   \* the <<task, pc>> at which a call may fail transiently
    MaxFaults,     \* bound: transient failures per job
    CrashPoints,   \* the <<task, pc>> at which the process may die
    MaxCrashes,    \* bound: process deaths per job
    MaxRequeues,   \* bound: times an operator enqueues a finished job again
    DeletedBy      \* which deletions happen, a subset of {"api", "admin", "kb"}

ASSUME KbAssumption == KbOf \in [Jobs -> Kbs]
ASSUME AttemptsAssumption == MaxAttempts \in Nat \ {0}

Tasks == {"parse", "chunk", "embed", "index"}

\* The stage a task's commit moves its job to, and the task chained after it.
Target == [parse |-> "parsed", chunk |-> "chunked",
           embed |-> "embedded", index |-> "indexed"]

\* Mutants of NextTask: a task nobody registered; a task chained to itself.
ChainMisnamed == [parse |-> "chunk", chunk |-> "embed", embed |-> "upsert"]
ChainRepeatsEmbed == [parse |-> "chunk", chunk |-> "embed", embed |-> "embed"]

NextTask == [parse |-> "chunk", chunk |-> "embed", embed |-> "index"]

\* Where a job's handler or worker stands.  The handler registers the job
\* ("new" .. "stored"); the message of the next task is in the broker
\* ("queued") or held by the worker until the retry countdown ends
\* ("waiting"); a worker runs the task, up to an exception ("raised",
\* "decide"); the chain is over ("rejected" .. "lost").
Submitting == {"new", "checked", "registered", "job_created", "stored"}
Held       == {"queued", "waiting"}
Running    == {"resume", "check", "work", "version", "artifact", "digest",
               "commit", "count", "ready"}
Handling   == {"raised", "decide"}
Over       == {"rejected", "done", "dlq", "error", "lost"}
PCs == Submitting \cup Held \cup Running \cup Handling \cup Over

VARIABLES
    (* registry *)
    kbRow,      \* is the knowledge base's row there?
    docRow,     \* is the document's row there?
    status,     \* documents.status
    rows,       \* generation of the document's chunk rows
    lastGen,    \* generations handed out so far
    jobRow,     \* is the job's row there?
    stage, attempt, failedAt,
    (* ingest_work/<job>/ *)
    source,     \* is source.* there?
    text,       \* text.txt: "none", "bare" (no digest yet) or "hashed"
    chunks,     \* generation listed in chunks.json
    chunksSha,  \* is chunks.json.sha256 there?
    vecs,       \* generation of the vectors in vecs.json
    vecsSha,    \* generation whose chunks.json was digested in vecs.json.sha256
    (* vector store *)
    points,     \* generations with points in the collection
    (* chain and requests *)
    task, pc, retries,
    deleting,   \* the REST deletion of the document: "no", "vectors" or "done"
    kbDeleting, \* has delete_kb of the knowledge base listed its documents?
    docIds,     \* the documents it listed, of all knowledge bases together
    (* bounds *)
    faults, crashes, requeues

kbVars      == <<kbRow, kbDeleting, docIds>>
requestVars == <<kbVars, deleting>>
docVars     == <<docRow, status, rows, lastGen>>
jobVars     == <<jobRow, stage, attempt, failedAt>>
dirVars     == <<source, text, chunks, chunksSha, vecs, vecsSha>>
chainVars   == <<task, pc, retries>>
boundVars   == <<faults, crashes, requeues>>
vars == <<requestVars, docVars, jobVars, dirVars, points, chainVars, boundVars>>

TypeOK ==
    /\ kbRow \in [Kbs -> BOOLEAN]
    /\ docRow \in [Jobs -> BOOLEAN]
    /\ status \in [Jobs -> Stages]
    /\ rows \in [Jobs -> Nat]
    /\ lastGen \in [Jobs -> Nat]
    /\ jobRow \in [Jobs -> BOOLEAN]
    /\ stage \in [Jobs -> Stages]
    /\ attempt \in [Jobs -> Nat]
    /\ failedAt \in [Jobs -> Stages \ {"ready"}]
    /\ source \in [Jobs -> BOOLEAN]
    /\ text \in [Jobs -> {"none", "bare", "hashed"}]
    /\ chunks \in [Jobs -> Nat]
    /\ chunksSha \in [Jobs -> BOOLEAN]
    /\ vecs \in [Jobs -> Nat]
    /\ vecsSha \in [Jobs -> Nat]
    /\ points \in [Jobs -> SUBSET Nat]
    /\ task \in [Jobs -> Tasks]
    /\ pc \in [Jobs -> PCs]
    /\ retries \in [Jobs -> Nat]
    /\ deleting \in [Jobs -> {"no", "vectors", "done"}]
    /\ kbDeleting \in [Kbs -> BOOLEAN]
    /\ docIds \subseteq Jobs
    /\ faults \in [Jobs -> Nat]
    /\ crashes \in [Jobs -> Nat]
    /\ requeues \in [Jobs -> Nat]

Init ==
    /\ kbRow = [k \in Kbs |-> TRUE]
    /\ docRow = [j \in Jobs |-> FALSE]
    /\ status = [j \in Jobs |-> "uploaded"]
    /\ rows = [j \in Jobs |-> 0]
    /\ lastGen = [j \in Jobs |-> 0]
    /\ jobRow = [j \in Jobs |-> FALSE]
    /\ stage = [j \in Jobs |-> "uploaded"]
    /\ attempt = [j \in Jobs |-> 0]
    /\ failedAt = [j \in Jobs |-> "failed"]      \* None
    /\ source = [j \in Jobs |-> FALSE]
    /\ text = [j \in Jobs |-> "none"]
    /\ chunks = [j \in Jobs |-> 0]
    /\ chunksSha = [j \in Jobs |-> FALSE]
    /\ vecs = [j \in Jobs |-> 0]
    /\ vecsSha = [j \in Jobs |-> 0]
    /\ points = [j \in Jobs |-> {}]
    /\ task = [j \in Jobs |-> "parse"]
    /\ pc = [j \in Jobs |-> "new"]
    /\ retries = [j \in Jobs |-> 0]
    /\ deleting = [j \in Jobs |-> "no"]
    /\ kbDeleting = [k \in Kbs |-> FALSE]
    /\ docIds = {}
    /\ faults = [j \in Jobs |-> 0]
    /\ crashes = [j \in Jobs |-> 0]
    /\ requeues = [j \in Jobs |-> 0]

--------------------------------------------------------------------------------
(* Helpers *)

At(j, p) == pc[j] = p
Goto(j, p) == pc' = [pc EXCEPT ![j] = p]
Runs(j, t, p) == task[j] = t /\ pc[j] = p

\* The worker moves within its task, or an exception leaves the stage method.
Step(j, p) == Goto(j, p) /\ UNCHANGED <<task, retries>>
Raise(j) == Step(j, "raised")

\* The stage method returns: the chain goes on to the next task, or is over.
FinishTask(j) ==
    \/ /\ task[j] = "index"
       /\ Step(j, "done")
    \/ /\ task[j] # "index"
       /\ task' = [task EXCEPT ![j] = NextTask[task[j]]]
       /\ retries' = [retries EXCEPT ![j] = 0]
       /\ Goto(j, "queued")

\* Registry.transition_job raises when the job is gone or the transition is
\* not on the whitelist.
MayMove(j, to) == jobRow[j] /\ (stage[j] = to \/ CanTransition(stage[j], to))

\* Registry.transition_job: nothing at all when the job is already there;
\* otherwise the job's row and the document's row, if it still exists.
TransitionJob(j, to) ==
    /\ stage' = [stage EXCEPT ![j] = to]
    /\ attempt' = IF to = "failed" /\ stage[j] # "failed"
                  THEN [attempt EXCEPT ![j] = @ + 1] ELSE attempt
    /\ failedAt' = IF to = "failed" /\ stage[j] # "failed"
                   THEN [failedAt EXCEPT ![j] = stage[j]] ELSE failedAt
    /\ status' = IF docRow[j] /\ stage[j] # to
                 THEN [status EXCEPT ![j] = to] ELSE status
    /\ UNCHANGED <<jobRow, docRow, rows, lastGen>>

\* Mutant of CanSkip: an artifact on disk is taken for a committed stage.
SkipByArtifact(j) ==
    \/ task[j] = "parse" /\ text[j] # "none"
    \/ task[j] = "chunk" /\ chunks[j] # 0
    \/ task[j] = "embed" /\ vecs[j] # 0
    \/ task[j] = "index" /\ StageReached(stage[j], "indexed")

\* May the stage method of j's task return at once?  The stage was reached and,
\* but for index, the artifact is there with a digest of its present input.
CanSkip(j) ==
    \/ task[j] = "parse" /\ StageReached(stage[j], "parsed") /\ text[j] = "hashed"
    \/ task[j] = "chunk" /\ StageReached(stage[j], "chunked")
                         /\ chunks[j] # 0 /\ chunksSha[j]
    \/ task[j] = "embed" /\ StageReached(stage[j], "embedded")
                         /\ vecs[j] # 0 /\ vecsSha[j] = chunks[j]
    \/ task[j] = "index" /\ StageReached(stage[j], "indexed")

--------------------------------------------------------------------------------
(* The handler that registers a document and enqueues its chain.           *)

CheckKb(j) ==
    /\ At(j, "new")
    /\ Step(j, IF kbRow[KbOf[j]] THEN "checked" ELSE "rejected")
    /\ UNCHANGED <<requestVars, docVars, jobVars, dirVars, points, boundVars>>

CreateDocument(j) ==
    /\ At(j, "checked")
    /\ docRow' = [docRow EXCEPT ![j] = TRUE]
    /\ Step(j, "registered")
    /\ UNCHANGED <<requestVars, status, rows, lastGen, jobVars, dirVars, points, boundVars>>

CreateJob(j) ==
    /\ At(j, "registered")
    /\ jobRow' = [jobRow EXCEPT ![j] = TRUE]
    /\ Step(j, "job_created")
    /\ UNCHANGED <<requestVars, docVars, stage, attempt, failedAt, dirVars, points, boundVars>>

StoreSource(j) ==
    /\ At(j, "job_created")
    /\ source' = [source EXCEPT ![j] = TRUE]
    /\ Step(j, "stored")
    /\ UNCHANGED <<requestVars, docVars, jobVars, text, chunks, chunksSha, vecs, vecsSha,
                   points, boundVars>>

EnqueueIngest(j) ==
    /\ At(j, "stored")
    /\ Step(j, "queued")
    /\ UNCHANGED <<requestVars, docVars, jobVars, dirVars, points, boundVars>>

\* An operator (the DLQ is for manual handling) enqueues a job whose chain is
\* over again.  No code does so by itself.
Requeue(j) ==
    /\ pc[j] \in Over /\ jobRow[j]
    /\ requeues[j] < MaxRequeues
    /\ requeues' = [requeues EXCEPT ![j] = @ + 1]
    /\ task' = [task EXCEPT ![j] = "parse"]
    /\ retries' = [retries EXCEPT ![j] = 0]
    /\ Goto(j, "queued")
    /\ UNCHANGED <<requestVars, docVars, jobVars, dirVars, points, faults, crashes>>

--------------------------------------------------------------------------------
(* A task: deliver, resume a failed job, skip or run the stage method.     *)

\* The worker takes the message (acknowledged at once) and builds its pipeline.
Deliver(j) ==
    /\ pc[j] \in Held
    /\ Step(j, "resume")
    /\ UNCHANGED <<requestVars, docVars, jobVars, dirVars, points, boundVars>>

\* _resume_if_failed: a failed job goes back to where it failed.
ResumeIfFailed(j) ==
    /\ At(j, "resume")
    /\ \/ /\ ~jobRow[j]
          /\ Raise(j) /\ UNCHANGED <<docVars, jobVars>>
       \/ /\ jobRow[j] /\ stage[j] # "failed"
          /\ Step(j, "check") /\ UNCHANGED <<docVars, jobVars>>
       \/ /\ jobRow[j] /\ stage[j] = "failed"
          /\ TransitionJob(j, RetryFrom[failedAt[j]])
          /\ Step(j, "check")
    /\ UNCHANGED <<requestVars, dirVars, points, boundVars>>

\* The rest of a stage method's preamble: _require_job, the source of parse,
\* and the idempotence check.
CheckStage(j) ==
    /\ At(j, "check")
    /\ \/ /\ ~jobRow[j] \/ (task[j] = "parse" /\ ~source[j])
          /\ Raise(j)
       \/ /\ jobRow[j] /\ (task[j] = "parse" => source[j])
          /\ IF CanSkip(j) THEN FinishTask(j) ELSE Step(j, "work")
    /\ UNCHANGED <<requestVars, docVars, jobVars, dirVars, points, boundVars>>

\* Mutant of Parse: the stage is committed without the digest of the source.
ParseWithoutDigest(j) ==
    /\ Runs(j, "parse", "work")
    /\ text' = [text EXCEPT ![j] = IF @ = "none" THEN "bare" ELSE @]
    /\ Step(j, "commit")
    /\ UNCHANGED <<requestVars, docVars, jobVars, source, chunks, chunksSha, vecs, vecsSha,
                   points, boundVars>>

\* parse_stage: parse_file, then text.txt (its digest is only written next).
Parse(j) ==
    /\ Runs(j, "parse", "work")
    /\ text' = [text EXCEPT ![j] = IF @ = "none" THEN "bare" ELSE @]
    /\ Step(j, "digest")
    /\ UNCHANGED <<requestVars, docVars, jobVars, source, chunks, chunksSha, vecs, vecsSha,
                   points, boundVars>>

\* Mutant of SetChunks: the rows are written without looking for the document.
SetChunksUnchecked(j) ==
    /\ Runs(j, "chunk", "work")
    /\ lastGen' = [lastGen EXCEPT ![j] = @ + 1]
    /\ rows' = [rows EXCEPT ![j] = lastGen[j] + 1]
    /\ status' = [status EXCEPT ![j] = "ready"]
    /\ Step(j, "version") /\ UNCHANGED docRow
    /\ UNCHANGED <<requestVars, jobVars, dirVars, points, boundVars>>

\* chunk_stage: chunk_text, then Registry.set_chunks replaces the document's
\* rows in one transaction and marks the document ready.
SetChunks(j) ==
    /\ Runs(j, "chunk", "work")
    /\ \/ /\ j \in EmptyDocs \/ ~docRow[j]
          /\ Raise(j) /\ UNCHANGED docVars
       \/ /\ j \notin EmptyDocs /\ docRow[j]
          /\ lastGen' = [lastGen EXCEPT ![j] = @ + 1]
          /\ rows' = [rows EXCEPT ![j] = lastGen[j] + 1]
          /\ status' = [status EXCEPT ![j] = "ready"]
          /\ Step(j, "version") /\ UNCHANGED docRow
    /\ UNCHANGED <<requestVars, jobVars, dirVars, points, boundVars>>

\* chunk_stage: set_pipeline_version finds the document's row, or raises.
StampVersion(j) ==
    /\ At(j, "version")
    /\ IF docRow[j] THEN Step(j, "artifact") ELSE Raise(j)
    /\ UNCHANGED <<requestVars, docVars, jobVars, dirVars, points, boundVars>>

\* chunk_stage: the ids of the new chunks go to chunks.json.
WriteChunks(j) ==
    /\ Runs(j, "chunk", "artifact")
    /\ chunks' = [chunks EXCEPT ![j] = lastGen[j]]
    /\ Step(j, "digest")
    /\ UNCHANGED <<requestVars, docVars, jobVars, source, text, chunksSha, vecs, vecsSha,
                   points, boundVars>>

\* embed_stage: the contents of the chunks listed in chunks.json must still
\* be in the registry (KeyError); they are embedded.
Embed(j) ==
    /\ Runs(j, "embed", "work")
    /\ IF rows[j] = chunks[j] THEN Step(j, "artifact") ELSE Raise(j)
    /\ UNCHANGED <<requestVars, docVars, jobVars, dirVars, points, boundVars>>

\* embed_stage: the vectors go to vecs.json.
WriteVectors(j) ==
    /\ Runs(j, "embed", "artifact")
    /\ vecs' = [vecs EXCEPT ![j] = chunks[j]]
    /\ Step(j, "digest")
    /\ UNCHANGED <<requestVars, docVars, jobVars, source, text, chunks, chunksSha, vecsSha,
                   points, boundVars>>

\* The digest of the input goes beside the artifact.
WriteDigest(j) ==
    /\ At(j, "digest")
    /\ text' = IF task[j] = "parse" THEN [text EXCEPT ![j] = "hashed"] ELSE text
    /\ chunksSha' = IF task[j] = "chunk"
                    THEN [chunksSha EXCEPT ![j] = TRUE] ELSE chunksSha
    /\ vecsSha' = IF task[j] = "embed"
                  THEN [vecsSha EXCEPT ![j] = chunks[j]] ELSE vecsSha
    /\ Step(j, "commit")
    /\ UNCHANGED <<requestVars, docVars, jobVars, source, chunks, vecs, points, boundVars>>

\* index_stage: the vectors of every listed chunk (KeyError) are upserted.
Upsert(j) ==
    /\ Runs(j, "index", "work")
    /\ IF vecs[j] = chunks[j]
       THEN points' = [points EXCEPT ![j] = @ \cup {chunks[j]}] /\ Step(j, "commit")
       ELSE Raise(j) /\ UNCHANGED points
    /\ UNCHANGED <<requestVars, docVars, jobVars, dirVars, boundVars>>

\* The stage method commits its stage.
CommitStage(j) ==
    /\ At(j, "commit")
    /\ \/ /\ ~MayMove(j, Target[task[j]])
          /\ Raise(j) /\ UNCHANGED <<docVars, jobVars>>
       \/ /\ MayMove(j, Target[task[j]])
          /\ TransitionJob(j, Target[task[j]])
          /\ IF task[j] = "index" THEN Step(j, "count") ELSE FinishTask(j)
    /\ UNCHANGED <<requestVars, dirVars, points, boundVars>>

\* Mutant of Reconcile: the point count is not compared.
ReconcileSkipped(j) ==
    /\ At(j, "count")
    /\ Step(j, "ready")
    /\ UNCHANGED <<requestVars, docVars, jobVars, dirVars, points, boundVars>>

\* index_stage: the document must have as many points as chunks.json has ids.
\* All generations of a document have the same number of chunks.
Reconcile(j) ==
    /\ At(j, "count")
    /\ IF \E g \in points[j] : points[j] = {g} THEN Step(j, "ready") ELSE Raise(j)
    /\ UNCHANGED <<requestVars, docVars, jobVars, dirVars, points, boundVars>>

MarkReady(j) ==
    /\ At(j, "ready")
    /\ \/ /\ ~MayMove(j, "ready")
          /\ Raise(j) /\ UNCHANGED <<docVars, jobVars>>
       \/ /\ MayMove(j, "ready")
          /\ TransitionJob(j, "ready")
          /\ FinishTask(j)
    /\ UNCHANGED <<requestVars, dirVars, points, boundVars>>

--------------------------------------------------------------------------------
(* Failure: _handle_failure, transient faults and crashes.                 *)

\* Mutant of MarkFailed: the failure is handled without being recorded.
MarkFailedSwallowed(j) ==
    /\ At(j, "raised")
    /\ Step(j, IF MayMove(j, "failed") THEN "decide" ELSE "error")
    /\ UNCHANGED <<requestVars, docVars, jobVars, dirVars, points, boundVars>>

\* mark_failed; when it raises itself (no such job, or a ready one) the task
\* ends there.
MarkFailed(j) ==
    /\ At(j, "raised")
    /\ \/ /\ ~MayMove(j, "failed")
          /\ Step(j, "error") /\ UNCHANGED <<docVars, jobVars>>
       \/ /\ MayMove(j, "failed")
          /\ TransitionJob(j, "failed")
          /\ Step(j, "decide")
    /\ UNCHANGED <<requestVars, dirVars, points, boundVars>>

\* Out of attempts: alert and end the chain.  Otherwise Celery's retry of the
\* same task, which itself gives up after max_retries.
RetryOrGiveUp(j) ==
    /\ At(j, "decide")
    /\ \/ /\ jobRow[j] /\ attempt[j] >= MaxAttempts
          /\ Step(j, "dlq")
       \/ /\ ~jobRow[j] \/ attempt[j] < MaxAttempts
          /\ retries[j] >= MaxAttempts
          /\ Step(j, "error")
       \/ /\ ~jobRow[j] \/ attempt[j] < MaxAttempts
          /\ retries[j] < MaxAttempts
          /\ retries' = [retries EXCEPT ![j] = @ + 1]
          /\ Goto(j, "waiting") /\ UNCHANGED task
    /\ UNCHANGED <<requestVars, docVars, jobVars, dirVars, points, boundVars>>

\* A call fails transiently: in a stage method it raises; while the pipeline is
\* being built, or in the failure handler, nothing catches it.  An upsert that
\* fails may have reached the store.
Fault(j) ==
    /\ <<task[j], pc[j]>> \in FaultPoints
    /\ faults[j] < MaxFaults
    /\ faults' = [faults EXCEPT ![j] = @ + 1]
    /\ \/ pc[j] \in Running /\ Raise(j)
       \/ pc[j] \in Held \cup Handling /\ Step(j, "error")
    /\ \/ UNCHANGED points
       \/ /\ Runs(j, "index", "work") /\ vecs[j] = chunks[j]
          /\ points' = [points EXCEPT ![j] = @ \cup {chunks[j]}]
    /\ UNCHANGED <<requestVars, docVars, jobVars, dirVars, crashes, requeues>>

\* The handler's or the worker's process dies.  The message it took from the
\* broker is gone (tasks are acknowledged early), and so is the chain.
Crash(j) ==
    /\ <<task[j], pc[j]>> \in CrashPoints
    /\ pc[j] \notin Over
    /\ crashes[j] < MaxCrashes
    /\ crashes' = [crashes EXCEPT ![j] = @ + 1]
    /\ Step(j, "lost")
    /\ UNCHANGED <<requestVars, docVars, jobVars, dirVars, points, faults, requeues>>

--------------------------------------------------------------------------------
(* Deletion.                                                               *)

\* DELETE /kb/../documents/..: SearchService.delete_document, vectors first.
DeleteVectors(j) ==
    /\ "api" \in DeletedBy
    /\ docRow[j] /\ deleting[j] = "no"
    /\ points' = [points EXCEPT ![j] = {}]
    /\ deleting' = [deleting EXCEPT ![j] = "vectors"]
    /\ UNCHANGED <<kbVars, docVars, jobVars, dirVars, chainVars, boundVars>>

\* Registry.delete_document: the document's row and its chunks, not its job.
RemoveDocument(j) ==
    /\ docRow' = [docRow EXCEPT ![j] = FALSE]
    /\ rows' = [rows EXCEPT ![j] = 0]
    /\ UNCHANGED <<status, lastGen>>

DeleteRows(j) ==
    /\ deleting[j] = "vectors"
    /\ RemoveDocument(j)
    /\ deleting' = [deleting EXCEPT ![j] = "done"]
    /\ UNCHANGED <<kbVars, jobVars, dirVars, points, chainVars, boundVars>>

\* DELETE /admin/kb/../documents/..: the registry only.
AdminDeleteDocument(j) ==
    /\ "admin" \in DeletedBy
    /\ docRow[j]
    /\ RemoveDocument(j)
    /\ UNCHANGED <<requestVars, jobVars, dirVars, points, chainVars, boundVars>>

\* DELETE /admin/kb/.., Registry.delete_kb: the knowledge base's documents are
\* read first, and nothing is locked by a read.
ReadDocIds(k) ==
    /\ "kb" \in DeletedBy
    /\ kbRow[k] /\ ~kbDeleting[k]
    /\ kbDeleting' = [kbDeleting EXCEPT ![k] = TRUE]
    /\ docIds' = docIds \cup {j \in Jobs : docRow[j] /\ KbOf[j] = k}
    /\ UNCHANGED <<kbRow, deleting, docVars, jobVars, dirVars, points, chainVars, boundVars>>

\* Then one transaction removes the chunk rows of the documents read, and the
\* rows of every document and job of the knowledge base there is by now.
DeleteKb(k) ==
    /\ kbRow[k] /\ kbDeleting[k]
    /\ kbRow' = [kbRow EXCEPT ![k] = FALSE]
    /\ docRow' = [j \in Jobs |-> docRow[j] /\ KbOf[j] # k]
    /\ rows' = [j \in Jobs |-> IF KbOf[j] = k /\ j \in docIds THEN 0 ELSE rows[j]]
    /\ jobRow' = [j \in Jobs |-> jobRow[j] /\ KbOf[j] # k]
    /\ UNCHANGED <<kbDeleting, docIds, deleting, status, lastGen, stage, attempt, failedAt,
                   dirVars, points, chainVars, boundVars>>

--------------------------------------------------------------------------------
(* Specification                                                           *)

Submit(j) == CheckKb(j) \/ CreateDocument(j) \/ CreateJob(j)
               \/ StoreSource(j) \/ EnqueueIngest(j)

RunTask(j) ==
    \/ Deliver(j) \/ ResumeIfFailed(j) \/ CheckStage(j)
    \/ Parse(j) \/ SetChunks(j) \/ StampVersion(j) \/ WriteChunks(j)
    \/ Embed(j) \/ WriteVectors(j) \/ WriteDigest(j) \/ Upsert(j)
    \/ CommitStage(j) \/ Reconcile(j) \/ MarkReady(j)
    \/ MarkFailed(j) \/ RetryOrGiveUp(j)

Delete(j) == DeleteVectors(j) \/ DeleteRows(j) \/ AdminDeleteDocument(j)

Next ==
    \/ \E j \in Jobs : Submit(j) \/ RunTask(j) \/ Requeue(j)
                         \/ Fault(j) \/ Crash(j) \/ Delete(j)
    \/ \E k \in Kbs : ReadDocIds(k) \/ DeleteKb(k)

Spec == Init /\ [][Next]_vars

\* A running worker takes every message in the end and carries a task on; an
\* API process that began a request finishes it.  Faults, crashes, deletions
\* and operators are never obliged to act.
Fairness == \A j \in Jobs :
    WF_vars(RunTask(j)) /\ WF_vars(Submit(j)) /\ WF_vars(DeleteRows(j))

FairSpec == Spec /\ Fairness

\* The same, with an operator who enqueues a stranded job again.
AttendedSpec == FairSpec /\ \A j \in Jobs : WF_vars(Requeue(j))

--------------------------------------------------------------------------------
(* Properties                                                              *)

\* A document nobody has begun to delete.
Kept(j) == docRow[j] /\ deleting[j] = "no"

\* A ready job's document is searchable, completely and only in its present
\* form: the vector store holds the points of its current chunk rows and of no
\* earlier generation.  Across any interleaving of retries, crashes and
\* re-enqueued chains (index_stage's reconciliation, contract 2.5).
ReadyMeansIndexed == \A j \in Jobs :
    jobRow[j] /\ stage[j] = "ready" /\ Kept(j)
      => rows[j] # 0 /\ points[j] = {rows[j]}

\* A stage a job has reached is backed by artifacts of the same generation, so
\* that a resumed chain may skip it: the text is there with its digest, the ids
\* in chunks.json are those of the registry's rows, the vectors are theirs.
ArtifactsBackStage == \A j \in Jobs :
    /\ StageReached(stage[j], "parsed") => text[j] = "hashed"
    /\ StageReached(stage[j], "chunked") =>
         /\ chunksSha[j] /\ chunks[j] # 0
         /\ docRow[j] => rows[j] = chunks[j]
    /\ StageReached(stage[j], "embedded") => vecs[j] = chunks[j] /\ vecsSha[j] = chunks[j]

\* The attempt count exceeds its limit only by the failures of chains an
\* operator enqueued again, at most one each: a chain out of attempts is never
\* retried (contract 3, _handle_failure).
AttemptsBounded == \A j \in Jobs : attempt[j] <= MaxAttempts + requeues[j]

\* The deletion of j's knowledge base removed j without having listed it: j was
\* registered between the two (CheckKb had passed before).
DeletedUnlisted(j) == ~kbRow[KbOf[j]] /\ j \notin docIds

\* A deleted document leaves no chunk rows and they never come back, whatever
\* stage its job is in and whichever of the three deletions took it: set_chunks
\* replaces them only together with the document's row.  The one exception is
\* delete_kb's, which misses the rows of a document registered and chunked after
\* it read the ids.
NoRowsWithoutDocument == \A j \in Jobs :
    ~docRow[j] /\ ~DeletedUnlisted(j) => rows[j] = 0

\* However a chain ends by itself, its job says so: ready at the end of the
\* chain, failed in the DLQ, unless an earlier chain has made it ready.  Nothing
\* ends half way with a live stage.
EndIsRecorded == \A j \in Jobs : jobRow[j] =>
    /\ pc[j] = "done" => stage[j] = "ready"
    /\ pc[j] \in {"dlq", "error"} => stage[j] \in {"failed", "ready"}

\* Every chain in the broker comes to an end, even that of a document deleted
\* meanwhile, whose chunk stage fails for ever.
ChainEnds == \A j \in Jobs : pc[j] = "queued" ~> pc[j] \in Over

\* A job that fails fewer than MaxAttempts times still becomes ready, whatever
\* becomes of other documents (contract 2.3: a failed job is enqueued again and
\* runs from the failed stage; contract 4: every task may be retried, and a
\* failure affects its own chain only).
TransientFailureRecovers == \A j \in Jobs \ EmptyDocs :
    pc[j] = "queued" ~> stage[j] = "ready"

\* A chain lost with its worker and enqueued again makes the document ready:
\* what the crash left in the registry and the work directory is enough to go
\* on from (contract 2.6: recoverable after a process crash).
RequeueRecovers == \A j \in Jobs \ EmptyDocs :
    pc[j] = "lost" /\ jobRow[j] ~> stage[j] = "ready"

--------------------------------------------------------------------------------
(* The inductive invariant behind ReadyMeansIndexed, ArtifactsBackStage,   *)
(* AttemptsBounded and NoRowsWithoutDocument (IngestPipelineProofs).       *)

\* The job is past t, or was when it failed: what a retry can put it back to.
Reached(j, t) == StageReached(IF stage[j] = "failed" THEN failedAt[j] ELSE stage[j], t)

\* Rows without their document.
OrphanInv(j) == ~docRow[j] /\ ~DeletedUnlisted(j) => rows[j] = 0

\* What a stage reached has left behind.
BackedInv(j) ==
    /\ Reached(j, "parsed") => text[j] = "hashed"
    /\ Reached(j, "chunked") =>
         /\ chunksSha[j] /\ chunks[j] # 0
         /\ docRow[j] => rows[j] = chunks[j]
    /\ Reached(j, "embedded") => vecs[j] = chunks[j] /\ vecsSha[j] = chunks[j]
    /\ stage[j] = "ready" /\ Kept(j) => points[j] = {chunks[j]}

\* What the worker has in hand at each step of a task, until it commits.
WorkInv(j) ==
    /\ pc[j] \in Submitting => stage[j] = "uploaded" /\ attempt[j] = 0
    /\ pc[j] \in Running \ {"resume"} => stage[j] # "failed"
    /\ pc[j] = "version" => task[j] = "chunk"
    /\ pc[j] = "digest" => task[j] # "index"
    /\ pc[j] \in {"count", "ready"} => task[j] = "index" /\ stage[j] = "indexed"
    /\ pc[j] \in {"work", "version", "artifact", "digest", "commit"} =>
         /\ task[j] = "chunk" => ~Reached(j, "chunked")
         /\ task[j] = "embed" => ~Reached(j, "embedded")
         /\ task[j] = "index" => ~Reached(j, "indexed")
    /\ Runs(j, "parse", "commit") => text[j] = "hashed"
    /\ task[j] = "chunk" /\ pc[j] \in {"version", "artifact", "digest", "commit"} =>
         lastGen[j] # 0 /\ (docRow[j] => rows[j] = lastGen[j])
    /\ task[j] = "chunk" /\ pc[j] \in {"digest", "commit"} => chunks[j] = lastGen[j]
    /\ Runs(j, "chunk", "commit") => chunksSha[j]
    /\ task[j] = "embed" /\ pc[j] \in {"digest", "commit"} => vecs[j] = chunks[j]
    /\ Runs(j, "embed", "commit") => vecsSha[j] = chunks[j]
    /\ task[j] = "index" /\ pc[j] \in {"commit", "count"} /\ Kept(j) =>
         chunks[j] \in points[j]
    /\ pc[j] = "ready" /\ Kept(j) => points[j] = {chunks[j]}

\* A live chain has an attempt left, unless its job was deleted.
AttemptInv(j) ==
    /\ attempt[j] <= MaxAttempts + requeues[j]
    /\ pc[j] \notin Over \cup {"decide"} /\ (jobRow[j] \/ pc[j] \in Submitting)
         => attempt[j] < MaxAttempts + requeues[j]

JobInv(j) ==
    /\ OrphanInv(j)
    /\ BackedInv(j)
    /\ WorkInv(j)
    /\ AttemptInv(j)

IndInv == \A j \in Jobs : JobInv(j)

--------------------------------------------------------------------------------
(* A property the code's documents state and the code does not keep.        *)

\* A document deleted over the API has no vectors left to be found (the
\* docstring of SearchService.delete_document).
DeletedIsUnsearchable == \A j \in Jobs : deleting[j] = "done" => points[j] = {}
================================================================================
