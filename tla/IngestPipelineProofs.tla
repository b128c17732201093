-------------------------- MODULE IngestPipelineProofs --------------------------
(***************************************************************************)
(* Theorems about IngestPipeline, for any set of jobs and knowledge bases, *)
(* any attempt limit and any choice of faults, crashes, re-enqueues and    *)
(* deletions.                                                              *)
(*                                                                         *)
(* Every invariant here speaks of one job at a time, and an action changes *)
(* the rows, files, points and chain of one job only (DeleteKb: the rows   *)
(* of several; ReadDocIds: none).                                          *)
(***************************************************************************)
EXTENDS IngestPipeline, TLAPS

--------------------------------------------------------------------------------
(* The stage machine.                                                      *)

\* Stages a job can be put back to have been reached by the stage it failed at.
LEMMA RetryGoesBack ==
    ASSUME NEW s \in Stages \ {"ready"},
           NEW t \in ForwardStages \ {"uploaded"},
           StageReached(RetryFrom[s], t)
    PROVE  StageReached(s, t)
  BY DEF StageReached, RetryFrom, Stages, ForwardStages, Rank

LEMMA RetryFromType ==
    ASSUME NEW s \in Stages \ {"ready"}
    PROVE  RetryFrom[s] \in Stages \ {"ready", "failed"}
  BY DEF RetryFrom, Stages, ForwardStages

\* Only a live stage may fail.
LEMMA FailsFromLive ==
    ASSUME NEW s \in Stages, CanTransition(s, "failed")
    PROVE  s \in Stages \ {"ready", "failed"}
  BY DEF CanTransition, Transitions, Stages, ForwardStages

\* A commit moves the job from exactly the stage before, unless it is there.
LEMMA CommitsFromBefore ==
    ASSUME NEW s \in Stages \ {"failed"}, NEW t \in ForwardStages, CanTransition(s, t)
    PROVE  s \in ForwardStages /\ Rank[t] = Rank[s] + 1
  BY DEF CanTransition, Transitions, Stages, ForwardStages

--------------------------------------------------------------------------------
(* Type correctness.                                                       *)

\* The types of the rows transition_job writes.
RowsTyped ==
    /\ docRow \in [Jobs -> BOOLEAN]
    /\ status \in [Jobs -> Stages]
    /\ rows \in [Jobs -> Nat]
    /\ lastGen \in [Jobs -> Nat]
    /\ jobRow \in [Jobs -> BOOLEAN]
    /\ stage \in [Jobs -> Stages]
    /\ attempt \in [Jobs -> Nat]
    /\ failedAt \in [Jobs -> Stages \ {"ready"}]

LEMMA TransitionType ==
    ASSUME RowsTyped, NEW j \in Jobs, NEW to \in Stages,
           to = "failed" /\ stage[j] # "failed" => stage[j] # "ready",
           TransitionJob(j, to)
    PROVE  RowsTyped'
  BY DEF RowsTyped, TransitionJob

\* A legal transition of a commit or of mark_failed is one TransitionType covers.
LEMMA MoveType ==
    ASSUME RowsTyped, NEW j \in Jobs, NEW to \in Stages,
           MayMove(j, to), TransitionJob(j, to)
    PROVE  RowsTyped'
<1>1. stage[j] \in Stages
  BY DEF RowsTyped
<1>2. to = "failed" /\ stage[j] # "failed" => stage[j] # "ready"
  BY <1>1, FailsFromLive DEF MayMove
<1>. QED
  BY <1>2, TransitionType

\* FinishTask and Step keep the chain's types.
ChainTyped ==
    /\ task \in [Jobs -> Tasks]
    /\ pc \in [Jobs -> PCs]
    /\ retries \in [Jobs -> Nat]

LEMMA StepType ==
    ASSUME ChainTyped, NEW j \in Jobs, NEW p \in PCs, Step(j, p)
    PROVE  ChainTyped'
  BY DEF ChainTyped, Step, Goto

LEMMA RaiseType ==
    ASSUME ChainTyped, NEW j \in Jobs, Raise(j)
    PROVE  ChainTyped'
<1>1. "raised" \in PCs
  BY DEF PCs, Handling
<1>. QED
  BY <1>1, StepType DEF Raise

LEMMA FinishType ==
    ASSUME ChainTyped, NEW j \in Jobs, FinishTask(j)
    PROVE  ChainTyped'
<1>1. "done" \in PCs /\ "queued" \in PCs
  BY DEF PCs, Over, Held
<1>2. CASE Step(j, "done")
  BY <1>1, <1>2, StepType
<1>3. CASE /\ task[j] # "index"
           /\ task' = [task EXCEPT ![j] = NextTask[task[j]]]
           /\ retries' = [retries EXCEPT ![j] = 0]
           /\ Goto(j, "queued")
  <2>1. NextTask[task[j]] \in Tasks
    BY <1>3 DEF ChainTyped, Tasks, NextTask
  <2>. QED
    BY <1>1, <1>3, <2>1 DEF ChainTyped, Goto
<1>. QED
  BY <1>2, <1>3 DEF FinishTask

LEMMA InitType == Init => TypeOK
  BY DEF Init, TypeOK, Stages, ForwardStages, Tasks, PCs, Submitting

LEMMA NextType == TypeOK /\ [Next]_vars => TypeOK'
<1>. SUFFICES ASSUME TypeOK, [Next]_vars
              PROVE  TypeOK'
  OBVIOUS
<1>. USE DEF kbVars, requestVars, docVars, jobVars, dirVars, chainVars, boundVars
<1>a. RowsTyped /\ ChainTyped
  BY DEF TypeOK, RowsTyped, ChainTyped
<1>b. /\ Submitting \subseteq PCs /\ Held \subseteq PCs /\ Running \subseteq PCs
      /\ Handling \subseteq PCs /\ Over \subseteq PCs
  BY DEF PCs
<1>1. ASSUME NEW j \in Jobs, Submit(j)
      PROVE  TypeOK'
  <2>1. ChainTyped'
    BY <1>1, <1>a, <1>b, StepType
    DEF Submit, CheckKb, CreateDocument, CreateJob, StoreSource, EnqueueIngest,
        Submitting, Held, Over
  <2>2. /\ docRow' \in [Jobs -> BOOLEAN]
        /\ jobRow' \in [Jobs -> BOOLEAN]
        /\ source' \in [Jobs -> BOOLEAN]
    BY <1>1 DEF TypeOK, Submit, CheckKb, CreateDocument, CreateJob, StoreSource, EnqueueIngest
  <2>3. UNCHANGED <<requestVars, status, rows, lastGen, stage, attempt, failedAt, text,
                    chunks, chunksSha, vecs, vecsSha, points, boundVars>>
    BY <1>1 DEF Submit, CheckKb, CreateDocument, CreateJob, StoreSource, EnqueueIngest
  <2>. QED
    BY <2>1, <2>2, <2>3 DEF TypeOK, ChainTyped
<1>2. ASSUME NEW j \in Jobs, Requeue(j)
      PROVE  TypeOK'
  BY <1>2, <1>b DEF TypeOK, Requeue, Goto, Held, Tasks
<1>3. ASSUME NEW j \in Jobs, Delete(j)
      PROVE  TypeOK'
  <2>1. docRow' \in [Jobs -> BOOLEAN] /\ rows' \in [Jobs -> Nat]
    <3>1. CASE RemoveDocument(j)
      BY <3>1 DEF TypeOK, RemoveDocument
    <3>2. CASE UNCHANGED docVars
      BY <3>2 DEF TypeOK
    <3>. QED
      BY <1>3, <3>1, <3>2 DEF Delete, DeleteVectors, DeleteRows, AdminDeleteDocument
  <2>2. points' \in [Jobs -> SUBSET Nat]
    BY <1>3 DEF TypeOK, Delete, DeleteVectors, DeleteRows, AdminDeleteDocument
  <2>3. deleting' \in [Jobs -> {"no", "vectors", "done"}]
    BY <1>3 DEF TypeOK, Delete, DeleteVectors, DeleteRows, AdminDeleteDocument
  <2>4. UNCHANGED <<kbVars, status, lastGen, jobVars, dirVars, chainVars, boundVars>>
    BY <1>3 DEF Delete, DeleteVectors, DeleteRows, AdminDeleteDocument, RemoveDocument
  <2>. QED
    BY <2>1, <2>2, <2>3, <2>4 DEF TypeOK
<1>4. ASSUME NEW k \in Kbs, ReadDocIds(k) \/ DeleteKb(k)
      PROVE  TypeOK'
  <2>1. CASE ReadDocIds(k)
    BY <2>1 DEF TypeOK, ReadDocIds
  <2>2. CASE DeleteKb(k)
    BY <2>2 DEF TypeOK, DeleteKb
  <2>. QED
    BY <1>4, <2>1, <2>2
<1>5. ASSUME NEW j \in Jobs, Crash(j)
      PROVE  TypeOK'
  BY <1>5, <1>b DEF TypeOK, Crash, Step, Goto, Over
<1>6. CASE UNCHANGED vars
  BY <1>6 DEF vars, TypeOK
<1>7. ASSUME NEW j \in Jobs, Deliver(j) \/ CheckStage(j)
      PROVE  TypeOK'
  <2>1. ChainTyped'
    BY <1>7, <1>a, <1>b, StepType, RaiseType, FinishType
    DEF Deliver, CheckStage, Running
  <2>. QED
    BY <1>7, <2>1 DEF TypeOK, ChainTyped, Deliver, CheckStage
<1>8. ASSUME NEW j \in Jobs, ResumeIfFailed(j)
      PROVE  TypeOK'
  <2>1. ChainTyped'
    BY <1>8, <1>a, <1>b, StepType, RaiseType DEF ResumeIfFailed, Running
  <2>2. RowsTyped'
    <3>1. CASE UNCHANGED <<docVars, jobVars>>
      BY <3>1, <1>a DEF RowsTyped
    <3>2. CASE TransitionJob(j, RetryFrom[failedAt[j]])
      BY <3>2, <1>a, RetryFromType, TransitionType DEF RowsTyped
    <3>. QED
      BY <1>8, <3>1, <3>2 DEF ResumeIfFailed
  <2>. QED
    BY <1>8, <2>1, <2>2 DEF TypeOK, ChainTyped, RowsTyped, ResumeIfFailed
<1>9. ASSUME NEW j \in Jobs,
             Parse(j) \/ StampVersion(j) \/ WriteChunks(j) \/ Embed(j)
               \/ WriteVectors(j) \/ WriteDigest(j) \/ Upsert(j) \/ Reconcile(j)
      PROVE  TypeOK'
  <2>1. ChainTyped'
    BY <1>9, <1>a, <1>b, StepType, RaiseType
    DEF Parse, StampVersion, WriteChunks, Embed, WriteVectors, WriteDigest, Upsert,
        Reconcile, Running
  <2>2. /\ text' \in [Jobs -> {"none", "bare", "hashed"}]
        /\ chunksSha' \in [Jobs -> BOOLEAN]
    BY <1>9 DEF TypeOK, Parse, StampVersion, WriteChunks, Embed, WriteVectors,
       WriteDigest, Upsert, Reconcile
  <2>3. /\ chunks' \in [Jobs -> Nat]
        /\ vecs' \in [Jobs -> Nat]
        /\ vecsSha' \in [Jobs -> Nat]
    BY <1>9 DEF TypeOK, Parse, StampVersion, WriteChunks, Embed, WriteVectors,
       WriteDigest, Upsert, Reconcile
  <2>4. points' \in [Jobs -> SUBSET Nat]
    BY <1>9 DEF TypeOK, Parse, StampVersion, WriteChunks, Embed, WriteVectors,
       WriteDigest, Upsert, Reconcile
  <2>5. RowsTyped' /\ source' \in [Jobs -> BOOLEAN]
    BY <1>9, <1>a DEF TypeOK, RowsTyped, Parse, StampVersion, WriteChunks, Embed,
       WriteVectors, WriteDigest, Upsert, Reconcile
  <2>6. UNCHANGED <<requestVars, boundVars>>
    BY <1>9 DEF Parse, StampVersion, WriteChunks, Embed, WriteVectors, WriteDigest,
       Upsert, Reconcile
  <2>. QED
    BY <2>1, <2>2, <2>3, <2>4, <2>5, <2>6 DEF TypeOK, ChainTyped, RowsTyped
<1>10. ASSUME NEW j \in Jobs, SetChunks(j)
       PROVE  TypeOK'
  <2>1. ChainTyped'
    BY <1>10, <1>a, <1>b, StepType, RaiseType DEF SetChunks, Running
  <2>2. "ready" \in Stages
    BY DEF Stages, ForwardStages
  <2>3. RowsTyped'
    BY <1>10, <1>a, <2>2 DEF RowsTyped, SetChunks
  <2>. QED
    BY <1>10, <2>1, <2>3 DEF TypeOK, ChainTyped, RowsTyped, SetChunks
<1>11. ASSUME NEW j \in Jobs, CommitStage(j) \/ MarkReady(j) \/ MarkFailed(j)
       PROVE  TypeOK'
  <2>1. ChainTyped'
    BY <1>11, <1>a, <1>b, StepType, RaiseType, FinishType
    DEF CommitStage, MarkReady, MarkFailed, Running, Handling, Over
  <2>2. Target[task[j]] \in Stages /\ "ready" \in Stages /\ "failed" \in Stages
    BY DEF TypeOK, Target, Tasks, Stages, ForwardStages
  <2>3. RowsTyped'
    <3>1. CASE UNCHANGED <<docVars, jobVars>>
      BY <3>1, <1>a DEF RowsTyped
    <3>2. CASE \E to \in Stages : MayMove(j, to) /\ TransitionJob(j, to)
      BY <3>2, <1>a, MoveType
    <3>. QED
      BY <1>11, <2>2, <3>1, <3>2 DEF CommitStage, MarkReady, MarkFailed
  <2>. QED
    BY <1>11, <2>1, <2>3 DEF TypeOK, ChainTyped, RowsTyped, CommitStage, MarkReady,
       MarkFailed
<1>12. ASSUME NEW j \in Jobs, RetryOrGiveUp(j)
       PROVE  TypeOK'
  BY <1>12, <1>b DEF TypeOK, RetryOrGiveUp, Step, Goto, Held, Over
<1>13. ASSUME NEW j \in Jobs, Fault(j)
       PROVE  TypeOK'
  <2>1. ChainTyped'
    BY <1>13, <1>a, <1>b, StepType, RaiseType DEF Fault, Over
  <2>2. points' \in [Jobs -> SUBSET Nat]
    BY <1>13 DEF TypeOK, Fault
  <2>3. faults' \in [Jobs -> Nat]
    BY <1>13 DEF TypeOK, Fault
  <2>4. UNCHANGED <<requestVars, docVars, jobVars, dirVars, crashes, requeues>>
    BY <1>13 DEF Fault
  <2>. QED
    BY <2>1, <2>2, <2>3, <2>4 DEF TypeOK, ChainTyped
<1>14. ASSUME NEW j \in Jobs, RunTask(j)
       PROVE  TypeOK'
  BY <1>7, <1>8, <1>9, <1>10, <1>11, <1>12, <1>14 DEF RunTask
<1>. QED
  BY <1>1, <1>2, <1>3, <1>4, <1>5, <1>6, <1>13, <1>14 DEF Next

\* Every variable keeps its type: in particular no job is ever at a stage or a
\* point of its chain the code does not know, and none fails when it is ready.
THEOREM TypeCorrect == Spec => []TypeOK
  BY InitType, NextType, PTL DEF Spec

--------------------------------------------------------------------------------
(* The inductive invariant.                                                *)

\* Nothing the invariant of job i speaks of changes.
Untouched(i) ==
    /\ docRow'[i] = docRow[i] /\ rows'[i] = rows[i] /\ lastGen'[i] = lastGen[i]
    /\ jobRow'[i] = jobRow[i] /\ stage'[i] = stage[i]
    /\ attempt'[i] = attempt[i] /\ failedAt'[i] = failedAt[i]
    /\ text'[i] = text[i] /\ chunks'[i] = chunks[i] /\ chunksSha'[i] = chunksSha[i]
    /\ vecs'[i] = vecs[i] /\ vecsSha'[i] = vecsSha[i]
    /\ points'[i] = points[i] /\ task'[i] = task[i] /\ pc'[i] = pc[i]
    /\ deleting'[i] = deleting[i] /\ requeues'[i] = requeues[i]
    /\ UNCHANGED kbVars

USE DEF kbVars, requestVars, docVars, jobVars, dirVars, chainVars, boundVars, At, Runs, Step,
        Goto, Raise, OrphanInv, DeletedUnlisted

LEMMA UntouchedInv ==
    ASSUME NEW i \in Jobs, JobInv(i), Untouched(i)
    PROVE  JobInv(i)'
  BY DEF JobInv, BackedInv, WorkInv, AttemptInv, Kept, Reached, Runs, Untouched

\* The two parts an action may leave alone: what the stages reached have left
\* behind depends on rows, files and points only; an attempt is left as long as
\* the chain was live and none is used.
LEMMA BackedKept ==
    ASSUME NEW i \in Jobs, BackedInv(i),
           UNCHANGED <<docVars, jobVars, dirVars, points, deleting>>
    PROVE  BackedInv(i)'
  BY DEF BackedInv, Kept, Reached

LEMMA AttemptKept ==
    ASSUME NEW i \in Jobs, AttemptInv(i),
           UNCHANGED <<attempt, jobRow, requeues>>,
           pc'[i] \in Over \cup {"decide"} \/ pc[i] \notin Over \cup {"decide"},
           pc'[i] \in Submitting => pc[i] \in Submitting
    PROVE  AttemptInv(i)'
  BY DEF AttemptInv

\* A submission: the job is new, and no part of the invariant has anything to
\* say of it but that it is at its first stage.
LEMMA SubmitInv ==
    ASSUME TypeOK, NEW i \in Jobs, JobInv(i), Submit(i)
    PROVE  JobInv(i)'
<1>. USE DEF Submit, CheckKb, CreateDocument, CreateJob, StoreSource, EnqueueIngest
<1>1. /\ stage[i] = "uploaded" /\ attempt[i] = 0 /\ pc[i] \in Submitting
      /\ UNCHANGED <<stage, attempt, failedAt, rows, lastGen, task, requeues>>
      /\ pc'[i] \in Submitting \cup {"queued", "rejected"}
  BY DEF TypeOK, JobInv, WorkInv, Submitting
<1>2. OrphanInv(i)'
  BY DEF TypeOK, JobInv
<1>3. BackedInv(i)'
  BY <1>1 DEF BackedInv, Reached, StageReached, Rank
<1>4. WorkInv(i)'
  BY <1>1 DEF WorkInv, Submitting, Running
<1>5. AttemptInv(i)'
  BY <1>1, AttemptsAssumption DEF JobInv, AttemptInv, Submitting, Over, TypeOK
<1>. QED
  BY <1>2, <1>3, <1>4, <1>5 DEF JobInv

\* An operator's re-enqueue pays for the attempt it may use.
LEMMA RequeueInv ==
    ASSUME TypeOK, NEW i \in Jobs, JobInv(i), Requeue(i)
    PROVE  JobInv(i)'
<1>. USE DEF Requeue
<1>1. OrphanInv(i)' /\ BackedInv(i)'
  BY BackedKept DEF JobInv
<1>2. WorkInv(i)'
  BY DEF TypeOK, WorkInv, Submitting, Running
<1>3. AttemptInv(i)'
  BY AttemptsAssumption DEF TypeOK, JobInv, AttemptInv
<1>. QED
  BY <1>1, <1>2, <1>3 DEF JobInv

\* Moves of the worker that write nothing.
LEMMA DeliverInv ==
    ASSUME TypeOK, NEW i \in Jobs, JobInv(i), Deliver(i)
    PROVE  JobInv(i)'
<1>. USE DEF Deliver
<1>1. OrphanInv(i)' /\ BackedInv(i)'
  BY BackedKept DEF JobInv
<1>2. WorkInv(i)'
  BY DEF TypeOK, WorkInv, Submitting, Running
<1>3. AttemptInv(i)'
  BY AttemptKept DEF TypeOK, JobInv, Held, Over, Submitting
<1>. QED
  BY <1>1, <1>2, <1>3 DEF JobInv

\* A resumed job has reached nothing that the failed one had not.
LEMMA ResumeIfFailedInv ==
    ASSUME TypeOK, NEW i \in Jobs, JobInv(i), ResumeIfFailed(i)
    PROVE  JobInv(i)'
<1>. USE DEF ResumeIfFailed
<1>1. /\ UNCHANGED <<docRow, rows, lastGen, jobRow, attempt, task, requestVars, dirVars,
                     points, requeues>>
      /\ pc[i] = "resume" /\ pc'[i] \in {"raised", "check"}
      /\ stage'[i] = "failed" => pc'[i] = "raised"
  BY RetryFromType DEF TypeOK, TransitionJob
<1>2. /\ \A t \in ForwardStages \ {"uploaded"} : Reached(i, t)' => Reached(i, t)
      /\ (stage[i] = "ready")' => stage[i] = "ready"
  <2>1. CASE UNCHANGED <<docVars, jobVars>>
    BY <2>1 DEF Reached
  <2>2. CASE stage[i] = "failed" /\ TransitionJob(i, RetryFrom[failedAt[i]])
    <3>1. failedAt[i] \in Stages \ {"ready"}
      BY DEF TypeOK
    <3>2. RetryFrom[failedAt[i]] \in Stages \ {"ready", "failed"}
      BY <3>1, RetryFromType
    <3>3. stage'[i] = RetryFrom[failedAt[i]]
      BY <2>2 DEF TypeOK, TransitionJob
    <3>4. \A t \in ForwardStages \ {"uploaded"} :
             StageReached(RetryFrom[failedAt[i]], t) => StageReached(failedAt[i], t)
      BY <3>1, RetryGoesBack
    <3>. QED
      BY <2>2, <3>2, <3>3, <3>4 DEF Reached
  <2>. QED
    BY <2>1, <2>2
<1>3. OrphanInv(i)'
  BY <1>1 DEF JobInv
<1>4. BackedInv(i)'
  BY <1>1, <1>2 DEF JobInv, BackedInv, Kept, ForwardStages
<1>5. WorkInv(i)'
  BY <1>1 DEF WorkInv, Submitting, Running
<1>6. AttemptInv(i)'
  BY <1>1, AttemptKept DEF JobInv, Over, Submitting
<1>. QED
  BY <1>3, <1>4, <1>5, <1>6 DEF JobInv

\* A task that is not skipped finds its stage not reached; the digest that the
\* next task's input has is the one it was checked against.
LEMMA CheckStageInv ==
    ASSUME TypeOK, NEW i \in Jobs, JobInv(i), CheckStage(i)
    PROVE  JobInv(i)'
<1>. USE DEF CheckStage, FinishTask
<1>1. OrphanInv(i)' /\ BackedInv(i)'
  BY BackedKept DEF JobInv
<1>2. WorkInv(i)'
  <2>1. pc[i] = "check" /\ stage[i] # "failed"
    BY DEF JobInv, WorkInv, Running
  <2>2. CASE pc'[i] \notin Running
    BY <2>1, <2>2 DEF TypeOK, WorkInv, Running, Submitting
  <2>3. CASE ~CanSkip(i) /\ Step(i, "work")
    BY <2>1, <2>3 DEF TypeOK, JobInv, WorkInv, BackedInv, CanSkip, Reached, StageReached,
       Rank, Submitting, Running, Stages, ForwardStages
  <2>. QED
    BY <2>2, <2>3 DEF TypeOK, Running
<1>3. AttemptInv(i)'
  BY AttemptKept DEF TypeOK, JobInv, Over, Submitting
<1>. QED
  BY <1>1, <1>2, <1>3 DEF JobInv

\* A text that has its digest keeps it.
LEMMA ParseInv ==
    ASSUME TypeOK, NEW i \in Jobs, JobInv(i), Parse(i)
    PROVE  JobInv(i)'
<1>. USE DEF Parse
<1>1. OrphanInv(i)'
  BY DEF JobInv, TypeOK
<1>2. BackedInv(i)'
  BY DEF TypeOK, JobInv, BackedInv, Kept, Reached
<1>3. WorkInv(i)'
  BY DEF TypeOK, JobInv, WorkInv, Reached, Running, Submitting
<1>4. AttemptInv(i)'
  BY AttemptKept DEF TypeOK, JobInv, Over, Submitting
<1>. QED
  BY <1>1, <1>2, <1>3, <1>4 DEF JobInv

\* New rows: no stage that vouches for the old ones has been reached.
LEMMA SetChunksInv ==
    ASSUME TypeOK, NEW i \in Jobs, JobInv(i), SetChunks(i)
    PROVE  JobInv(i)'
<1>. USE DEF SetChunks
<1>1. OrphanInv(i)'
  BY DEF JobInv, TypeOK
<1>2. BackedInv(i)'
  BY DEF TypeOK, JobInv, BackedInv, WorkInv, Kept, Reached, StageReached, Rank, Running, Stages, ForwardStages
<1>3. WorkInv(i)'
  BY DEF TypeOK, JobInv, WorkInv, Reached, Running, Submitting
<1>4. AttemptInv(i)'
  BY AttemptKept DEF TypeOK, JobInv, Over, Submitting
<1>. QED
  BY <1>1, <1>2, <1>3, <1>4 DEF JobInv

\* A deletion in between raises; the rows are still the new ones.
LEMMA StampVersionInv ==
    ASSUME TypeOK, NEW i \in Jobs, JobInv(i), StampVersion(i)
    PROVE  JobInv(i)'
<1>. USE DEF StampVersion
<1>1. OrphanInv(i)' /\ BackedInv(i)'
  BY BackedKept DEF JobInv
<1>2. WorkInv(i)'
  BY DEF TypeOK, JobInv, WorkInv, Reached, Running, Submitting
<1>3. AttemptInv(i)'
  BY AttemptKept DEF TypeOK, JobInv, Over, Submitting
<1>. QED
  BY <1>1, <1>2, <1>3 DEF JobInv

\* chunks.json gets the rows' generation before the stage is committed.
LEMMA WriteChunksInv ==
    ASSUME TypeOK, NEW i \in Jobs, JobInv(i), WriteChunks(i)
    PROVE  JobInv(i)'
<1>. USE DEF WriteChunks
<1>1. OrphanInv(i)'
  BY DEF JobInv, TypeOK
<1>2. BackedInv(i)'
  BY DEF TypeOK, JobInv, BackedInv, WorkInv, Kept, Reached, StageReached, Rank, Running, Stages, ForwardStages
<1>3. WorkInv(i)'
  BY DEF TypeOK, JobInv, WorkInv, Reached, Running, Submitting
<1>4. AttemptInv(i)'
  BY AttemptKept DEF TypeOK, JobInv, Over, Submitting
<1>. QED
  BY <1>1, <1>2, <1>3, <1>4 DEF JobInv

\* The chunks listed are there to be embedded.
LEMMA EmbedInv ==
    ASSUME TypeOK, NEW i \in Jobs, JobInv(i), Embed(i)
    PROVE  JobInv(i)'
<1>. USE DEF Embed
<1>1. OrphanInv(i)' /\ BackedInv(i)'
  BY BackedKept DEF JobInv
<1>2. WorkInv(i)'
  BY DEF TypeOK, JobInv, WorkInv, Reached, Running, Submitting
<1>3. AttemptInv(i)'
  BY AttemptKept DEF TypeOK, JobInv, Over, Submitting
<1>. QED
  BY <1>1, <1>2, <1>3 DEF JobInv

\* New vectors: their stage has not been reached.
LEMMA WriteVectorsInv ==
    ASSUME TypeOK, NEW i \in Jobs, JobInv(i), WriteVectors(i)
    PROVE  JobInv(i)'
<1>. USE DEF WriteVectors
<1>1. OrphanInv(i)'
  BY DEF JobInv, TypeOK
<1>2. BackedInv(i)'
  BY DEF TypeOK, JobInv, BackedInv, WorkInv, Kept, Reached, StageReached, Rank, Running, Stages, ForwardStages
<1>3. WorkInv(i)'
  BY DEF TypeOK, JobInv, WorkInv, Reached, Running, Submitting
<1>4. AttemptInv(i)'
  BY AttemptKept DEF TypeOK, JobInv, Over, Submitting
<1>. QED
  BY <1>1, <1>2, <1>3, <1>4 DEF JobInv

\* The digests come last, so an artifact that has one is complete.
LEMMA WriteDigestInv ==
    ASSUME TypeOK, NEW i \in Jobs, JobInv(i), WriteDigest(i)
    PROVE  JobInv(i)'
<1>. USE DEF WriteDigest
<1>1. OrphanInv(i)'
  BY DEF JobInv, TypeOK
<1>2. BackedInv(i)'
  BY DEF TypeOK, JobInv, BackedInv, WorkInv, Kept, Reached, StageReached, Rank, Running, Stages, ForwardStages
<1>3. WorkInv(i)'
  BY DEF TypeOK, JobInv, WorkInv, Reached, Running, Submitting
<1>4. AttemptInv(i)'
  BY AttemptKept DEF TypeOK, JobInv, Over, Submitting
<1>. QED
  BY <1>1, <1>2, <1>3, <1>4 DEF JobInv

\* The points of an unfinished index task are no ready job's.
LEMMA UpsertInv ==
    ASSUME TypeOK, NEW i \in Jobs, JobInv(i), Upsert(i)
    PROVE  JobInv(i)'
<1>. USE DEF Upsert
<1>1. OrphanInv(i)'
  BY DEF JobInv, TypeOK
<1>2. BackedInv(i)'
  BY DEF TypeOK, JobInv, BackedInv, WorkInv, Kept, Reached, StageReached, Running
<1>3. WorkInv(i)'
  BY DEF TypeOK, JobInv, WorkInv, Reached, Running, Submitting
<1>4. AttemptInv(i)'
  BY AttemptKept DEF TypeOK, JobInv, Over, Submitting
<1>. QED
  BY <1>1, <1>2, <1>3, <1>4 DEF JobInv

\* Points of one generation only, and chunks.json's are among them.
LEMMA ReconcileInv ==
    ASSUME TypeOK, NEW i \in Jobs, JobInv(i), Reconcile(i)
    PROVE  JobInv(i)'
<1>. USE DEF Reconcile
<1>1. OrphanInv(i)' /\ BackedInv(i)'
  BY BackedKept DEF JobInv
<1>2. WorkInv(i)'
  BY DEF TypeOK, JobInv, WorkInv, Kept, Reached, Running, Submitting
<1>3. AttemptInv(i)'
  BY AttemptKept DEF TypeOK, JobInv, Over, Submitting
<1>. QED
  BY <1>1, <1>2, <1>3 DEF JobInv

\* A retry is only given to a job that has an attempt left.
LEMMA RetryOrGiveUpInv ==
    ASSUME TypeOK, NEW i \in Jobs, JobInv(i), RetryOrGiveUp(i)
    PROVE  JobInv(i)'
<1>. USE DEF RetryOrGiveUp
<1>1. OrphanInv(i)' /\ BackedInv(i)'
  BY BackedKept DEF JobInv
<1>2. WorkInv(i)'
  BY DEF TypeOK, JobInv, WorkInv, Running, Submitting
<1>3. AttemptInv(i)'
  BY AttemptsAssumption DEF TypeOK, JobInv, AttemptInv, Over, Submitting
<1>. QED
  BY <1>1, <1>2, <1>3 DEF JobInv

\* A dead process leaves everything as it is.
LEMMA CrashInv ==
    ASSUME TypeOK, NEW i \in Jobs, JobInv(i), Crash(i)
    PROVE  JobInv(i)'
<1>. USE DEF Crash
<1>1. OrphanInv(i)' /\ BackedInv(i)'
  BY BackedKept DEF JobInv
<1>2. WorkInv(i)'
  BY DEF TypeOK, JobInv, WorkInv, Over, Submitting, Running
<1>3. AttemptInv(i)'
  BY AttemptKept DEF TypeOK, JobInv, Over, Submitting
<1>. QED
  BY <1>1, <1>2, <1>3 DEF JobInv

\* A failed upsert may have reached the store; its job is not ready.
LEMMA FaultInv ==
    ASSUME TypeOK, NEW i \in Jobs, JobInv(i), Fault(i)
    PROVE  JobInv(i)'
<1>. USE DEF Fault
<1>1. OrphanInv(i)'
  BY DEF JobInv, TypeOK
<1>2. BackedInv(i)'
  BY DEF TypeOK, JobInv, BackedInv, WorkInv, Kept, Reached, StageReached, Running
<1>3. WorkInv(i)'
  BY DEF TypeOK, JobInv, WorkInv, Reached, Running, Submitting, Over, Held, Handling
<1>4. AttemptInv(i)'
  BY AttemptKept DEF TypeOK, JobInv, Over, Submitting, Running, Held, Handling
<1>. QED
  BY <1>1, <1>2, <1>3, <1>4 DEF JobInv

\* What transition_job leaves alone, and what it writes.
LEMMA TransitionEffect ==
    ASSUME TypeOK, NEW i \in Jobs, NEW to \in Stages, TransitionJob(i, to)
    PROVE  /\ UNCHANGED <<jobRow, docRow, rows, lastGen>>
           /\ stage'[i] = to
           /\ to # "failed" => attempt'[i] = attempt[i]
           /\ to = "failed" /\ stage[i] # "failed" => /\ failedAt'[i] = stage[i]
                                                      /\ attempt'[i] = attempt[i] + 1
           /\ to = "failed" /\ stage[i] = "failed" => /\ failedAt'[i] = failedAt[i]
                                                      /\ attempt'[i] = attempt[i]
  BY DEF TypeOK, TransitionJob

\* A commit moves the job one stage, and the task has left behind what that
\* stage stands for.
LEMMA CommitStageInv ==
    ASSUME TypeOK, NEW i \in Jobs, JobInv(i), CommitStage(i)
    PROVE  JobInv(i)'
<1>. USE DEF CommitStage
<1>1. /\ pc[i] = "commit" /\ task[i] \in Tasks /\ stage[i] \in Stages \ {"failed"}
      /\ Target[task[i]] \in ForwardStages \ {"uploaded", "ready"}
  BY DEF TypeOK, JobInv, WorkInv, Running, Tasks, Target, ForwardStages
<1>2. CASE Raise(i) /\ UNCHANGED <<docVars, jobVars>>
  <2>1. OrphanInv(i)' /\ BackedInv(i)'
    BY <1>2, BackedKept DEF JobInv
  <2>2. WorkInv(i)'
    BY <1>2 DEF TypeOK, WorkInv, Submitting, Running
  <2>3. AttemptInv(i)'
    BY <1>1, <1>2, AttemptKept DEF TypeOK, JobInv, Over, Submitting
  <2>. QED
    BY <2>1, <2>2, <2>3 DEF JobInv
<1>3. CASE /\ MayMove(i, Target[task[i]])
           /\ TransitionJob(i, Target[task[i]])
           /\ IF task[i] = "index" THEN Step(i, "count") ELSE FinishTask(i)
  <2>1. /\ UNCHANGED <<jobRow, docRow, rows, lastGen>>
        /\ stage'[i] = Target[task[i]] /\ attempt'[i] = attempt[i]
    BY <1>1, <1>3, TransitionEffect DEF Stages, ForwardStages
  <2>2. \/ stage[i] = Target[task[i]]
        \/ /\ stage[i] \in ForwardStages
           /\ Rank[Target[task[i]]] = Rank[stage[i]] + 1
    BY <1>1, <1>3, CommitsFromBefore DEF MayMove
  <2>3. /\ task[i] = "index" => pc'[i] = "count" /\ task'[i] = "index"
        /\ task[i] # "index" => pc'[i] = "queued"
    BY <1>3 DEF TypeOK, FinishTask
  <2>4. OrphanInv(i)'
    BY <2>1 DEF JobInv
  <2>5. BackedInv(i)'
    BY <1>1, <2>1, <2>2 DEF JobInv, BackedInv, WorkInv, Kept, Reached, StageReached, Rank,
       Tasks, Target, Stages, ForwardStages
  <2>6. WorkInv(i)'
    BY <1>1, <2>1, <2>3 DEF JobInv, WorkInv, Kept, Tasks, Target, Submitting, Running
  <2>7. AttemptInv(i)'
    BY <1>1, <2>1, <2>3 DEF JobInv, AttemptInv, Over, Submitting
  <2>. QED
    BY <2>4, <2>5, <2>6, <2>7 DEF JobInv
<1>. QED
  BY <1>2, <1>3

\* Ready is entered with the points of the present generation and no others.
LEMMA MarkReadyInv ==
    ASSUME TypeOK, NEW i \in Jobs, JobInv(i), MarkReady(i)
    PROVE  JobInv(i)'
<1>. USE DEF MarkReady
<1>1. pc[i] = "ready" /\ task[i] = "index" /\ stage[i] = "indexed"
  BY DEF JobInv, WorkInv
<1>2. CASE Raise(i) /\ UNCHANGED <<docVars, jobVars>>
  <2>1. OrphanInv(i)' /\ BackedInv(i)'
    BY <1>2, BackedKept DEF JobInv
  <2>2. WorkInv(i)'
    BY <1>2 DEF TypeOK, WorkInv, Submitting, Running
  <2>3. AttemptInv(i)'
    BY <1>1, <1>2, AttemptKept DEF TypeOK, JobInv, Over, Submitting
  <2>. QED
    BY <2>1, <2>2, <2>3 DEF JobInv
<1>3. CASE TransitionJob(i, "ready") /\ FinishTask(i)
  <2>1. /\ UNCHANGED <<jobRow, docRow, rows, lastGen>>
        /\ stage'[i] = "ready"
    BY <1>3, TransitionEffect DEF Stages, ForwardStages
  <2>2. attempt'[i] = attempt[i] /\ pc'[i] = "done"
    BY <1>1, <1>3 DEF TypeOK, TransitionJob, FinishTask
  <2>3. OrphanInv(i)'
    BY <2>1 DEF JobInv
  <2>4. BackedInv(i)'
    BY <1>1, <2>1 DEF JobInv, BackedInv, WorkInv, Kept, Reached, StageReached, Rank
  <2>5. WorkInv(i)'
    BY <2>2 DEF WorkInv, Submitting, Running
  <2>6. AttemptInv(i)'
    BY <1>1, <2>1, <2>2 DEF JobInv, AttemptInv, Over, Submitting
  <2>. QED
    BY <2>3, <2>4, <2>5, <2>6 DEF JobInv
<1>. QED
  BY <1>2, <1>3

\* A failed job has reached what it had, and used one attempt.
LEMMA MarkFailedInv ==
    ASSUME TypeOK, NEW i \in Jobs, JobInv(i), MarkFailed(i)
    PROVE  JobInv(i)'
<1>. USE DEF MarkFailed
<1>1. /\ pc[i] = "raised" /\ stage[i] \in Stages
      /\ UNCHANGED <<requestVars, dirVars, points, boundVars>>
  BY DEF TypeOK
<1>2. CASE Step(i, "error") /\ UNCHANGED <<docVars, jobVars>>
  <2>1. OrphanInv(i)' /\ BackedInv(i)'
    BY <1>2, BackedKept DEF JobInv
  <2>2. WorkInv(i)'
    BY <1>2 DEF TypeOK, WorkInv, Submitting, Running
  <2>3. AttemptInv(i)'
    BY <1>1, <1>2, AttemptKept DEF TypeOK, JobInv, Over, Submitting
  <2>. QED
    BY <2>1, <2>2, <2>3 DEF JobInv
<1>3. CASE MayMove(i, "failed") /\ TransitionJob(i, "failed") /\ Step(i, "decide")
  <2>1. /\ UNCHANGED <<jobRow, docRow, rows, lastGen>>
        /\ stage'[i] = "failed"
        /\ stage[i] # "failed" => /\ failedAt'[i] = stage[i]
                                  /\ attempt'[i] = attempt[i] + 1
        /\ stage[i] = "failed" => /\ failedAt'[i] = failedAt[i]
                                  /\ attempt'[i] = attempt[i]
    BY <1>3, TransitionEffect DEF Stages
  <2>2. pc'[i] = "decide"
    BY <1>3 DEF TypeOK
  <2>3. OrphanInv(i)'
    BY <2>1 DEF JobInv
  <2>4. BackedInv(i)'
    BY <1>1, <2>1 DEF JobInv, BackedInv, Reached
  <2>5. WorkInv(i)'
    BY <2>2 DEF WorkInv, Submitting, Running
  <2>6. AttemptInv(i)'
    <3>1. jobRow[i]
      BY <1>3 DEF MayMove
    <3>2. attempt[i] < MaxAttempts + requeues[i]
      BY <1>1, <3>1 DEF JobInv, AttemptInv, Over
    <3>3. attempt[i] \in Nat /\ requeues[i] \in Nat /\ MaxAttempts \in Nat
      BY AttemptsAssumption DEF TypeOK
    <3>. QED
      BY <1>1, <2>1, <2>2, <3>2, <3>3 DEF AttemptInv
  <2>. QED
    BY <2>3, <2>4, <2>5, <2>6 DEF JobInv
<1>. QED
  BY <1>2, <1>3

\* A deletion takes rows and points away; what the invariant says of them, it
\* says of documents nobody has begun to delete.
LEMMA DeleteInv ==
    ASSUME TypeOK, NEW i \in Jobs, JobInv(i), Delete(i)
    PROVE  JobInv(i)'
<1>. USE DEF Delete, DeleteVectors, DeleteRows, AdminDeleteDocument, RemoveDocument
<1>1. /\ UNCHANGED <<lastGen, jobVars, dirVars, chainVars, boundVars>>
      /\ docRow'[i] => docRow[i] /\ rows'[i] = rows[i]
      /\ Kept(i)' => Kept(i) /\ points'[i] = points[i]
  BY DEF TypeOK, Kept
<1>2. OrphanInv(i)'
  BY DEF TypeOK, JobInv
<1>3. BackedInv(i)'
  BY <1>1 DEF JobInv, BackedInv, Reached
<1>4. WorkInv(i)'
  BY <1>1 DEF JobInv, WorkInv, Reached
<1>5. AttemptInv(i)'
  BY <1>1 DEF JobInv, AttemptInv
<1>. QED
  BY <1>2, <1>3, <1>4, <1>5 DEF JobInv

\* What delete_kb reads is of no consequence before it deletes: the knowledge
\* base is there, so no document has been removed with it.
LEMMA ReadDocIdsInv ==
    ASSUME TypeOK, NEW i \in Jobs, NEW k \in Kbs, JobInv(i), ReadDocIds(k)
    PROVE  JobInv(i)'
<1>. USE DEF ReadDocIds
<1>1. UNCHANGED <<kbRow, deleting, docVars, jobVars, dirVars, points, chainVars, boundVars>>
  OBVIOUS
<1>2. OrphanInv(i)'
  BY KbAssumption DEF TypeOK, JobInv
<1>3. BackedInv(i)' /\ WorkInv(i)' /\ AttemptInv(i)'
  BY <1>1 DEF JobInv, BackedInv, WorkInv, AttemptInv, Reached, Kept
<1>. QED
  BY <1>2, <1>3 DEF JobInv

\* Rows of a document that was listed go with it; one that was not is excepted.
LEMMA DeleteKbInv ==
    ASSUME TypeOK, NEW i \in Jobs, NEW k \in Kbs, JobInv(i), DeleteKb(k)
    PROVE  JobInv(i)'
<1>. USE DEF DeleteKb
<1>1. /\ UNCHANGED <<deleting, lastGen, stage, attempt, failedAt, dirVars, points,
                     chainVars, boundVars>>
      /\ docRow'[i] => docRow[i] /\ rows'[i] = rows[i]
      /\ ~docRow'[i] <=> ~docRow[i] \/ KbOf[i] = k
      /\ rows'[i] = IF KbOf[i] = k /\ i \in docIds THEN 0 ELSE rows[i]
      /\ jobRow'[i] => jobRow[i]
  BY KbAssumption DEF TypeOK
<1>2. OrphanInv(i)'
  BY KbAssumption DEF TypeOK, JobInv
<1>3. BackedInv(i)'
  BY <1>1 DEF JobInv, BackedInv, Reached, Kept
<1>4. WorkInv(i)'
  BY <1>1 DEF JobInv, WorkInv, Reached, Kept
<1>5. AttemptInv(i)'
  BY <1>1 DEF JobInv, AttemptInv
<1>. QED
  BY <1>2, <1>3, <1>4, <1>5 DEF JobInv
LEMMA RunTaskInv ==
    ASSUME TypeOK, NEW i \in Jobs, JobInv(i), RunTask(i)
    PROVE  JobInv(i)'
  BY DeliverInv, ResumeIfFailedInv, CheckStageInv, ParseInv, SetChunksInv, StampVersionInv,
     WriteChunksInv, EmbedInv, WriteVectorsInv, WriteDigestInv, UpsertInv, CommitStageInv,
     ReconcileInv, MarkReadyInv, MarkFailedInv, RetryOrGiveUpInv DEF RunTask

\* What one job's handler, worker or deletion does is nothing to another job.
LEMMA OthersUntouched ==
    ASSUME TypeOK, NEW i \in Jobs, NEW j \in Jobs, i # j,
           Submit(j) \/ RunTask(j) \/ Requeue(j) \/ Fault(j) \/ Crash(j) \/ Delete(j)
    PROVE  Untouched(i)
<1>. USE DEF TypeOK, Untouched
<1>1. CASE Submit(j)
  BY <1>1 DEF Submit, CheckKb, CreateDocument, CreateJob, StoreSource, EnqueueIngest
<1>2. CASE Requeue(j) \/ Fault(j) \/ Crash(j)
  BY <1>2 DEF Requeue, Fault, Crash
<1>3. CASE Delete(j)
  BY <1>3 DEF Delete, DeleteVectors, DeleteRows, AdminDeleteDocument, RemoveDocument
<1>4. CASE Deliver(j) \/ CheckStage(j) \/ RetryOrGiveUp(j)
  BY <1>4 DEF Deliver, CheckStage, FinishTask, RetryOrGiveUp
<1>5. CASE Parse(j) \/ SetChunks(j) \/ StampVersion(j) \/ WriteChunks(j)
  BY <1>5 DEF Parse, SetChunks, StampVersion, WriteChunks
<1>6. CASE Embed(j) \/ WriteVectors(j) \/ WriteDigest(j) \/ Upsert(j) \/ Reconcile(j)
  BY <1>6 DEF Embed, WriteVectors, WriteDigest, Upsert, Reconcile
<1>7. CASE ResumeIfFailed(j) \/ CommitStage(j) \/ MarkReady(j) \/ MarkFailed(j)
  BY <1>7 DEF ResumeIfFailed, CommitStage, MarkReady, MarkFailed, TransitionJob, FinishTask
<1>. QED
  BY <1>1, <1>2, <1>3, <1>4, <1>5, <1>6, <1>7 DEF RunTask

LEMMA IndInvInit == Init => IndInv
  BY AttemptsAssumption
  DEF Init, IndInv, JobInv, BackedInv, WorkInv, AttemptInv, Kept, Reached, StageReached,
      Rank, Submitting, Running, Over

LEMMA IndInvNext == TypeOK /\ IndInv /\ [Next]_vars => IndInv'
<1>. SUFFICES ASSUME TypeOK, IndInv, [Next]_vars, NEW i \in Jobs
              PROVE  JobInv(i)'
  BY DEF IndInv
<1>0. JobInv(i)
  BY DEF IndInv
<1>1. CASE Submit(i) \/ RunTask(i) \/ Requeue(i) \/ Fault(i) \/ Crash(i) \/ Delete(i)
  BY <1>0, <1>1, SubmitInv, RunTaskInv, RequeueInv, FaultInv, CrashInv, DeleteInv
<1>2. ASSUME NEW j \in Jobs, i # j,
             Submit(j) \/ RunTask(j) \/ Requeue(j) \/ Fault(j) \/ Crash(j) \/ Delete(j)
      PROVE  JobInv(i)'
  BY <1>0, <1>2, OthersUntouched, UntouchedInv
<1>3. ASSUME NEW k \in Kbs, ReadDocIds(k) \/ DeleteKb(k)
      PROVE  JobInv(i)'
  BY <1>0, <1>3, ReadDocIdsInv, DeleteKbInv
<1>4. CASE UNCHANGED vars
  <2>1. Untouched(i)
    BY <1>4 DEF vars, Untouched
  <2>. QED
    BY <1>0, <2>1, UntouchedInv
<1>. QED
  BY <1>1, <1>2, <1>3, <1>4 DEF Next

\* The invariant the safety properties follow from, in every execution: what a
\* job's stage vouches for, what its worker has in hand, and the attempts left.
THEOREM Inductive == Spec => [](TypeOK /\ IndInv)
  BY InitType, NextType, IndInvInit, IndInvNext, PTL DEF Spec

--------------------------------------------------------------------------------
(* The safety properties.                                                  *)

LEMMA SafetyFromIndInv ==
    ASSUME TypeOK, IndInv
    PROVE  ReadyMeansIndexed /\ ArtifactsBackStage /\ AttemptsBounded /\ NoRowsWithoutDocument
<1>1. ASSUME NEW i \in Jobs, NEW t \in ForwardStages, StageReached(stage[i], t)
      PROVE  Reached(i, t)
  BY <1>1 DEF Reached, StageReached
<1>2. ReadyMeansIndexed
  BY DEF ReadyMeansIndexed, IndInv, JobInv, BackedInv, Kept, Reached, StageReached
<1>3. ArtifactsBackStage
  BY <1>1 DEF ArtifactsBackStage, IndInv, JobInv, BackedInv, ForwardStages
<1>4. AttemptsBounded
  BY DEF AttemptsBounded, IndInv, JobInv, AttemptInv
<1>5. NoRowsWithoutDocument
  BY DEF NoRowsWithoutDocument, IndInv, JobInv
<1>. QED
  BY <1>2, <1>3, <1>4, <1>5

\* A ready job's document, unless its deletion has begun, has exactly the points
\* of its present chunk rows in the vector store: no interleaving of failed
\* calls, retries, crashes, re-enqueued chains and deletions marks a document
\* ready with missing or left-over vectors (index_stage's reconciliation).
THEOREM ReadyIsIndexed == Spec => []ReadyMeansIndexed
  BY Inductive, SafetyFromIndInv, PTL

\* The stage in the registry never vouches for an artifact that is missing,
\* lacks its digest, or is of another generation than the registry's rows: the
\* idempotence check of a stage method only skips work that is done.
THEOREM StageIsBacked == Spec => []ArtifactsBackStage
  BY Inductive, SafetyFromIndInv, PTL

\* Whatever fails however often, a job uses at most MaxAttempts attempts and one
\* more for each time an operator enqueues it again (_handle_failure).
THEOREM AttemptsAreBounded == Spec => []AttemptsBounded
  BY Inductive, SafetyFromIndInv, PTL

\* Chunk rows go with their document and never come back, for any interleaving of
\* chunk tasks, retries and the three deletions, but for a document registered
\* after delete_kb listed the documents of its knowledge base.
THEOREM DeletedRowsStayDeleted == Spec => []NoRowsWithoutDocument
  BY Inductive, SafetyFromIndInv, PTL

--------------------------------------------------------------------------------
(* The end of a chain.  Two things keep it from being recorded: an         *)
(* exception nothing catches (the construction of the pipeline is outside  *)
(* the try of a task, the failure handler has none of its own), and a      *)
(* death after the stage indexed was committed, which a later chain skips. *)

EndsAreHandled ==
    /\ \A t \in Tasks : <<t, "queued">> \notin FaultPoints /\ <<t, "raised">> \notin FaultPoints
    /\ \A p \in {"count", "ready", "raised"} : <<"index", p>> \notin CrashPoints

\* A job stays at indexed only while its index task goes on; a chain that waits
\* for a retry or has given up has recorded its failure.
EndInv(i) == jobRow[i] =>
    /\ stage[i] = "indexed" => task[i] = "index" /\ pc[i] \in {"count", "ready", "raised"}
    /\ pc[i] = "done" => stage[i] = "ready"
    /\ pc[i] \in {"decide", "waiting", "dlq"} => stage[i] = "failed"
    /\ pc[i] = "error" => stage[i] \in {"failed", "ready"}

\* A task that returns ends its chain only as the index task.
LEMMA FinishEffect ==
    ASSUME TypeOK, NEW i \in Jobs, FinishTask(i)
    PROVE  \/ task[i] = "index" /\ task'[i] = "index" /\ pc'[i] = "done"
           \/ task[i] # "index" /\ pc'[i] = "queued"
  BY DEF TypeOK, FinishTask

\* The steps of the chain's own processes.
LEMMA RunTaskEnd ==
    ASSUME TypeOK, NEW i \in Jobs, JobInv(i), EndInv(i), RunTask(i)
    PROVE  EndInv(i)'
<1>. USE DEF EndInv
<1>1. /\ task[i] \in Tasks /\ pc[i] \in PCs /\ stage[i] \in Stages
      /\ pc \in [Jobs -> PCs] /\ task \in [Jobs -> Tasks] /\ jobRow' = jobRow
  BY DEF TypeOK, RunTask, Deliver, ResumeIfFailed, CheckStage, Parse, SetChunks, StampVersion,
     WriteChunks, Embed, WriteVectors, WriteDigest, Upsert, CommitStage, Reconcile, MarkReady,
     MarkFailed, RetryOrGiveUp, TransitionJob
<1>2. CASE Deliver(i) \/ Parse(i) \/ SetChunks(i) \/ StampVersion(i) \/ WriteChunks(i)
             \/ Embed(i) \/ WriteVectors(i) \/ WriteDigest(i) \/ Upsert(i)
  <2>1. /\ UNCHANGED <<stage, task>> /\ pc[i] \notin {"count", "ready", "raised"}
        /\ pc'[i] \in {"resume", "digest", "raised", "version", "artifact", "commit"}
    BY <1>1, <1>2 DEF Deliver, Parse, SetChunks, StampVersion, WriteChunks, Embed,
       WriteVectors, WriteDigest, Upsert, Held
  <2>. QED
    BY <1>1, <2>1
<1>3. CASE ResumeIfFailed(i)
  <2>1. CASE UNCHANGED jobVars
    BY <1>1, <1>3, <2>1 DEF ResumeIfFailed
  <2>2. CASE TransitionJob(i, RetryFrom[failedAt[i]]) /\ Step(i, "check")
    <3>1. RetryFrom[failedAt[i]] \in Stages \ {"indexed"} /\ failedAt[i] \in Stages \ {"ready"}
      BY DEF TypeOK, RetryFrom, Stages, ForwardStages
    <3>2. stage'[i] = RetryFrom[failedAt[i]] /\ pc'[i] = "check"
      BY <1>1, <2>2, <3>1, TransitionEffect
    <3>. QED
      BY <3>1, <3>2
  <2>. QED
    BY <1>3, <2>1, <2>2 DEF ResumeIfFailed
<1>4. CASE CheckStage(i)
  <2>1. pc[i] = "check" /\ UNCHANGED stage
    BY <1>4 DEF CheckStage
  <2>2. CASE ~jobRow[i]
    BY <1>1, <2>2
  <2>3. CASE jobRow[i] /\ Raise(i)
    BY <1>1, <2>1, <2>3
  <2>4. CASE jobRow[i] /\ CanSkip(i) /\ FinishTask(i)
    <3>1. task[i] = "index" => stage[i] = "ready"
      BY <1>1, <2>1, <2>4 DEF CanSkip, StageReached, Rank, Stages, ForwardStages
    <3>. QED
      BY <1>1, <2>1, <2>4, <3>1, FinishEffect
  <2>5. CASE jobRow[i] /\ Step(i, "work")
    BY <1>1, <2>1, <2>5
  <2>. QED
    BY <1>4, <2>2, <2>3, <2>4, <2>5 DEF CheckStage
<1>5. CASE CommitStage(i)
  <2>1. CASE Raise(i) /\ UNCHANGED jobVars
    BY <1>1, <1>5, <2>1 DEF CommitStage
  <2>2. CASE /\ TransitionJob(i, Target[task[i]])
             /\ IF task[i] = "index" THEN Step(i, "count") ELSE FinishTask(i)
    <3>1. /\ Target[task[i]] \in Stages
          /\ task[i] # "index" => Target[task[i]] # "indexed"
      BY <1>1 DEF Target, Tasks, Stages, ForwardStages
    <3>2. stage'[i] = Target[task[i]]
      BY <2>2, <3>1, TransitionEffect
    <3>3. CASE task[i] = "index"
      BY <1>1, <2>2, <3>3
    <3>4. CASE task[i] # "index"
      BY <2>2, <3>1, <3>2, <3>4, FinishEffect
    <3>. QED
      BY <3>3, <3>4
  <2>. QED
    BY <1>5, <2>1, <2>2 DEF CommitStage
<1>6. CASE Reconcile(i)
  <2>1. /\ UNCHANGED <<stage, task>> /\ pc[i] = "count" /\ pc'[i] \in {"ready", "raised"}
    BY <1>1, <1>6 DEF Reconcile
  <2>. QED
    BY <1>1, <2>1
<1>7. CASE MarkReady(i)
  <2>1. task[i] = "index" /\ pc[i] = "ready"
    BY <1>7 DEF MarkReady, JobInv, WorkInv
  <2>2. CASE Raise(i) /\ UNCHANGED jobVars
    BY <1>1, <2>1, <2>2
  <2>3. CASE TransitionJob(i, "ready") /\ FinishTask(i)
    <3>1. stage'[i] = "ready"
      BY <2>3, TransitionEffect DEF Stages, ForwardStages
    <3>. QED
      BY <2>1, <2>3, <3>1, FinishEffect
  <2>. QED
    BY <1>7, <2>2, <2>3 DEF MarkReady
<1>8. CASE MarkFailed(i)
  <2>1. CASE ~MayMove(i, "failed") /\ Step(i, "error") /\ UNCHANGED jobVars
    <3>1. jobRow[i] => stage[i] \in {"failed", "ready"}
      BY <1>1, <2>1 DEF MayMove, CanTransition, Transitions, Stages, ForwardStages
    <3>. QED
      BY <1>1, <2>1, <3>1
  <2>2. CASE TransitionJob(i, "failed") /\ Step(i, "decide")
    <3>1. stage'[i] = "failed"
      BY <2>2, TransitionEffect DEF Stages
    <3>. QED
      BY <1>1, <2>2, <3>1
  <2>. QED
    BY <1>8, <2>1, <2>2 DEF MarkFailed
<1>9. CASE RetryOrGiveUp(i)
  <2>1. /\ UNCHANGED <<stage, task>> /\ pc[i] = "decide"
        /\ pc'[i] \in {"dlq", "error", "waiting"}
    BY <1>1, <1>9 DEF RetryOrGiveUp
  <2>. QED
    BY <1>1, <2>1
<1>. QED
  BY <1>2, <1>3, <1>4, <1>5, <1>6, <1>7, <1>8, <1>9 DEF RunTask

\* What happens to a chain from outside, where the code handles it.
LEMMA OutsideEnd ==
    ASSUME EndsAreHandled, TypeOK, NEW i \in Jobs, JobInv(i), EndInv(i),
           Submit(i) \/ Requeue(i) \/ Fault(i) \/ Crash(i) \/ Delete(i)
    PROVE  EndInv(i)'
<1>. USE DEF EndInv
<1>1. /\ task[i] \in Tasks /\ pc \in [Jobs -> PCs] /\ task \in [Jobs -> Tasks]
      /\ UNCHANGED stage
  BY DEF TypeOK, Submit, CheckKb, CreateDocument, CreateJob, StoreSource, EnqueueIngest,
     Requeue, Fault, Crash, Delete, DeleteVectors, DeleteRows, AdminDeleteDocument
<1>2. CASE Submit(i)
  <2>1. /\ pc[i] \in Submitting
        /\ pc'[i] \in {"checked", "rejected", "registered", "job_created", "stored", "queued"}
    BY <1>1, <1>2 DEF Submit, CheckKb, CreateDocument, CreateJob, StoreSource, EnqueueIngest,
       Submitting
  <2>2. stage[i] = "uploaded"
    BY <2>1 DEF JobInv, WorkInv
  <2>. QED
    BY <1>1, <2>1, <2>2
<1>3. CASE Requeue(i)
  <2>1. pc'[i] = "queued" /\ jobRow' = jobRow /\ pc[i] \in Over
    BY <1>1, <1>3 DEF Requeue
  <2>. QED
    BY <1>1, <2>1 DEF Over
<1>4. CASE Fault(i)
  <2>1. jobRow' = jobRow /\ task' = task /\ <<task[i], pc[i]>> \in FaultPoints
    BY <1>4 DEF Fault
  <2>2. pc[i] \notin {"queued", "raised"}
    BY <1>1, <2>1 DEF EndsAreHandled
  <2>3. CASE pc[i] \in Running /\ pc'[i] = "raised"
    BY <1>1, <2>1, <2>3 DEF Running
  <2>4. CASE pc[i] \in {"waiting", "decide"} /\ pc'[i] = "error"
    BY <1>1, <2>1, <2>4
  <2>. QED
    BY <1>1, <1>4, <2>2, <2>3, <2>4 DEF Fault, Held, Handling
<1>5. CASE Crash(i)
  <2>1. jobRow' = jobRow /\ task' = task /\ pc'[i] = "lost" /\ <<task[i], pc[i]>> \in CrashPoints
    BY <1>1, <1>5 DEF Crash
  <2>2. task[i] = "index" => pc[i] \notin {"count", "ready", "raised"}
    BY <2>1 DEF EndsAreHandled
  <2>. QED
    BY <1>1, <2>1, <2>2
<1>6. CASE Delete(i)
  BY <1>6 DEF Delete, DeleteVectors, DeleteRows, AdminDeleteDocument
<1>. QED
  BY <1>2, <1>3, <1>4, <1>5, <1>6

LEMMA EndNext ==
    ASSUME EndsAreHandled
    PROVE  TypeOK /\ IndInv /\ (\A i \in Jobs : EndInv(i)) /\ [Next]_vars
              => (\A i \in Jobs : EndInv(i))'
<1>. SUFFICES ASSUME TypeOK, IndInv, \A i \in Jobs : EndInv(i), [Next]_vars, NEW i \in Jobs
              PROVE  EndInv(i)'
  OBVIOUS
<1>0. JobInv(i) /\ EndInv(i)
  BY DEF IndInv
<1>1. CASE Submit(i) \/ RunTask(i) \/ Requeue(i) \/ Fault(i) \/ Crash(i) \/ Delete(i)
  BY <1>0, <1>1, RunTaskEnd, OutsideEnd
<1>2. ASSUME NEW j \in Jobs, i # j,
             Submit(j) \/ RunTask(j) \/ Requeue(j) \/ Fault(j) \/ Crash(j) \/ Delete(j)
      PROVE  EndInv(i)'
  <2>1. Untouched(i)
    BY <1>2, OthersUntouched
  <2>. QED
    BY <1>0, <2>1 DEF EndInv, Untouched
<1>3. ASSUME NEW k \in Kbs, ReadDocIds(k) \/ DeleteKb(k)
      PROVE  EndInv(i)'
  <2>1. UNCHANGED <<stage, task, pc>> /\ (jobRow'[i] => jobRow[i])
    BY <1>3 DEF TypeOK, ReadDocIds, DeleteKb
  <2>. QED
    BY <1>0, <2>1 DEF EndInv
<1>4. CASE UNCHANGED vars
  BY <1>0, <1>4 DEF EndInv, vars
<1>. QED
  BY <1>1, <1>2, <1>3, <1>4 DEF Next

\* However a chain ends, its job says so, for any jobs, attempts, re-enqueues and
\* deletions: ready at the end of the chain, failed in the DLQ and after an error, unless
\* it was ready before.  Assumed is that no call fails outside the handlers, and that
\* no worker dies between the commits of indexed and of ready.
THEOREM EndRecorded ==
    ASSUME EndsAreHandled
    PROVE  Spec => []EndIsRecorded
<1>1. Init => \A i \in Jobs : EndInv(i)
  BY DEF Init, EndInv
<1>2. TypeOK /\ IndInv /\ (\A i \in Jobs : EndInv(i)) /\ [Next]_vars
        => (\A i \in Jobs : EndInv(i))'
  BY EndNext
<1>3. (\A i \in Jobs : EndInv(i)) => EndIsRecorded
  BY DEF EndInv, EndIsRecorded
<1>. QED
  BY <1>1, <1>2, <1>3, Inductive, PTL DEF Spec

--------------------------------------------------------------------------------
(* What a step may never do to a job's stage.                              *)

\* The stage of a job changes along the whitelist of the stage machine only, and
\* only while the job is there (transition_job): also where a task resumes, whose
\* transition is taken without asking.
StagesMoveLegally == [][\A j \in Jobs : stage'[j] # stage[j] =>
                           jobRow[j] /\ CanTransition(stage[j], stage'[j])]_vars

\* A job that is ready stays so: no late chain, failure or retry takes it back.
ReadyIsForGood == [][\A j \in Jobs : stage[j] = "ready" => stage'[j] = "ready"]_vars

LEMMA TransitionLegal ==
    ASSUME TypeOK, NEW i \in Jobs, NEW to \in Stages, TransitionJob(i, to), jobRow[i],
           stage[i] = to \/ CanTransition(stage[i], to)
    PROVE  \A j \in Jobs : stage'[j] # stage[j] =>
              jobRow[j] /\ CanTransition(stage[j], stage'[j])
<1>1. \A j \in Jobs : stage'[j] = IF j = i THEN to ELSE stage[j]
  BY DEF TypeOK, TransitionJob
<1>. QED
  BY <1>1

\* Every transition the tasks ask for is on the whitelist, or ends in an exception.
THEOREM StagesLegal == Spec => StagesMoveLegally
<1>. DEFINE Legal == \A j \in Jobs : stage'[j] # stage[j] =>
                        jobRow[j] /\ CanTransition(stage[j], stage'[j])
<1>1. TypeOK /\ [Next]_vars => Legal \/ UNCHANGED vars
  <2>. SUFFICES ASSUME TypeOK, Next PROVE Legal
    OBVIOUS
  <2>1. ASSUME NEW i \in Jobs, ResumeIfFailed(i) PROVE Legal
    <3>1. CASE UNCHANGED jobVars
      BY <3>1
    <3>2. CASE /\ jobRow[i] /\ stage[i] = "failed"
               /\ TransitionJob(i, RetryFrom[failedAt[i]])
      <4>1. failedAt[i] \in Stages \ {"ready"}
        BY DEF TypeOK
      <4>2. PICK to \in Stages \ {"ready", "failed"} : to = RetryFrom[failedAt[i]]
        BY <4>1, RetryFromType
      <4>3. CanTransition("failed", to)
        BY DEF CanTransition, Transitions, Stages
      <4>. QED
        BY <3>2, <4>2, <4>3, TransitionLegal
    <3>. QED
      BY <2>1, <3>1, <3>2 DEF ResumeIfFailed
  <2>2. ASSUME NEW i \in Jobs, CommitStage(i) PROVE Legal
    <3>1. CASE UNCHANGED jobVars
      BY <3>1
    <3>2. CASE MayMove(i, Target[task[i]]) /\ TransitionJob(i, Target[task[i]])
      <4>1. PICK to \in Stages : to = Target[task[i]]
        BY DEF TypeOK, Target, Tasks, Stages, ForwardStages
      <4>. QED
        BY <3>2, <4>1, TransitionLegal DEF MayMove
    <3>. QED
      BY <2>2, <3>1, <3>2 DEF CommitStage
  <2>3. ASSUME NEW i \in Jobs, MarkReady(i) \/ MarkFailed(i) PROVE Legal
    <3>1. CASE UNCHANGED jobVars
      BY <3>1
    <3>2. CASE \E to \in {"ready", "failed"} : MayMove(i, to) /\ TransitionJob(i, to)
      BY <3>2, TransitionLegal DEF MayMove, Stages, ForwardStages
    <3>. QED
      BY <2>3, <3>1, <3>2 DEF MarkReady, MarkFailed
  <2>4. ASSUME NEW i \in Jobs, Submit(i) \/ Requeue(i) \/ Fault(i) \/ Crash(i) \/ Delete(i)
        PROVE  Legal
    BY <2>4 DEF Submit, CheckKb, CreateDocument, CreateJob, StoreSource, EnqueueIngest,
       Requeue, Fault, Crash, Delete, DeleteVectors, DeleteRows, AdminDeleteDocument
  <2>5. ASSUME NEW i \in Jobs,
               \/ Deliver(i) \/ CheckStage(i) \/ Parse(i) \/ SetChunks(i) \/ StampVersion(i)
               \/ WriteChunks(i) \/ Embed(i) \/ WriteVectors(i) \/ WriteDigest(i)
               \/ Upsert(i) \/ Reconcile(i) \/ RetryOrGiveUp(i)
        PROVE  Legal
    BY <2>5 DEF Deliver, CheckStage, Parse, SetChunks, StampVersion, WriteChunks, Embed,
       WriteVectors, WriteDigest, Upsert, Reconcile, RetryOrGiveUp
  <2>6. ASSUME NEW k \in Kbs, ReadDocIds(k) \/ DeleteKb(k) PROVE Legal
    BY <2>6 DEF ReadDocIds, DeleteKb
  <2>. HIDE DEF Legal
  <2>. QED
    BY <2>1, <2>2, <2>3, <2>4, <2>5, <2>6 DEF Next, RunTask
<1>2. TypeOK /\ [Next]_vars => [Legal]_vars
  BY <1>1
<1>. HIDE DEF Legal
<1>3. Spec => [][Legal]_vars
  BY <1>2, TypeCorrect, PTL DEF Spec
<1>. QED
  BY <1>3 DEF StagesMoveLegally, Legal

\* No transition leads out of ready.
THEOREM ReadyStays == Spec => ReadyIsForGood
<1>0. ASSUME NEW t PROVE ~CanTransition("ready", t)
  <2>1. ASSUME NEW u \in ForwardStages PROVE Rank[u] # Rank["ready"] + 1
    BY DEF Rank, ForwardStages
  <2>. QED
    BY <2>1 DEF CanTransition, Transitions, ForwardStages
<1>1. TypeOK /\ [\A j \in Jobs : stage'[j] # stage[j] =>
                     jobRow[j] /\ CanTransition(stage[j], stage'[j])]_vars
        => [\A j \in Jobs : stage[j] = "ready" => stage'[j] = "ready"]_vars
  BY <1>0
<1>. QED
  BY <1>1, StagesLegal, TypeCorrect, PTL DEF StagesMoveLegally, ReadyIsForGood
================================================================================
