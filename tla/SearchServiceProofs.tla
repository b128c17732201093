-------------------------- MODULE SearchServiceProofs --------------------------
(***************************************************************************)
(* Proofs about SearchService, for any uploads, documents of the worker,   *)
(* clients, threads, faults and deaths of the process: type correctness,   *)
(* that documents whose ingest is over are found, whatever becomes of the  *)
(* caches, and why a query may fail.  Then for one client at a time: what  *)
(* the caches have, that all context is shown, and that the service        *)
(* implements SearchContract.                                              *)
(***************************************************************************)
EXTENDS SearchRefinement, FiniteSetTheorems, TLAPS

\* The initial state has the types of TypeOK.
LEMMA InitType == Init => TypeOK
BY DEF Init, TypeOK, Caches, UploadPCs, Uploading, Deleting, Querying, Looking, Statuses,
       Memos, NoMemo, Docs

\* The steps of an upload keep the types.
LEMMA UploadType ==
    ASSUME TypeOK, NEW d \in Uploads, IngestFile(d)
    PROVE  TypeOK'
<1> d \in Docs
  BY DEF Docs
<1> USE DEF TypeOK, registryVars, requestVars, queryVars, boundVars, Upload, UploadPCs,
            Uploading, Statuses
<1>1. CASE FindDuplicate(d)
  BY <1>1 DEF FindDuplicate
<1>2. CASE CreateDocument(d)
  BY <1>2 DEF CreateDocument
<1>3. CASE SetChunks(d)
  BY <1>3 DEF SetChunks
<1>4. CASE Upsert(d)
  BY <1>4 DEF Upsert
<1>5. CASE InvalidateAfterUpload(d)
  BY <1>5 DEF InvalidateAfterUpload, Pop, Caches
<1>6. CASE Reload(d)
  BY <1>6 DEF Reload
<1>7. CASE MarkFailed(d)
  BY <1>7 DEF MarkFailed
<1>. QED
  BY <1>1, <1>2, <1>3, <1>4, <1>5, <1>6, <1>7 DEF IngestFile

\* The worker's steps keep the types.
LEMMA WorkerType ==
    ASSUME TypeOK, NEW d \in WorkerDocs, WorkerIngest(d)
    PROVE  TypeOK'
<1> d \in Docs
  BY DEF Docs
<1> USE DEF TypeOK, registryVars, requestVars, queryVars, boundVars, Upload, UploadPCs,
            Uploading, Statuses
<1>1. CASE Register(d)
  BY <1>1 DEF Register
<1>2. CASE ChunkStage(d)
  BY <1>2 DEF ChunkStage
<1>3. CASE IndexStage(d)
  BY <1>3 DEF IndexStage
<1>. QED
  BY <1>1, <1>2, <1>3 DEF WorkerIngest

\* The deletions keep the types.
LEMMA DeleteType ==
    ASSUME TypeOK, NEW d \in Docs, Delete(d) \/ AdminDelete(d)
    PROVE  TypeOK'
<1> USE DEF TypeOK, registryVars, requestVars, queryVars, boundVars, Deletion, Deleting,
            RemoveDocument
<1>1. CASE DeleteVectors(d)
  BY <1>1 DEF DeleteVectors
<1>2. CASE DeleteRows(d)
  BY <1>2 DEF DeleteRows
<1>3. CASE InvalidateAfterDelete(d)
  BY <1>3 DEF InvalidateAfterDelete, Pop, Caches
<1>4. CASE AdminDelete(d)
  BY <1>4 DEF AdminDelete
<1>. QED
  BY <1>1, <1>2, <1>3, <1>4 DEF Delete

\* A query's memory is still one after one of its variables was set.
LEMMA MemoSet ==
    ASSUME NEW m \in Memos, NEW D \in SUBSET Docs
    PROVE  /\ [m EXCEPT !.built = D] \in Memos
           /\ [m EXCEPT !.index = D] \in Memos
           /\ [m EXCEPT !.context = D] \in Memos
           /\ [m EXCEPT !.hits = D] \in Memos
           /\ [m EXCEPT !.texts = D] \in Memos
BY DEF Memos

\* What a step of a query does to its memory: TypeOK's conjunct about it.
MemoType == memo' \in [Queries -> Memos]

\* The steps of a query keep the type of its memory.
LEMMA SearchMemoType ==
    ASSUME TypeOK, NEW q \in Queries, Search(q)
    PROVE  MemoType
<1>1. /\ memo \in [Queries -> Memos] /\ memo[q] \in Memos
      /\ rows \in SUBSET Docs /\ points \in SUBSET Docs
      /\ \A c \in Caches : cache[c] # NotCached => cache[c] \in SUBSET Docs
  BY DEF TypeOK
<1>2. memo[q].index \in SUBSET Docs /\ memo[q].hits \in SUBSET Docs
  BY <1>1 DEF Memos
<1>3. SUFFICES \/ UNCHANGED memo
               \/ \E m \in Memos : memo' = [memo EXCEPT ![q] = m]
  BY <1>1 DEF MemoType
<1>4. CASE BeginSearch(q)
  <2>1. promised \in SUBSET Docs
    BY DEF TypeOK
  <2>2. [NoMemo EXCEPT !.ingested = {d \in Docs : upload[d] \in {"done", "indexed"}},
                       !.promised = promised,
                       !.deleted = {d \in Docs : deletion[d] = "done"}] \in Memos
    BY <2>1 DEF NoMemo, Memos
  <2>. QED
    BY <1>4, <2>2 DEF BeginSearch
<1>5. CASE LookUp(q)
  BY <1>5 DEF LookUp
<1>6. CASE Fill(q)
  <2>1. [memo[q] EXCEPT !.built = rows] \in Memos
    BY <1>1, MemoSet
  <2>. QED
    BY <1>6, <2>1 DEF Fill
<1>7. CASE Store(q)
  <2>1. [memo[q] EXCEPT !.built = {}] \in Memos
    BY <1>1, MemoSet
  <2>. QED
    BY <1>7, <2>1 DEF Store
<1>8. CASE Take(q)
  <2>1. cache["hybrid"] # NotCached => [memo[q] EXCEPT !.index = cache["hybrid"]] \in Memos
    BY <1>1, MemoSet DEF Caches
  <2>2. cache["chunks"] # NotCached => [memo[q] EXCEPT !.context = cache["chunks"]] \in Memos
    BY <1>1, MemoSet DEF Caches
  <2>. QED
    BY <1>8, <2>1, <2>2 DEF Take
<1>9. CASE Retrieve(q)
  <2>1. Fused(points, Sparse(memo[q].index)) \in SUBSET Docs
    BY <1>1, <1>2 DEF Fused, Sparse
  <2>2. [memo[q] EXCEPT !.hits = Fused(points, Sparse(memo[q].index))] \in Memos
    BY <1>1, <2>1, MemoSet
  <2>. QED
    BY <1>9, <2>2 DEF Retrieve
<1>10. CASE GetContents(q)
  <2>1. [memo[q] EXCEPT !.texts = memo[q].hits \cap rows] \in Memos
    BY <1>1, <1>2, MemoSet
  <2>. QED
    BY <1>10, <2>1 DEF GetContents
<1>. QED
  BY <1>4, <1>5, <1>6, <1>7, <1>8, <1>9, <1>10 DEF Search

\* The steps of a query keep the types.
LEMMA SearchType ==
    ASSUME TypeOK, NEW q \in Queries, Search(q)
    PROVE  TypeOK'
<1>1. MemoType
  BY SearchMemoType
<1>2. memo[q].built \in SUBSET Docs
  BY DEF TypeOK, Memos
<1> USE <1>1 DEF MemoType, TypeOK, registryVars, requestVars, queryVars, boundVars, Query,
            Querying, Looking, Caches
<1>3. CASE BeginSearch(q)
  BY <1>3 DEF BeginSearch
<1>4. CASE LookUp(q)
  BY <1>4 DEF LookUp
<1>5. CASE Fill(q)
  BY <1>5 DEF Fill
<1>6. CASE Store(q)
  BY <1>6, <1>2 DEF Store
<1>7. CASE Take(q)
  BY <1>7 DEF Take
<1>8. CASE Retrieve(q)
  BY <1>8 DEF Retrieve
<1>9. CASE GetContents(q)
  BY <1>9 DEF GetContents
<1>. QED
  BY <1>3, <1>4, <1>5, <1>6, <1>7, <1>8, <1>9 DEF Search

\* A call that raises, or the death of the process, keeps the types.
LEMMA FailureType ==
    ASSUME TypeOK, Fault \/ Crash
    PROVE  TypeOK'
<1> USE DEF TypeOK, registryVars, requestVars, queryVars, boundVars
<1>1. CASE Fault
  BY <1>1 DEF Fault, Upload, Deletion, UploadPCs, Uploading, Docs
<1>2. CASE Crash
  BY <1>2 DEF Crash, UploadPCs, Uploading, Deleting, Querying, Looking, Memos, NoMemo
<1>. QED
  BY <1>1, <1>2

LEMMA NextType == TypeOK /\ [Next]_vars => TypeOK'
<1> SUFFICES ASSUME TypeOK, [Next]_vars PROVE TypeOK'
  OBVIOUS
<1>1. CASE UNCHANGED vars
  BY <1>1 DEF TypeOK, vars, registryVars, requestVars, queryVars, boundVars
<1>2. CASE Next
  BY <1>2, UploadType, WorkerType, DeleteType, SearchType, FailureType DEF Next
<1>. QED
  BY <1>1, <1>2

\* Every variable keeps its type, in every instance.
THEOREM TypeCorrect == Spec => []TypeOK
BY InitType, NextType, PTL DEF Spec
--------------------------------------------------------------------------------
(* The inductive invariant.  A step that is no query's must keep IngestInv *)
(* of every document, and whatever was ingested and kept must have been so *)
(* before (StillIngested): then queries' invariants stay true.             *)

StillIngested ==
    \A d \in Docs : upload[d] \in Ingested =>
        /\ upload'[d] \in Ingested
        /\ d \in Kept' => d \in Kept

DocumentsInv == \A d \in Docs : IngestInv(d)

LEMMA InitInv == Init => IndInv
BY DEF Init, IndInv, IngestInv, QueryInv, TextsRead, Answered, NotRegistered, HasRows,
       HasPoints, NoMemo, Looking, Kept

\* The steps of an upload: each leaves of its document what it was to leave.
LEMMA UploadInv ==
    ASSUME TypeOK, DocumentsInv, NEW d \in Uploads, IngestFile(d)
    PROVE  DocumentsInv' /\ StillIngested
<1> d \in Docs
  BY DEF Docs
<1> USE DEF TypeOK, DocumentsInv, IngestInv, StillIngested, Kept, registryVars, Upload,
            NotRegistered, HasRows, HasPoints, Ingested
<1>1. CASE FindDuplicate(d)
  BY <1>1 DEF FindDuplicate
<1>2. CASE CreateDocument(d)
  BY <1>2 DEF CreateDocument
<1>3. CASE SetChunks(d)
  BY <1>3 DEF SetChunks
<1>4. CASE Upsert(d)
  BY <1>4 DEF Upsert
<1>5. CASE InvalidateAfterUpload(d)
  BY <1>5 DEF InvalidateAfterUpload
<1>6. CASE Reload(d)
  BY <1>6 DEF Reload
<1>7. CASE MarkFailed(d)
  BY <1>7 DEF MarkFailed
<1>. QED
  BY <1>1, <1>2, <1>3, <1>4, <1>5, <1>6, <1>7 DEF IngestFile

\* The worker's steps likewise.
LEMMA WorkerInv ==
    ASSUME TypeOK, DocumentsInv, NEW d \in WorkerDocs, WorkerIngest(d)
    PROVE  DocumentsInv' /\ StillIngested
<1> d \in Docs
  BY DEF Docs
<1> USE DEF TypeOK, DocumentsInv, IngestInv, StillIngested, Kept, registryVars, Upload,
            NotRegistered, HasRows, HasPoints, Ingested
<1>1. CASE Register(d)
  BY <1>1 DEF Register
<1>2. CASE ChunkStage(d)
  BY <1>2 DEF ChunkStage
<1>3. CASE IndexStage(d)
  BY <1>3 DEF IndexStage
<1>. QED
  BY <1>1, <1>2, <1>3 DEF WorkerIngest

\* A deletion first takes its document out of those that are kept.
LEMMA DeleteInv ==
    ASSUME TypeOK, DocumentsInv, NEW d \in Docs, Delete(d) \/ AdminDelete(d)
    PROVE  DocumentsInv' /\ StillIngested
<1> USE DEF TypeOK, DocumentsInv, IngestInv, StillIngested, Kept, registryVars, Deletion,
            RemoveDocument
<1>1. CASE DeleteVectors(d)
  BY <1>1 DEF DeleteVectors
<1>2. CASE DeleteRows(d)
  BY <1>2 DEF DeleteRows
<1>3. CASE InvalidateAfterDelete(d)
  BY <1>3 DEF InvalidateAfterDelete
<1>4. CASE AdminDelete(d)
  BY <1>4 DEF AdminDelete
<1>. QED
  BY <1>1, <1>2, <1>3, <1>4 DEF Delete

\* A call that raises ends an ingest before it is over, and takes nothing away.
LEMMA FaultInv ==
    ASSUME TypeOK, DocumentsInv, Fault
    PROVE  DocumentsInv' /\ StillIngested
<1> USE DEF TypeOK, DocumentsInv, IngestInv, StillIngested, Kept, registryVars, Upload,
            Deletion, NotRegistered, HasRows, HasPoints, Ingested, Docs
<1>1. CASE /\ \E d \in Uploads : Upload(d, "created", "raised")
           /\ UNCHANGED <<registryVars, points, deletion>>
  BY <1>1
<1>2. CASE /\ \E d \in Uploads : /\ Upload(d, "written", "raised")
                                 /\ points' \in {points, points \cup {d}}
           /\ UNCHANGED <<registryVars, deletion>>
  BY <1>2
<1>3. CASE /\ \E d \in Docs : Deletion(d, "vectors", "aborted")
           /\ UNCHANGED <<registryVars, points, upload>>
  BY <1>3
<1>. QED
  BY <1>1, <1>2, <1>3 DEF Fault

\* The death of the process ends only what was under way.
LEMMA CrashInv ==
    ASSUME TypeOK, DocumentsInv, Crash
    PROVE  DocumentsInv' /\ StillIngested
<1> USE DEF TypeOK, DocumentsInv, IngestInv, StillIngested, Kept, registryVars, Crash,
            NotRegistered, HasRows, HasPoints, Ingested
<1>1. \A d \in Docs : \/ upload'[d] = upload[d]
                      \/ upload[d] \notin Ingested /\ upload'[d] = "lost"
  BY DEF Uploading
<1>2. \A d \in Docs : deletion'[d] = "no" => deletion[d] = "no"
  BY DEF Deleting
<1>. QED
  BY <1>1, <1>2

\* What a step of another actor must not do to a query.
LEMMA QueriesKept ==
    ASSUME TypeOK, NEW q \in Queries, QueryInv(q), StillIngested,
           \/ UNCHANGED <<at[q], using[q], memo[q]>>
           \/ at'[q] = "idle" /\ memo'[q] = NoMemo
    PROVE  QueryInv(q)'
<1>1. memo[q].ingested \subseteq Docs
  BY DEF TypeOK, Memos
<1>2. CASE UNCHANGED <<at[q], using[q], memo[q]>>
  <2>1. \A d \in memo'[q].ingested : upload'[d] \in Ingested
    BY <1>1, <1>2 DEF QueryInv, StillIngested
  <2>2. memo'[q].ingested \cap Kept' \subseteq memo[q].ingested \cap Kept
    BY <1>1, <1>2 DEF QueryInv, StillIngested
  <2>. QED
    BY <1>2, <2>1, <2>2 DEF QueryInv, TextsRead, Answered
<1>3. CASE at'[q] = "idle" /\ memo'[q] = NoMemo
  BY <1>3 DEF QueryInv, TextsRead, Answered, Looking, NoMemo
<1>. QED
  BY <1>2, <1>3

\* A query's own steps: retrieval has the vectors of all kept documents, and
\* the registry their texts, whatever the caches hold.
LEMMA SearchOwnInv ==
    ASSUME TypeOK, DocumentsInv, NEW q \in Queries, QueryInv(q), Search(q)
    PROVE  QueryInv(q)'
<1>1. /\ memo \in [Queries -> Memos] /\ q \in DOMAIN memo
      /\ q \in DOMAIN at /\ q \in DOMAIN using
      /\ memo[q].ingested \subseteq Docs
  BY DEF TypeOK, Memos
<1>2. UNCHANGED <<registryVars, points, requestVars>> /\ Kept' = Kept
  BY DEF Search, BeginSearch, LookUp, Fill, Store, Take, Retrieve, GetContents, Kept,
         registryVars, requestVars
<1>3. memo[q].ingested \cap Kept \subseteq rows \cap points
  BY <1>1 DEF DocumentsInv, IngestInv, QueryInv, Ingested, HasRows, HasPoints
<1> USE DEF TypeOK, Memos, QueryInv, TextsRead, Answered, Looking, Query, requestVars
<1>4. CASE BeginSearch(q)
  BY <1>1, <1>2, <1>4 DEF BeginSearch, NoMemo, Ingested
<1>5. CASE LookUp(q)
  BY <1>1, <1>2, <1>5 DEF LookUp
<1>6. CASE Fill(q)
  <2>1. at[q] = "fill" /\ UNCHANGED <<using, upload>>
    BY <1>6 DEF Fill
  <2>2. CASE at' = [at EXCEPT ![q] = "error"] /\ UNCHANGED memo
    BY <1>1, <1>2, <2>1, <2>2
  <2>3. CASE at' = [at EXCEPT ![q] = "keep"] /\ memo' = [memo EXCEPT ![q].built = rows]
    BY <1>1, <1>2, <2>1, <2>3
  <2>. QED
    BY <1>6, <2>2, <2>3 DEF Fill
<1>7. CASE Store(q)
  BY <1>1, <1>2, <1>7 DEF Store
<1>8. CASE Take(q)
  <2>1. at[q] = "take" /\ UNCHANGED <<using, upload>>
    BY <1>8 DEF Take
  <2>2. CASE at' = [at EXCEPT ![q] = "error"] /\ UNCHANGED memo
    BY <1>1, <1>2, <2>1, <2>2
  <2>3. CASE /\ at' = [at EXCEPT ![q] = "retrieve"]
             /\ memo' = [memo EXCEPT ![q].index = cache["hybrid"]]
    BY <1>1, <2>1, <2>3
  <2>4. CASE /\ using[q] = "chunks"
             /\ at' = [at EXCEPT ![q] = "answered"]
             /\ memo' = [memo EXCEPT ![q].context = cache["chunks"]]
    BY <1>1, <1>2, <2>1, <2>4
  <2>. QED
    BY <1>8, <2>2, <2>3, <2>4 DEF Take
<1>9. CASE Retrieve(q)
  BY <1>1, <1>2, <1>3, <1>9 DEF Retrieve, Fused
<1>10. CASE GetContents(q)
  BY <1>1, <1>2, <1>3, <1>10 DEF GetContents
<1>. QED
  BY <1>4, <1>5, <1>6, <1>7, <1>8, <1>9, <1>10 DEF Search

\* A query's steps leave the documents and the other queries alone.
LEMMA SearchInv ==
    ASSUME TypeOK, IndInv, NEW q \in Queries, Search(q)
    PROVE  IndInv'
<1>1. UNCHANGED <<docs, status, rows, points, upload, deletion>>
  BY DEF Search, BeginSearch, LookUp, Fill, Store, Take, Retrieve, GetContents,
         registryVars, requestVars
<1>2. DocumentsInv /\ DocumentsInv' /\ StillIngested
  BY <1>1 DEF IndInv, DocumentsInv, IngestInv, StillIngested, Kept
<1>3. QueryInv(q)'
  BY <1>2, SearchOwnInv DEF IndInv
<1>4. ASSUME NEW p \in Queries, p # q PROVE QueryInv(p)'
  <2>1. UNCHANGED <<at[p], using[p], memo[p]>>
    BY <1>4 DEF TypeOK, Search, BeginSearch, LookUp, Fill, Store, Take, Retrieve,
                GetContents, Query
  <2>. QED
    BY <1>2, <2>1, QueriesKept DEF IndInv
<1>. QED
  BY <1>2, <1>3, <1>4 DEF IndInv, DocumentsInv

\* Every other step keeps the documents' invariant and only lets queries fail.
LEMMA OthersInv ==
    ASSUME TypeOK, IndInv, DocumentsInv', StillIngested,
           UNCHANGED queryVars \/ Crash
    PROVE  IndInv'
<1>1. ASSUME NEW q \in Queries PROVE QueryInv(q)'
  <2>1. \/ UNCHANGED <<at[q], using[q], memo[q]>>
        \/ at'[q] = "idle" /\ memo'[q] = NoMemo
    BY DEF queryVars, Crash
  <2>. QED
    BY <2>1, QueriesKept DEF IndInv
<1>. QED
  BY <1>1 DEF IndInv, DocumentsInv

LEMMA NextInv == TypeOK /\ IndInv /\ [Next]_vars => IndInv'
<1> SUFFICES ASSUME TypeOK, IndInv, [Next]_vars PROVE IndInv'
  OBVIOUS
<1>1. DocumentsInv
  BY DEF IndInv, DocumentsInv
<1>2. CASE UNCHANGED vars
  <2>1. DocumentsInv' /\ StillIngested
    BY <1>1, <1>2 DEF DocumentsInv, IngestInv, StillIngested, Kept, vars, registryVars,
                      requestVars
  <2>. QED
    BY <1>2, <2>1, OthersInv DEF vars
<1>3. CASE \E d \in Uploads : IngestFile(d)
  <2>1. UNCHANGED queryVars
    BY <1>3 DEF IngestFile, FindDuplicate, CreateDocument, SetChunks, Upsert,
                InvalidateAfterUpload, Reload, MarkFailed
  <2>. QED
    BY <1>1, <1>3, <2>1, UploadInv, OthersInv
<1>4. CASE \E d \in WorkerDocs : WorkerIngest(d)
  <2>1. UNCHANGED queryVars
    BY <1>4 DEF WorkerIngest, Register, ChunkStage, IndexStage
  <2>. QED
    BY <1>1, <1>4, <2>1, WorkerInv, OthersInv
<1>5. CASE \E d \in Docs : Delete(d) \/ AdminDelete(d)
  <2>1. UNCHANGED queryVars
    BY <1>5 DEF Delete, DeleteVectors, DeleteRows, InvalidateAfterDelete, AdminDelete
  <2>. QED
    BY <1>1, <1>5, <2>1, DeleteInv, OthersInv
<1>6. CASE \E q \in Queries : Search(q)
  BY <1>6, SearchInv
<1>7. CASE Fault
  <2>1. UNCHANGED queryVars
    BY <1>7 DEF Fault
  <2>. QED
    BY <1>1, <1>7, <2>1, FaultInv, OthersInv
<1>8. CASE Crash
  BY <1>1, <1>8, CrashInv, OthersInv
<1>. QED
  BY <1>2, <1>3, <1>4, <1>5, <1>6, <1>7, <1>8 DEF Next

\* The invariant holds in every reachable state, for any documents, clients,
\* threads, faults and deaths of the process.
THEOREM SearchInductive == Spec => [](TypeOK /\ IndInv)
BY InitType, NextType, InitInv, NextInv, PTL DEF Spec

\* A query finds, with its text, every document whose ingest was over when it
\* began and that nobody began to delete: caches that are stale, popped or lost
\* never cost a hit, because the vector store is asked each time.
THEOREM IngestedIsFound == Spec => []CompletedUploadIsFound
<1>1. IndInv => CompletedUploadIsFound
  BY DEF IndInv, QueryInv, TextsRead, CompletedUploadIsFound
<1>. QED
  BY <1>1, SearchInductive, PTL

\* An upload that was answered leaves no ready document without its rows and
\* its vectors, unless its deletion was begun.
THEOREM AnsweredUploadIsWhole == Spec => []ReadyHasVectors
<1>1. IndInv => ReadyHasVectors
  BY DEF IndInv, IngestInv, ReadyHasVectors, Kept, NotRegistered, HasRows, HasPoints, Docs
<1>. QED
  BY <1>1, SearchInductive, PTL

--------------------------------------------------------------------------------
(* Why a query fails.  The entry it found or stored is there when it reads *)
(* it, unless it was taken out in between; and the index it builds has the *)
(* rows of every document returned as ready that is still there.           *)

\* Before the rows of a document were written.
Unwritten == {"new", "unique", "created", "queued", "registered"}

RowsInv(d) ==
    /\ d \in docs /\ upload[d] \in HasRows => d \in rows
    /\ status[d] = "ready" \/ d \in promised =>
          upload[d] \notin Unwritten /\ (d \in docs => d \in rows)

AllRowsInv == \A d \in Docs : RowsInv(d)

TakeInv(q) ==
    /\ memo[q].promised \subseteq promised
    /\ \A d \in memo[q].deleted : deletion[d] = "done"
    /\ at[q] = "take" => cache[using[q]] # NotCached \/ Invalidated(q)

FailureInv == AllRowsInv /\ \A q \in Queries : TakeInv(q)

\* Uploads and deletions that have invalidated a cache; the ones this step does.
HasPopped == {"popped", "invalidated", "done", "error"}
PoppedBy(d) ==
    \/ d \in Uploads /\ upload[d] \in {"upserted", "popped"} /\ upload'[d] \in HasPopped
    \/ deletion[d] \in {"rows", "popped"} /\ deletion'[d] \in {"popped", "done"}

\* What a step of another actor must not do to a query's reasons.
Onward ==
    /\ promised \subseteq promised'
    /\ \A d \in Uploads : upload[d] \in HasPopped => upload'[d] \in HasPopped
    /\ \A d \in Docs : /\ deletion[d] = "done" => deletion'[d] = "done"
                       /\ deletion[d] = "popped" => deletion'[d] \in {"popped", "done"}
    /\ \/ UNCHANGED cache
       \/ \E d \in Docs : PoppedBy(d)

LEMMA InitFailure == Init => FailureInv
BY DEF Init, FailureInv, AllRowsInv, RowsInv, TakeInv, HasRows, Unwritten, NoMemo

LEMMA UploadFailure ==
    ASSUME TypeOK, AllRowsInv, NEW d \in Uploads, IngestFile(d)
    PROVE  AllRowsInv' /\ Onward
<1> d \in Docs
  BY DEF Docs
<1> USE DEF TypeOK, AllRowsInv, RowsInv, Onward, PoppedBy, registryVars, Upload, Docs,
            HasRows, HasPopped, Unwritten
<1>1. CASE FindDuplicate(d)
  BY <1>1 DEF FindDuplicate
<1>2. CASE CreateDocument(d)
  BY <1>2 DEF CreateDocument
<1>3. CASE SetChunks(d)
  BY <1>3 DEF SetChunks
<1>4. CASE Upsert(d)
  BY <1>4 DEF Upsert
<1>5. CASE InvalidateAfterUpload(d)
  BY <1>5 DEF InvalidateAfterUpload
<1>6. CASE Reload(d)
  BY <1>6 DEF Reload
<1>7. CASE MarkFailed(d)
  BY <1>7 DEF MarkFailed
<1>. QED
  BY <1>1, <1>2, <1>3, <1>4, <1>5, <1>6, <1>7 DEF IngestFile

LEMMA WorkerFailure ==
    ASSUME TypeOK, AllRowsInv, NEW d \in WorkerDocs, WorkerIngest(d)
    PROVE  AllRowsInv' /\ Onward
<1> d \in Docs
  BY DEF Docs
<1> USE DEF TypeOK, AllRowsInv, RowsInv, Onward, registryVars, Upload, Docs,
            HasRows, HasPopped, Unwritten
<1>1. CASE Register(d)
  BY <1>1 DEF Register
<1>2. CASE ChunkStage(d)
  BY <1>2 DEF ChunkStage
<1>3. CASE IndexStage(d)
  BY <1>3 DEF IndexStage
<1>. QED
  BY <1>1, <1>2, <1>3 DEF WorkerIngest

LEMMA DeleteFailure ==
    ASSUME TypeOK, AllRowsInv, NEW d \in Docs, Delete(d) \/ AdminDelete(d)
    PROVE  AllRowsInv' /\ Onward
<1> USE DEF TypeOK, AllRowsInv, RowsInv, Onward, PoppedBy, registryVars, Deletion,
            RemoveDocument, HasRows, HasPopped, Unwritten
<1>1. CASE DeleteVectors(d)
  BY <1>1 DEF DeleteVectors
<1>2. CASE DeleteRows(d)
  BY <1>2 DEF DeleteRows
<1>3. CASE InvalidateAfterDelete(d)
  BY <1>3 DEF InvalidateAfterDelete
<1>4. CASE AdminDelete(d)
  BY <1>4 DEF AdminDelete
<1>. QED
  BY <1>1, <1>2, <1>3, <1>4 DEF Delete

LEMMA FaultFailure ==
    ASSUME TypeOK, AllRowsInv, Fault
    PROVE  AllRowsInv' /\ Onward
<1> USE DEF TypeOK, AllRowsInv, RowsInv, Onward, registryVars, Upload, Deletion, Docs,
            HasRows, HasPopped, Unwritten
<1>1. UNCHANGED <<docs, status, rows, cache, promised>>
  BY DEF Fault
<1>2. CASE /\ \E d \in Uploads : Upload(d, "created", "raised")
           /\ UNCHANGED deletion
  BY <1>1, <1>2
<1>3. CASE /\ \E d \in Uploads : Upload(d, "written", "raised")
           /\ UNCHANGED deletion
  BY <1>1, <1>3
<1>4. CASE /\ \E d \in Docs : Deletion(d, "vectors", "aborted")
           /\ UNCHANGED upload
  BY <1>1, <1>4
<1>. QED
  BY <1>2, <1>3, <1>4 DEF Fault

\* What takes the entry of a query's cache out has not been over when it began.
LEMMA TakeKept ==
    ASSUME TypeOK, NEW q \in Queries, QueryInv(q), TakeInv(q), Onward,
           UNCHANGED <<at[q], using[q], memo[q]>>
    PROVE  TakeInv(q)'
<1>1. memo[q].ingested \subseteq Docs /\ memo[q].deleted \subseteq Docs
  BY DEF TypeOK, Memos
<1>2. memo'[q].promised \subseteq promised' /\ \A d \in memo'[q].deleted : deletion'[d] = "done"
  BY <1>1 DEF TakeInv, Onward
<1>3. Invalidated(q) => Invalidated(q)'
  <2>1. CASE \E d \in Uploads \ memo[q].ingested : upload[d] \in HasPopped
    BY <2>1 DEF Invalidated, Onward, HasPopped
  <2>2. CASE \E d \in Docs \ memo[q].deleted : deletion[d] \in {"popped", "done"}
    BY <2>2 DEF Invalidated, Onward
  <2>. QED
    BY <2>1, <2>2 DEF Invalidated, HasPopped
<1>4. ASSUME NEW d \in Docs, PoppedBy(d) PROVE Invalidated(q)'
  <2>1. CASE d \in Uploads /\ upload[d] \in {"upserted", "popped"} /\ upload'[d] \in HasPopped
    <3>1. d \notin memo[q].ingested
      BY <2>1 DEF QueryInv, Ingested
    <3>. QED
      BY <2>1, <3>1 DEF Invalidated, HasPopped
  <2>2. CASE deletion[d] \in {"rows", "popped"} /\ deletion'[d] \in {"popped", "done"}
    <3>1. d \notin memo[q].deleted
      BY <2>2 DEF TakeInv
    <3>. QED
      BY <2>2, <3>1 DEF Invalidated
  <2>. QED
    BY <1>4, <2>1, <2>2 DEF PoppedBy
<1>5. (at[q] = "take" => cache[using[q]] # NotCached \/ Invalidated(q))'
  BY <1>3, <1>4 DEF TakeInv, Onward
<1>. QED
  BY <1>2, <1>5 DEF TakeInv

\* A query finds the entry there, or stores one.
LEMMA SearchOwnTake ==
    ASSUME TypeOK, NEW q \in Queries, TakeInv(q), Search(q)
    PROVE  TakeInv(q)'
<1>1. /\ memo \in [Queries -> Memos] /\ q \in DOMAIN memo
      /\ q \in DOMAIN at /\ q \in DOMAIN using
      /\ using[q] \in Caches /\ memo[q].built \in SUBSET Docs /\ cache \in [Caches -> {NotCached} \cup SUBSET Docs]
  BY DEF TypeOK, Memos
<1>2. UNCHANGED <<promised, deletion>>
  BY DEF Search, BeginSearch, LookUp, Fill, Store, Take, Retrieve, GetContents, requestVars
<1>3. CASE BeginSearch(q)
  <2>1. at'[q] = "look"
    BY <1>1, <1>3 DEF BeginSearch
  <2>2. memo'[q].promised = promised /\ memo'[q].deleted = {d \in Docs : deletion[d] = "done"}
    BY <1>1, <1>3 DEF BeginSearch, NoMemo
  <2>. QED
    BY <1>2, <2>1, <2>2 DEF TakeInv
<1>4. CASE Store(q)
  <2>1. cache'[using'[q]] # NotCached
    BY <1>1, <1>4, NotCachedAssumption DEF Store
  <2>2. memo'[q].promised = memo[q].promised /\ memo'[q].deleted = memo[q].deleted
    BY <1>1, <1>4 DEF Store, Memos
  <2>. QED
    BY <1>2, <2>1, <2>2 DEF TakeInv
<1>5. CASE LookUp(q)
  <2>1. UNCHANGED <<memo, cache, using>>
    BY <1>5 DEF LookUp
  <2>2. at'[q] = "take" => cache[using[q]] # NotCached
    BY <1>1, <1>5 DEF LookUp, Query
  <2>. QED
    BY <1>2, <2>1, <2>2 DEF TakeInv
<1>6. CASE Fill(q) \/ Take(q) \/ Retrieve(q) \/ GetContents(q)
  <2>1. at'[q] # "take"
    BY <1>1, <1>6 DEF Fill, Take, Retrieve, GetContents, Query
  <2>2. memo'[q].promised = memo[q].promised /\ memo'[q].deleted = memo[q].deleted
    BY <1>1, <1>6 DEF Fill, Take, Retrieve, GetContents, Memos
  <2>. QED
    BY <1>2, <2>1, <2>2 DEF TakeInv
<1>. QED
  BY <1>3, <1>4, <1>5, <1>6 DEF Search

\* The entry that another query stores is one too.
LEMMA SearchOtherTake ==
    ASSUME TypeOK, NEW q \in Queries, Search(q), NEW p \in Queries, p # q, TakeInv(p)
    PROVE  TakeInv(p)'
<1>1. UNCHANGED <<at[p], using[p], memo[p], requestVars>>
  BY DEF TypeOK, Search, BeginSearch, LookUp, Fill, Store, Take, Retrieve, GetContents, Query
<1>2. Invalidated(p) => Invalidated(p)'
  BY <1>1 DEF Invalidated, requestVars
<1>3. cache[using[p]] # NotCached => cache'[using[p]] # NotCached
  <2>1. CASE UNCHANGED cache
    BY <2>1
  <2>2. CASE Store(q)
    <3>1. memo[q].built \in SUBSET Docs /\ cache \in [Caches -> {NotCached} \cup SUBSET Docs]
      BY DEF TypeOK, Memos
    <3>2. using[p] \in Caches
      BY DEF TypeOK
    <3>. QED
      BY <2>2, <3>1, <3>2, NotCachedAssumption DEF Store
  <2>. QED
    BY <2>1, <2>2 DEF Search, BeginSearch, LookUp, Fill, Take, Retrieve, GetContents
<1>. QED
  BY <1>1, <1>2, <1>3 DEF TakeInv, requestVars

LEMMA NextFailure == TypeOK /\ IndInv /\ FailureInv /\ [Next]_vars => FailureInv'
<1> SUFFICES ASSUME TypeOK, IndInv, FailureInv, [Next]_vars PROVE FailureInv'
  OBVIOUS
<1>1. AllRowsInv
  BY DEF FailureInv
<1>2. ASSUME AllRowsInv', Onward, UNCHANGED queryVars PROVE FailureInv'
  <2>1. ASSUME NEW q \in Queries PROVE TakeInv(q)'
    <3>1. UNCHANGED <<at[q], using[q], memo[q]>>
      BY <1>2 DEF queryVars
    <3>. QED
      BY <1>2, <3>1, TakeKept DEF IndInv, FailureInv
  <2>. QED
    BY <1>2, <2>1 DEF FailureInv
<1>3. CASE UNCHANGED vars
  <2>1. AllRowsInv' /\ Onward
    BY <1>1, <1>3 DEF AllRowsInv, RowsInv, Onward, vars, registryVars, requestVars
  <2>. QED
    BY <1>2, <1>3, <2>1 DEF vars
<1>4. CASE \E d \in Uploads : IngestFile(d)
  <2>1. UNCHANGED queryVars
    BY <1>4 DEF IngestFile, FindDuplicate, CreateDocument, SetChunks, Upsert,
                InvalidateAfterUpload, Reload, MarkFailed
  <2>. QED
    BY <1>1, <1>2, <1>4, <2>1, UploadFailure
<1>5. CASE \E d \in WorkerDocs : WorkerIngest(d)
  <2>1. UNCHANGED queryVars
    BY <1>5 DEF WorkerIngest, Register, ChunkStage, IndexStage
  <2>. QED
    BY <1>1, <1>2, <1>5, <2>1, WorkerFailure
<1>6. CASE \E d \in Docs : Delete(d) \/ AdminDelete(d)
  <2>1. UNCHANGED queryVars
    BY <1>6 DEF Delete, DeleteVectors, DeleteRows, InvalidateAfterDelete, AdminDelete
  <2>. QED
    BY <1>1, <1>2, <1>6, <2>1, DeleteFailure
<1>7. CASE Fault
  <2>1. UNCHANGED queryVars
    BY <1>7 DEF Fault
  <2>. QED
    BY <1>1, <1>2, <1>7, <2>1, FaultFailure
<1>8. CASE \E q \in Queries : Search(q)
  <2>1. UNCHANGED <<docs, status, rows, upload, promised>>
    BY <1>8 DEF Search, BeginSearch, LookUp, Fill, Store, Take, Retrieve, GetContents,
                registryVars, requestVars
  <2>2. AllRowsInv'
    BY <1>1, <2>1 DEF AllRowsInv, RowsInv
  <2>. QED
    BY <1>8, <2>2, SearchOwnTake, SearchOtherTake DEF FailureInv
<1>9. CASE Crash
  <2>1. UNCHANGED <<docs, status, rows, promised>>
    BY <1>9 DEF Crash, registryVars
  <2>2. \A d \in Docs : upload'[d] = upload[d] \/ upload'[d] = "lost"
    BY <1>9 DEF Crash
  <2>3. AllRowsInv'
    BY <1>1, <2>1, <2>2 DEF AllRowsInv, RowsInv, HasRows, Unwritten
  <2>4. \A d \in Docs : deletion[d] = "done" => deletion'[d] = "done"
    BY <1>9 DEF Crash, Deleting
  <2>5. ASSUME NEW q \in Queries PROVE TakeInv(q)'
    <3>1. at'[q] # "take"
      BY <1>9 DEF Crash, Querying, Looking
    <3>2. memo'[q] = memo[q] \/ memo'[q] = NoMemo
      BY <1>9 DEF Crash
    <3>3. memo[q].deleted \subseteq Docs
      BY DEF TypeOK, Memos
    <3>. QED
      BY <2>1, <2>4, <3>1, <3>2, <3>3 DEF FailureInv, TakeInv, NoMemo
  <2>. QED
    BY <2>3, <2>5 DEF FailureInv
<1>. QED
  BY <1>3, <1>4, <1>5, <1>6, <1>7, <1>8, <1>9 DEF Next

\* A query fails when it builds an index of no word, which has the rows of all it was
\* promised, or when it reads an entry that is gone.
LEMMA WhyItFails ==
    ASSUME TypeOK, FailureInv, [Next]_vars, NEW q \in Queries, at[q] # "error", at'[q] = "error"
    PROVE  memo[q].promised \cap Kept \subseteq Wordless \/ Invalidated(q)
<1>1. at'[q] # at[q] /\ at'[q] = "error" /\ at \in [Queries -> {"idle", "answered", "error"} \cup Querying]
  BY DEF TypeOK
<1>2. Next
  BY <1>1 DEF vars, queryVars
<1>3. Search(q)
  <2>1. CASE UNCHANGED queryVars
    BY <1>1, <2>1 DEF queryVars
  <2>2. CASE Crash
    BY <1>1, <2>2 DEF Crash
  <2>3. CASE \E p \in Queries : Search(p)
    <3>1. PICK p \in Queries : Search(p)
      BY <2>3
    <3>2. p # q => at'[q] = at[q]
      BY <1>1, <3>1 DEF Search, BeginSearch, LookUp, Fill, Store, Take, Retrieve, GetContents, Query
    <3>. QED
      BY <1>1, <3>1, <3>2
  <2>. QED
    BY <1>2, <2>1, <2>2, <2>3 DEF Next, IngestFile, FindDuplicate, CreateDocument, SetChunks,
       Upsert, InvalidateAfterUpload, Reload, MarkFailed, WorkerIngest, Register, ChunkStage,
       IndexStage, Delete, DeleteVectors, DeleteRows, InvalidateAfterDelete, AdminDelete, Fault
<1>4. Fill(q) \/ Take(q)
  BY <1>1, <1>3 DEF Search, BeginSearch, LookUp, Store, Retrieve, GetContents, Query
<1>5. CASE Fill(q)
  <2>1. rows \subseteq Wordless
    BY <1>1, <1>5 DEF Fill, Query, IndexCannotBeBuilt
  <2>2. memo[q].promised \cap Kept \subseteq rows
    BY DEF FailureInv, AllRowsInv, RowsInv, TakeInv, Kept, TypeOK
  <2>. QED
    BY <2>1, <2>2
<1>6. CASE Take(q)
  <2>1. at[q] = "take" /\ cache[using[q]] = NotCached
    BY <1>1, <1>6 DEF Take, Query
  <2>. QED
    BY <2>1 DEF FailureInv, TakeInv
<1>. QED
  BY <1>4, <1>5, <1>6

\* Whatever other requests, the worker, failures and restarts do meanwhile, a query
\* fails for no other reason than the two of PromisedIsSearchable.
THEOREM PromisedFound == Spec => PromisedIsSearchable
<1>1. Spec => [](TypeOK /\ FailureInv)
  BY InitType, NextType, InitInv, NextInv, InitFailure, NextFailure, PTL DEF Spec
<1>2. TypeOK /\ FailureInv /\ [Next]_vars =>
        [\A q \in Queries : at[q] # "error" /\ at'[q] = "error" =>
           memo[q].promised \cap Kept \subseteq Wordless \/ Invalidated(q)]_vars
  BY WhyItFails
<1>. QED
  BY <1>1, <1>2, PTL DEF Spec, PromisedIsSearchable

--------------------------------------------------------------------------------
(* One client at a time.  With one thread and no writer in another process *)
(* a request runs to its end before the next begins: what it leaves in the *)
(* registry, the store and the caches can be told from how far it is.      *)

OneAtATime == Threads = 1 /\ WorkerDocs = {} /\ AdminDeletes = {}

\* There is one request at most.
Alone ==
    /\ \A d, e \in Uploads : upload[d] \in Uploading /\ upload[e] \in Uploading => d = e
    /\ \A d, e \in Docs : deletion[d] \in Deleting /\ deletion[e] \in Deleting => d = e
    /\ \A p, q \in Queries : at[p] \in Querying /\ at[q] \in Querying => p = q
    /\ \A d \in Uploads : \A e \in Docs : ~(upload[d] \in Uploading /\ deletion[e] \in Deleting)
    /\ \A q \in Queries : at[q] \in Querying =>
          /\ \A d \in Uploads : upload[d] \notin Uploading
          /\ \A d \in Docs : deletion[d] \notin Deleting

\* Before an upload has written the rows of its document, and after it.
Early == {"new", "unique", "created"}
Registered == {"created", "written", "upserted", "popped", "invalidated", "raised"}

\* An upload at work has its document, and the only one of its content; only documents
\* have rows or vectors, and a deletion takes the vectors first.  A document that is
\* ready, or was promised, has its rows as long as it is there.
PlaceInv(d) ==
    /\ d \in Uploads /\ upload[d] \in Registered => d \in docs
    /\ d \in Uploads /\ upload[d] = "unique" => \A e \in docs : ContentOf[e] # ContentOf[d]
    /\ d \in rows => d \in docs /\ upload[d] \notin Early
    /\ d \in points => d \in docs
    /\ deletion[d] = "vectors" => d \notin points
    /\ status[d] = "ready" \/ d \in promised =>
          upload[d] \notin Early /\ (d \in docs => d \in rows)

\* What a cache may still show of a deletion at work, and may not show yet of an upload.
Dropping(c, d) == deletion[d] = "rows" \/ (c = "chunks" /\ deletion[d] = "popped")
Adding(c, d) ==
    d \in Uploads /\ (\/ upload[d] \in {"written", "upserted", "raised"}
                      \/ c = "chunks" /\ upload[d] = "popped")

CacheInv(c) ==
    cache[c] # NotCached =>
        /\ \A d \in cache[c] \ rows : Dropping(c, d)
        /\ \A d \in rows \ cache[c] : status[d] = "failed" \/ Adding(c, d)

\* A query finds the cache as it left it, and the hits and texts of what there is.
InChunks(q) == at[q] \in Looking /\ using[q] = "chunks"

AskInv(q) ==
    /\ at[q] \in {"fill", "keep"} => cache[using[q]] = NotCached
    /\ at[q] = "keep" => memo[q].built = rows
    /\ at[q] = "take" => cache[using[q]] # NotCached
    /\ at[q] = "retrieve" => memo[q].index \subseteq docs
    /\ at[q] = "contents" \/ InChunks(q) => StoredDocs \subseteq memo[q].hits /\ memo[q].hits \subseteq docs
    /\ InChunks(q) => memo[q].texts \subseteq rows
    /\ at[q] \in Querying /\ ~InChunks(q) => memo[q].texts = {}

\* What is left of a query once it is over.
OverInv(q) ==
    /\ at[q] = "error" => memo[q].promised \cap docs \subseteq Wordless
    /\ Answered(q) => \A d \in memo[q].texts \ memo[q].context : status[d] = "failed"
    /\ \A d \in memo[q].texts \cup memo[q].promised : upload[d] \notin Early
    /\ memo[q].promised \subseteq promised

SerialInv ==
    /\ Alone
    /\ \A d \in Docs : PlaceInv(d)
    /\ OneDocumentPerContent
    /\ \A c \in Caches : CacheInv(c)
    /\ \A q \in Queries : AskInv(q)
    /\ \A q \in Queries : OverInv(q)

\* No upload but d's, no deletion but e's, no query but q's is at work.
NoUploads(d) == \A e \in Uploads \ {d} : upload[e] \notin Uploading
NoDeletions(d) == \A e \in Docs \ {d} : deletion[e] \notin Deleting
NoQueries(q) == \A p \in Queries \ {q} : at[p] \notin Querying

Quiet ==
    /\ \A d \in Uploads : upload[d] \notin Uploading
    /\ \A d \in Docs : deletion[d] \notin Deleting
    /\ \A q \in Queries : at[q] \notin Querying

\* A thread is free only if there is no request: one request is one too many.
LEMMA FreeIsQuiet ==
    ASSUME Alone, Threads = 1, ThreadFree
    PROVE  Quiet
<1>1. SUFFICES ASSUME ~Quiet PROVE FALSE
  OBVIOUS
<1>2. PICK r \in Requests : TRUE
  BY <1>1 DEF Quiet, Requests
<1>3. ASSUME NEW s \in Requests PROVE s = r
  <2>1. \/ \E d \in Uploads : upload[d] \in Uploading /\ s = <<"upload", d>>
        \/ \E d \in Docs : deletion[d] \in Deleting /\ s = <<"delete", d>>
        \/ \E q \in Queries : at[q] \in Querying /\ s = <<"search", q>>
    BY DEF Requests
  <2>2. \/ \E d \in Uploads : upload[d] \in Uploading /\ r = <<"upload", d>>
        \/ \E d \in Docs : deletion[d] \in Deleting /\ r = <<"delete", d>>
        \/ \E q \in Queries : at[q] \in Querying /\ r = <<"search", q>>
    BY <1>2 DEF Requests
  <2>. QED
    BY <2>1, <2>2 DEF Alone
<1>4. Requests = {r}
  BY <1>2, <1>3
<1>5. Cardinality(Requests) = 1
  BY <1>4, FS_Singleton
<1>. QED
  BY <1>5 DEF ThreadFree

LEMMA IdleIsQuiet ==
    ASSUME Idle
    PROVE  Quiet
BY DEF Idle, Requests, Quiet

\* A query that is over stays what it was while nothing is asked.
LEMMA QueriesOver ==
    ASSUME TypeOK, UNCHANGED queryVars, \A q \in Queries : at[q] \notin Querying,
           \A q \in Queries : OverInv(q), promised \subseteq promised',
           \A d \in Docs : upload[d] \notin Early =>
              /\ upload'[d] \notin Early /\ (status[d] = "failed" => status'[d] = "failed")
              /\ d \in docs' => d \in docs
    PROVE  \A q \in Queries : AskInv(q)' /\ OverInv(q)'
<1>1. SUFFICES ASSUME NEW q \in Queries PROVE AskInv(q)' /\ OverInv(q)'
  OBVIOUS
<1>2. at'[q] = at[q] /\ memo'[q] = memo[q] /\ using'[q] = using[q]
  BY DEF queryVars
<1>3. memo[q].texts \subseteq Docs /\ memo[q].promised \subseteq Docs
  BY DEF TypeOK, Memos
<1>4. OverInv(q)'
  BY <1>2, <1>3 DEF OverInv, Answered
<1>5. AskInv(q)'
  BY <1>2 DEF AskInv, InChunks, Querying, Looking
<1>. QED
  BY <1>4, <1>5

\* An upload under way is alone.
LEMMA UploadAlone ==
    ASSUME SerialInv, OneAtATime, NEW d \in Uploads, IngestFile(d)
    PROVE  /\ NoUploads(d) /\ \A e \in Docs : deletion[e] \notin Deleting
           /\ \A q \in Queries : at[q] \notin Querying
<1>1. Alone /\ Threads = 1
  BY DEF SerialInv, OneAtATime
<1>2. CASE FindDuplicate(d)
  BY <1>1, <1>2, FreeIsQuiet DEF FindDuplicate, Quiet, NoUploads
<1>3. CASE upload[d] \in Uploading
  BY <1>1, <1>3 DEF Alone, NoUploads
<1>. QED
  BY <1>2, <1>3 DEF IngestFile, CreateDocument, SetChunks, Upsert, InvalidateAfterUpload, Reload,
     MarkFailed, Upload, Uploading

LEMMA UploadStillAlone ==
    ASSUME TypeOK, NEW d \in Uploads, NoUploads(d), \A e \in Docs : deletion[e] \notin Deleting,
           \A q \in Queries : at[q] \notin Querying,
           NEW pc, upload' = [upload EXCEPT ![d] = pc], UNCHANGED <<deletion, at>>
    PROVE  Alone'
<1>1. \A e \in Uploads \ {d} : upload'[e] \notin Uploading
  BY DEF TypeOK, Docs, NoUploads
<1>. QED
  BY <1>1 DEF Alone

\* An upload leaves in each cache what its invalidation will take out.
LEMMA UploadSerial ==
    ASSUME TypeOK, DocumentsInv, SerialInv, OneAtATime, NEW d \in Uploads, IngestFile(d)
    PROVE  SerialInv'
<1>1. /\ NoUploads(d) /\ \A e \in Docs : deletion[e] \notin Deleting
      /\ \A q \in Queries : at[q] \notin Querying
  BY UploadAlone
<1>2. /\ UNCHANGED <<deletion, queryVars>> /\ \E pc : upload' = [upload EXCEPT ![d] = pc]
      /\ promised \subseteq promised'
  BY DEF IngestFile, FindDuplicate, CreateDocument, SetChunks, Upsert, InvalidateAfterUpload,
         Reload, MarkFailed, Upload
<1>3. Alone'
  BY <1>1, <1>2, UploadStillAlone DEF queryVars
<1>. d \in Docs
  BY DEF Docs
<1>4. /\ upload \in [Docs -> UploadPCs] /\ status \in [Docs -> Statuses] /\ docs \subseteq Docs
      /\ rows \subseteq Docs /\ points \subseteq Docs
      /\ \A c \in Caches : cache[c] # NotCached => cache[c] \subseteq Docs
      /\ cache \in [Caches -> {NotCached} \cup SUBSET Docs]
  BY DEF TypeOK
<1>5. /\ \A e \in Docs : PlaceInv(e)
      /\ OneDocumentPerContent
      /\ \A c \in Caches : CacheInv(c)
      /\ upload[d] \in NotRegistered => d \notin docs
  BY DEF SerialInv, DocumentsInv, IngestInv
<1>. USE DEF registryVars, Upload
<1>. DEFINE Kept1 == \A e \in Docs : upload[e] \notin Early =>
                /\ upload'[e] \notin Early /\ (status[e] = "failed" => status'[e] = "failed")
                /\ e \in docs' => e \in docs
            Places == \A e \in Docs : PlaceInv(e)'
            Fresh == \A c \in Caches : CacheInv(c)'
<1>6. Kept1
  BY <1>4 DEF IngestFile, FindDuplicate, CreateDocument, SetChunks, Upsert,
         InvalidateAfterUpload, Reload, MarkFailed, Early
<1>7. Places /\ OneDocumentPerContent' /\ Fresh
  <2>. USE DEF Registered, Early, NotRegistered
  <2>1. CASE FindDuplicate(d)
    <3>1. UNCHANGED <<docs, status, rows, points, cache>>
          /\ promised' \subseteq promised \cup {e \in docs : status[e] = "ready"}
          /\ (\/ /\ \A e \in docs : ContentOf[e] # ContentOf[d]
                 /\ upload' = [upload EXCEPT ![d] = "unique"]
              \/ upload' = [upload EXCEPT ![d] = "duplicate"])
          /\ upload[d] = "new"
      BY <2>1 DEF FindDuplicate
    <3>2. Places
      BY <1>1, <1>2, <1>4, <1>5, <3>1 DEF PlaceInv
    <3>3. Fresh
      BY <1>1, <1>2, <1>4, <1>5, <3>1 DEF CacheInv, Adding, Dropping
    <3>. QED
      BY <1>5, <3>1, <3>2, <3>3 DEF OneDocumentPerContent
  <2>2. CASE CreateDocument(d)
    <3>1. /\ UNCHANGED <<status, rows, points, cache, promised>> /\ docs' = docs \cup {d}
          /\ upload[d] = "unique" /\ upload' = [upload EXCEPT ![d] = "created"]
      BY <2>2 DEF CreateDocument
    <3>2. \A e \in docs : ContentOf[e] # ContentOf[d]
      BY <1>5, <3>1 DEF PlaceInv
    <3>3. OneDocumentPerContent'
      BY <1>5, <3>1, <3>2 DEF OneDocumentPerContent
    <3>4. Places
      <4>1. SUFFICES ASSUME NEW e \in Docs PROVE PlaceInv(e)'
        OBVIOUS
      <4>2. CASE e = d
        BY <1>1, <1>2, <1>4, <1>5, <3>1, <4>2 DEF PlaceInv, Deleting
      <4>3. CASE e # d
        <5>1. upload'[e] = upload[e] /\ (e \in Uploads => upload[e] # "unique")
          BY <1>1, <1>4, <3>1, <4>3 DEF NoUploads, Uploading
        <5>. QED
          BY <1>2, <1>5, <3>1, <4>3, <5>1 DEF PlaceInv
      <4>. QED
        BY <4>2, <4>3
    <3>5. Fresh
      BY <1>1, <1>2, <1>4, <1>5, <3>1 DEF CacheInv, Adding, Dropping
    <3>. QED
      BY <3>3, <3>4, <3>5
  <2>3. CASE SetChunks(d)
    <3>1. /\ UNCHANGED <<docs, points, cache, promised>> /\ rows' = rows \cup {d} /\ d \in docs
          /\ upload[d] = "created" /\ upload' = [upload EXCEPT ![d] = "written"]
          /\ status' = [status EXCEPT ![d] = "ready"]
      BY <1>5, <2>3 DEF SetChunks, PlaceInv
    <3>2. Places
      BY <1>1, <1>2, <1>4, <1>5, <3>1 DEF PlaceInv
    <3>3. Fresh
      BY <1>1, <1>2, <1>4, <1>5, <3>1 DEF CacheInv, Adding, Dropping
    <3>. QED
      BY <1>5, <3>1, <3>2, <3>3 DEF OneDocumentPerContent
  <2>4. CASE Upsert(d)
    <3>1. /\ UNCHANGED <<docs, status, rows, cache, promised>> /\ points' = points \cup {d}
          /\ upload[d] = "written" /\ upload' = [upload EXCEPT ![d] = "upserted"]
      BY <2>4 DEF Upsert
    <3>2. Places
      BY <1>1, <1>2, <1>4, <1>5, <3>1 DEF PlaceInv, Deleting
    <3>3. Fresh
      BY <1>1, <1>2, <1>4, <1>5, <3>1 DEF CacheInv, Adding, Dropping
    <3>. QED
      BY <1>5, <3>1, <3>2, <3>3 DEF OneDocumentPerContent
  <2>5. CASE InvalidateAfterUpload(d)
    <3>1. /\ UNCHANGED <<docs, status, rows, points, promised>>
          /\ \/ /\ upload[d] = "upserted" /\ upload' = [upload EXCEPT ![d] = "popped"]
                /\ cache' = [cache EXCEPT !["hybrid"] = NotCached]
             \/ /\ upload[d] = "popped" /\ upload' = [upload EXCEPT ![d] = "invalidated"]
                /\ cache' = [cache EXCEPT !["chunks"] = NotCached]
      BY <2>5 DEF InvalidateAfterUpload, Pop
    <3>2. Places
      BY <1>1, <1>2, <1>4, <1>5, <3>1 DEF PlaceInv
    <3>3. Fresh
      BY <1>1, <1>2, <1>4, <1>5, <3>1 DEF CacheInv, Adding, Dropping, Caches
    <3>. QED
      BY <1>5, <3>1, <3>2, <3>3 DEF OneDocumentPerContent
  <2>6. CASE Reload(d)
    <3>1. /\ UNCHANGED <<docs, status, rows, points, cache>> /\ upload[d] = "invalidated"
          /\ promised' \subseteq promised \cup {e \in docs : e = d /\ status[e] = "ready"}
          /\ \E pc \in {"done", "error"} : upload' = [upload EXCEPT ![d] = pc]
      BY <2>6 DEF Reload
    <3>2. Places
      BY <1>1, <1>2, <1>4, <1>5, <3>1 DEF PlaceInv
    <3>3. Fresh
      BY <1>1, <1>2, <1>4, <1>5, <3>1 DEF CacheInv, Adding, Dropping
    <3>. QED
      BY <1>5, <3>1, <3>2, <3>3 DEF OneDocumentPerContent
  <2>7. CASE MarkFailed(d)
    <3>1. /\ UNCHANGED <<docs, rows, points, cache, promised>> /\ upload[d] = "raised"
          /\ upload' = [upload EXCEPT ![d] = "failed"]
          /\ status' = [status EXCEPT ![d] = "failed"]
      BY <1>5, <2>7 DEF MarkFailed, PlaceInv
    <3>2. Places
      BY <1>1, <1>2, <1>4, <1>5, <3>1 DEF PlaceInv
    <3>3. Fresh
      BY <1>1, <1>2, <1>4, <1>5, <3>1 DEF CacheInv, Adding, Dropping
    <3>. QED
      BY <1>5, <3>1, <3>2, <3>3 DEF OneDocumentPerContent
  <2>. HIDE DEF Places, Fresh
  <2>. QED
    BY <2>1, <2>2, <2>3, <2>4, <2>5, <2>6, <2>7 DEF IngestFile
<1>8. \A q \in Queries : AskInv(q)' /\ OverInv(q)'
  BY <1>1, <1>2, <1>6, QueriesOver DEF SerialInv
<1>. QED
  BY <1>3, <1>7, <1>8 DEF SerialInv

\* A deletion under way is alone.
LEMMA DeleteAlone ==
    ASSUME SerialInv, OneAtATime, NEW d \in Docs, Delete(d)
    PROVE  /\ NoDeletions(d) /\ \A e \in Uploads : upload[e] \notin Uploading
           /\ \A q \in Queries : at[q] \notin Querying
<1>1. Alone /\ Threads = 1
  BY DEF SerialInv, OneAtATime
<1>2. CASE DeleteVectors(d)
  BY <1>1, <1>2, FreeIsQuiet DEF DeleteVectors, Quiet, NoDeletions
<1>3. CASE deletion[d] \in Deleting
  BY <1>1, <1>3 DEF Alone, NoDeletions
<1>. QED
  BY <1>2, <1>3 DEF Delete, DeleteRows, InvalidateAfterDelete, Deletion, Deleting

\* A deletion takes the vectors, then the rows, then what each cache knew.
LEMMA DeleteSerial ==
    ASSUME TypeOK, SerialInv, OneAtATime, NEW d \in Docs, Delete(d)
    PROVE  SerialInv'
<1>1. /\ NoDeletions(d) /\ \A e \in Uploads : upload[e] \notin Uploading
      /\ \A q \in Queries : at[q] \notin Querying
  BY DeleteAlone
<1>2. /\ UNCHANGED <<upload, status, promised, queryVars>>
      /\ docs' \subseteq docs
      /\ \E pc : deletion' = [deletion EXCEPT ![d] = pc]
  BY DEF Delete, DeleteVectors, DeleteRows, RemoveDocument, InvalidateAfterDelete, Deletion,
         registryVars
<1>3. /\ deletion \in [Docs -> {"no", "done", "aborted"} \cup Deleting] /\ docs \subseteq Docs
      /\ rows \subseteq Docs /\ points \subseteq Docs
      /\ \A c \in Caches : cache[c] # NotCached => cache[c] \subseteq Docs
      /\ cache \in [Caches -> {NotCached} \cup SUBSET Docs]
  BY DEF TypeOK
<1>4. Alone'
  <2>1. \A e \in Docs \ {d} : deletion'[e] \notin Deleting
    BY <1>1, <1>2, <1>3 DEF NoDeletions
  <2>2. at' = at
    BY <1>2 DEF queryVars
  <2>. QED
    BY <1>1, <1>2, <2>1, <2>2 DEF Alone
<1>5. /\ \A e \in Docs : PlaceInv(e)
      /\ OneDocumentPerContent
      /\ \A c \in Caches : CacheInv(c)
  BY DEF SerialInv
<1>6. \A q \in Queries : AskInv(q)' /\ OverInv(q)'
  BY <1>1, <1>2, QueriesOver DEF SerialInv
<1>7. \A e \in Uploads : upload[e] \notin Registered \cup {"unique"}
  BY <1>1 DEF Registered, Uploading
<1>. DEFINE Places == \A e \in Docs : PlaceInv(e)'
            Fresh == \A c \in Caches : CacheInv(c)'
<1>8. Places /\ OneDocumentPerContent' /\ Fresh
  <2>. USE DEF registryVars, Deletion
  <2>1. CASE DeleteVectors(d)
    <3>1. /\ UNCHANGED <<docs, status, rows, cache>> /\ points' = points \ {d}
          /\ deletion[d] \in {"no", "aborted"} /\ deletion' = [deletion EXCEPT ![d] = "vectors"]
      BY <2>1 DEF DeleteVectors
    <3>2. Places
      BY <1>2, <1>3, <1>5, <1>7, <3>1 DEF PlaceInv
    <3>3. Fresh
      BY <1>2, <1>3, <1>5, <3>1 DEF CacheInv, Adding, Dropping
    <3>. QED
      BY <1>5, <3>1, <3>2, <3>3 DEF OneDocumentPerContent
  <2>2. CASE DeleteRows(d)
    <3>1. /\ UNCHANGED <<points, cache>> /\ docs' = docs \ {d} /\ rows' = rows \ {d}
          /\ deletion[d] = "vectors" /\ deletion' = [deletion EXCEPT ![d] = "rows"]
      BY <2>2 DEF DeleteRows, RemoveDocument
    <3>2. Places
      BY <1>2, <1>3, <1>5, <1>7, <3>1 DEF PlaceInv
    <3>3. Fresh
      BY <1>2, <1>3, <1>5, <3>1 DEF CacheInv, Adding, Dropping
    <3>. QED
      BY <1>5, <3>1, <3>2, <3>3 DEF OneDocumentPerContent
  <2>3. CASE InvalidateAfterDelete(d)
    <3>1. /\ UNCHANGED <<docs, status, rows, points>>
          /\ \/ /\ deletion[d] = "rows" /\ deletion' = [deletion EXCEPT ![d] = "popped"]
                /\ cache' = [cache EXCEPT !["hybrid"] = NotCached]
             \/ /\ deletion[d] = "popped" /\ deletion' = [deletion EXCEPT ![d] = "done"]
                /\ cache' = [cache EXCEPT !["chunks"] = NotCached]
      BY <2>3 DEF InvalidateAfterDelete, Pop
    <3>2. Places
      BY <1>2, <1>3, <1>5, <1>7, <3>1 DEF PlaceInv
    <3>3. Fresh
      BY <1>2, <1>3, <1>5, <3>1 DEF CacheInv, Adding, Dropping, Caches
    <3>. QED
      BY <1>5, <3>1, <3>2, <3>3 DEF OneDocumentPerContent
  <2>. HIDE DEF Places, Fresh
  <2>. QED
    BY <2>1, <2>2, <2>3 DEF Delete
<1>. QED
  BY <1>4, <1>6, <1>8 DEF SerialInv

\* A call that raises leaves the caches as they are; an ingest that has written its
\* rows is still to be marked.
LEMMA FaultSerial ==
    ASSUME TypeOK, SerialInv, Fault
    PROVE  SerialInv'
<1>1. /\ upload \in [Docs -> UploadPCs] /\ docs \subseteq Docs
      /\ deletion \in [Docs -> {"no", "done", "aborted"} \cup Deleting]
      /\ rows \subseteq Docs /\ points \subseteq Docs
      /\ \A c \in Caches : cache[c] # NotCached => cache[c] \subseteq Docs
  BY DEF TypeOK
<1>2. /\ Alone /\ \A e \in Docs : PlaceInv(e)
      /\ OneDocumentPerContent
      /\ \A c \in Caches : CacheInv(c)
  BY DEF SerialInv
<1>3. UNCHANGED <<docs, status, rows, cache, promised, at, using, memo, queryVars>>
  BY DEF Fault, registryVars, queryVars
<1>4. CASE \E d \in Uploads : /\ upload[d] \in {"created", "written"}
                              /\ upload' = [upload EXCEPT ![d] = "raised"]
                              /\ points' \in {points, points \cup {d}} /\ deletion' = deletion
  <2>1. PICK d \in Uploads : /\ upload[d] \in {"created", "written"}
                             /\ upload' = [upload EXCEPT ![d] = "raised"]
                             /\ points' \in {points, points \cup {d}} /\ deletion' = deletion
    BY <1>4
  <2>. d \in Docs
    BY DEF Docs
  <2>2. /\ NoUploads(d) /\ \A e \in Docs : deletion[e] \notin Deleting
        /\ \A q \in Queries : at[q] \notin Querying
    BY <1>2, <2>1 DEF Alone, NoUploads, Uploading
  <2>3. Alone'
    BY <1>3, <2>1, <2>2, UploadStillAlone
  <2>4. \A e \in Docs : PlaceInv(e)'
    BY <1>1, <1>2, <1>3, <2>1, <2>2 DEF PlaceInv, Registered, Early, Deleting
  <2>5. \A c \in Caches : CacheInv(c)'
    BY <1>1, <1>2, <1>3, <2>1 DEF CacheInv, Adding, Dropping
  <2>6. \A e \in Docs : upload[e] \notin Early => upload'[e] \notin Early
    BY <1>1, <2>1 DEF Early
  <2>7. \A q \in Queries : AskInv(q)' /\ OverInv(q)'
    BY <1>3, <2>2, <2>6, QueriesOver DEF SerialInv
  <2>. QED
    BY <1>2, <1>3, <2>3, <2>4, <2>5, <2>7 DEF SerialInv, OneDocumentPerContent
<1>5. CASE \E d \in Docs : /\ deletion[d] = "vectors"
                           /\ deletion' = [deletion EXCEPT ![d] = "aborted"]
                           /\ UNCHANGED <<points, upload>>
  <2>1. PICK d \in Docs : /\ deletion[d] = "vectors"
                          /\ deletion' = [deletion EXCEPT ![d] = "aborted"]
                          /\ UNCHANGED <<points, upload>>
    BY <1>5
  <2>2. /\ NoDeletions(d) /\ \A e \in Uploads : upload[e] \notin Uploading
        /\ \A q \in Queries : at[q] \notin Querying
    BY <1>2, <2>1 DEF Alone, NoDeletions, Deleting
  <2>3. \A e \in Docs : deletion'[e] \notin Deleting
    BY <1>1, <2>1, <2>2 DEF NoDeletions, Deleting
  <2>4. Alone'
    BY <1>3, <2>1, <2>2, <2>3 DEF Alone
  <2>5. \A e \in Docs : PlaceInv(e)'
    BY <1>1, <1>2, <1>3, <2>1 DEF PlaceInv
  <2>6. \A c \in Caches : CacheInv(c)'
    BY <1>1, <1>2, <1>3, <2>1 DEF CacheInv, Adding, Dropping
  <2>7. \A q \in Queries : AskInv(q)' /\ OverInv(q)'
    BY <1>3, <2>1, <2>2, QueriesOver DEF SerialInv
  <2>. QED
    BY <1>2, <1>3, <2>4, <2>5, <2>6, <2>7 DEF SerialInv, OneDocumentPerContent
<1>. QED
  BY <1>4, <1>5 DEF Fault, Upload, Deletion

\* A new process has empty caches and no request.
LEMMA CrashSerial ==
    ASSUME TypeOK, SerialInv, Crash
    PROVE  SerialInv'
<1>1. /\ \A e \in Docs : PlaceInv(e)
      /\ OneDocumentPerContent
      /\ \A q \in Queries : OverInv(q)
  BY DEF SerialInv
<1>2. /\ UNCHANGED <<docs, status, rows, points, promised>> /\ \A c \in Caches : cache'[c] = NotCached
      /\ \A d \in Docs : IF upload[d] \in Uploading THEN upload'[d] = "lost"
                         ELSE upload'[d] = upload[d]
      /\ \A d \in Docs : IF deletion[d] \in Deleting THEN deletion'[d] = "aborted"
                         ELSE deletion'[d] = deletion[d]
      /\ \A q \in Queries : IF at[q] \in Querying THEN at'[q] = "idle" /\ memo'[q] = NoMemo
                            ELSE at'[q] = at[q] /\ memo'[q] = memo[q]
  BY DEF Crash, registryVars
<1>3. Alone'
  <2>1. \A d \in Uploads : upload'[d] \notin Uploading
    BY <1>2 DEF Docs, Uploading
  <2>2. \A d \in Docs : deletion'[d] \notin Deleting
    BY <1>2 DEF Deleting
  <2>3. \A q \in Queries : at'[q] \notin Querying
    BY <1>2 DEF Querying, Looking
  <2>. QED
    BY <2>1, <2>2, <2>3 DEF Alone
<1>4. \A d \in Docs : PlaceInv(d)'
  BY <1>1, <1>2 DEF PlaceInv, Registered, Uploading, Deleting, Early
<1>5. \A c \in Caches : CacheInv(c)'
  BY <1>2 DEF CacheInv
<1>6. ASSUME NEW q \in Queries PROVE AskInv(q)' /\ OverInv(q)'
  <2>1. CASE at[q] \in Querying
    BY <1>2, <2>1 DEF AskInv, OverInv, InChunks, Looking, Querying, Answered, NoMemo
  <2>2. CASE at[q] \notin Querying
    <3>1. /\ at'[q] = at[q] /\ memo'[q] = memo[q]
          /\ memo[q].texts \subseteq Docs /\ memo[q].promised \subseteq Docs
      BY <1>2, <2>2 DEF TypeOK, Memos
    <3>2. AskInv(q)'
      BY <2>2, <3>1 DEF AskInv, InChunks, Looking, Querying
    <3>3. \A d \in memo[q].texts \cup memo[q].promised : upload'[d] \notin Early
      BY <1>1, <1>2, <3>1 DEF OverInv, Early
    <3>. QED
      BY <1>1, <1>2, <3>1, <3>2, <3>3 DEF OverInv, Answered
  <2>. QED
    BY <2>1, <2>2
<1>. QED
  BY <1>1, <1>2, <1>3, <1>4, <1>5, <1>6 DEF SerialInv, OneDocumentPerContent

\* A query under way is alone.
LEMMA SearchAlone ==
    ASSUME SerialInv, OneAtATime, NEW q \in Queries, Search(q)
    PROVE  /\ \A d \in Uploads : upload[d] \notin Uploading
           /\ \A d \in Docs : deletion[d] \notin Deleting
           /\ NoQueries(q)
<1>1. Alone /\ Threads = 1
  BY DEF SerialInv, OneAtATime
<1>2. CASE BeginSearch(q)
  BY <1>1, <1>2, FreeIsQuiet DEF BeginSearch, Quiet, NoQueries
<1>3. CASE at[q] \in Querying
  BY <1>1, <1>3 DEF Alone, NoQueries
<1>. QED
  BY <1>2, <1>3 DEF Search, LookUp, Fill, Store, Take, Retrieve, GetContents, Query, Querying,
     Looking

\* While a query is alone, what a cache has is what there is, but for what failed.
LEMMA CacheIsThere ==
    ASSUME OneAtATime, SerialInv, NEW c \in Caches, cache[c] # NotCached,
           \A d \in Uploads : upload[d] \notin Uploading,
           \A d \in Docs : deletion[d] \notin Deleting, TypeOK
    PROVE  cache[c] \subseteq rows /\ \A d \in rows \ cache[c] : status[d] = "failed"
<1>1. CacheInv(c) /\ rows \subseteq Docs /\ cache[c] \subseteq Docs
  BY DEF SerialInv, TypeOK
<1>. QED
  BY <1>1 DEF CacheInv, Adding, Dropping, Uploading, Deleting

\* The steps of a query: each leaves what its next step relies on.
LEMMA SearchOwnSerial ==
    ASSUME TypeOK, DocumentsInv, SerialInv, OneAtATime, NEW q \in Queries, Search(q)
    PROVE  AskInv(q)' /\ OverInv(q)'
<1>1. /\ \A d \in Uploads : upload[d] \notin Uploading
      /\ \A d \in Docs : deletion[d] \notin Deleting
      /\ NoQueries(q)
  BY SearchAlone
<1>2. /\ AskInv(q) /\ OverInv(q) /\ \A d \in Docs : PlaceInv(d)
  BY DEF SerialInv
<1>3. /\ rows \subseteq Docs /\ docs \subseteq Docs /\ promised \subseteq Docs
      /\ points \subseteq Docs
      /\ at \in [Queries -> {"idle", "answered", "error"} \cup Querying]
      /\ using \in [Queries -> Caches] /\ memo \in [Queries -> Memos]
      /\ cache \in [Caches -> {NotCached} \cup SUBSET Docs]
  BY DEF TypeOK
<1>4. UNCHANGED <<docs, status, rows, points, upload, deletion, promised>>
  BY DEF Search, BeginSearch, LookUp, Fill, Store, Take, Retrieve, GetContents, registryVars,
         requestVars
<1>5. rows \subseteq docs /\ points \subseteq docs
  BY <1>2, <1>3 DEF PlaceInv
<1>6. ASSUME NEW c \in Caches, cache[c] # NotCached
      PROVE  cache[c] \subseteq rows /\ \A d \in rows \ cache[c] : status[d] = "failed"
  BY <1>1, <1>6, CacheIsThere
<1>7. memo[q] \in Memos /\ using[q] \in Caches
  BY <1>3
<1>8. StoredDocs' = StoredDocs
  BY <1>4 DEF StoredDocs, Kept
<1>. USE DEF AskInv, OverInv, InChunks, Looking, Querying, Answered, Query
<1>9. CASE BeginSearch(q)
  <2>1. /\ at'[q] = "look" /\ using'[q] = "hybrid" /\ memo'[q].texts = {}
        /\ memo'[q].promised = promised
    BY <1>3, <1>9 DEF BeginSearch, NoMemo
  <2>2. \A d \in promised : upload[d] \notin Early
    BY <1>2, <1>3 DEF PlaceInv
  <2>. QED
    BY <1>4, <2>1, <2>2
<1>10. CASE LookUp(q)
  <2>1. /\ at[q] = "look" /\ UNCHANGED <<cache, using, memo>>
        /\ \/ cache[using[q]] = NotCached /\ at'[q] = "fill"
           \/ cache[using[q]] # NotCached /\ at'[q] = "take"
    BY <1>3, <1>10 DEF LookUp
  <2>. QED
    BY <1>2, <1>4, <1>8, <2>1
<1>11. CASE Fill(q)
  <2>1. CASE at'[q] = "error"
    <3>1. /\ at[q] = "fill" /\ UNCHANGED <<cache, using, memo>> /\ rows \subseteq Wordless
      BY <1>3, <1>11, <2>1 DEF Fill, IndexCannotBeBuilt
    <3>2. \A d \in memo[q].promised \cap docs : d \in rows
      BY <1>2, <1>3, <1>7 DEF PlaceInv, Memos
    <3>. QED
      BY <1>2, <1>4, <1>8, <2>1, <3>1, <3>2
  <2>2. CASE at'[q] # "error"
    <3>1. /\ at[q] = "fill" /\ at'[q] = "keep" /\ UNCHANGED <<cache, using>>
          /\ memo'[q] = [memo[q] EXCEPT !.built = rows]
      BY <1>3, <1>11, <2>2 DEF Fill
    <3>2. /\ memo'[q].built = rows /\ memo'[q].hits = memo[q].hits
          /\ memo'[q].texts = memo[q].texts /\ memo'[q].promised = memo[q].promised
      BY <1>7, <3>1 DEF Memos
    <3>. QED
      BY <1>2, <1>4, <1>8, <3>1, <3>2
  <2>. QED
    BY <2>1, <2>2
<1>12. CASE Store(q)
  <2>1. /\ at[q] = "keep" /\ at'[q] = "take" /\ UNCHANGED using
        /\ memo'[q] = [memo[q] EXCEPT !.built = {}]
        /\ cache'[using[q]] = memo[q].built
    BY <1>3, <1>12 DEF Store
  <2>2. /\ memo'[q].hits = memo[q].hits /\ memo[q].built # NotCached
        /\ memo'[q].texts = memo[q].texts /\ memo'[q].promised = memo[q].promised
    BY <1>7, <2>1, NotCachedAssumption DEF Memos
  <2>. QED
    BY <1>2, <1>4, <1>8, <2>1, <2>2
<1>13. CASE Take(q)
  <2>1. at[q] = "take" /\ UNCHANGED <<cache, using>> /\ cache[using[q]] # NotCached
    BY <1>2, <1>3, <1>13 DEF Take
  <2>2. CASE using[q] = "hybrid"
    <3>1. at'[q] = "retrieve" /\ memo'[q] = [memo[q] EXCEPT !.index = cache["hybrid"]]
      BY <1>3, <1>13, <2>1, <2>2 DEF Take
    <3>2. /\ memo'[q].index = cache["hybrid"] /\ memo'[q].texts = memo[q].texts
          /\ memo'[q].promised = memo[q].promised
      BY <1>7, <3>1 DEF Memos
    <3>3. cache["hybrid"] \subseteq docs
      BY <1>5, <1>6, <2>1, <2>2 DEF Caches
    <3>. QED
      BY <1>2, <1>4, <2>1, <2>2, <3>1, <3>2, <3>3
  <2>3. CASE using[q] = "chunks"
    <3>1. at'[q] = "answered" /\ memo'[q] = [memo[q] EXCEPT !.context = cache["chunks"]]
      BY <1>3, <1>13, <2>1, <2>3 DEF Take
    <3>2. /\ memo'[q].context = cache["chunks"] /\ memo'[q].texts = memo[q].texts
          /\ memo'[q].promised = memo[q].promised
      BY <1>7, <3>1 DEF Memos
    <3>3. \A d \in rows \ cache["chunks"] : status[d] = "failed"
      BY <1>6, <2>1, <2>3 DEF Caches
    <3>. QED
      BY <1>2, <1>4, <2>1, <2>3, <3>1, <3>2, <3>3
  <2>. QED
    BY <1>7, <2>2, <2>3 DEF Caches
<1>14. CASE Retrieve(q)
  <2>1. PICK hits \in SUBSET Docs : hits = points \cup (memo[q].index \ Wordless)
    BY <1>3, <1>7 DEF Memos
  <2>2. /\ at[q] = "retrieve" /\ UNCHANGED using /\ at'[q] \in {"answered", "contents"}
        /\ memo'[q] = [memo[q] EXCEPT !.hits = hits]
    BY <1>3, <1>14, <2>1 DEF Retrieve, Fused, Sparse
  <2>3. /\ memo'[q].hits = hits /\ memo'[q].texts = memo[q].texts
        /\ memo'[q].promised = memo[q].promised
    BY <1>7, <2>2 DEF Memos
  <2>4. StoredDocs \subseteq points
    BY <1>3 DEF StoredDocs, Kept, DocumentsInv, IngestInv, HasPoints
  <2>5. StoredDocs \subseteq hits /\ hits \subseteq docs
    BY <1>2, <1>5, <2>1, <2>2, <2>4
  <2>. QED
    BY <1>2, <1>4, <1>8, <2>2, <2>3, <2>5
<1>15. CASE GetContents(q)
  <2>1. /\ at[q] = "contents" /\ at'[q] = "look" /\ using'[q] = "chunks"
        /\ memo'[q] = [memo[q] EXCEPT !.texts = memo[q].hits \cap rows]
    BY <1>3, <1>15 DEF GetContents
  <2>2. /\ memo'[q].texts = memo[q].hits \cap rows /\ memo'[q].hits = memo[q].hits
        /\ memo'[q].promised = memo[q].promised
    BY <1>7, <2>1 DEF Memos
  <2>3. \A d \in rows : upload[d] \notin Early
    BY <1>2, <1>3 DEF PlaceInv
  <2>. QED
    BY <1>2, <1>4, <1>8, <2>1, <2>2, <2>3
<1>. QED
  BY <1>9, <1>10, <1>11, <1>12, <1>13, <1>14, <1>15 DEF Search

\* A query fills the cache it found empty with what there is.
LEMMA SearchSerial ==
    ASSUME TypeOK, DocumentsInv, SerialInv, OneAtATime, NEW q \in Queries, Search(q)
    PROVE  SerialInv'
<1>1. /\ \A d \in Uploads : upload[d] \notin Uploading
      /\ \A d \in Docs : deletion[d] \notin Deleting
      /\ NoQueries(q)
  BY SearchAlone
<1>2. /\ AskInv(q) /\ \A d \in Docs : PlaceInv(d)
      /\ OneDocumentPerContent
      /\ \A c \in Caches : CacheInv(c)
      /\ \A p \in Queries : OverInv(p)
  BY DEF SerialInv
<1>3. /\ rows \subseteq Docs /\ docs \subseteq Docs
      /\ at \in [Queries -> {"idle", "answered", "error"} \cup Querying]
      /\ using \in [Queries -> Caches] /\ memo \in [Queries -> Memos]
      /\ cache \in [Caches -> {NotCached} \cup SUBSET Docs]
  BY DEF TypeOK
<1>4. UNCHANGED <<docs, status, rows, points, upload, deletion, promised>>
  BY DEF Search, BeginSearch, LookUp, Fill, Store, Take, Retrieve, GetContents, registryVars,
         requestVars
<1>5. ASSUME NEW p \in Queries \ {q}
      PROVE  at'[p] = at[p] /\ memo'[p] = memo[p] /\ using'[p] = using[p]
  BY <1>3 DEF Search, BeginSearch, LookUp, Fill, Store, Take, Retrieve, GetContents, Query
<1>6. Alone'
  BY <1>1, <1>4, <1>5 DEF Alone, NoQueries
<1>7. (\A d \in Docs : PlaceInv(d)') /\ OneDocumentPerContent'
  BY <1>2, <1>4 DEF PlaceInv, OneDocumentPerContent
<1>8. ASSUME NEW c \in Caches PROVE CacheInv(c)'
  <2>1. CASE cache' = cache
    BY <1>2, <1>4, <2>1 DEF CacheInv, Adding, Dropping
  <2>2. CASE Store(q)
    <3>1. cache' = [cache EXCEPT ![using[q]] = rows]
      BY <1>2, <2>2 DEF Store, Query, AskInv
    <3>. QED
      BY <1>2, <1>3, <1>4, <3>1 DEF CacheInv, Adding, Dropping
  <2>. QED
    BY <2>1, <2>2 DEF Search, BeginSearch, LookUp, Fill, Take, Retrieve, GetContents
<1>9. ASSUME NEW p \in Queries PROVE AskInv(p)' /\ OverInv(p)'
  <2>1. CASE p = q
    BY <2>1, SearchOwnSerial
  <2>2. CASE p # q
    <3>1. /\ at'[p] = at[p] /\ memo'[p] = memo[p] /\ using'[p] = using[p]
          /\ at[p] \notin Querying
      BY <1>1, <1>5, <2>2 DEF NoQueries
    <3>2. AskInv(p)'
      BY <3>1 DEF AskInv, InChunks, Querying, Looking
    <3>3. OverInv(p)'
      BY <1>2, <1>4, <3>1 DEF OverInv, Answered
    <3>. QED
      BY <3>2, <3>3
  <2>. QED
    BY <2>1, <2>2
<1>. QED
  BY <1>6, <1>7, <1>8, <1>9 DEF SerialInv

\* There is nothing yet.
LEMMA InitSerial == Init => SerialInv
<1>. SUFFICES ASSUME Init PROVE SerialInv
  OBVIOUS
<1>. USE DEF Init
<1>2. Alone
  BY DEF Alone, Uploading, Deleting, Querying, Looking, Docs
<1>3. \A d \in Docs : PlaceInv(d)
  BY DEF PlaceInv, Registered, Docs
<1>4. OneDocumentPerContent
  BY DEF OneDocumentPerContent
<1>5. \A c \in Caches : CacheInv(c)
  BY DEF CacheInv
<1>6. \A q \in Queries : AskInv(q) /\ OverInv(q)
  BY DEF AskInv, OverInv, InChunks, Looking, Querying, NoMemo, Answered
<1>. QED
  BY <1>2, <1>3, <1>4, <1>5, <1>6 DEF SerialInv

\* Every step leaves what the next relies on.
LEMMA NextSerial ==
    ASSUME OneAtATime
    PROVE  TypeOK /\ IndInv /\ SerialInv /\ [Next]_vars => SerialInv'
<1>. SUFFICES ASSUME TypeOK, IndInv, SerialInv, [Next]_vars PROVE SerialInv'
  OBVIOUS
<1>2. DocumentsInv
  BY DEF IndInv, DocumentsInv
<1>3. ASSUME NEW d \in Uploads, IngestFile(d) PROVE SerialInv'
  BY <1>2, <1>3, UploadSerial
<1>4. ASSUME NEW d \in Docs, Delete(d) PROVE SerialInv'
  BY <1>4, DeleteSerial
<1>5. ASSUME NEW q \in Queries, Search(q) PROVE SerialInv'
  BY <1>2, <1>5, SearchSerial
<1>6. ASSUME Fault PROVE SerialInv'
  BY <1>6, FaultSerial
<1>7. ASSUME Crash PROVE SerialInv'
  BY <1>7, CrashSerial
<1>8. ASSUME UNCHANGED vars PROVE SerialInv'
  <2>1. UNCHANGED <<docs, status, rows, points, cache, upload, deletion, promised, at, using, memo>>
    BY <1>8 DEF vars, registryVars, requestVars, queryVars
  <2>2. /\ Alone' /\ (\A d \in Docs : PlaceInv(d)') /\ OneDocumentPerContent'
        /\ \A c \in Caches : CacheInv(c)'
    BY <2>1 DEF SerialInv, Alone, PlaceInv, OneDocumentPerContent, CacheInv, Adding, Dropping
  <2>3. \A q \in Queries : AskInv(q)' /\ OverInv(q)'
    BY <2>1 DEF SerialInv, AskInv, OverInv, InChunks, Answered, StoredDocs, Kept
  <2>. QED
    BY <2>2, <2>3 DEF SerialInv
<1>9. \A d \in Docs : ~AdminDelete(d)
  BY DEF OneAtATime, AdminDelete
<1>. QED
  BY <1>3, <1>4, <1>5, <1>6, <1>7, <1>8, <1>9 DEF Next, OneAtATime

\* With one client at a time, the invariant holds in every reachable state.
THEOREM SerialInductive ==
    ASSUME OneAtATime
    PROVE  Spec => []SerialInv
<1>1. Init => SerialInv
  BY InitSerial
<1>2. TypeOK /\ IndInv /\ SerialInv /\ [Next]_vars => SerialInv'
  BY NextSerial
<1>. QED
  BY <1>1, <1>2, SearchInductive, PTL DEF Spec

\* One client at a time never stores the same content twice, however often calls
\* fail or the process dies between the duplicate check and the end of an upload.
THEOREM OneDocument ==
    ASSUME OneAtATime
    PROVE  Spec => []OneDocumentPerContent
<1>1. SerialInv => OneDocumentPerContent
  BY DEF SerialInv
<1>. QED
  BY <1>1, SerialInductive, PTL

\* Between the requests of one client at a time both caches have what the registry
\* has, but for documents that failed (_invalidate_hybrid).
THEOREM CachesFresh ==
    ASSUME OneAtATime
    PROVE  Spec => []CachesAreFresh
<1>1. TypeOK /\ SerialInv => CachesAreFresh
  <2>. SUFFICES ASSUME TypeOK, SerialInv, Idle, NEW c \in Caches, cache[c] # NotCached
                PROVE  {d \in (cache[c] \ rows) \cup (rows \ cache[c]) : status[d] # "failed"} = {}
    BY DEF CachesAreFresh
  <2>1. cache[c] \subseteq rows /\ \A d \in rows \ cache[c] : status[d] = "failed"
    BY IdleIsQuiet, CacheIsThere DEF Quiet
  <2>. QED
    BY <2>1
<1>. QED
  BY <1>1, SerialInductive, TypeCorrect, PTL

\* Every hit that one client at a time is shown with its text has its context, as
\* long as its document is ready (expand_parents over _chunk_sequences).
THEOREM ContextIsShown ==
    ASSUME OneAtATime
    PROVE  Spec => []HitsHaveContext
<1>1. SerialInv => HitsHaveContext
  BY DEF SerialInv, OverInv, HitsHaveContext
<1>. QED
  BY <1>1, SerialInductive, PTL

\* A query that fails met no document but such as BM25 finds no word in: those it
\* was promised and that are still there have none.  This is the only way in which
\* a query of one client at a time fails (_get_hybrid builds the index).
THEOREM OnlyWordlessFail ==
    ASSUME OneAtATime
    PROVE  Spec => [](\A q \in Queries : at[q] = "error" =>
                         memo[q].promised \cap docs \subseteq Wordless)
<1>1. SerialInv => \A q \in Queries : at[q] = "error" =>
                         memo[q].promised \cap docs \subseteq Wordless
  BY DEF SerialInv, OverInv
<1>. QED
  BY <1>1, SerialInductive, PTL

--------------------------------------------------------------------------------
(* One client at a time gets what SearchContract promises: every step is   *)
(* one of the contract's or leaves what it speaks of as it is.             *)

Answers == [q \in Queries |-> IF Answered(q) THEN memo[q].hits ELSE NotCached]

\* The contract's variables follow the documents, those stored, and the answers.
LEMMA ContractStutters ==
    ASSUME docs' = docs, StoredDocs' = StoredDocs, Answers' = Answers
    PROVE  UNCHANGED Contract!vars
BY DEF Contract!vars, Answers

LEMMA AnswersKept ==
    ASSUME UNCHANGED <<at, memo>>
    PROVE  Answers' = Answers
BY DEF Answers, Answered

\* Which documents are stored follows from where their uploads and deletions stand.
LEMMA StoredKept ==
    ASSUME docs \subseteq Docs, docs' = docs,
           \A d \in Docs : (upload'[d] = "done" /\ deletion'[d] = "no")
                       <=> (upload[d] = "done" /\ deletion[d] = "no")
    PROVE  StoredDocs' = StoredDocs
BY DEF StoredDocs, Kept

\* An upload registers its document, and completes it at its end.
LEMMA UploadMeets ==
    ASSUME TypeOK, DocumentsInv, SerialInv, NEW d \in Uploads, IngestFile(d)
    PROVE  [Contract!Next]_(Contract!vars)
<1>. d \in Docs
  BY DEF Docs
<1>1. /\ upload \in [Docs -> UploadPCs] /\ docs \subseteq Docs
      /\ upload[d] \in NotRegistered => d \notin docs
      /\ upload[d] \in Registered => d \in docs
  BY DEF TypeOK, DocumentsInv, IngestInv, SerialInv, PlaceInv
<1>2. Answers' = Answers
  BY AnswersKept DEF IngestFile, FindDuplicate, CreateDocument, SetChunks, Upsert,
     InvalidateAfterUpload, Reload, MarkFailed, queryVars
<1>3. CASE /\ docs' = docs /\ deletion' = deletion
           /\ \E pc \in UploadPCs \ {"done"} : upload' = [upload EXCEPT ![d] = pc]
           /\ upload[d] # "done"
  <2>1. StoredDocs' = StoredDocs
    BY <1>1, <1>3, StoredKept
  <2>. QED
    BY <1>2, <1>3, <2>1, ContractStutters
<1>4. CASE CreateDocument(d)
  <2>1. /\ docs' = docs \cup {d} /\ deletion' = deletion /\ upload[d] = "unique"
        /\ upload' = [upload EXCEPT ![d] = "created"]
    BY <1>4 DEF CreateDocument, Upload
  <2>2. StoredDocs' = StoredDocs /\ d \notin docs
    BY <1>1, <2>1 DEF StoredDocs, Kept, NotRegistered
  <2>3. Contract!Register(d)
    BY <1>2, <2>1, <2>2 DEF Contract!Register, Answers, StoredDocs, Kept
  <2>. QED
    BY <2>3 DEF Contract!Next
<1>5. CASE Reload(d)
  <2>1. /\ docs' = docs /\ deletion' = deletion /\ upload[d] = "invalidated" /\ d \in docs
        /\ upload' = [upload EXCEPT ![d] = "done"]
    BY <1>1, <1>5 DEF Reload, Upload, Registered, registryVars
  <2>2. CASE deletion[d] = "no"
    <3>1. StoredDocs' = StoredDocs \cup {d} /\ d \notin StoredDocs
      BY <1>1, <2>1, <2>2 DEF StoredDocs, Kept
    <3>2. Contract!Complete(d)
      BY <1>2, <2>1, <3>1 DEF Contract!Complete, Answers
    <3>. QED
      BY <3>2 DEF Contract!Next
  <2>3. CASE deletion[d] # "no"
    <3>1. StoredDocs' = StoredDocs
      BY <1>1, <2>1, <2>3, StoredKept
    <3>. QED
      BY <1>2, <2>1, <3>1, ContractStutters
  <2>. QED
    BY <2>2, <2>3
<1>. QED
  BY <1>3, <1>4, <1>5 DEF IngestFile, FindDuplicate, SetChunks, Upsert, InvalidateAfterUpload,
     MarkFailed, Upload, UploadPCs, Uploading, registryVars

\* A deletion withdraws its document, and discards it with its rows.
LEMMA DeleteMeets ==
    ASSUME TypeOK, NEW d \in Docs, Delete(d)
    PROVE  [Contract!Next]_(Contract!vars)
<1>1. /\ deletion \in [Docs -> {"no", "done", "aborted"} \cup Deleting] /\ docs \subseteq Docs
      /\ upload' = upload
  BY DEF TypeOK, Delete, DeleteVectors, DeleteRows, InvalidateAfterDelete
<1>2. Answers' = Answers
  BY AnswersKept DEF Delete, DeleteVectors, DeleteRows, InvalidateAfterDelete, queryVars
<1>3. CASE DeleteVectors(d)
  <2>1. /\ docs' = docs /\ d \in docs /\ deletion[d] \in {"no", "aborted"}
        /\ deletion' = [deletion EXCEPT ![d] = "vectors"]
    BY <1>3 DEF DeleteVectors, Deletion, registryVars
  <2>2. CASE d \in StoredDocs
    <3>1. StoredDocs' = StoredDocs \ {d}
      BY <1>1, <2>1, <2>2 DEF StoredDocs, Kept
    <3>2. Contract!Withdraw(d)
      BY <1>2, <2>1, <2>2, <3>1 DEF Contract!Withdraw, Answers
    <3>. QED
      BY <3>2 DEF Contract!Next
  <2>3. CASE d \notin StoredDocs
    <3>1. StoredDocs' = StoredDocs
      BY <1>1, <2>1, <2>3 DEF StoredDocs, Kept
    <3>. QED
      BY <1>2, <2>1, <3>1, ContractStutters
  <2>. QED
    BY <2>2, <2>3
<1>4. CASE DeleteRows(d)
  <2>1. /\ docs' = docs \ {d} /\ deletion[d] = "vectors"
        /\ deletion' = [deletion EXCEPT ![d] = "rows"]
    BY <1>4 DEF DeleteRows, RemoveDocument, Deletion
  <2>2. StoredDocs' = StoredDocs /\ d \notin StoredDocs
    BY <1>1, <2>1 DEF StoredDocs, Kept
  <2>3. CASE d \in docs
    <3>1. Contract!Discard(d)
      BY <1>2, <2>1, <2>2, <2>3 DEF Contract!Discard, Answers
    <3>. QED
      BY <3>1 DEF Contract!Next
  <2>4. CASE d \notin docs
    BY <1>2, <2>1, <2>2, <2>4, ContractStutters
  <2>. QED
    BY <2>3, <2>4
<1>5. CASE InvalidateAfterDelete(d)
  <2>1. /\ docs' = docs /\ deletion[d] \in {"rows", "popped"}
        /\ \E pc \in {"popped", "done"} : deletion' = [deletion EXCEPT ![d] = pc]
    BY <1>5 DEF InvalidateAfterDelete, Deletion, registryVars
  <2>2. StoredDocs' = StoredDocs
    BY <1>1, <2>1, StoredKept
  <2>. QED
    BY <1>2, <2>1, <2>2, ContractStutters
<1>. QED
  BY <1>3, <1>4, <1>5 DEF Delete

\* A query is asked, and answered with all that is stored and nothing discarded.
LEMMA SearchMeets ==
    ASSUME TypeOK, DocumentsInv, SerialInv, NEW q \in Queries, Search(q)
    PROVE  [Contract!Next]_(Contract!vars)
<1>1. /\ at \in [Queries -> {"idle", "answered", "error"} \cup Querying]
      /\ memo \in [Queries -> Memos] /\ using \in [Queries -> Caches]
      /\ points \subseteq Docs /\ docs \subseteq Docs
      /\ AskInv(q) /\ \A d \in Docs : PlaceInv(d)
  BY DEF TypeOK, SerialInv
<1>2. docs' = docs /\ StoredDocs' = StoredDocs
  BY DEF Search, BeginSearch, LookUp, Fill, Store, Take, Retrieve, GetContents, registryVars,
         requestVars, StoredDocs, Kept
<1>3. \A p \in Queries \ {q} : at'[p] = at[p] /\ memo'[p] = memo[p]
  BY <1>1 DEF Search, BeginSearch, LookUp, Fill, Store, Take, Retrieve, GetContents, Query
<1>4. ASSUME at[q] # "answered", at'[q] # "answered"
      PROVE  [Contract!Next]_(Contract!vars)
  <2>1. Answers' = Answers
    BY <1>3, <1>4 DEF Answers, Answered
  <2>. QED
    BY <1>2, <2>1, ContractStutters
<1>5. ASSUME at[q] # "answered", at'[q] = "answered",
             StoredDocs \subseteq memo'[q].hits, memo'[q].hits \subseteq docs
      PROVE  [Contract!Next]_(Contract!vars)
  <2>1. PICK hits : hits = memo'[q].hits
    OBVIOUS
  <2>2. Answers' = [Answers EXCEPT ![q] = hits] /\ Answers[q] = NotCached
    BY <1>3, <1>5, <2>1 DEF Answers, Answered
  <2>3. hits = StoredDocs \cup (hits \ StoredDocs) /\ hits \ StoredDocs \subseteq docs \ StoredDocs
    BY <1>5, <2>1
  <2>4. Contract!Answer(q)
    BY <1>2, <2>2, <2>3 DEF Contract!Answer, Answers
  <2>. QED
    BY <2>4 DEF Contract!Next
<1>6. CASE BeginSearch(q)
  <2>1. at'[q] = "look"
    BY <1>1, <1>6 DEF BeginSearch
  <2>2. Answers' = [Answers EXCEPT ![q] = NotCached]
    BY <1>3, <2>1 DEF Answers, Answered
  <2>3. Contract!Ask(q)
    BY <1>2, <2>2 DEF Contract!Ask, Answers
  <2>. QED
    BY <2>3 DEF Contract!Next
<1>7. CASE LookUp(q) \/ Fill(q) \/ Store(q) \/ GetContents(q)
  BY <1>1, <1>4, <1>7 DEF LookUp, Fill, Store, GetContents, Query
<1>8. CASE Take(q)
  <2>1. CASE at'[q] = "answered"
    <3>1. /\ at[q] = "take" /\ using[q] = "chunks"
          /\ memo'[q] = [memo[q] EXCEPT !.context = cache["chunks"]]
      BY <1>1, <1>8, <2>1 DEF Take, Query
    <3>2. memo'[q].hits = memo[q].hits
      BY <1>1, <3>1 DEF Memos
    <3>3. StoredDocs \subseteq memo[q].hits /\ memo[q].hits \subseteq docs
      BY <1>1, <3>1 DEF AskInv, InChunks, Looking
    <3>. QED
      BY <1>5, <2>1, <3>1, <3>2, <3>3
  <2>2. CASE at'[q] # "answered"
    BY <1>1, <1>4, <1>8, <2>2 DEF Take, Query
  <2>. QED
    BY <2>1, <2>2
<1>9. CASE Retrieve(q)
  <2>1. CASE at'[q] = "answered"
    <3>1. PICK hits \in SUBSET Docs : hits = points \cup (memo[q].index \ Wordless)
      BY <1>1 DEF Memos
    <3>2. /\ at[q] = "retrieve" /\ hits = {} /\ memo'[q] = [memo[q] EXCEPT !.hits = hits]
      BY <1>1, <1>9, <2>1, <3>1 DEF Retrieve, Fused, Sparse, Query
    <3>3. memo'[q].hits = hits
      BY <1>1, <3>2 DEF Memos
    <3>4. StoredDocs \subseteq points
      BY <1>1 DEF StoredDocs, Kept, DocumentsInv, IngestInv, HasPoints
    <3>5. StoredDocs \subseteq hits
      BY <3>1, <3>4
    <3>. QED
      BY <1>5, <2>1, <3>2, <3>3, <3>5
  <2>2. CASE at'[q] # "answered"
    BY <1>1, <1>4, <1>9, <2>2 DEF Retrieve, Query
  <2>. QED
    BY <2>1, <2>2
<1>. QED
  BY <1>6, <1>7, <1>8, <1>9 DEF Search

\* Calls that raise and deaths of the process break no promise.
LEMMA FailureMeets ==
    ASSUME TypeOK, Fault \/ Crash
    PROVE  [Contract!Next]_(Contract!vars)
<1>1. /\ upload \in [Docs -> UploadPCs] /\ docs \subseteq Docs
      /\ deletion \in [Docs -> {"no", "done", "aborted"} \cup Deleting]
      /\ at \in [Queries -> {"idle", "answered", "error"} \cup Querying]
  BY DEF TypeOK
<1>2. docs' = docs
  BY DEF Fault, Crash, registryVars
<1>3. StoredDocs' = StoredDocs
  <2>1. CASE Fault
    BY <1>1, <1>2, <2>1, StoredKept DEF Fault, Upload, Deletion, Docs
  <2>2. CASE Crash
    BY <1>1, <1>2, <2>2, StoredKept DEF Crash, Uploading, Deleting
  <2>. QED
    BY <2>1, <2>2
<1>4. Answers' = Answers
  <2>1. CASE Fault
    BY <2>1, AnswersKept DEF Fault, queryVars
  <2>2. CASE Crash
    BY <1>1, <2>2 DEF Crash, Answers, Answered, Querying, Looking
  <2>. QED
    BY <2>1, <2>2
<1>. QED
  BY <1>2, <1>3, <1>4, ContractStutters

\* One client at a time gets what the contract promises, through any number of
\* failed calls, failed deletions and deaths of the process: each query finds all
\* stored documents, and none that was discarded.
THEOREM ServiceMeetsContract ==
    ASSUME OneAtATime
    PROVE  Spec => MeetsContract
<1>1. Init => Contract!Init
  BY DEF Init, Contract!Init, StoredDocs, Kept, Answered
<1>2. TypeOK /\ IndInv /\ SerialInv /\ [Next]_vars => [Contract!Next]_(Contract!vars)
  <2>. SUFFICES ASSUME TypeOK, IndInv, SerialInv, [Next]_vars
                PROVE  [Contract!Next]_(Contract!vars)
    OBVIOUS
  <2>1. DocumentsInv
    BY DEF IndInv, DocumentsInv
  <2>2. CASE UNCHANGED vars
    BY <2>2, ContractStutters, AnswersKept DEF vars, registryVars, requestVars, queryVars,
       StoredDocs, Kept
  <2>3. \A d \in Docs : ~AdminDelete(d)
    BY DEF OneAtATime, AdminDelete
  <2>. QED
    BY <2>1, <2>2, <2>3, UploadMeets, DeleteMeets, SearchMeets, FailureMeets
       DEF Next, OneAtATime
<1>. QED
  BY <1>1, <1>2, SerialInductive, SearchInductive, PTL DEF Spec, MeetsContract, Contract!Spec
================================================================================
