----------------------------- MODULE SearchService -----------------------------
(***************************************************************************)
(* The search service of one API process, on one knowledge base            *)
(* (core/retrieval/search.py): uploads that are ingested within the        *)
(* request, deletions, and queries over two caches of the process, the     *)
(* BM25 index (_hybrid_cache) and the chunk sequences (_chunks_cache).     *)
(* The routes are plain functions, so requests run in the threads of a     *)
(* pool and interleave between any two accesses to the registry, the       *)
(* vector store or a cache.  Documents that come through the worker's      *)
(* pipeline (IngestPipeline) are written by another process, which does    *)
(* not know of these caches.                                               *)
(*                                                                         *)
(* set_chunks and upsert write all chunks of a document at once: a chunk   *)
(* is abstracted to its document.  A query has words of every document,    *)
(* and the knowledge base is smaller than the limits of retrieval and      *)
(* rerank.                                                                 *)
(***************************************************************************)
EXTENDS Naturals, FiniteSets

CONSTANTS
    Uploads,       \* uploads over the API; also the documents they create
    WorkerDocs,    \* documents that the worker's pipeline ingests
    ContentOf,     \* the content hash of a document
    Wordless,      \* documents in which the tokenizer of BM25 finds no word
    Queries,       \* clients that search, again and again
    NotCached,     \* a cache without an entry for the knowledge base
    Threads,       \* size of the thread pool the requests run in
    AdminDeletes,  \* documents deleted on the admin page
    FaultPoints,   \* where a call may raise: "embed", "upsert", "delete"
    MaxFaults,     \* bound: calls that raise
    MaxCrashes     \* bound: deaths of the API process

Docs == Uploads \cup WorkerDocs
Caches == {"hybrid", "chunks"}

ASSUME ThreadsAssumption == Threads \in Nat \ {0}
ASSUME NotCachedAssumption == \A D \in SUBSET Docs : D # NotCached

VARIABLES
    docs,      \* rows of the documents table
    status,    \* documents.status
    rows,      \* documents with chunk rows
    points,    \* documents with vectors in the store
    cache,     \* the documents each cache of the process was built from
    upload,    \* where the ingest of each document stands
    deletion,  \* where the API's deletion of each document stands
    promised,  \* documents an upload returned with status ready
    at,        \* where each client's query stands
    using,     \* the cache it is looking up
    memo,      \* its local variables, and what was so when it began
    faults, crashes

registryVars == <<docs, status, rows>>
requestVars  == <<upload, deletion, promised>>
queryVars    == <<at, using, memo>>
boundVars    == <<faults, crashes>>
vars == <<registryVars, points, cache, requestVars, queryVars, boundVars>>

\* An upload is at work (by the name of what it did last), or over; so is the
\* pipeline's ingest of a document, in the worker.
Uploading == {"unique", "created", "written", "upserted", "popped", "invalidated", "raised"}
UploadPCs == {"new"} \cup Uploading \cup {"done", "duplicate", "failed", "error", "lost"}
               \cup {"queued", "registered", "chunked", "indexed", "stopped"}
Deleting == {"vectors", "rows", "popped"}
Looking  == {"look", "fill", "keep", "take"}
Querying == Looking \cup {"retrieve", "contents"}
Statuses == {"uploaded", "chunked", "ready", "failed"}

\* A query's memory: the snapshot it fills a cache with, the BM25 index and the
\* chunk sequences it took, its hits, those whose text it found; and at its
\* beginning, the documents fully ingested, promised and deleted.
Memos == [built : SUBSET Docs, index : SUBSET Docs, context : SUBSET Docs,
          hits : SUBSET Docs, texts : SUBSET Docs,
          ingested : SUBSET Docs, promised : SUBSET Docs, deleted : SUBSET Docs]
NoMemo == [built |-> {}, index |-> {}, context |-> {}, hits |-> {}, texts |-> {},
           ingested |-> {}, promised |-> {}, deleted |-> {}]

TypeOK ==
    /\ docs \subseteq Docs
    /\ status \in [Docs -> Statuses]
    /\ rows \subseteq Docs
    /\ points \subseteq Docs
    /\ cache \in [Caches -> {NotCached} \cup SUBSET Docs]
    /\ upload \in [Docs -> UploadPCs]
    /\ deletion \in [Docs -> {"no", "done", "aborted"} \cup Deleting]
    /\ promised \subseteq Docs
    /\ at \in [Queries -> {"idle", "answered", "error"} \cup Querying]
    /\ using \in [Queries -> Caches]
    /\ memo \in [Queries -> Memos]
    /\ faults \in Nat
    /\ crashes \in Nat

Init ==
    /\ docs = {}
    /\ status = [d \in Docs |-> "uploaded"]
    /\ rows = {}
    /\ points = {}
    /\ cache = [c \in Caches |-> NotCached]
    /\ upload = [d \in Docs |-> IF d \in Uploads THEN "new" ELSE "queued"]
    /\ deletion = [d \in Docs |-> "no"]
    /\ promised = {}
    /\ at = [q \in Queries |-> "idle"]
    /\ using = [q \in Queries |-> "hybrid"]
    /\ memo = [q \in Queries |-> NoMemo]
    /\ faults = 0
    /\ crashes = 0

--------------------------------------------------------------------------------
(* Helpers *)

\* The requests in flight, each in a thread of the pool.
Requests == {<<"upload", d>> : d \in {d \in Uploads : upload[d] \in Uploading}}
              \cup {<<"delete", d>> : d \in {d \in Docs : deletion[d] \in Deleting}}
              \cup {<<"search", q>> : q \in {q \in Queries : at[q] \in Querying}}

Idle == Requests = {}
ThreadFree == Cardinality(Requests) < Threads

Upload(d, frm, to) == upload[d] = frm /\ upload' = [upload EXCEPT ![d] = to]
Deletion(d, frm, to) == deletion[d] = frm /\ deletion' = [deletion EXCEPT ![d] = to]

\* self._hybrid_cache.pop(kb_id, None), and likewise for the chunks.
Pop(c) == cache' = [cache EXCEPT ![c] = NotCached]

\* The construction of a BM25 index divides by the average length of the chunks
\* in words: a knowledge base that has chunks but no word raises.
IndexCannotBeBuilt == rows # {} /\ rows \subseteq Wordless

\* What BM25 finds in the index at hand, and the fusion of two rankings.
Sparse(index) == index \ Wordless
Fused(dense, sparse) == dense \cup sparse

\* A query goes from one step to the next.
Query(q, frm, to) == at[q] = frm /\ at' = [at EXCEPT ![q] = to]

--------------------------------------------------------------------------------
(* ingest_file: an upload is ingested within its request.                  *)

\* Mutant of FindDuplicate: a failed document does not count.
FindDuplicateNotFailed(d) ==
    /\ ThreadFree
    /\ LET same == {e \in docs : ContentOf[e] = ContentOf[d] /\ status[e] # "failed"}
       IN \/ /\ same = {}
             /\ Upload(d, "new", "unique") /\ UNCHANGED promised
          \/ \E e \in same :
                /\ Upload(d, "new", "duplicate")
                /\ promised' = IF status[e] = "ready" THEN promised \cup {e} ELSE promised
    /\ UNCHANGED <<registryVars, points, cache, deletion, queryVars, boundVars>>

\* The upload is parsed; a document with the same content is returned as it is.
FindDuplicate(d) ==
    /\ ThreadFree
    /\ LET same == {e \in docs : ContentOf[e] = ContentOf[d]}
       IN \/ /\ same = {}
             /\ Upload(d, "new", "unique") /\ UNCHANGED promised
          \/ \E e \in same :
                /\ Upload(d, "new", "duplicate")
                /\ promised' = IF status[e] = "ready" THEN promised \cup {e} ELSE promised
    /\ UNCHANGED <<registryVars, points, cache, deletion, queryVars, boundVars>>

CreateDocument(d) ==
    /\ Upload(d, "unique", "created")
    /\ docs' = docs \cup {d}
    /\ UNCHANGED <<status, rows, points, cache, deletion, promised, queryVars, boundVars>>

\* The chunks are embedded; set_chunks then writes their rows and makes the
\* document ready, or raises when it was deleted meanwhile.
SetChunks(d) ==
    /\ \/ /\ d \in docs
          /\ Upload(d, "created", "written")
          /\ rows' = rows \cup {d}
          /\ status' = [status EXCEPT ![d] = "ready"]
       \/ /\ d \notin docs
          /\ Upload(d, "created", "raised") /\ UNCHANGED <<rows, status>>
    /\ UNCHANGED <<docs, points, cache, deletion, promised, queryVars, boundVars>>

\* The vectors go to the store, whatever became of the document.
Upsert(d) ==
    /\ Upload(d, "written", "upserted")
    /\ points' = points \cup {d}
    /\ UNCHANGED <<registryVars, cache, deletion, promised, queryVars, boundVars>>

\* Mutant of InvalidateAfterUpload: the sequences were not thought of.
InvalidateHybridOnly(d) ==
    /\ \/ Upload(d, "upserted", "popped") /\ Pop("hybrid")
       \/ Upload(d, "popped", "invalidated") /\ UNCHANGED cache
    /\ UNCHANGED <<registryVars, points, deletion, promised, queryVars, boundVars>>

\* _invalidate_hybrid: the two caches, one after the other.
InvalidateAfterUpload(d) ==
    /\ \/ Upload(d, "upserted", "popped") /\ Pop("hybrid")
       \/ Upload(d, "popped", "invalidated") /\ Pop("chunks")
    /\ UNCHANGED <<registryVars, points, deletion, promised, queryVars, boundVars>>

\* The response is the document as it is now, or an error if it is gone.
Reload(d) ==
    /\ \/ /\ d \in docs
          /\ Upload(d, "invalidated", "done")
          /\ promised' = IF status[d] = "ready" THEN promised \cup {d} ELSE promised
       \/ /\ d \notin docs
          /\ Upload(d, "invalidated", "error") /\ UNCHANGED promised
    /\ UNCHANGED <<registryVars, points, cache, deletion, queryVars, boundVars>>

\* Mutant of MarkFailed: the exception is passed on, the document left alone.
MarkNothing(d) ==
    /\ Upload(d, "raised", "failed")
    /\ UNCHANGED <<registryVars, points, cache, deletion, promised, queryVars, boundVars>>

\* The handler marks the document failed, and itself raises when it is gone.
\* It invalidates nothing.
MarkFailed(d) ==
    /\ \/ /\ d \in docs
          /\ Upload(d, "raised", "failed")
          /\ status' = [status EXCEPT ![d] = "failed"]
       \/ /\ d \notin docs
          /\ Upload(d, "raised", "error") /\ UNCHANGED status
    /\ UNCHANGED <<docs, rows, points, cache, deletion, promised, queryVars, boundVars>>

--------------------------------------------------------------------------------
(* The worker's pipeline, as this process sees it (IngestPipeline).        *)

Register(d) ==
    /\ Upload(d, "queued", "registered")
    /\ docs' = docs \cup {d}
    /\ UNCHANGED <<status, rows, points, cache, deletion, promised, queryVars, boundVars>>

ChunkStage(d) ==
    /\ \/ /\ d \in docs
          /\ Upload(d, "registered", "chunked")
          /\ rows' = rows \cup {d}
          /\ status' = [status EXCEPT ![d] = "chunked"]
       \/ /\ d \notin docs
          /\ Upload(d, "registered", "stopped") /\ UNCHANGED <<rows, status>>
    /\ UNCHANGED <<docs, points, cache, deletion, promised, queryVars, boundVars>>

\* The vectors, and after the reconciliation the document's status; the caches
\* of the API process are out of the worker's reach.
IndexStage(d) ==
    /\ Upload(d, "chunked", "indexed")
    /\ points' = points \cup {d}
    /\ status' = IF d \in docs THEN [status EXCEPT ![d] = "ready"] ELSE status
    /\ UNCHANGED <<docs, rows, cache, deletion, promised, queryVars, boundVars>>

--------------------------------------------------------------------------------
(* Deletions.  A client may delete any document it sees listed, also one   *)
(* that is still being ingested, and again after a deletion that failed.   *)

\* Mutant of DeleteVectors: the vectors stay.
DeleteNoVectors(d) ==
    /\ ThreadFree /\ d \in docs
    /\ Deletion(d, "no", "vectors") \/ Deletion(d, "aborted", "vectors")
    /\ UNCHANGED <<registryVars, points, cache, upload, promised, queryVars, boundVars>>

DeleteVectors(d) ==
    /\ ThreadFree /\ d \in docs
    /\ Deletion(d, "no", "vectors") \/ Deletion(d, "aborted", "vectors")
    /\ points' = points \ {d}
    /\ UNCHANGED <<registryVars, cache, upload, promised, queryVars, boundVars>>

\* Registry.delete_document: chunk rows and document in one transaction.
RemoveDocument(d) ==
    /\ docs' = docs \ {d}
    /\ rows' = rows \ {d}
    /\ UNCHANGED status

DeleteRows(d) ==
    /\ Deletion(d, "vectors", "rows")
    /\ RemoveDocument(d)
    /\ UNCHANGED <<points, cache, upload, promised, queryVars, boundVars>>

\* Mutant of InvalidateAfterDelete: the index was not thought of.
InvalidateChunksOnly(d) ==
    /\ \/ Deletion(d, "rows", "popped") /\ UNCHANGED cache
       \/ Deletion(d, "popped", "done") /\ Pop("chunks")
    /\ UNCHANGED <<registryVars, points, upload, promised, queryVars, boundVars>>

InvalidateAfterDelete(d) ==
    /\ \/ Deletion(d, "rows", "popped") /\ Pop("hybrid")
       \/ Deletion(d, "popped", "done") /\ Pop("chunks")
    /\ UNCHANGED <<registryVars, points, upload, promised, queryVars, boundVars>>

\* The admin page deletes from the registry only, in one step (not while the
\* API deletes the same document: there is one deletion of it at a time).
AdminDelete(d) ==
    /\ d \in docs \cap AdminDeletes
    /\ Deletion(d, "no", "done") \/ Deletion(d, "aborted", "done")
    /\ RemoveDocument(d)
    /\ UNCHANGED <<points, cache, upload, promised, queryVars, boundVars>>

--------------------------------------------------------------------------------
(* search: hybrid retrieval, the texts of the hits, their context.         *)

BeginSearch(q) ==
    /\ ThreadFree
    /\ at[q] \notin Querying
    /\ at' = [at EXCEPT ![q] = "look"]
    /\ using' = [using EXCEPT ![q] = "hybrid"]
    /\ memo' = [memo EXCEPT ![q] =
         [NoMemo EXCEPT !.ingested = {d \in Docs : upload[d] \in {"done", "indexed"}},
                        !.promised = promised,
                        !.deleted = {d \in Docs : deletion[d] = "done"}]]
    /\ UNCHANGED <<registryVars, points, cache, requestVars, boundVars>>

\* _get_hybrid and _chunk_sequences, in the same four steps: is there an entry?
\* If not, build one from list_chunks and store it.  Read the entry.
LookUp(q) ==
    /\ \/ cache[using[q]] = NotCached /\ Query(q, "look", "fill")
       \/ cache[using[q]] # NotCached /\ Query(q, "look", "take")
    /\ UNCHANGED <<registryVars, points, cache, requestVars, using, memo, boundVars>>

Fill(q) ==
    /\ \/ /\ using[q] = "hybrid" /\ IndexCannotBeBuilt
          /\ Query(q, "fill", "error") /\ UNCHANGED memo
       \/ /\ ~(using[q] = "hybrid" /\ IndexCannotBeBuilt)
          /\ Query(q, "fill", "keep")
          /\ memo' = [memo EXCEPT ![q].built = rows]
    /\ UNCHANGED <<registryVars, points, cache, requestVars, using, boundVars>>

\* Mutant of Store: the index and the sequences are stored under one name.
StoreAsHybrid(q) ==
    /\ Query(q, "keep", "take")
    /\ cache' = [cache EXCEPT !["hybrid"] = memo[q].built]
    /\ memo' = [memo EXCEPT ![q].built = {}]
    /\ UNCHANGED <<registryVars, points, requestVars, using, boundVars>>

Store(q) ==
    /\ Query(q, "keep", "take")
    /\ cache' = [cache EXCEPT ![using[q]] = memo[q].built]
    /\ memo' = [memo EXCEPT ![q].built = {}]
    /\ UNCHANGED <<registryVars, points, requestVars, using, boundVars>>

\* The entry may have been popped since: a KeyError ends the request.
Take(q) ==
    /\ \/ /\ cache[using[q]] = NotCached
          /\ Query(q, "take", "error") /\ UNCHANGED memo
       \/ /\ cache[using[q]] # NotCached /\ using[q] = "hybrid"
          /\ Query(q, "take", "retrieve")
          /\ memo' = [memo EXCEPT ![q].index = cache["hybrid"]]
       \/ /\ cache[using[q]] # NotCached /\ using[q] = "chunks"
          /\ Query(q, "take", "answered")
          /\ memo' = [memo EXCEPT ![q].context = cache["chunks"]]
    /\ UNCHANGED <<registryVars, points, cache, requestVars, using, boundVars>>

\* Mutant of Retrieve: the index alone is asked.
RetrieveSparse(q) ==
    /\ LET hits == Sparse(memo[q].index)
       IN /\ \/ hits = {} /\ Query(q, "retrieve", "answered")
             \/ hits # {} /\ Query(q, "retrieve", "contents")
          /\ memo' = [memo EXCEPT ![q].hits = hits]
    /\ UNCHANGED <<registryVars, points, cache, requestVars, using, boundVars>>

\* HybridRetriever.search: the vector store's hits, fused with those of the
\* index at hand.  Without hits the answer is empty.
Retrieve(q) ==
    /\ LET hits == Fused(points, Sparse(memo[q].index))
       IN /\ \/ hits = {} /\ Query(q, "retrieve", "answered")
             \/ hits # {} /\ Query(q, "retrieve", "contents")
          /\ memo' = [memo EXCEPT ![q].hits = hits]
    /\ UNCHANGED <<registryVars, points, cache, requestVars, using, boundVars>>

\* get_chunk_contents, whose texts the answer shows (those it does not find
\* are empty), and the same way the titles; then the sequences are looked up.
GetContents(q) ==
    /\ Query(q, "contents", "look")
    /\ memo' = [memo EXCEPT ![q].texts = memo[q].hits \cap rows]
    /\ using' = [using EXCEPT ![q] = "chunks"]
    /\ UNCHANGED <<registryVars, points, cache, requestVars, boundVars>>

--------------------------------------------------------------------------------
(* What goes wrong.                                                        *)

\* The embedder, the store or the registry raises.  A failed upsert may have
\* reached the store; a failed deletion of the rows leaves the document.
Fault ==
    /\ faults < MaxFaults
    /\ faults' = faults + 1
    /\ \/ /\ "embed" \in FaultPoints
          /\ \E d \in Uploads : Upload(d, "created", "raised")
          /\ UNCHANGED <<points, deletion>>
       \/ /\ "upsert" \in FaultPoints
          /\ \E d \in Uploads : /\ Upload(d, "written", "raised")
                                /\ points' \in {points, points \cup {d}}
          /\ UNCHANGED deletion
       \/ /\ "delete" \in FaultPoints
          /\ \E d \in Docs : Deletion(d, "vectors", "aborted")
          /\ UNCHANGED <<points, upload>>
    /\ UNCHANGED <<registryVars, cache, promised, queryVars, crashes>>

\* The API process dies and is started again: its requests are lost, its
\* caches empty; the registry and the vector store are as they were.
Crash ==
    /\ crashes < MaxCrashes
    /\ crashes' = crashes + 1
    /\ cache' = [c \in Caches |-> NotCached]
    /\ upload' = [d \in Docs |-> IF upload[d] \in Uploading THEN "lost" ELSE upload[d]]
    /\ deletion' = [d \in Docs |-> IF deletion[d] \in Deleting THEN "aborted" ELSE deletion[d]]
    /\ at' = [q \in Queries |-> IF at[q] \in Querying THEN "idle" ELSE at[q]]
    /\ memo' = [q \in Queries |-> IF at[q] \in Querying THEN NoMemo ELSE memo[q]]
    /\ UNCHANGED <<registryVars, points, promised, using, faults>>

--------------------------------------------------------------------------------
IngestFile(d) ==
    \/ FindDuplicate(d) \/ CreateDocument(d) \/ SetChunks(d) \/ Upsert(d)
    \/ InvalidateAfterUpload(d) \/ Reload(d) \/ MarkFailed(d)

WorkerIngest(d) == Register(d) \/ ChunkStage(d) \/ IndexStage(d)

Delete(d) == DeleteVectors(d) \/ DeleteRows(d) \/ InvalidateAfterDelete(d)

Search(q) ==
    \/ BeginSearch(q) \/ LookUp(q) \/ Fill(q) \/ Store(q) \/ Take(q)
    \/ Retrieve(q) \/ GetContents(q)

Next ==
    \/ \E d \in Uploads : IngestFile(d)
    \/ \E d \in WorkerDocs : WorkerIngest(d)
    \/ \E d \in Docs : Delete(d) \/ AdminDelete(d)
    \/ \E q \in Queries : Search(q)
    \/ Fault
    \/ Crash

Spec == Init /\ [][Next]_vars

--------------------------------------------------------------------------------
(* Properties                                                              *)

Answered(q) == at[q] = "answered"

\* Documents nobody has begun to delete.
Kept == {d \in docs : deletion[d] = "no"}

\* A query finds every document whose ingest was over when it began, here or
\* in the worker, with its text, whatever uploads, deletions and other queries
\* do to the caches meanwhile (search, _invalidate_hybrid).
CompletedUploadIsFound ==
    \A q \in Queries : Answered(q) =>
        memo[q].ingested \cap Kept \subseteq memo[q].hits \cap memo[q].texts

\* An upload that was answered, with a document or an error, leaves no document
\* that says ready and has no vectors or no rows (ingest_file's handler).
ReadyHasVectors ==
    \A d \in Uploads \cap Kept :
        (upload[d] \in {"done", "failed", "error"} /\ status[d] = "ready")
            => d \in rows \cap points

\* The same content has one document, also when its first ingest failed or was
\* cut short (find_document_by_hash).
OneDocumentPerContent ==
    \A d, e \in docs : ContentOf[d] = ContentOf[e] => d = e

\* Between requests, a cache of the process has exactly the documents with
\* rows, but for those that failed after their rows were written
\* (_invalidate_hybrid on ingest and deletion).
CachesAreFresh ==
    Idle => \A c \in Caches : cache[c] # NotCached =>
        {d \in (cache[c] \ rows) \cup (rows \ cache[c]) : status[d] # "failed"} = {}

\* A hit that is shown has its context: the chunk sequences know every ready
\* document whose text is in the answer (expand_parents over _chunk_sequences).
HitsHaveContext ==
    \A q \in Queries : Answered(q) =>
        {d \in memo[q].texts : status[d] = "ready"} \subseteq memo[q].context

\* While the query went on, an upload or a deletion that was not over when it
\* began invalidated the caches.
Invalidated(q) ==
    \/ \E d \in Uploads \ memo[q].ingested :
          upload[d] \in {"popped", "invalidated", "done", "error"}
    \/ \E d \in Docs \ memo[q].deleted : deletion[d] \in {"popped", "done"}

\* A query that began after a document was returned as ready fails for two reasons
\* only: the documents so returned that nobody deletes are all without a word, or
\* somebody invalidated a cache between its look at the entry and its read of it
\* (_get_hybrid, _chunk_sequences).
PromisedIsSearchable ==
    [][\A q \in Queries : at[q] # "error" /\ at'[q] = "error" =>
          memo[q].promised \cap Kept \subseteq Wordless \/ Invalidated(q)]_vars

\* A query that began after a document's deletion had been answered does not
\* show its text, as content or as context of a hit (the text is in the
\* registry only, which both deletions clear).
DeletedTextIsGone ==
    \A q \in Queries : Answered(q) =>
        memo[q].deleted \cap memo[q].hits \cap (memo[q].texts \cup memo[q].context) = {}
--------------------------------------------------------------------------------
(* The inductive invariant behind CompletedUploadIsFound and               *)
(* ReadyHasVectors.                                                        *)

\* How far the ingest of a document is, and what it has left behind if nobody
\* began to delete the document.
NotRegistered == {"new", "unique", "duplicate", "error", "queued", "stopped"}
HasRows   == {"written", "upserted", "popped", "invalidated", "done", "chunked", "indexed"}
HasPoints == {"upserted", "popped", "invalidated", "done", "indexed"}
Ingested  == {"done", "indexed"}

IngestInv(d) ==
    /\ upload[d] \in NotRegistered => d \notin docs
    /\ (upload[d] = "failed" /\ d \in docs) => status[d] = "failed"
    /\ (upload[d] \in HasRows /\ d \in Kept) => d \in rows
    /\ (upload[d] \in HasPoints /\ d \in Kept) => d \in points

\* What was ingested when a query began still is; the documents nobody began to
\* delete are among the hits once they are retrieved, and among the texts once
\* those are read.
TextsRead(q) == Answered(q) \/ (at[q] \in Looking /\ using[q] = "chunks")

QueryInv(q) ==
    /\ \A d \in memo[q].ingested : upload[d] \in Ingested
    /\ (at[q] = "contents" \/ TextsRead(q)) => memo[q].ingested \cap Kept \subseteq memo[q].hits
    /\ TextsRead(q) => memo[q].ingested \cap Kept \subseteq memo[q].texts

IndInv ==
    /\ \A d \in Docs : IngestInv(d)
    /\ \A q \in Queries : QueryInv(q)
================================================================================
