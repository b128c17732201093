# LocalRAGServer: specifications, model checking and proofs

This directory specifies the parts of LocalRAGServer whose correctness depends
on the order of things: processes that die, calls that fail and are retried,
requests that delete what a worker is still writing, keys and sessions that end
while they are used. The specifications are TLA+ modules translated from the
source; TLC checks them on small instances, and TLAPS proves the most important
results for every instance.

`PROJECT.json` lists the components, the runs, the source lines each definition
models (`map`), one seeded bug per checked property (`mutants`), the
disagreements found between the code and its documents (`findings`), the
hazards of the code and the theorems.

## 1. Inventory

### Components

| Component | State it keeps | Operations | Correct when |
|---|---|---|---|
| Ingest stage machine (`core/ingest/state.py`) | none: tables | `can_transition`, `retry_from`, `stage_reached` | a commit moves a job one stage; a retry never puts it further than it was |
| Asynchronous ingest (`core/ingest/pipeline.py`, `tasks.py`) | the work directory of each job: `source.*`, `text.txt`, `chunks.json`, `vecs.json` and their `.sha256`; the chain in the broker | four tasks (parse, chunk, embed, index), each resuming, skipping or redoing its stage; failure handling, retry, DLQ | a ready document is indexed exactly; a stage vouches only for complete artifacts; every chain ends and says how; a transient failure is survived |
| Registry (`core/storage/registry.py`) | rows of knowledge bases, documents, chunks, jobs, subscriptions, API keys, admin users, sessions, audit log; SQLite or PostgreSQL, one transaction per method | create, transition, replace, cascade delete | what belongs together is committed together |
| Vector store (`core/storage/vector.py`) | points by chunk id, with the ids of knowledge base and document | upsert, delete by document, count, search | points of a document = its chunk rows |
| Synchronous ingest (`core/retrieval/search.py`, `ingest_file`) | rows and points, in one request | duplicate check, create, embed, write rows, upsert, mark failed | the same content is ingested once; a failed upload can be repeated |
| Search caches (`core/retrieval/search.py`, `hybrid.py`) | per process and knowledge base: a BM25 index, a chunk sequence | fill on demand, invalidate on write | no query serves what a completed write has removed |
| Deletion (`documents.py`, `admin_kb.py`) | none | document over the API or the admin page, knowledge base | nothing of a deleted document is found again; one of two deletions succeeds; the deletion is recorded |
| Knowledge bases and annotations (`admin_kb.py`, `admin.py`, `KbManage.vue`) | rows; the page shown | create, edit, list, fill, annotate, delete | no edit brings back what was deleted; the list comes to rest on what there is |
| Access (`main.py`, `deps.py`, `registry.py`), MCP server (`mcp/server.py`) | API keys, their lists and expiry; the audit log | authenticate, check, do, record | nobody is given more than his key lists; what was answered is recorded |
| Admin sessions (`core/security/admin.py`, `routes/admin.py`, `main.py`, `apps/web`) | users, sessions, the initial password's file; cookie and tokens of each browser and tab | login, change password, logout, reload, restart | a password change revokes what the old password gave; tabs that share a cookie heal themselves |
| URL crawler, import, POST of a URL (`crawl.py`, `importer.py`, `documents.py`) | cursor and content hash of each subscription | fetch what is due, detect changes, submit | every enabled subscription is fetched again and again; a change comes in once |
| Fetch guard (`core/security/ssrf.py`) | none | look up, check, connect, follow redirects | only checked public addresses are contacted |
| Rate limiter (`core/security/ratelimit.py`) | tokens and time of each bucket; a failing flag | allow, fall back, recover | never more than capacity plus refill is granted; the report becomes true |
| Evaluation loop (`scripts/run_judge_eval_loop.py`, `eval/ragas_runner.py`) | details on disk, a marker, two servers | batch after batch, resume | complete means all; no server is left behind |
| Readiness probe (`apps/api/main.py`) | a flag | probe | one alert per outage |
| Chunker, rank fusion, parent expansion | none | pure functions | sizes, coverage, order |
| BM25, embeddings, reranker, chat, parsers, observability, other scripts | mostly none | | see section 8 |

### Interactions

A handler of the API (`documents.py:131-173`), the importer, the crawler or the
MCP tool registers a document and a job in the registry, writes the source into
the job's work directory and enqueues a Celery chain. A worker process takes
one task of the chain after the other; each reads and writes the registry, the
work directory, the embedder and the vector store. The API process searches the
same vector store and registry, with caches of its own, and deletes documents
and knowledge bases without telling the worker. Registry methods are one
transaction each, but for a few of two or three (`delete_kb`, `update_kb`,
`upsert_annotation`, `verify_api_key`); nothing spans two of them, nor the
registry and a file or the vector store. The middleware authenticates, limits
and arms every request before a route of the API, of the console or of the MCP
server sees it.

### What is hard

- **Crashes.** Tasks are acknowledged when taken (Celery's default), retries
  wait in the worker's memory, and nothing looks for jobs left behind. Between
  an artifact, its digest and the stage's row the worker may die.
- **Retries.** Celery retries the task that failed; the job resumes at the
  stage `_RETRY_FROM` gives. The two must fit together.
- **Interleaving.** Deletions run between any two steps of a chain.
- **Order.** Chunk ids are fresh uuids at each `set_chunks`, so rows,
  `chunks.json`, `vecs.json` and points can be of different calls.
- **Check then act** without a unique index: duplicate detection in four places.
- **Checked, then used.** The middleware reads a key or a session, the route acts
  on it later; an address is checked, then connected to; a clock is read, then
  the bucket is locked.
- **Several tabs** of a browser share a cookie, not the token in memory.
- **Caches** filled by several reads while other threads invalidate them, and
  which the worker's process cannot invalidate at all.

`PROJECT.json` lists every hazard at its line, with the properties that cover it.

## 2. Modules

| Module | Content |
|---|---|
| `IngestState` | the tables and predicates of `core/ingest/state.py`, exactly |
| `IngestPipeline` | jobs, documents, artifacts, points, chains, deletions, crashes; properties and the inductive invariant |
| `MCIngestPipeline` | constants of the instances TLC checks |
| `IngestPipelineProofs` | theorems about `IngestPipeline` and their proofs |
| `SearchService` | one API process and one knowledge base: uploads ingested within the request, deletions, queries, the two caches, the worker's writes, restarts |
| `SearchContract` | what the search service promises: registered, stored and discarded documents, and answers |
| `SearchRefinement` | the state of `SearchService` mapped to that of `SearchContract` |
| `MCSearchService` | constants of the instances TLC checks |
| `SearchServiceProofs` | theorems about `SearchService`, with any number of clients and with one at a time, and that it implements `SearchContract`; their proofs |
| `ApiAccess`, `MCApiAccess`, `ApiAccessProofs` | middleware, routes and MCP tools, API keys and the audit log; instance; theorems |
| `AdminSession`, `MCAdminSession`, `AdminSessionProofs` | the administrator's password and sessions, the start of the server, the tabs of the console; instance; theorems |
| `KbAdmin`, `MCKbAdmin`, `KbAdminProofs` | the console's requests on knowledge bases, their documents and annotations, and the list page; instance; theorems |
| `RateLimit`, `MCRateLimit`, `RateLimitProofs` | both buckets, the fallback, the edge trigger; instance; theorems |
| `UrlFetch` | `UrlFetcher.fetch` as a function from a URL to the outcomes it can have |
| `Crawl`, `MCCrawl`, `CrawlProofs` | crawl, import and POST of a URL, over `UrlFetch`, with the administrator's subscriptions; instances; theorems |
| `EvalLoop`, `MCEvalLoop`, `EvalLoopProofs` | the evaluation loop, its runner and servers; instance; theorems |

The ways a document comes in are composed of `UrlFetch` (what a fetch comes to),
`Crawl` (who registers and queues it), `ApiAccess` (who may) and
`IngestPipeline` (what becomes of the job).

### How `IngestPipeline` corresponds to the code

| State | Code |
|---|---|
| `kbRow`, `docRow`, `jobRow` | is the row of the knowledge base, document, job there |
| `status`, `rows`, `lastGen` | `documents.status`; the generation of its `ChunkRow`s; how many generations there were |
| `stage`, `attempt`, `failedAt` | the columns of `ingest_jobs` (`"failed"` stands for a `failed_at` that is None: `_RETRY_FROM` and `_resume_if_failed` treat them alike) |
| `source`, `text`, `chunks`, `chunksSha`, `vecs`, `vecsSha` | files of `ingest_work/<job>/` |
| `points` | generations of the document's points in the collection |
| `task`, `pc`, `retries` | where the chain stands; Celery's retry count of the task |
| `deleting` | how far the API's deletion of the document is |

One `set_chunks` call gives all chunks fresh ids: a **generation**, the number of
the call. Which chunks there are is not modelled, except that a source may give
none (`EmptyDocs`); all generations of a document come from the same text, so
they have the same number of chunks, and the reconciliation's comparison of two
counts is `points[j] = {g}` for one `g`. A digest is compared with the source,
`text.txt` or `chunks.json`; the first two never change once written, the digest
of the third is the generation in it.

| Action | Code |
|---|---|
| `CheckKb` .. `EnqueueIngest` | the steps of a submission; a `Crash` in between is a dead API process |
| `Requeue` | an operator calling `enqueue_ingest` for a job whose chain is over: the code has no such command, the contract's DLQ (section 3) is for it |
| `Deliver` | the worker takes the task and builds its pipeline |
| `ResumeIfFailed`, `CheckStage` | the preamble of each stage method |
| `Parse`; `SetChunks`, `StampVersion`, `WriteChunks`; `Embed`, `WriteVectors`; `Upsert`, `Reconcile`, `MarkReady`; `WriteDigest`, `CommitStage` | the stage methods, one action per durable write or external call |
| `MarkFailed`, `RetryOrGiveUp` | `_handle_failure` |
| `Fault`, `Crash` | a call that raises; a process that dies |
| `DeleteVectors`, `DeleteRows`, `AdminDeleteDocument`, `ReadDocIds`, `DeleteKb` | the deletions; the last two are `delete_kb`: its read of the documents' ids, its transaction |

`TransitionJob` is the whole of `Registry.transition_job`, document status
included; `FinishTask` is what Celery's chain does when a task returns.

### Abstractions

- A registry method that writes first (`set_chunks`, `delete_document`) is one atomic
  step: SQLite (the default) takes its write lock at the first writing statement.
  PostgreSQL's default isolation would let `set_chunks` and a deletion overlap
  inside their transactions, which is not modelled. What a method reads before it
  writes is read outside of the transaction. Where what is written depends on it,
  the method is two steps: `delete_kb` here (`ReadDocIds`, `DeleteKb`), and in
  `KbAdmin`, `ApiAccess` and `AdminSession` what they split. A method that reads one
  row and writes it back (`transition_job`, `set_pipeline_version`, `mark_subscription_*`)
  is one step: it writes the columns it changed only, and raises when the row has gone
  meanwhile, as it does when the row had gone before. A document deleted within
  `transition_job` so makes the transition fail, which is one of the faults.
- A file is written in one step. A worker that dies within `write_text` leaves
  a truncated file without its digest, which the code treats as it does one
  without a digest: recomputed.
- There is one chain per job at a time. `Requeue` is only offered when the
  chain is over; the code never enqueues a job twice.
- A deletion begun over the API is not begun twice.
- The content of messages, logging, traces and metrics are left out.

### How `SearchService` corresponds to the code

| State | Code |
|---|---|
| `docs`, `status`, `rows` | rows of `documents` and their status; documents with rows in `chunks` |
| `points` | documents with vectors in the collection |
| `cache["hybrid"]`, `cache["chunks"]` | `_hybrid_cache[kb_id]` and `_chunks_cache[kb_id]`: the documents each was built from, or `NotCached` |
| `upload`, `deletion`, `at`, `using` | where each request stands |
| `promised` | documents an upload returned with status ready |
| `memo` | a query's local variables (index, hits, texts, sequences), and what was ingested, promised and deleted when it began |

| Action | Code |
|---|---|
| `FindDuplicate` .. `Reload`, `MarkFailed` | `ingest_file`, one action per transaction, store call or cache write, with the handler of its exceptions |
| `Register`, `ChunkStage`, `IndexStage` | the worker's writes, as this process sees them; all their detail is in `IngestPipeline` |
| `DeleteVectors`, `DeleteRows`, `InvalidateAfterDelete` | `SearchService.delete_document` |
| `AdminDelete` | `delete_kb_document` of the admin routes |
| `LookUp`, `Fill`, `Store`, `Take` | `_get_hybrid` and `_chunk_sequences`, which have the same shape: test, build, store, read |
| `Retrieve`, `GetContents` | the two retrievals and their fusion; texts and titles of the hits |
| `Fault`, `Crash` | a call that raises; the death of the process, which empties the caches |

Uploads, deletions and searches are plain functions, which run in a thread pool:
`Threads` is its size, and 1 is a client that waits for every answer. The upload
by JSON and the MCP tools run on other threads still; they add no interleaving
that the pool does not have.

Abstractions of `SearchService`:

- `set_chunks`, `upsert` and both deletions treat all chunks of a document at
  once, so a chunk is its document. (Within one document, the order of chunks
  and the window of the parent expansion are left to `ParentExpand`.)
- Every query has words of every document, but for the documents in which the
  tokenizer of BM25 finds no word (`Wordless`), and the knowledge base is smaller
  than the limits of retrieval and rerank. Scores and reranking then decide the
  order of the hits only, which is left out.
- The chunk cache is built from three reads; only that of the sequences, which
  decides what a context can contain, is kept. Titles are read with the texts.
- The worker's document is `chunked` from its rows to its reconciliation. (That
  `set_chunks` makes it ready in between is section 4's affair.)
- There is one deletion of a document at a time; a failing deletion of vectors,
  or embedding of a query, changes nothing and is left out.
- Deletion of the knowledge base itself is in `KbAdmin` and `IngestPipeline`, not
  against the caches.

`SearchContract` has three variables: `stored`, `partial` and `answer`. A
document is partial while it is ingested, after its ingest failed and while it
is deleted. An answer has every stored document, may have partial ones, and has
nothing else. The mapping takes the documents of answered uploads nobody began
to delete for stored, the other registered ones for partial, and the hits of an
answered query for its answer.

### How `ApiAccess` corresponds to the code

`keys`, `acl`, `expired` are the rows of `api_keys`; `kbs`, `docs`, `jobs` those of
knowledge bases, documents and jobs (one of each per knowledge base is enough to
tell what a check protects). A request is a record: who presents what, the
knowledge base it names (by number, or by name from a tool), what the middleware
allows it (`request.state.allowed_kbs`) and calls it (`actor`), what it was given
or changed, and the audit rows written for it.

| Action | Code |
|---|---|
| `RejectOversized` .. `CountKey` | the middleware of `main.py`, one action per limiter call or registry transaction; `VerifyKey` and `TouchKey` are the two of `verify_api_key` |
| `CreateKb` .. `DeleteDocument`, `Generate`, `StreamPassthrough` | the routes of `kb.py`, `search.py`, `chat.py`, `documents.py` |
| `ResolveKb` .. `IngestPath`, `RecordDenial` | the five tools, over HTTP and stdio |
| `RecordSearch`, `Record` | `record_audit`, at the point of each route's work at which it is called |
| `IssueKey`, `RevokeKey`, `Expire`, `DeleteKb` | what happens meanwhile |

`late` and `gave` observe: whether the key was over when the request arrived, and
what it came to have.

### How `AdminSession` corresponds to the code

A session, its cookie and its CSRF token are one number. `Start` and
`WriteInitialFile` are the two durable writes of `lifespan`; `FindSession`,
`LoadUser`, `Gate` the middleware of the console; `VerifyLogin` .. `MeOrAct` the
routes, one action per transaction; `SubmitLogin` .. `Shown` what `Login.vue`,
`App.vue` and `api.js` do with the answers, in each tab. `verified` and `opened`
count the changes of the password at the two steps of a login: they tell a
session of an old password from one that overlapped the change. A browser of one
profile is one `Browsers`; another browser shares nothing with it but the server,
which the two tabs already contend for.

### How `KbAdmin` corresponds to the code

A knowledge base, a document and an annotation are numbers in the order of
creation. Every handler is a chain of its transactions (`RequireKb`, `ReadRow`,
`WriteRow`, `RecordDeletion`, `ReadDocIds`, `DeleteRows`, ...), and `Fail` may end
it between any two. `GotoPage`, `Loaded` and `Done` are `load`, `gotoPage` and the
dialogs of `KbManage.vue`; answers may arrive in another order than asked for.

### How `RateLimit` corresponds to the code

One bucket key. `ReadWall`, `Script` and `RedisFails` are `RedisTokenBucket.allow`
(the script either ran or not when the call fails); `ReadClock` and `TakeInMemory`
are `InMemoryTokenBucket.allow` before and under its lock; `ReportFailure` and
`ReportSuccess` the edge trigger of `FailOpenLimiter`. Without Redis the calls run
in the event loop, one after the other (`AsyncLimiterBridge` with `threaded=False`),
which is the second guard of `ReadClock`. Tokens are counted in parts (`Cost` of
them a token), so a refill per unit of time of less than a token is an instance.
`allowed` and `last` are an account kept beside the bucket: what the rate allows
beyond what was let through. `Allow` credits a call that came late, after another
or after the end of the key, with the time since its reading, and a key that was
set back with the corrections: the code counts these twice, by design of the
clock, and the properties say by no more than that.

### How `UrlFetch` and `Crawl` correspond to the code

`Fetch(url)` is the set of outcomes of `UrlFetcher.fetch`: `Hop` is one round of
its loop, `Pins` the check of all addresses of an answer and the choice of one to
connect to, `Replies` what a server may say. An outcome carries the contacts that
were made. In `Crawl`, `Scan`, `Read`, `FetchPage`, `LookUp`, `RecordError`,
`RecordUnchanged` and `RecordFetched` are `crawl_due` and `fetch_subscription`;
`Create` .. `Enqueue` are the four calls the crawl, the import and the POST have
in common. The clock is left out (a subscription is due or not), a content hash
is its page, and the deletion of a knowledge base is the deletion of its
subscriptions (`Unsubscribe`). The subscriptions that are due come in the order of
their URLs (`InOrder`); an import of an empty directory reports at once. `last_error`, which only the console shows, is left
out, and so is the loopback mode of the fetcher, which is for tests.

### How `EvalLoop` corresponds to the code

`loop` is the line the script is at; `details` the lines of the files of details;
`gen` and `judge` the two servers, with whether they run and whether the loop
holds their process. `RunBatch` to `EndBatch` is one call of the runner, whose
entries are `Save`, `Skip` and `Crash`. A killed loop may leave its runner behind
(`orphan`). `EnsureSlow` and `ServerTimeout` are the two ways in which a probe may
go wrong, `StopTimeout` is the exception of `stop_judge`, and `ServerEnds` a server
that ends at any time, also later than it was given up.

## 3. Runs

Deadlock is not checked in the runs of `IngestPipeline`, `SearchService`, `Crawl`
and `EvalLoop`: when all chains, requests or batches are over, the system rightly
stops. In the others somebody can always begin a request, and it is checked.

| Run | Instance | Shows |
|---|---|---|
| `IngestSafety` | one document; 2 faults at the calls of the stages, 1 crash of the API or the worker, 1 re-enqueue, all deletions; 5 attempts as in the code | `TypeOK`, `ReadyMeansIndexed`, `ArtifactsBackStage`, `NoRowsWithoutDocument`, `EndIsRecorded`; `ChainEnds` under fairness |
| `IngestRecovery` | two documents of a knowledge base, one empty; for each a fault at a repairable call, a crash a new chain can repair, one re-enqueue; 2 attempts | `TransientFailureRecovers` and `RequeueRecovers` for the document that is not empty |
| `SearchOneClient` | one client at a time; three uploads, two of them of one content, the third without words for BM25; deletions; 1 fault, 1 restart | `OneDocumentPerContent`, `CachesAreFresh`, `HitsHaveContext`, and `MeetsContract`: the service implements `SearchContract` |
| `SearchThreads` | three threads; an upload, a document of the worker without words for BM25, a client, all deletions; 1 fault, 1 restart | `CompletedUploadIsFound`, `ReadyHasVectors`, `PromisedIsSearchable` |
| `ApiAccess` | one request at a time, a key, two knowledge bases of one name; issue, revocation, expiry, deletion between any two steps | `AnswersWithinAcl`, `LateKeyIsRefused`, `UseIsRecorded`, `RevokedStaysRevoked` |
| `AdminSession` | two tabs of one browser; two logins, a change of the password, an expiry, a crash and restart | `OldSessionsAreRevoked`, `LateSessionIsRefused`, `InitialFileIsValid`, `FreshTabIsAccepted` |
| `KbAdmin` | two requests at a time, two knowledge bases on pages of one, a document, an annotation; failures anywhere | `DeletionIsRecorded`, `OneDeletionSucceeds`, `QuietDeletionIsComplete`, `RestsOnAPage`, `DeletedStaysDeleted` |
| `RateLimit` | two calls, a bucket of one token, refilled in a unit of time; three units, a correction of the clock | `MemoryRate`, `RedisRate`; `ReportIsTrue` under fairness |
| `Crawl` | two subscriptions, one with an address inside the network; a crawl, an import or a POST of a URL, a redirect, a fault; toggles and deletions | `ContactsAreChecked`, `FetchedHasComeIn`, `SecondOnlyByRace`, `ReportHolds`, `AdminDecides`; `DueIsVisited` under fairness |
| `EvalLoop` | five entries in batches of two; one skip, three faults; servers that end by themselves | `CompleteMeansAll`, `ServersAreStopped`; `ResumesToTheEnd` under fairness |

Two runs find a violation: `IngestEmbedRetry` and `CrawlStarves` (section 4).

Bounds. The safety properties of the pipeline speak of one job and jobs share
nothing but the row of their knowledge base, so one document is enough; the proofs
hold for any number. Two faults and a crash make every pair of failures of the
four stages possible, and the code's limit of 5 attempts is reached by an empty or
deleted document, which fails until then. `IngestRecovery` is as large as the
claims it makes are true: with a second fault a crash after the upsert can no
longer be repaired (section 4). Generations are bounded by the retries.

`SearchOneClient` needs three uploads: a first one that may fail, be deleted or be
cut short, a second of the same content, and a third to fill and invalidate the
caches between them. In `SearchThreads` three threads are an upload, a deletion
and a query at once, against a worker that needs none of them. The properties of
`SearchOneClient` say what a client may rely on who sends one request at a time to
a service without a worker; with more threads or a worker they do not hold
(section 4). Those of `SearchThreads` hold for any.

In `ApiAccess` a request interleaves with the administrator and with time, who do
all that other requests could do to it, but for documents and jobs, on which no
check of a key depends; the proofs have any number of requests. Two knowledge
bases of one name make the resolution by name ambiguous, and the deletion of the
older changes what the name means. In `AdminSession` two tabs and two logins are
what an old session and a new one need; a third login repeats the second. In
`KbAdmin` two requests are two deletions, an edit or a fill against a deletion, or
two loads; two knowledge bases on pages of one make the clamp of the page happen.
In `RateLimit` a bucket of one token is the smallest that can be full and empty;
other capacities, fractions of a token and more threads are the proofs' part.
In `Crawl` the subscription that comes second in URL order is the one a failure of
the first could starve, and one redirect is the shortest chain with a second
lookup. In `EvalLoop` the last batch is shorter than the others, and three faults
are a kill, a crash of the orphaned runner and a slow server in one life, or a judge
that twice does not stop behind a kill.

Every property of a passing run has a mutant in `PROJECT.json`: a plausible bug
of a mapped definition that makes TLC find the property violated.

### Fairness

`Fairness` is weak fairness of each job's `RunTask` (a running worker takes every
message in the end, and the Celery retry countdown ends), `Submit` (an API
process finishes the request it began) and `DeleteRows` (likewise). Faults,
crashes, deletions and operators are never obliged to act. `AttendedSpec` adds
weak fairness of `Requeue`: an operator who looks after stranded jobs. It is
used only where the claim is about what re-enqueueing achieves.

`RateLimit`: a thread that has begun a call goes on (`Continue`); nobody is obliged
to call, and Redis neither to fail nor to answer. `Crawl`: the beat starts
`crawl.due` again and again, and a worker goes on with what it has begun; time,
sites and the administrator are not obliged to anything. `EvalLoop`: the loop and
its runner go on, and who finds the script ended starts it again, which is what
its docstring asks for. The other modules have safety properties only.

## 4. Where the code and its documents disagree

Each is a run with `expect: violation`, whose counterexample is the disagreement.
Lines without a file are those of `docs/design/ingest-state-machine.md`.

| Run | Claim | What the code does |
|---|---|---|
| `IngestEmbedRetry` | :29, :48: a failed job runs again from the failed stage; embed_task can be retried | a job that fails in `embed_stage` (at CHUNKED) is put back to PARSED while Celery retries `embed_task`: its commit is illegal, and so on until the DLQ. `index_stage` failing before its first commit (at EMBEDDED) likewise |
| `CrawlStarves` | `crawl.py:47`: a failure is recorded and `next_fetch_at` moves on | `fetch_subscription` catches `SsrfBlockedError` and `FetchError` only: a refused connection, a timeout or an error status ends the whole crawl, at every later crawl again, before the subscriptions behind it in URL order |

The same models show some more, for which no run is kept; where a change of an
instance is given, TLC then finds the violation.

Asynchronous ingest:

- `registry.py:405`: `set_chunks` makes `documents.status` ready before embedding
  and indexing; :22 has ready mean indexed and reconciled.
- :32 promises recovery after a crash, but a job at INDEXED is never reconciled
  nor made ready by a later chain: a `ResumableCrashes` with the last two steps of
  `index` in it violates `RequeueRecovers`.
- :30 promises that no old data remains, but the vectors of an earlier generation
  stay: `IngestRecovery` with one document, two faults and 5 attempts violates
  `RequeueRecovers`. The document is chunked anew and no attempt reconciles.
- `search.py:280`: no query hits a deleted document's chunk, but an index task in
  flight writes the vectors after the deletion: `IngestSafety` violates
  `DeletedIsUnsearchable`.
- `tasks.py:101`: `_pipeline()` is called outside the `try`, so its failure is
  neither recorded nor retried (:23, :46). Adding `Tasks \X {"queued"}` to the
  `FaultPoints` of `IngestSafety` violates `EndIsRecorded`.

Search, each a change of `SearchOneClient`:

- `registry.py:328`, `docs/user-guide.md:143`: the same content has one document;
  check and creation are two transactions without a unique index. `Threads = 2`
  violates `OneDocumentPerContent`.
- `search.py:227`: a query that began to fill a cache before an upload stores it
  after the invalidation. `Threads = 2` violates `CachesAreFresh`.
- `search.py:211`: a cache popped between test and read raises KeyError. It happens
  in `SearchThreads`: a query fails when another document is deleted under it, which
  `PromisedIsSearchable` excepts (`Invalidated`) and without the exception finds.
- `parent.py:20`: without neighbours the context is the chunk's own text; but the
  worker does not invalidate the API process's chunk cache. `WorkerDocs = {w1}`
  violates `HitsHaveContext`.
- `vector.py:6`: the text of a chunk is in the registry only; the admin page's
  deletion leaves the vectors and the cached sequences. `AdminDeletes = {d1}`
  violates `DeletedTextIsGone`.
- `search.py:104`: a second upload of a content that is still being ingested is
  answered ready (`README.md:47`: searchable already) before its vectors are there.
- `search.py:139`: an upload in flight writes the vectors of a document deleted
  meanwhile, which later queries hit.
- `bm25.py:73`: the average chunk length in words is zero when no chunk of the
  knowledge base has a word the tokenizer knows (Latin or CJK): every query
  raises ZeroDivisionError. `SearchOneClient` and `SearchThreads` reach it;
  `PromisedIsSearchable` says that a promised document with a word prevents it.

Access and MCP:

- `registry.py:465`: a key issued with an empty list of knowledge bases is a key
  for all of them (`AclOf`).
- `mcp/server.py:51` says that refusals leave no audit row; `mcp/server.py:282`
  writes one for each (`RecordDenial`).
- A name that several knowledge bases have means the oldest, and another one when
  that is deleted; the check is on the one it means at that moment.
- `chat.py:134` says that chat calls are audited. A streamed chat is recorded as a
  search only, and one without a knowledge base (`chat.py:130`) not at all: it is no
  part of `UseIsRecorded` (`StreamPassthrough`).

Console:

- `registry.py:252`: `delete_kb` is to delete everything of a knowledge base; the ids
  of its documents are read before its transaction begins (255), and the chunk rows of
  a document registered and chunked in between stay for good. `NoRowsWithoutDocument`
  without `DeletedUnlisted` is violated in `IngestSafety`.
- `web-admin-auth.md:32`: sessions end after 30 idle minutes; they end 30 minutes
  after the login.
- A server that dies in its first start between `main.py:85` and `main.py:88` has
  stored the password and left no file; the next start writes one that was never
  set, and nobody gets in. `CrashPoints = {"starting", "up"}` violates
  `InitialFileIsValid`. The same file appears, with a password that is not valid,
  at the first restart after the password was changed; `changes = 0` in the
  property leaves that out.
- A login in flight outlives the change of the password it was verified with (the
  exception `OldSessionsAreRevoked` states).
- A failed login of a browser that is logged in leaves no audit row; a logout that
  fails leaves the console as it was.
- `registry.py:111`, `registry.py:508`: an annotation is idempotent by knowledge base
  and query; the check and the insertion (518-545) are two steps. `MaxAnns = 2` in
  `KbAdmin` violates `AnnotatedOnce`. `admin.py:284` calls the key document and query.
- `admin_kb.py:109`: an edit to the type "document" is taken for no edit.
- The second of two deletions, an edit of a knowledge base deleted meanwhile and an
  upload to one end in a LookupError, which is answered as 500.

Crawl and import:

- A crawl, an import or a POST that fails after `create_document` leaves a document
  that every later one finds by its hash and skips (`lost` in `FetchedHasComeIn`).
- `url-crawler.md:18` has a unique key of knowledge base and URL, and :34 a backoff
  that doubles; neither is in the code. A crawl does not ask whether the
  subscription it reads again is still enabled.
- The document of a POSTed URL has for its source the URL with the address that was
  connected to (`ssrf.py:219`), and is registered whether its content is known or not.

Evaluation:

- `run_judge_eval_loop.py:3`, `ragas_runner.py:91`: the loop ends when all entries are
  done, entries that fail being skipped. The count, which is also the offset of the
  next batch, never gets past a skipped entry to the total, and the last batch is
  repeated for ever: `MaxSkips = 1` and `MaxFaults = 0` violate `LoopEnds`.
- A server that is slow to answer its probe is started again, and the loop then
  holds the process that cannot have the port; the first one is nobody's any more
  (`Lost`).
- `run_judge_eval_loop.py:113`: a judge that does not stop in 30 seconds ends the loop
  with TimeoutExpired. When the same happens in the finally clause (140), the generation
  server is never told to stop (142): both are left behind (`StopTimeout`). This, a
  server lost and a killed loop are what `ServersAreStopped` excepts (`orphaned`).

`RepairableCalls` in `MCIngestPipeline` is the other side of `IngestEmbedRetry`: the
calls whose failure a retry does repair (parse and chunk, and the last two steps
of index), for which `IngestRecovery` checks recovery.

## 5. Proofs

Every invariant and every action property that a passing run checks is also a
theorem. Each module of proofs has an inductive invariant, `IndInv` (for
`SearchService` and `IngestPipeline` with further parts, below), of named parts
that say why the properties hold. TLC checked each on an instance before it was
proved. A theorem speaks of every value of the constants that meets the
assumptions of its module; those that have a hypothesis besides are given with it.

`IngestPipelineProofs` proves, for any jobs, knowledge bases, attempt limit (at
least 1, `AttemptsAssumption`), assignment of jobs to knowledge bases
(`KbAssumption`), and any choice and number of faults, crashes, re-enqueues and
deletions:

| Theorem | Statement |
|---|---|
| `TypeCorrect` | `Spec => []TypeOK` |
| `Inductive` | `Spec => [](TypeOK /\ IndInv)` |
| `ReadyIsIndexed` | `Spec => []ReadyMeansIndexed` |
| `StageIsBacked` | `Spec => []ArtifactsBackStage` |
| `AttemptsAreBounded` | `Spec => []AttemptsBounded` |
| `DeletedRowsStayDeleted` | `Spec => []NoRowsWithoutDocument`: but for documents that `delete_kb` had not listed |
| `EndRecorded` | `Spec => []EndIsRecorded`, if `EndsAreHandled` |
| `StagesLegal` | `Spec => StagesMoveLegally`: stages move along the whitelist only |
| `ReadyStays` | `Spec => ReadyIsForGood`: ready is never left |

None of the safety properties is inductive. A commit makes a stage vouch for an
artifact the task wrote several steps before, and a retry puts a failed job back
to a stage that vouches for what earlier tasks wrote. `IndInv` therefore has, for
each job:

- `BackedInv`: what a stage vouches for, stated for the stage reached *before*
  the failure when the job is failed (`Reached`). `RetryGoesBack` shows that
  `_RETRY_FROM` never claims more.
- `WorkInv`: what the worker has in hand between the first write of a task and
  its commit. Its heart: while a task works, its own stage has not been reached
  (otherwise it would have been skipped, because `BackedInv` makes the
  idempotence check succeed), so replacing its artifacts breaks no promise.
- `AttemptInv`: a live chain has an attempt left, or its job is gone.
- `OrphanInv`: a document that is gone has no rows, unless the deletion of its
  knowledge base had not listed it.

There is one lemma per action, with a step per conjunct; `BackedKept` and
`AttemptKept` are the parts an action leaves alone. `OthersUntouched` and
`UntouchedInv` reduce a step of the system to the job it is about; `DeleteKbInv` and
`ReadDocIdsInv` are about the actions that touch several.

`EndsAreHandled` is what the code needs and does not see to itself: no call fails
where nothing catches it (before the `try` of a task, or in the failure handler
before the failure is recorded), and no worker dies between the commits of indexed
and ready (section 4 has the counterexamples). `IngestSafety` meets it. `EndInv`,
beside `IndInv`, then says that a job stands at indexed only while its index task
goes on, so the check of a later chain that skips the task finds it ready, and
that a chain which waits for a retry has recorded its failure.

`SearchServiceProofs` proves, for any uploads, worker's documents, contents,
clients, deletions, number of threads and choice of faults and restarts:

| Theorem | Statement |
|---|---|
| `TypeCorrect` | `Spec => []TypeOK` |
| `SearchInductive` | `Spec => [](TypeOK /\ IndInv)` |
| `IngestedIsFound` | `Spec => []CompletedUploadIsFound` |
| `AnsweredUploadIsWhole` | `Spec => []ReadyHasVectors` |
| `PromisedFound` | `Spec => PromisedIsSearchable` |

`IndInv` has `IngestInv` for each document: what each step of its ingest has left
behind if nobody began to delete it. A document that was ingested therefore has
its rows and points until a deletion begins, and a deletion never becomes undone
(`deletion[d]` does not return to `"no"`). `QueryInv` carries this through a
query: what was ingested when it began is still ingested, is among the hits once
they are there, and among the texts once those are read. The argument does not
mention the caches: the dense retrieval asks the vector store each time, so a
stale cache can cost a query its context or its life, never a hit.

Why it may cost its life is `PromisedFound`. `FailureInv` has the rows of every
document that is ready, or was promised, and is still there (`RowsInv`), so an index
without a word means that what was promised has none; and the entry a query is about
to read is there, or was taken out by an upload or a deletion whose two invalidations
were not both over when the query began (`TakeInv`). No other step empties a cache
(`Onward`), but the death of the process, which takes the query along.

The other theorems are about one client at a time (`OneAtATime`: one thread, no
worker's document, no deletion on the admin page), which is where the properties
hold; `SearchOneClient` is such an instance. They hold for any uploads, contents,
clients, and any choice and number of faults and restarts:

| Theorem | Statement |
|---|---|
| `SerialInductive` | `Spec => []SerialInv` |
| `OneDocument` | `Spec => []OneDocumentPerContent` |
| `CachesFresh` | `Spec => []CachesAreFresh` |
| `ContextIsShown` | `Spec => []HitsHaveContext` |
| `OnlyWordlessFail` | a query fails only if the documents promised to it that are still there have no word: alone it never meets the second reason of `PromisedIsSearchable` |
| `ServiceMeetsContract` | `Spec => MeetsContract` |

`SerialInv` has five parts beside `OneDocumentPerContent`. `Alone`: a request in a pool of one thread is alone
(`FreeIsQuiet`, by the cardinality of the set of requests). `PlaceInv`: what an
upload or a deletion has left in the registry and in the store at each step; the
upload that found its content unique still has it so when it creates the document.
`CacheInv`: what a cache may still show of a deletion under way (`Dropping`) and
may not yet show of an upload (`Adding`); only a failure makes the difference
last, and so the property excepts failed documents. `AskInv`: what a query has in
hand is what there is. `OverInv`: what remains true of an answer when uploads and
deletions go on after it, for documents never come back.

The refinement has a lemma for each kind of request. An upload's first write
registers its document and its answer completes it; a deletion's first step
withdraws its document and the removal of the rows discards it; a query asks, and
answers when it has its context or has no hits. Each other step leaves the stored
and the registered documents and the answers as they are (`ContractStutters`), and
so do a fault and a death of the process at any point.

`ApiAccessProofs` proves, for any number of requests at a time, keys and knowledge
bases, any names, and any order of issues, revocations, expiries and deletions
(`MaxKbsAssumption`, `StarAssumption`, `KeysAssumption`: the numbers and names used
for different things differ):

| Theorem | Statement |
|---|---|
| `TypeCorrect` | `Spec => []TypeOK` |
| `AccessWithinAcl` | `Spec => []AnswersWithinAcl` |
| `LateKeyRefused` | `Spec => []LateKeyIsRefused` |
| `UseRecorded` | `Spec => []UseIsRecorded` |
| `RevokedForever` | `Spec => RevokedStaysRevoked` |

The properties speak of answers, which say nothing of a request on its way. The
inductive invariant says, for each request, what it has at each point: the
middleware arms it with its key's list and its own name and nothing else; past the
check, its knowledge base is on that list; a request that was late never leaves
the middleware; and between the work and the answer the records are those the
point it has reached has written.

`RateLimitProofs` proves, for any number of calls, capacity, cost, refill, margin,
time and corrections of the clock (`BucketAssumption`, `TimeAssumption`):

| Theorem | Statement |
|---|---|
| `TypeCorrect` | `Spec => []TypeOK`; the tokens of a bucket are between none and its capacity |
| `MemoryKeepsRate` | `Spec => []MemoryRate` |
| `RedisKeepsRate` | `Spec => []RedisRate` |

The argument is an account (`Kept`): what the rate allows beyond the calls let
through is never less than what is in the bucket and the refill of the time for
which the bucket's own clock is behind. For the bucket in Redis the account is
relative to a `base`, how far the clock had been set back when its time was read;
a call that read the clock after the last call read one corrected at least as
often. `TakeKeeps` is the heart: one call keeps the account, whichever of its
three cases it is (a first one, one that finds the key expired, one that refills),
and `TtlFills` is why an expired key had been filled: it lives twice the time that
fills an empty bucket, rounded down, and a margin.

`AdminSessionProofs` proves, for any browsers, tabs, passwords and numbers of
logins, changes and starts (`BoundsAssumption`, `TabsAssumption`):

| Theorem | Statement |
|---|---|
| `TypeCorrect` | `Spec => []TypeOK` |
| `OldSessionsRevoked` | `Spec => []OldSessionsAreRevoked` |
| `LateSessionRefused` | `Spec => []LateSessionIsRefused` |
| `FreshTabAccepted` | `Spec => []FreshTabIsAccepted` |
| `InitialFileValid` | `Spec => []InitialFileIsValid`, if no start is cut short |

Sessions get growing numbers, so one that has ended never lives again, and a
request that was sent with none never gets past the gate (`LateInv`). A tab is
fresh as long as its token is that of its browser's cookie, whichever tab changed
it, and the request carries both (`FreshInv`, `TabInv`). `FileInv` says what the
first start has written at each step; a start cut short breaks it (section 4).

`KbAdminProofs` proves, for any number of requests at a time, knowledge bases,
documents and annotations, and any size of a page (`BoundsAssumption`,
`PageSizeAssumption`):

| Theorem | Statement |
|---|---|
| `TypeCorrect` | `Spec => []TypeOK` |
| `DeletionRecorded` | `Spec => []DeletionIsRecorded` |
| `OnlyOneDeletionSucceeds` | `Spec => []OneDeletionSucceeds` |
| `QuietDeletionComplete` | `Spec => []QuietDeletionIsComplete` |
| `ListRestsOnAPage` | `Spec => []RestsOnAPage` |
| `DeletedStay` | `Spec => DeletedStaysDeleted` |

A knowledge base is created once and its row removed once (`OnceInv`); nothing is
being added any more to one deleted undisturbed (`QuietInv`), whose chunks are
those of its documents (`ChunkInv`). A load of the list that nothing disturbs is
the only one, and what it has read is still so (`Alone`, `LoadInv`); that a page
within the count is not empty is a fact about the ranks of the elements of a
finite set of numbers, proved by induction with the library's well-founded sets.

`EvalLoopProofs` proves, for any number of entries, batch and numbers of skips and
faults (`TotalAssumption`, `BatchAssumption`, `LimitsAssumption`):

| Theorem | Statement |
|---|---|
| `TypeCorrect` | `Spec => []TypeOK` |
| `Complete` | `Spec => []CompleteMeansAll` |
| `ServersStopped` | `Spec => []ServersAreStopped` |

The loop counts lines of details; that a full count means all entries rests on the
entries being a finite set of that size (`DoneInv`) and on the lines of the former
judge being gone behind the marker (`MarkerInv`). `HeldInv` says that the loop
holds every server of its own that runs, unless one was orphaned.

`CrawlProofs` proves, for any subscriptions, directory, hosts, answers of the name
service and replies of the sites, any number of crawls at a time beside an import
and a POST, and any number of faults (the assumptions of `UrlFetch` and `Crawl`):

| Theorem | Statement |
|---|---|
| `TypeCorrect` | `Spec => []TypeOK` |
| `ContactsChecked` | `Spec => []ContactsAreChecked` |
| `FetchedHasCome` | `Spec => []FetchedHasComeIn` |
| `SecondOnlyRaced` | `Spec => []SecondOnlyByRace` |
| `ReportsHold` | `Spec => []ReportHolds` |
| `AdminAlone` | `Spec => AdminDecides` |

`ContactsChecked` is first a fact about the fetch: `FetchesExist` shows that the
recursive function has the values its definition gives, and `FetchesChecked` that
each of its outcomes made checked contacts only, by induction on the redirects
left (a least counterexample, `LeastNumber`). The invariant then accounts for
every document: queued, given up after a fault, or in the hands of the process
that makes it (`AllAccounted`); a cursor is a page that has come in
(`CursorsAreKnown`), and an import has the last files of its directory still to do
and the others done (`Importing`). Who is about to create a second document of a
page was raced by the one who created the first (`Local`).

Liveness (`ChainEnds`, `TransientFailureRecovers`, `RequeueRecovers`, `ReportIsTrue`,
`DueIsVisited`, `ResumesToTheEnd`) is model-checked only: it needs fairness, which
is beyond the prover.

A type invariant is in a run only where no theorem has it and the run has room;
`TypeOK` of each module holds in its run's instance when added to its INVARIANTS.

## 6. Plan

What is left, in this order:

1. `IngestContract`: what the contract promises of one job (stages, failed,
   ready, attempts), `IngestPipeline` shown to implement it by a refinement
   mapping, in TLC and as a theorem.
2. `Chunker`, `ParentExpand`: the pure functions against a reference over
   bounded inputs (recursive functions or folds; TLC only).
3. The deletion of a knowledge base against the caches of `SearchService`.

## 7. What is only model-checked

The liveness properties, and the violated claims of section 4: TLC's
counterexamples are their proof.

## 8. What is not modelled, and why

Of BM25, embeddings and reranking only what changes an answer as a set is
modelled (`Sparse`, `IndexCannotBeBuilt`); the rest is floating-point scoring and
calls to models. Chat is modelled as its checks, calls and audit rows; the language
model's answer and the threshold of relevance are nondeterministic. The chunker
and the window of the parent expansion are arithmetic on strings and positions
(plan, 2). Parsers are third-party libraries behind one call, whose outcomes are
those of `Parse` and `SetChunks`. The readiness probe (`main.py:220-278`) has an edge
trigger of the same form as the rate limiter's, and changes nothing else.
The crawl task of `tasks.py` and `IngestPipeline.run`, the synchronous chain of
tests, add nothing to `crawl_due` and to the stage methods. Observability,
configuration, migrations and the other scripts keep no state the others depend
on. The web console beyond login, tabs and the list of knowledge bases shows what
it is given.

PostgreSQL's weaker isolation, a process that dies within a write of a file, and
several API processes with caches of their own are outside the models, as section
2 says at each module.
