--------------------------------- MODULE Crawl ---------------------------------
(***************************************************************************)
(* The ways a document comes in without its file being uploaded: the       *)
(* periodic crawl of subscribed URLs (core/ingest/crawl.py, started by the *)
(* beat of core/ingest/tasks.py), the import of a directory                *)
(* (core/ingest/importer.py, scripts/import_docs.py) and the ingestion of  *)
(* one URL (routes/documents.py), with the administrator's routes for the  *)
(* subscriptions (routes/admin.py).  All work on one knowledge base, in    *)
(* processes of their own that share the registry; what happens to a job   *)
(* that is queued is in IngestPipeline.                                    *)
(*                                                                         *)
(* Subscriptions are numbered in the order of their URLs.  The clock is    *)
(* left out: the next fetch of a subscription is due or not, and time may  *)
(* make it due.  A content hash is the page it is of.  last_error, which   *)
(* only the console shows, is left out too.                                *)
(***************************************************************************)
EXTENDS UrlFetch, Sequences, Functions, FiniteSets

CONSTANTS
    Url,          \* the URL of each subscription
    Directory,    \* the files of the directory, by what they say, in the order of names
    Crawls,       \* workers that run crawl.due
    MaxOthers,    \* bound: imports, and requests to ingest a URL, together
    MaxFaults     \* bound: calls that raise, and processes that die

ASSUME UrlAssumption == Url \in Seq(Urls)
ASSUME DirectoryAssumption == Directory \in Seq(Pages)
ASSUME LimitsAssumption == {MaxOthers, MaxFaults} \subseteq Nat

Subs == DOMAIN Url
Importer == "importer"
Poster == "poster"
Procs == Crawls \cup {Importer, Poster}

ASSUME CrawlsAssumption == Crawls \cap {Importer, Poster} = {}

VARIABLES
    subs,     \* rows of the subscriptions
    docs,     \* rows of documents, in the order of creation, with job, file and queue
    proc,     \* what each process is at
    raced,    \* pages that two processes were about to create a document of at a time
    others, faults   \* how many imports and requests, and faults, there were

vars == <<subs, docs, proc, raced, others, faults>>

Row == [is : {"not yet", "there", "deleted"}, enabled : BOOLEAN, due : BOOLEAN,
        last : Pages \cup {NoPage}]

\* The row of a new subscription: without a cursor, it is due.
NewRow == [is |-> "there", enabled |-> TRUE, due |-> TRUE, last |-> NoPage]

\* lost: its creator has given it up before it was queued.
Docs == [page : Pages, by : Procs, has : SUBSET {"job", "source", "queued"}, lost : BOOLEAN]

PCs == {"idle", "next", "fetch", "fetched", "create", "job", "source", "enqueue", "mark", "report"}

\* A process: the subscriptions or files it still has to do, the first of them being
\* worked on; last, what it has read of the subscription; got, what it has fetched;
\* its document; and the counts of an import.
States == [pc : PCs, todo : Seq(Subs \cup Pages), last : Pages \cup {NoPage}, got : Outcomes,
           doc : Nat, skipped : Nat, failed : Nat]

Nothing == Ended("failed")
Idle == [pc |-> "idle", todo |-> <<>>, last |-> NoPage, got |-> Nothing,
         doc |-> 0, skipped |-> 0, failed |-> 0]

Exists(s) == subs[s].is = "there"
IsDue(s) == Exists(s) /\ subs[s].enabled /\ subs[s].due

TypeOK ==
    /\ subs \in [Subs -> Row]
    /\ docs \in Seq(Docs)
    /\ proc \in [Procs -> States]
    /\ \A p \in Procs : proc[p].doc \in 0..Len(docs)
    /\ raced \subseteq Pages
    /\ others \in 0..MaxOthers /\ faults \in 0..MaxFaults

Init ==
    /\ subs = [s \in Subs |-> [NewRow EXCEPT !.is = "not yet"]]
    /\ docs = <<>>
    /\ proc = [p \in Procs |-> Idle]
    /\ raced = {}
    /\ others = 0 /\ faults = 0

--------------------------------------------------------------------------------
(* The administrator, and time. *)

\* set_subscription_enabled, delete_subscription.
Toggled(s) == [subs EXCEPT ![s].enabled = ~@]
Removed(s) == [subs EXCEPT ![s] = [NewRow EXCEPT !.is = "deleted"]]

\* POST /admin/subscriptions.
Subscribe(s) ==
    /\ subs[s].is = "not yet"
    /\ subs' = [subs EXCEPT ![s] = NewRow]
    /\ UNCHANGED <<docs, proc, raced, others, faults>>

\* POST /admin/subscriptions/{id}/toggle.
Toggle(s) ==
    /\ Exists(s)
    /\ subs' = Toggled(s)
    /\ UNCHANGED <<docs, proc, raced, others, faults>>

\* DELETE /admin/subscriptions/{id}, or the deletion of the knowledge base.
Unsubscribe(s) ==
    /\ Exists(s)
    /\ subs' = Removed(s)
    /\ UNCHANGED <<docs, proc, raced, others, faults>>

\* next_fetch_at is reached.
TimePasses(s) ==
    /\ Exists(s) /\ ~subs[s].due
    /\ subs' = [subs EXCEPT ![s].due = TRUE]
    /\ UNCHANGED <<docs, proc, raced, others, faults>>

--------------------------------------------------------------------------------
(* What a process leaves behind for the next step. *)

Here(p) == proc[p].pc
Current(p) == Head(proc[p].todo)

GoTo(p, pc) == [proc[p] EXCEPT !.pc = pc]

\* The process goes on with a page.
With(p, page, pc) ==
    [proc[p] EXCEPT !.pc = pc, !.got = [Nothing EXCEPT !.page = page], !.last = NoPage]

\* On to the next subscription or file; counts stay, the rest of the item is forgotten.
Onward(p) ==
    LET rest == IF proc[p].todo = <<>> THEN <<>> ELSE Tail(proc[p].todo)
        end  == IF p = Importer THEN "report" ELSE "idle"
    IN [Idle EXCEPT !.todo = rest, !.pc = IF rest = <<>> THEN end ELSE "next",
                    !.skipped = proc[p].skipped, !.failed = proc[p].failed]

\* Mutant of Found: documents that were not queued are overlooked.
FoundQueued(page) ==
    {d \in DOMAIN docs : docs[d].page = page /\ "queued" \in docs[d].has}

\* The documents of a page: find_document_by_hash.
Found(page) == {d \in DOMAIN docs : docs[d].page = page}

\* The document a process is at, which nobody will finish once the process gives up.
GivenUp(p) ==
    [d \in DOMAIN docs |->
        IF d = proc[p].doc THEN [docs[d] EXCEPT !.lost = "queued" \notin docs[d].has]
        ELSE docs[d]]

\* Mutant of MarkFetched: the row as it was read before the fetch is written back.
MarkFetchedMerged(s, page) == [subs EXCEPT ![s] = [NewRow EXCEPT !.last = page, !.due = FALSE]]

\* Mutant of MarkError: the cursor stays.
MarkErrorOnly(s) == subs

\* mark_subscription_fetched and mark_subscription_error write the fields they are
\* about into the row as it is by then.
MarkFetched(s, page) == [subs EXCEPT ![s].last = page, ![s].due = FALSE]
MarkError(s) == [subs EXCEPT ![s].due = FALSE]

--------------------------------------------------------------------------------
(* A document comes in: the calls the three ways have in common. *)

\* create_document.
Create(p) ==
    /\ Here(p) = "create"
    /\ docs' = Append(docs, [page |-> proc[p].got.page, by |-> p, has |-> {},
                             lost |-> FALSE])
    /\ raced' = IF \E q \in Procs \ {p} : Here(q) = "create" /\ proc[q].got.page = proc[p].got.page
                THEN raced \cup {proc[p].got.page} ELSE raced
    /\ proc' = [proc EXCEPT ![p] = [GoTo(p, "job") EXCEPT !.doc = Len(docs) + 1]]
    /\ UNCHANGED <<subs, others, faults>>

\* One more thing is there for the document, and the process goes on to pc.
Provide(p, what, next) ==
    /\ docs' = [docs EXCEPT ![proc[p].doc].has = @ \cup {what}]
    /\ proc' = [proc EXCEPT ![p] = next]
    /\ UNCHANGED <<subs, raced, others, faults>>

CreateJob(p) == Here(p) = "job" /\ Provide(p, "job", GoTo(p, "source"))

\* The page, or a copy of the file, in the directory of the job.
WriteSource(p) == Here(p) = "source" /\ Provide(p, "source", GoTo(p, "enqueue"))

\* enqueue_ingest: the chain of the stages, which a worker may begin at once.
Enqueue(p) ==
    /\ Here(p) = "enqueue"
    /\ Provide(p, "queued", IF p \in Crawls THEN [GoTo(p, "mark") EXCEPT !.doc = 0]
                            ELSE Onward(p))

Submit(p) == Create(p) \/ CreateJob(p) \/ WriteSource(p) \/ Enqueue(p)

--------------------------------------------------------------------------------
(* The crawl. *)

\* The sequence of some subscriptions in the order of their URLs (the only one).
InOrder(some) ==
    {list \in [1..Cardinality(some) -> some] :
        \A i, j \in DOMAIN list : i < j => list[i] < list[j]}

\* list_due_subscriptions.
Scan(c) ==
    /\ Here(c) = "idle"
    /\ \E s \in Subs : IsDue(s)
    /\ \E due \in InOrder({s \in Subs : IsDue(s)}) :
         proc' = [proc EXCEPT ![c] = [Idle EXCEPT !.pc = "next", !.todo = due]]
    /\ UNCHANGED <<subs, docs, raced, others, faults>>

\* fetch_subscription reads the row again; whether it is still enabled or due, it
\* does not ask.
Read(c) ==
    /\ Here(c) = "next"
    /\ proc' = [proc EXCEPT ![c] =
                  IF Exists(Current(c))
                  THEN [GoTo(c, "fetch") EXCEPT !.last = subs[Current(c)].last]
                  ELSE Onward(c)]
    /\ UNCHANGED <<subs, docs, raced, others, faults>>

\* An exception of the HTTP client is a fault, unless the host is never to be reached.
Costs(url, o) == o.kind = "raised" /\ url \notin Unreachable

\* The page is fetched: an exception that fetch_subscription does not catch ends the
\* whole crawl, and crawl_due with it.
FetchPage(c) ==
    /\ Here(c) = "fetch"
    /\ \E o \in Fetch(Url[Current(c)]) :
         /\ faults' = IF Costs(Url[Current(c)], o) THEN faults + 1 ELSE faults
         /\ faults' <= MaxFaults
         /\ proc' = [proc EXCEPT ![c] = IF o.kind = "raised" THEN Idle
                                        ELSE [GoTo(c, "fetched") EXCEPT !.got = o]]
    /\ UNCHANGED <<subs, docs, raced, others>>

\* A write to the subscription: LookupError, which nobody catches, if it is gone.
Marking(c, marked) ==
    /\ IF Exists(Current(c))
       THEN subs' = marked /\ proc' = [proc EXCEPT ![c] = Onward(c)]
       ELSE subs' = subs /\ proc' = [proc EXCEPT ![c] = Idle]
    /\ UNCHANGED <<docs, raced, others, faults>>

\* SsrfBlockedError, FetchError.
RecordError(c) ==
    /\ Here(c) = "fetched" /\ proc[c].got.kind \in {"blocked", "failed"}
    /\ Marking(c, MarkError(Current(c)))

\* The page is what it was the last time.
RecordUnchanged(c) ==
    /\ Here(c) = "fetched" /\ proc[c].got.page = proc[c].last /\ proc[c].got.kind = "page"
    /\ Marking(c, MarkFetched(Current(c), proc[c].got.page))

\* Mutant of LookUp: the subscription is marked before the page is taken in.
LookUpMarking(c) ==
    /\ Here(c) = "fetched" /\ proc[c].got.kind = "page" /\ proc[c].got.page # proc[c].last
    /\ Exists(Current(c))
    /\ LET page == proc[c].got.page
       IN /\ proc' = [proc EXCEPT ![c] =
                         With(c, page, IF Found(page) = {} THEN "create" ELSE "mark")]
          /\ subs' = MarkFetched(Current(c), page)
    /\ UNCHANGED <<docs, raced, others, faults>>

\* The page has changed: does a document with it exist?
LookUp(c) ==
    /\ Here(c) = "fetched" /\ proc[c].got.kind = "page" /\ proc[c].got.page # proc[c].last
    /\ LET page == proc[c].got.page
       IN proc' = [proc EXCEPT ![c] = With(c, page, IF Found(page) = {} THEN "create" ELSE "mark")]
    /\ UNCHANGED <<subs, docs, raced, others, faults>>

\* The last write of fetch_subscription.
RecordFetched(c) ==
    /\ Here(c) = "mark"
    /\ Marking(c, MarkFetched(Current(c), proc[c].got.page))

CrawlStep(c) ==
    \/ Scan(c) \/ Read(c) \/ FetchPage(c)
    \/ RecordError(c) \/ RecordUnchanged(c) \/ LookUp(c) \/ RecordFetched(c)
    \/ Submit(c)

--------------------------------------------------------------------------------
(* The import of a directory, and the ingestion of one URL. *)

StartImport ==
    /\ Here(Importer) = "idle" /\ others < MaxOthers
    /\ others' = others + 1
    /\ proc' = [proc EXCEPT ![Importer] = [Idle EXCEPT !.todo = Directory,
                                 !.pc = IF Directory = <<>> THEN "report" ELSE "next"]]
    /\ UNCHANGED <<subs, docs, raced, faults>>

\* The next file: skipped if its content is known.
ImportFile ==
    /\ Here(Importer) = "next"
    /\ LET file == Current(Importer)
       IN proc' = [proc EXCEPT ![Importer] =
                     IF Found(file) = {}
                     THEN With(Importer, file, "create")
                     ELSE [Onward(Importer) EXCEPT !.skipped = @ + 1]]
    /\ UNCHANGED <<subs, docs, raced, others, faults>>

\* main prints the counts and ends.
EndImport ==
    /\ Here(Importer) = "report"
    /\ proc' = [proc EXCEPT ![Importer] = Idle]
    /\ UNCHANGED <<subs, docs, raced, others, faults>>

\* POST /kb/{kb_id}/documents/url: what is fetched is ingested, known or not; a page
\* that is not fetched is an error of the request.
PostUrl ==
    /\ Here(Poster) = "idle" /\ others < MaxOthers
    /\ others' = others + 1
    /\ \E u \in Urls : \E o \in Fetch(u) :
         /\ o.kind = "page"
         /\ proc' = [proc EXCEPT ![Poster] = With(Poster, o.page, "create")]
    /\ UNCHANGED <<subs, docs, raced, faults>>

--------------------------------------------------------------------------------
(* Faults. *)

\* Mutant of Refused: a file that fails is not counted.
RefusedQuietly(p) ==
    /\ Here(p) \notin {"idle", "report"} /\ faults < MaxFaults
    /\ faults' = faults + 1
    /\ docs' = GivenUp(p)
    /\ proc' = [proc EXCEPT ![p] = IF p = Importer THEN Onward(p) ELSE Idle]
    /\ UNCHANGED <<subs, raced, others>>

\* The registry, the disk or the queue refuses what a process asks for.  The import
\* counts the file and goes on; everything else has failed.
Refused(p) ==
    /\ Here(p) \notin {"idle", "report"} /\ faults < MaxFaults
    /\ faults' = faults + 1
    /\ docs' = GivenUp(p)
    /\ proc' = [proc EXCEPT ![p] = IF p = Importer THEN [Onward(p) EXCEPT !.failed = @ + 1]
                                   ELSE Idle]
    /\ UNCHANGED <<subs, raced, others>>

\* The import is killed; a worker or a server that is, has the effect of Refused.
Killed ==
    /\ Here(Importer) \notin {"idle", "report"} /\ faults < MaxFaults
    /\ faults' = faults + 1
    /\ docs' = GivenUp(Importer)
    /\ proc' = [proc EXCEPT ![Importer] = Idle]
    /\ UNCHANGED <<subs, raced, others>>

Admin == \E s \in Subs : Subscribe(s) \/ Toggle(s) \/ Unsubscribe(s)

Next ==
    \/ Admin
    \/ \E s \in Subs : TimePasses(s)
    \/ \E c \in Crawls : CrawlStep(c)
    \/ StartImport \/ ImportFile \/ Submit(Importer) \/ EndImport
    \/ PostUrl \/ Submit(Poster)
    \/ \E p \in Procs : Refused(p)
    \/ Killed

Spec == Init /\ [][Next]_vars

\* The beat starts crawl.due again and again, and a worker goes on with what it has
\* begun.
FairSpec == Spec /\ \A c \in Crawls : WF_vars(CrawlStep(c))

--------------------------------------------------------------------------------
(* Properties. *)

\* No server is asked but at an address of the public network that the name service
\* gave for a host of the allow list, on redirects too and whatever the name service
\* says between the check and the connection (UrlFetcher._resolve_host).
ContactsAreChecked ==
    \A p \in Procs : \A contact \in proc[p].got.contacts :
        HostAllowed(contact[1]) /\ contact[2] \in Public

\* What a subscription is marked with has come in: a document of the page is queued,
\* or a process still works on it, or a fault made its process give it up
\* (fetch_subscription marks last).
FetchedHasComeIn ==
    \A s \in Subs : Exists(s) =>
        \/ subs[s].last = NoPage
        \/ \E d \in Found(subs[s].last) :
              \/ "queued" \in docs[d].has
              \/ docs[d].lost
              \/ \E p \in Procs : proc[p].doc = d

\* A crawl or an import makes a second document of a page only if somebody else was
\* about to make one when it looked (find_document_by_hash; no index keeps them apart).
SecondOnlyByRace ==
    \A d, e \in DOMAIN docs :
        (d < e /\ docs[d].page = docs[e].page /\ docs[e].by # Poster) => docs[e].page \in raced

\* An import that reports no failure has left a document of every file of the
\* directory; if it skipped none either, each is queued (import_directory's counts).
ReportHolds ==
    (Here(Importer) = "report" /\ proc[Importer].failed = 0) =>
        \A f \in Range(Directory) : \E d \in Found(f) :
            proc[Importer].skipped = 0 => "queued" \in docs[d].has

\* A fetch in flight does not bring back a subscription that was deleted meanwhile,
\* nor end or begin a pause (mark_subscription_fetched, mark_subscription_error).
AdminDecides ==
    [][\A s \in Subs :
          /\ subs[s].is = "deleted" => subs'[s].is = "deleted"
          /\ (Exists(s) /\ Exists(s)' /\ subs[s].enabled # subs'[s].enabled) => proc' = proc]_vars

\* A subscription that is due is fetched and gets a new cursor, whatever the sites
\* reply, unless it is paused or deleted: even the one that crawl_due comes to last,
\* after all the others (crawl_due).
DueIsVisited == IsDue(Len(Url)) ~> ~IsDue(Len(Url))
================================================================================
