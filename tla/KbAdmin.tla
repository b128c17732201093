------------------------------- MODULE KbAdmin ---------------------------------
(***************************************************************************)
(* Managing knowledge bases: the routes of the console                     *)
(* (apps/api/routes/admin_kb.py, the annotations of routes/admin.py) over  *)
(* the transactions of the registry they call one after the other, and the *)
(* page that lists the knowledge bases (apps/web/src/views/KbManage.vue).  *)
(* Requests are served by the threads of a pool.                           *)
(*                                                                         *)
(* Knowledge bases, documents and annotations are numbered in the order of *)
(* creation.  Annotations are all of one query.  Who is logged in is the   *)
(* business of AdminSession; ingestion in full, of SearchService.          *)
(***************************************************************************)
EXTENDS Naturals, FiniteSets

CONSTANTS
    Threads,   \* requests that are served at a time
    MaxKbs,    \* bound: knowledge bases ever created
    MaxDocs,   \* bound: documents ever created
    MaxAnns,   \* bound: annotations ever created
    PageSize   \* knowledge bases on a page of the list

ASSUME BoundsAssumption == {MaxKbs, MaxDocs, MaxAnns} \subseteq Nat
ASSUME PageSizeAssumption == PageSize \in Nat \ {0}

Kbs == 1..MaxKbs

VARIABLES
    made, kbs,      \* knowledge bases: how many were created, which there are
    uploads, docs,  \* documents: how many, which there are and of what knowledge base
    chunks,         \* documents with chunk rows
    notes, anns,    \* annotations: how many, which there are and of what knowledge base
    audit,          \* knowledge bases whose deletion was recorded
    deleted,        \* how many deletions of each were answered with success
    unquiet,        \* knowledge bases deleted while a request filled them
    page, total, items,  \* the list page: its number, what it shows
    disturbed,      \* whether the load it shows is outdated, failed or not the only one
    req             \* the request of each thread

kbVars   == <<made, kbs>>
docVars  == <<uploads, docs, chunks>>
annVars  == <<notes, anns>>
pastVars == <<audit, deleted, unquiet>>
pageVars == <<page, total, items, disturbed>>
vars == <<kbVars, docVars, annVars, pastVars, pageVars, req>>

Ops == {"create", "list", "detail", "update", "delete", "delete_doc", "upload", "annotate"}
PCs == {"idle", "sent", "work", "read", "write", "log", "answered"}

\* A request; the numbers it has read; its page of the list and the total; whether
\* it was disturbed: knowledge bases came or went, or another load was sent.
Reqs == [op : Ops \cup {"none"}, pc : PCs, kb : Kbs \cup {0}, read : SUBSET Nat,
         page : Nat \ {0}, total : 0..MaxKbs, disturbed : BOOLEAN, ok : BOOLEAN]

NoRequest == [op |-> "none", pc |-> "idle", kb |-> 0, read |-> {}, page |-> 1,
               total |-> 0, disturbed |-> FALSE, ok |-> FALSE]

\* How many pages there are for a number of knowledge bases, as the page counts.
TotalPages(n) == IF n = 0 THEN 1 ELSE (n + PageSize - 1) \div PageSize

TypeOK ==
    /\ made \in 0..MaxKbs
    /\ kbs \subseteq 1..made
    /\ uploads \in 0..MaxDocs
    /\ docs \cup chunks \subseteq (1..uploads) \X (1..made)
    /\ notes \in 0..MaxAnns
    /\ anns \subseteq (1..notes) \X (1..made)
    /\ audit \cup unquiet \subseteq 1..made
    /\ deleted \in [Kbs -> Nat]
    /\ total \in 0..made
    /\ page \in 1..TotalPages(total)
    /\ items \subseteq 1..made
    /\ disturbed \in BOOLEAN
    /\ req \in [Threads -> Reqs]

Init ==
    /\ made = 0 /\ kbs = {}
    /\ uploads = 0 /\ docs = {} /\ chunks = {}
    /\ notes = 0 /\ anns = {}
    /\ audit = {} /\ deleted = [b \in Kbs |-> 0] /\ unquiet = {}
    /\ page = 1 /\ total = 0 /\ items = {} /\ disturbed = TRUE
    /\ req = [t \in Threads |-> NoRequest]

--------------------------------------------------------------------------------
(* Helpers *)

At(t, op, pc) == req[t].op = op /\ req[t].pc = pc
Goto(t, pc) == req' = [req EXCEPT ![t].pc = pc]
Finished(t, ok) == [NoRequest EXCEPT !.op = req[t].op, !.pc = "answered", !.ok = ok]
Finish(t, ok) == req' = [req EXCEPT ![t] = Finished(t, ok)]

DocsOf(set, b) == {d \in set : d[2] = b}

\* The knowledge bases of a page of the list: offset and limit, by creation.
OnPage(p) == {b \in kbs : Cardinality({c \in kbs : c < b}) \in ((p - 1) * PageSize)..(p * PageSize - 1)}

\* A request that adds to a knowledge base it has seen, or is adding.
Filling(b) == \E t \in Threads : /\ req[t].kb = b
                                 /\ req[t].op \in {"upload", "annotate"}
                                 /\ req[t].pc \in {"work", "read", "write"}

\* Knowledge bases come or go: every list is outdated.
Disturb(reqs) ==
    /\ disturbed' = TRUE
    /\ req' = [t \in Threads |-> [reqs[t] EXCEPT !.disturbed = @ \/ reqs[t].op = "list"]]

--------------------------------------------------------------------------------
(* The routes *)

\* The request is refused, for the role or for what a form says, or the server dies,
\* or the database raises: it is not answered, or answered with an error.  What it
\* has committed stays.
Fail(t) ==
    /\ req[t].pc \in {"sent", "work", "read", "write", "log"}
    /\ Finish(t, FALSE)
    /\ UNCHANGED <<kbVars, docVars, annVars, pastVars, pageVars>>

\* create_kb: the row, then perhaps its description.
CreateKb(t) ==
    /\ At(t, "create", "sent")
    /\ made < MaxKbs
    /\ made' = made + 1
    /\ kbs' = kbs \cup {made'}
    /\ \E pc \in {"work", "log"} : Disturb([req EXCEPT ![t].kb = made', ![t].pc = pc])
    /\ UNCHANGED <<docVars, annVars, pastVars, page, total, items>>

\* update_kb, for the description or for a form: without a row an error.
ReadRow(t) ==
    /\ At(t, "create", "work") \/ At(t, "update", "sent")
    /\ IF req[t].kb \in kbs THEN Goto(t, "write") ELSE Finish(t, FALSE)
    /\ UNCHANGED <<kbVars, docVars, annVars, pastVars, pageVars>>

\* Mutant of WriteRow: the row is merged, which inserts one that is gone.
WriteRowMerged(t) ==
    /\ At(t, "create", "write") \/ At(t, "update", "write")
    /\ kbs' = kbs \cup {req[t].kb}
    /\ Goto(t, "log")
    /\ UNCHANGED <<made, docVars, annVars, pastVars, pageVars>>

\* The columns that changed are updated, and read again: an error if the row is
\* gone meanwhile.
WriteRow(t) ==
    /\ At(t, "create", "write") \/ At(t, "update", "write")
    /\ IF req[t].kb \in kbs THEN Goto(t, "log") ELSE Finish(t, FALSE)
    /\ UNCHANGED <<kbVars, docVars, annVars, pastVars, pageVars>>

\* list_kb_stats: the number of knowledge bases, then those of the page.
CountKbs(t) ==
    /\ At(t, "list", "sent")
    /\ req' = [req EXCEPT ![t].pc = "read", ![t].total = Cardinality(kbs)]
    /\ UNCHANGED <<kbVars, docVars, annVars, pastVars, pageVars>>

ListPage(t) ==
    /\ At(t, "list", "read")
    /\ req' = [req EXCEPT ![t].pc = "answered", ![t].read = OnPage(req[t].page), ![t].ok = TRUE]
    /\ UNCHANGED <<kbVars, docVars, annVars, pastVars, pageVars>>

\* The other routes look for the knowledge base first.
RequireKb(t) ==
    /\ req[t].pc = "sent"
    /\ req[t].op \in {"detail", "delete", "delete_doc", "upload", "annotate"}
    /\ IF req[t].kb \in kbs THEN Goto(t, "work") ELSE Finish(t, FALSE)
    /\ UNCHANGED <<kbVars, docVars, annVars, pastVars, pageVars>>

\* get_kb_detail, list_kb_documents, list_annotations: what there is to be shown.
ReadDetail(t) ==
    /\ At(t, "detail", "work")
    /\ Finish(t, TRUE)
    /\ UNCHANGED <<kbVars, docVars, annVars, pastVars, pageVars>>

\* Mutant of RecordDeletion: the record is left for later.
RecordDeletionLater(t) ==
    /\ At(t, "delete", "work")
    /\ Goto(t, "read")
    /\ UNCHANGED <<kbVars, docVars, annVars, pastVars, pageVars>>

\* delete_kb_route: the deletion is recorded before it is done.
RecordDeletion(t) ==
    /\ At(t, "delete", "work")
    /\ audit' = audit \cup {req[t].kb}
    /\ Goto(t, "read")
    /\ UNCHANGED <<kbVars, docVars, annVars, deleted, unquiet, pageVars>>

\* delete_kb reads which documents there are,
ReadDocIds(t) ==
    /\ At(t, "delete", "read")
    /\ req' = [req EXCEPT ![t].pc = "write",
                          ![t].read = {d[1] : d \in DocsOf(docs, req[t].kb)}]
    /\ UNCHANGED <<kbVars, docVars, annVars, pastVars, pageVars>>

\* Mutant of DeleteRows: rows are deleted by condition, none is no error.
DeleteRowsIfAny(t) ==
    /\ At(t, "delete", "write")
    /\ kbs' = kbs \ {req[t].kb}
    /\ docs' = docs \ DocsOf(docs, req[t].kb)
    /\ chunks' = {d \in chunks : d[1] \notin req[t].read}
    /\ anns' = anns \ DocsOf(anns, req[t].kb)
    /\ deleted' = [deleted EXCEPT ![req[t].kb] = @ + 1]
    /\ Disturb([req EXCEPT ![t] = Finished(t, TRUE)])
    /\ UNCHANGED <<made, uploads, notes, audit, unquiet, page, total, items>>

\* Mutant of DeleteRows: the annotations stay.
DeleteRowsButAnnotations(t) ==
    /\ At(t, "delete", "write")
    /\ LET b == req[t].kb
       IN IF b \notin kbs
          THEN Finish(t, FALSE) /\ UNCHANGED <<kbs, docs, chunks, deleted, unquiet, disturbed>>
          ELSE /\ kbs' = kbs \ {b}
               /\ docs' = docs \ DocsOf(docs, b)
               /\ chunks' = {d \in chunks : d[1] \notin req[t].read}
               /\ deleted' = [deleted EXCEPT ![b] = @ + 1]
               /\ unquiet' = IF Filling(b) THEN unquiet \cup {b} ELSE unquiet
               /\ Disturb([req EXCEPT ![t] = Finished(t, TRUE)])
    /\ UNCHANGED <<made, uploads, annVars, audit, page, total, items>>

\* and deletes their chunks, the annotations, the documents and the knowledge
\* base; if that is gone, nothing and an error.
DeleteRows(t) ==
    /\ At(t, "delete", "write")
    /\ LET b == req[t].kb
       IN IF b \notin kbs
          THEN Finish(t, FALSE) /\ UNCHANGED <<kbs, docs, chunks, anns, deleted, unquiet, disturbed>>
          ELSE /\ kbs' = kbs \ {b}
               /\ docs' = docs \ DocsOf(docs, b)
               /\ chunks' = {d \in chunks : d[1] \notin req[t].read}
               /\ anns' = anns \ DocsOf(anns, b)
               /\ deleted' = [deleted EXCEPT ![b] = @ + 1]
               /\ unquiet' = IF Filling(b) \/ \E d \in DocsOf(docs, b) : d[1] \notin req[t].read
                             THEN unquiet \cup {b} ELSE unquiet
               /\ Disturb([req EXCEPT ![t] = Finished(t, TRUE)])
    /\ UNCHANGED <<made, uploads, notes, audit, page, total, items>>

\* delete_kb_document: a document of the knowledge base, if there is one; it is
\* recorded, then deleted with its chunks.
FindDocument(t) ==
    /\ At(t, "delete_doc", "work")
    /\ IF DocsOf(docs, req[t].kb) = {} THEN Finish(t, FALSE)
       ELSE \E d \in DocsOf(docs, req[t].kb) :
                req' = [req EXCEPT ![t].pc = "write", ![t].read = {d[1]}]
    /\ UNCHANGED <<kbVars, docVars, annVars, pastVars, pageVars>>

DeleteDocument(t) ==
    /\ At(t, "delete_doc", "write")
    /\ docs' = {d \in docs : d[1] \notin req[t].read}
    /\ chunks' = {d \in chunks : d[1] \notin req[t].read}
    /\ Finish(t, TRUE)
    /\ UNCHANGED <<kbVars, uploads, annVars, pastVars, pageVars>>

\* upload_document_json: the content is refused, or known, or a new document,
\* whose row is written first and its chunks later, if it is still there.
CreateDocument(t) ==
    /\ At(t, "upload", "work")
    /\ \/ Finish(t, FALSE) /\ UNCHANGED <<uploads, docs>>
       \/ DocsOf(docs, req[t].kb) # {} /\ Goto(t, "log") /\ UNCHANGED <<uploads, docs>>
       \/ /\ uploads < MaxDocs
          /\ uploads' = uploads + 1
          /\ docs' = docs \cup {<<uploads', req[t].kb>>}
          /\ req' = [req EXCEPT ![t].pc = "write", ![t].read = {uploads'}]
    /\ UNCHANGED <<kbVars, chunks, annVars, pastVars, pageVars>>

WriteChunks(t) ==
    /\ At(t, "upload", "write")
    /\ LET written == {d \in docs : d[1] \in req[t].read}
       IN IF written = {} THEN Finish(t, FALSE) /\ UNCHANGED chunks
          ELSE chunks' = chunks \cup written /\ Goto(t, "log")
    /\ UNCHANGED <<kbVars, uploads, docs, annVars, pastVars, pageVars>>

\* upsert_annotation: the annotation of the query is looked for,
FindAnnotation(t) ==
    /\ At(t, "annotate", "work")
    /\ req' = [req EXCEPT ![t].pc = "write",
                          ![t].read = {a[1] : a \in DocsOf(anns, req[t].kb)}]
    /\ UNCHANGED <<kbVars, docVars, annVars, pastVars, pageVars>>

\* and written over, unless it is gone, or inserted.
WriteAnnotation(t) ==
    /\ At(t, "annotate", "write")
    /\ \/ /\ req[t].read = {}
          /\ notes < MaxAnns
          /\ notes' = notes + 1
          /\ anns' = anns \cup {<<notes', req[t].kb>>}
          /\ Goto(t, "log")
       \/ /\ req[t].read # {}
          /\ IF \E a \in anns : a[1] \in req[t].read THEN Goto(t, "log") ELSE Finish(t, FALSE)
          /\ UNCHANGED annVars
    /\ UNCHANGED <<kbVars, docVars, pastVars, pageVars>>

\* What was done is recorded, and the request answered.
RecordAndAnswer(t) ==
    /\ req[t].pc = "log"
    /\ Finish(t, TRUE)
    /\ UNCHANGED <<kbVars, docVars, annVars, pastVars, pageVars>>

--------------------------------------------------------------------------------
(* The list page *)

Send(t, op, b) ==
    /\ req[t].pc = "idle"
    /\ req' = [req EXCEPT ![t] = [NoRequest EXCEPT !.op = op, !.pc = "sent", !.kb = b]]

\* load: the page that is current when it is called.
Load(t, p) ==
    LET others == {u \in Threads \ {t} : req[u].op = "list"}
    IN req' = [u \in Threads |->
                 IF u = t THEN [NoRequest EXCEPT !.op = "list", !.pc = "sent", !.page = p,
                                                 !.disturbed = others # {}]
                 ELSE [req[u] EXCEPT !.disturbed = @ \/ u \in others]]

\* onMounted and gotoPage: another page, within those there were last.
GotoPage(t) ==
    /\ req[t].pc = "idle"
    /\ \E p \in {page, page - 1, page + 1} \cap (1..TotalPages(total)) : page' = p /\ Load(t, p)
    /\ UNCHANGED <<kbVars, docVars, annVars, pastVars, total, items, disturbed>>

\* The dialogs and the other views of the console.
Submit(t) ==
    /\ \/ /\ made + Cardinality({u \in Threads : At(u, "create", "sent")}) < MaxKbs
          /\ Send(t, "create", 0)
       \/ \E b \in 1..made, op \in Ops \ {"create", "list", "annotate"} : Send(t, op, b)
       \/ /\ notes + Cardinality({u \in Threads : req[u].op = "annotate"}) < MaxAnns
          /\ \E b \in 1..made : Send(t, "annotate", b)
    /\ UNCHANGED <<kbVars, docVars, annVars, pastVars, pageVars>>

\* Mutant of Loaded: the page is as it was, however many there are.
LoadedUnclamped(t) ==
    /\ At(t, "list", "answered")
    /\ req[t].ok
    /\ items' = req[t].read
    /\ total' = req[t].total
    /\ disturbed' = req[t].disturbed
    /\ req' = [req EXCEPT ![t] = NoRequest]
    /\ UNCHANGED <<kbVars, docVars, annVars, pastVars, page>>

\* The answer to a load, whichever comes first: shown; and if the page is now
\* beyond the last, the last is loaded.
Loaded(t) ==
    /\ At(t, "list", "answered")
    /\ req[t].ok
    /\ items' = req[t].read
    /\ total' = req[t].total
    /\ disturbed' = req[t].disturbed
    /\ LET max == TotalPages(req[t].total)
       IN IF page > max THEN page' = max /\ Load(t, max)
          ELSE UNCHANGED page /\ req' = [req EXCEPT ![t] = NoRequest]
    /\ UNCHANGED <<kbVars, docVars, annVars, pastVars>>

\* After a change that succeeded the list is loaded again.
Done(t) ==
    /\ req[t].pc = "answered"
    /\ ~(req[t].op = "list" /\ req[t].ok)
    /\ IF req[t].op \in {"create", "update", "delete"} /\ req[t].ok THEN Load(t, page)
       ELSE req' = [req EXCEPT ![t] = NoRequest]
    /\ disturbed' = (disturbed \/ req[t].op = "list")
    /\ UNCHANGED <<kbVars, docVars, annVars, pastVars, page, total, items>>

--------------------------------------------------------------------------------

Serve(t) ==
    \/ Fail(t) \/ RecordAndAnswer(t) \/ RequireKb(t)
    \/ CreateKb(t) \/ ReadRow(t) \/ WriteRow(t)
    \/ CountKbs(t) \/ ListPage(t) \/ ReadDetail(t)
    \/ RecordDeletion(t) \/ ReadDocIds(t) \/ DeleteRows(t)
    \/ FindDocument(t) \/ DeleteDocument(t) \/ CreateDocument(t) \/ WriteChunks(t)
    \/ FindAnnotation(t) \/ WriteAnnotation(t)

Console(t) == GotoPage(t) \/ Submit(t) \/ Loaded(t) \/ Done(t)

Next == \E t \in Threads : Serve(t) \/ Console(t)

Spec == Init /\ [][Next]_vars

--------------------------------------------------------------------------------
(* Properties *)

\* A knowledge base that is gone was recorded as deleted, whatever failed on the
\* way: the record is not lost with the server.
DeletionIsRecorded == (1..made) \ kbs \subseteq audit

\* Of several deletions of a knowledge base at a time one succeeds.
OneDeletionSucceeds == \A b \in Kbs : deleted[b] <= 1

\* A knowledge base that was deleted does not come back with an edit that began
\* before.
DeletedStaysDeleted == [][kbs' \cap (1..made) \subseteq kbs]_vars

\* A knowledge base deleted while nothing was being added to it leaves nothing
\* behind: no document, no chunk, no annotation.
QuietDeletionIsComplete ==
    \A b \in (1..made) \ (kbs \cup unquiet) : DocsOf(docs \cup chunks \cup anns, b) = {}

\* When the only load under way was answered, and knowledge bases neither came nor
\* went since it was sent, the list shows some if there are any, whatever page was
\* asked for.
RestsOnAPage ==
    items = {} /\ ~disturbed /\ (\A t \in Threads : req[t].op # "list") => kbs = {}

\* A query has one annotation per knowledge base, which the next one overwrites
\* (the idempotence key of Annotation, registry.py:111).
AnnotatedOnce == \A b \in Kbs : Cardinality(DocsOf(anns, b)) <= 1
================================================================================
