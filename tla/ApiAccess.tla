------------------------------- MODULE ApiAccess -------------------------------
(***************************************************************************)
(* Access to the API of one server: the middleware that counts, verifies   *)
(* and arms a request (apps/api/main.py), the routes that check it against *)
(* the key's list of knowledge bases, and the tools of the MCP server,     *)
(* over HTTP and over stdio (apps/mcp/server.py).  Keys are issued, used,  *)
(* revoked and expire, knowledge bases and documents come and go, while    *)
(* requests are between any two transactions of theirs.                    *)
(*                                                                         *)
(* A knowledge base is numbered in the order of creation and has at most   *)
(* one document, and that one at most one job, named by the same number.   *)
(* What a search finds, and what the language model says, is not modelled. *)
(***************************************************************************)
EXTENDS Naturals, FiniteSets

CONSTANTS
    Requests,  \* requests that are served at a time
    Keys,      \* API keys that may be issued
    MaxKbs,    \* bound: knowledge bases ever created
    Name,      \* the name of each; names need not be unique
    Star       \* "*" in a key's list: every knowledge base

Kbs == 1..MaxKbs
Names == {Name[b] : b \in Kbs}

ASSUME MaxKbsAssumption == MaxKbs \in Nat
ASSUME StarAssumption == Star \notin Kbs
ASSUME KeysAssumption == Keys \cap {"master", "stdio", "wrong", "none"} = {}

VARIABLES
    made,     \* how many knowledge bases were created
    kbs,      \* rows of the knowledge bases
    docs,     \* knowledge bases with a document
    jobs,     \* knowledge bases with a job
    keys,     \* rows of api_keys
    issued,   \* keys there ever were
    acl,      \* api_keys.kb_acl
    expired,  \* keys whose expires_at has passed
    req       \* the requests

dataVars == <<made, kbs, docs, jobs>>
keyVars  == <<keys, issued, acl, expired>>
vars == <<dataVars, keyVars, req>>

\* What a request presents: a key, the master key, a wrong one, none; or it
\* comes over stdio, where there is no middleware.
Callers == Keys \cup {"master", "stdio", "wrong", "none"}

KbRoutes == {"kb_get", "search", "chat", "chat_stream", "doc_list", "doc_get",
             "doc_delete", "upload", "url"}
Routes   == KbRoutes \cup {"kb_create", "kb_list", "passthrough", "pass_stream"}
Chats    == {"chat", "chat_stream"}
KbTools  == {"mcp_search", "mcp_ask", "mcp_ingest"}
Tools    == KbTools \cup {"mcp_list_kbs", "mcp_status"}

\* The actions of the audit log, and the one under which an operation is recorded, in
\* time for its answer: a stream as its search only.  What only lists or reads, and the
\* stream of a chat without a knowledge base, is not recorded at all.
Actions == {"search", "chat_rag", "chat_passthrough", "kb_create", "delete", "ingest",
            "mcp_search", "mcp_ask", "mcp_status", "mcp_ingest", "mcp_list_kbs", "denied"}

Recorded == [search |-> "search", chat |-> "chat_rag", chat_stream |-> "search",
             passthrough |-> "chat_passthrough", kb_create |-> "kb_create",
             doc_delete |-> "delete", upload |-> "ingest", url |-> "ingest",
             mcp_search |-> "mcp_search", mcp_ask |-> "mcp_ask", mcp_status |-> "mcp_status",
             mcp_ingest |-> "mcp_ingest", mcp_list_kbs |-> "mcp_list_kbs"]

Rows == Callers \X Actions \X (Kbs \cup Names \cup {0})

PCs == {"idle", "arrived", "counted", "verified", "known", "handler", "work", "log",
        "generate", "record", "denied", "answered"}
Statuses == {"none", "ok", "401", "403", "404", "413", "415", "422", "429", "500", "502",
             "error"}

\* A request: the caller, what it asks of which knowledge base (by number, or
\* by name from a tool), what the middleware allows it and names it, the
\* knowledge bases it was given something of or changed, the actions it was
\* recorded under; and whether its key was over when it arrived.
Reqs == [pc : PCs, op : Routes \cup Tools \cup {"none"}, who : Callers,
         kb : Kbs \cup Names \cup {0}, allowed : SUBSET (Kbs \cup {Star}),
         actor : Callers, gave : SUBSET Kbs,
         logged : SUBSET Rows,
         late : BOOLEAN, status : Statuses]

NoRequest == [pc |-> "idle", op |-> "none", who |-> "none", kb |-> 0, allowed |-> {},
              actor |-> "none", gave |-> {}, logged |-> {}, late |-> FALSE, status |-> "none"]

TypeOK ==
    /\ made \in 0..MaxKbs
    /\ kbs \subseteq 1..made
    /\ docs \subseteq Kbs
    /\ jobs \subseteq Kbs
    /\ keys \subseteq issued
    /\ issued \subseteq Keys
    /\ acl \in [Keys -> SUBSET (Kbs \cup {Star})]
    /\ expired \subseteq Keys
    /\ req \in [Requests -> Reqs]

Init ==
    /\ made = 0
    /\ kbs = {}
    /\ docs = {}
    /\ jobs = {}
    /\ keys = {}
    /\ issued = {}
    /\ acl = [k \in Keys |-> {}]
    /\ expired = {}
    /\ req = [r \in Requests |-> NoRequest]

--------------------------------------------------------------------------------
(* Helpers *)

At(r, pc) == req[r].pc = pc
Goto(r, pc) == req' = [req EXCEPT ![r].pc = pc]
Answer(r, status) == req' = [req EXCEPT ![r].pc = "answered", ![r].status = status]
Reply(r, given) ==
    req' = [req EXCEPT ![r].pc = "answered", ![r].status = "ok", ![r].gave = @ \cup given]

\* require_kb_access, and the filter of the lists.
MayUse(allowed, b) == Star \in allowed \/ b \in allowed

Visible(allowed) == {b \in kbs : MayUse(allowed, b)}

\* What the middleware hands on of a request it let through.
Admit(r, allowed) ==
    req' = [req EXCEPT ![r].pc = "known", ![r].allowed = allowed, ![r].actor = req[r].who]

\* The list of a new key: none given is all.
AclOf(list) == IF list = {} THEN {Star} ELSE list

\* The row of a chat that was not streamed; a stream refused for want of matches is none.
RecordedAs(op) == IF op \in Chats THEN "chat_rag" ELSE Recorded[op]

\* record_audit: a row of its own transaction.
Row(r, action) == <<req[r].actor, action, req[r].kb>>

\* _resolve_kb: by id, else the oldest of that name.
Candidates(x) == IF x \in kbs THEN {x} ELSE {b \in kbs : Name[b] = x}

--------------------------------------------------------------------------------
(* The middleware *)

\* A request comes in.
Arrive(r, op, who, kb) ==
    /\ At(r, "idle")
    /\ req' = [req EXCEPT ![r] =
          [NoRequest EXCEPT !.op = op, !.who = who, !.kb = kb,
                            !.pc = IF who = "stdio" THEN "handler" ELSE "arrived",
                            !.allowed = IF who = "stdio" THEN {Star} ELSE {},
                            !.actor = IF who = "stdio" THEN "stdio" ELSE "none",
                            !.late = \/ who \in {"wrong", "none"}
                                     \/ who \in issued /\ (who \notin keys \/ who \in expired)]]
    /\ UNCHANGED <<dataVars, keyVars>>

\* A body that declares more than the limit is refused first.
RejectOversized(r) ==
    /\ At(r, "arrived")
    /\ Answer(r, "413")
    /\ UNCHANGED <<dataVars, keyVars>>

\* No key; or too many requests of this address.
CountAddress(r) ==
    /\ At(r, "arrived")
    /\ IF req[r].who = "none" THEN Answer(r, "401")
       ELSE Answer(r, "429") \/ Goto(r, "counted")
    /\ UNCHANGED <<dataVars, keyVars>>

MasterKey(r) ==
    /\ At(r, "counted")
    /\ req[r].who = "master"
    /\ Admit(r, {Star})
    /\ UNCHANGED <<dataVars, keyVars>>

\* Mutant of VerifyKey: the row is enough, whatever its expires_at says.
VerifyKeyForever(r) ==
    /\ At(r, "counted")
    /\ req[r].who # "master"
    /\ IF req[r].who \in keys THEN Goto(r, "verified") ELSE Answer(r, "401")
    /\ UNCHANGED <<dataVars, keyVars>>

\* Registry.verify_api_key reads the row of the key, compares its hash and its
\* expiry.
VerifyKey(r) ==
    /\ At(r, "counted")
    /\ req[r].who # "master"
    /\ IF req[r].who \in keys \ expired THEN Goto(r, "verified") ELSE Answer(r, "401")
    /\ UNCHANGED <<dataVars, keyVars>>

\* Mutant of TouchKey: last_used_at is written with a merge, which inserts.
TouchKeyMerged(r) ==
    /\ At(r, "verified")
    /\ keys' = keys \cup {req[r].who}
    /\ Admit(r, acl[req[r].who])
    /\ UNCHANGED <<dataVars, issued, acl, expired>>

\* It then updates last_used_at, which raises if the row was deleted meanwhile.
TouchKey(r) ==
    /\ At(r, "verified")
    /\ IF req[r].who \in keys THEN Admit(r, acl[req[r].who]) ELSE Answer(r, "500")
    /\ UNCHANGED <<dataVars, keyVars>>

\* Too many requests of this key; or on to the route.
CountKey(r) ==
    /\ At(r, "known")
    /\ Answer(r, "429") \/ Goto(r, "handler")
    /\ UNCHANGED <<dataVars, keyVars>>

--------------------------------------------------------------------------------
(* The routes *)

\* Creating a knowledge base is for the master key.
CreateKb(r) ==
    /\ At(r, "handler")
    /\ req[r].op = "kb_create"
    /\ \/ /\ Star \notin req[r].allowed
          /\ Answer(r, "403")
          /\ UNCHANGED <<made, kbs>>
       \/ /\ Star \in req[r].allowed
          /\ made < MaxKbs
          /\ made' = made + 1
          /\ kbs' = kbs \cup {made + 1}
          /\ req' = [req EXCEPT ![r].pc = "log", ![r].kb = made + 1, ![r].gave = {made + 1}]
    /\ UNCHANGED <<docs, jobs, keyVars>>

\* The list of what the key allows.
ListKbs(r) ==
    /\ At(r, "handler")
    /\ req[r].op = "kb_list"
    /\ Reply(r, Visible(req[r].allowed))
    /\ UNCHANGED <<dataVars, keyVars>>

\* require_kb_access, then the row.
RequireKb(r) ==
    /\ At(r, "handler")
    /\ req[r].op \in KbRoutes
    /\ \/ ~MayUse(req[r].allowed, req[r].kb) /\ Answer(r, "403")
       \/ MayUse(req[r].allowed, req[r].kb) /\ req[r].kb \notin kbs /\ Answer(r, "404")
       \/ MayUse(req[r].allowed, req[r].kb) /\ req[r].kb \in kbs /\ Goto(r, "work")
    /\ UNCHANGED <<dataVars, keyVars>>

GetKb(r) ==
    /\ At(r, "work")
    /\ req[r].op = "kb_get"
    /\ Reply(r, {req[r].kb})
    /\ UNCHANGED <<dataVars, keyVars>>

\* The documents of the knowledge base, or one of them.
ReadDocuments(r) ==
    /\ At(r, "work")
    /\ req[r].op \in {"doc_list", "doc_get"}
    /\ IF req[r].op = "doc_get" /\ req[r].kb \notin docs
       THEN Answer(r, "404") ELSE Reply(r, {req[r].kb})
    /\ UNCHANGED <<dataVars, keyVars>>

\* search_service.search, for a search or a chat.
Search(r) ==
    /\ At(r, "work")
    /\ req[r].op \in {"search", "chat", "chat_stream"}
    /\ Goto(r, "log")
    /\ UNCHANGED <<dataVars, keyVars>>

\* An upload is refused for its size, its type or its text, or ingested within
\* the request.
Upload(r) ==
    /\ At(r, "work")
    /\ req[r].op = "upload"
    /\ \/ Answer(r, "413") /\ UNCHANGED docs
       \/ \E status \in {"415", "422", "500"} : Answer(r, status) /\ UNCHANGED docs
       \/ /\ docs' = docs \cup {req[r].kb}
          /\ req' = [req EXCEPT ![r].pc = "log", ![r].gave = {req[r].kb}]
    /\ UNCHANGED <<made, kbs, jobs, keyVars>>

\* A page that may not be fetched, or cannot; or it is queued.
IngestUrl(r) ==
    /\ At(r, "work")
    /\ req[r].op = "url"
    /\ \/ Answer(r, "403") /\ UNCHANGED <<docs, jobs>>
       \/ Answer(r, "502") /\ UNCHANGED <<docs, jobs>>
       \/ /\ docs' = docs \cup {req[r].kb}
          /\ jobs' = jobs \cup {req[r].kb}
          /\ req' = [req EXCEPT ![r].pc = "log", ![r].gave = {req[r].kb}]
    /\ UNCHANGED <<made, kbs, keyVars>>

\* The document's rows go; its job stays.
DeleteDocument(r) ==
    /\ At(r, "work")
    /\ req[r].op = "doc_delete"
    /\ \/ req[r].kb \notin docs /\ Answer(r, "404") /\ UNCHANGED docs
       \/ /\ req[r].kb \in docs
          /\ docs' = docs \ {req[r].kb}
          /\ req' = [req EXCEPT ![r].pc = "log", ![r].gave = {req[r].kb}]
    /\ UNCHANGED <<made, kbs, jobs, keyVars>>

--------------------------------------------------------------------------------
(* The tools of the MCP server *)

\* Mutant of ResolveKb: a name may be used by whoever knows it.
ResolveKbByName(r) ==
    /\ At(r, "handler")
    /\ req[r].op \in KbTools
    /\ \/ req[r].op = "mcp_ingest" /\ req[r].who # "stdio" /\ Answer(r, "error")
       \/ /\ req[r].op # "mcp_ingest" \/ req[r].who = "stdio"
          /\ \/ Candidates(req[r].kb) = {} /\ Answer(r, "error")
             \/ \E b \in Candidates(req[r].kb) :
                  /\ \A c \in Candidates(req[r].kb) : b <= c
                  /\ IF MayUse(req[r].allowed, b) \/ req[r].kb \in Names
                     THEN req' = [req EXCEPT ![r].pc = "work", ![r].kb = b]
                     ELSE Goto(r, "denied")
    /\ UNCHANGED <<dataVars, keyVars>>

\* A path of the server's machine is for stdio only.  The row by id or by name,
\* then require_kb_access.
ResolveKb(r) ==
    /\ At(r, "handler")
    /\ req[r].op \in KbTools
    /\ \/ req[r].op = "mcp_ingest" /\ req[r].who # "stdio" /\ Answer(r, "error")
       \/ /\ req[r].op # "mcp_ingest" \/ req[r].who = "stdio"
          /\ \/ Candidates(req[r].kb) = {} /\ Answer(r, "error")
             \/ \E b \in Candidates(req[r].kb) :
                  /\ \A c \in Candidates(req[r].kb) : b <= c
                  /\ IF MayUse(req[r].allowed, b)
                     THEN req' = [req EXCEPT ![r].pc = "work", ![r].kb = b]
                     ELSE Goto(r, "denied")
    /\ UNCHANGED <<dataVars, keyVars>>

ListKbsTool(r) ==
    /\ At(r, "handler")
    /\ req[r].op = "mcp_list_kbs"
    /\ req' = [req EXCEPT ![r].pc = "log", ![r].gave = Visible(req[r].allowed)]
    /\ UNCHANGED <<dataVars, keyVars>>

\* The search of the tools search_knowledge and ask.
SearchTool(r) ==
    /\ At(r, "work")
    /\ req[r].op \in {"mcp_search", "mcp_ask"}
    /\ Goto(r, "log")
    /\ UNCHANGED <<dataVars, keyVars>>

\* ask: recorded when the search is done; then the model, unless nothing was
\* found; it may be down.
AskTool(r) ==
    /\ req[r].op = "mcp_ask"
    /\ \/ /\ At(r, "log")
          /\ req' = [req EXCEPT ![r].pc = "generate", ![r].logged = {Row(r, "mcp_ask")}]
       \/ At(r, "generate") /\ (Answer(r, "error") \/ Reply(r, {req[r].kb}))
    /\ UNCHANGED <<dataVars, keyVars>>

\* get_document_status: the job's knowledge base decides.  No job is an answer.
JobStatus(r) ==
    /\ At(r, "handler")
    /\ req[r].op = "mcp_status"
    /\ \/ req[r].kb \notin jobs /\ Answer(r, "none")
       \/ /\ req[r].kb \in jobs
          /\ IF MayUse(req[r].allowed, req[r].kb)
             THEN req' = [req EXCEPT ![r].pc = "log", ![r].gave = {req[r].kb}]
             ELSE Goto(r, "denied")
    /\ UNCHANGED <<dataVars, keyVars>>

\* A file of the machine is queued, unless its content is known; or an error.
IngestPath(r) ==
    /\ At(r, "work")
    /\ req[r].op = "mcp_ingest"
    /\ \/ Answer(r, "error") /\ UNCHANGED <<docs, jobs>>
       \/ req[r].kb \in docs /\ Answer(r, "none") /\ UNCHANGED <<docs, jobs>>
       \/ /\ req[r].kb \notin docs
          /\ docs' = docs \cup {req[r].kb}
          /\ jobs' = jobs \cup {req[r].kb}
          /\ req' = [req EXCEPT ![r].pc = "log", ![r].gave = {req[r].kb}]
    /\ UNCHANGED <<made, kbs, keyVars>>

\* A refusal of a tool is recorded too, with the name the caller gave.
RecordDenial(r) ==
    /\ At(r, "denied")
    /\ req' = [req EXCEPT ![r].pc = "answered", ![r].status = "error",
                          ![r].logged = {Row(r, "denied")}]
    /\ UNCHANGED <<dataVars, keyVars>>

--------------------------------------------------------------------------------
(* Records and answers *)

\* The search of a chat is recorded as a search.  Then a stream is answered with that
\* record only, the model having yet to speak; unless too little was found: the refusal is
\* no stream, and recorded like that of any chat.
RecordSearch(r) ==
    /\ At(r, "log")
    /\ req[r].op \in Chats
    /\ LET logged == {Row(r, "search")}
       IN \/ /\ req[r].op = "chat_stream"
             /\ req' = [req EXCEPT ![r].pc = "answered", ![r].status = "ok",
                                   ![r].gave = {req[r].kb}, ![r].logged = logged]
          \/ /\ req[r].op = "chat_stream"
             /\ req' = [req EXCEPT ![r].pc = "record", ![r].logged = logged]
          \/ /\ req[r].op = "chat"
             /\ req' = [req EXCEPT ![r].pc = "generate", ![r].logged = logged]
    /\ UNCHANGED <<dataVars, keyVars>>

\* The model is asked, unless too little was found; it may be down.  A chat
\* without a knowledge base goes to it at once.
Generate(r) ==
    /\ \/ At(r, "generate") /\ req[r].op = "chat"
       \/ At(r, "handler") /\ req[r].op = "passthrough"
    /\ Answer(r, "502") \/ Goto(r, "record")
    /\ UNCHANGED <<dataVars, keyVars>>

\* A chat without a knowledge base, streamed: answered at once, and recorded nowhere.
StreamPassthrough(r) ==
    /\ At(r, "handler")
    /\ req[r].op = "pass_stream"
    /\ Reply(r, {})
    /\ UNCHANGED <<dataVars, keyVars>>

\* Mutant of Record: the chat is recorded as its search only.
RecordOnce(r) ==
    /\ \/ At(r, "record")
       \/ At(r, "log") /\ req[r].op \notin Chats \cup {"mcp_ask"}
    /\ req' = [req EXCEPT ![r].pc = "answered", ![r].status = "ok",
                          ![r].gave = @ \cup ({req[r].kb} \cap Kbs),
                          ![r].logged = IF req[r].op = "chat" THEN @
                                        ELSE @ \cup {Row(r, RecordedAs(req[r].op))}]
    /\ UNCHANGED <<dataVars, keyVars>>

\* Everything else is recorded when it is done, and then answered.
Record(r) ==
    /\ \/ At(r, "record")
       \/ At(r, "log") /\ req[r].op \notin Chats \cup {"mcp_ask"}
    /\ req' = [req EXCEPT ![r].pc = "answered", ![r].status = "ok",
                          ![r].gave = @ \cup ({req[r].kb} \cap Kbs),
                          ![r].logged = @ \cup {Row(r, RecordedAs(req[r].op))}]
    /\ UNCHANGED <<dataVars, keyVars>>

--------------------------------------------------------------------------------
(* The admin page *)

\* A key for the knowledge bases listed, which exist.
IssueKey(k, list) ==
    /\ k \notin issued
    /\ list \subseteq kbs \/ list = {Star}
    /\ issued' = issued \cup {k}
    /\ keys' = keys \cup {k}
    /\ acl' = [acl EXCEPT ![k] = AclOf(list)]
    /\ UNCHANGED <<dataVars, expired, req>>

RevokeKey(k) ==
    /\ k \in keys
    /\ keys' = keys \ {k}
    /\ UNCHANGED <<dataVars, issued, acl, expired, req>>

\* Time passes a key's expires_at; its row stays.
Expire(k) ==
    /\ k \in keys \ expired
    /\ expired' = expired \cup {k}
    /\ UNCHANGED <<dataVars, keys, issued, acl, req>>

\* Registry.delete_kb: the knowledge base and all that is in it.
DeleteKb(b) ==
    /\ b \in kbs
    /\ kbs' = kbs \ {b}
    /\ docs' = docs \ {b}
    /\ jobs' = jobs \ {b}
    /\ UNCHANGED <<made, keyVars, req>>

--------------------------------------------------------------------------------

\* The next request is another one.
Leave(r) ==
    /\ At(r, "answered")
    /\ req' = [req EXCEPT ![r] = NoRequest]
    /\ UNCHANGED <<dataVars, keyVars>>

Middleware(r) == \/ RejectOversized(r) \/ CountAddress(r) \/ MasterKey(r)
                 \/ VerifyKey(r) \/ TouchKey(r) \/ CountKey(r)

Route(r) == \/ CreateKb(r) \/ ListKbs(r) \/ RequireKb(r) \/ GetKb(r)
            \/ ReadDocuments(r) \/ Search(r)
            \/ Upload(r) \/ IngestUrl(r) \/ DeleteDocument(r)
            \/ RecordSearch(r) \/ Generate(r) \/ StreamPassthrough(r) \/ Record(r)

Tool(r) == \/ ResolveKb(r) \/ ListKbsTool(r) \/ SearchTool(r) \/ AskTool(r)
           \/ JobStatus(r) \/ IngestPath(r) \/ RecordDenial(r)

Request(r) ==
    \/ \E op \in KbRoutes, who \in Callers \ {"stdio"}, b \in Kbs : Arrive(r, op, who, b)
    \/ \E op \in {"kb_list", "passthrough", "pass_stream"}, who \in Callers \ {"stdio"} : Arrive(r, op, who, 0)
    \/ made < MaxKbs /\ \E who \in Callers \ {"stdio"} : Arrive(r, "kb_create", who, 0)
    \/ \E op \in KbTools, who \in Callers, x \in Kbs \cup Names : Arrive(r, op, who, x)
    \/ \E who \in Callers : Arrive(r, "mcp_list_kbs", who, 0)
    \/ \E who \in Callers, b \in Kbs : Arrive(r, "mcp_status", who, b)
    \/ Leave(r)

Admin ==
    \/ \E k \in Keys : \/ \E list \in (SUBSET kbs) \cup {{Star}} : IssueKey(k, list)
                       \/ RevokeKey(k) \/ Expire(k)
    \/ \E b \in Kbs : DeleteKb(b)

Next == Admin \/ \E r \in Requests : Request(r) \/ Middleware(r) \/ Route(r) \/ Tool(r)

Spec == Init /\ [][Next]_vars

--------------------------------------------------------------------------------
(* Properties *)

\* The rights of a caller: its key's list, all for the master key and stdio.
Rights(who) == IF who \in {"master", "stdio"} THEN {Star}
               ELSE IF who \in Keys THEN acl[who] ELSE {}

\* Whatever route or tool a caller uses, by number or by name, alone or in a
\* list, what it is given or changes is of the knowledge bases its key lists.
AnswersWithinAcl ==
    \A r \in Requests : \A b \in req[r].gave : MayUse(Rights(req[r].who), b)

\* A request that comes with a wrong key, or with one already revoked or expired,
\* is given nothing and changes nothing, whatever was cached or read before.
LateKeyIsRefused ==
    \A r \in Requests : req[r].late =>
        req[r].gave = {} /\ req[r].status \in {"none", "401", "413", "429"}

\* A revoked key stays revoked: the update of last_used_at by a request that was
\* verified before does not bring its row back.
RevokedStaysRevoked == [][\A k \in issued \ keys : k \notin keys']_vars

\* Who used a knowledge base, or the model without one, is in the audit log when the
\* answer is sent, with the caller, the operation and the knowledge base: a search and an
\* ask, both halves of a chat (its search also if the model then failed, or if all that is
\* left is to stream), what was created, ingested or deleted.  A streamed chat without a
\* knowledge base is the exception: the code has no record of it (StreamPassthrough).
UseIsRecorded ==
    \A r \in Requests :
        /\ req[r].status = "ok" /\ req[r].op \in DOMAIN Recorded =>
               <<req[r].who, Recorded[req[r].op], req[r].kb>> \in req[r].logged
        /\ req[r].status \in {"ok", "502"} /\ req[r].op \in Chats =>
               <<req[r].who, "search", req[r].kb>> \in req[r].logged
================================================================================
