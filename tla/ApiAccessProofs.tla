---------------------------- MODULE ApiAccessProofs ----------------------------
(***************************************************************************)
(* Proofs about ApiAccess, for any keys, requests at a time and knowledge  *)
(* bases: type correctness, and that no interleaving of requests with      *)
(* revocations, expiries and deletions lets a caller have more than its    *)
(* key lists, or anything with a key that is over, or unrecorded.          *)
(***************************************************************************)
EXTENDS ApiAccess, TLAPS

--------------------------------------------------------------------------------
(* The inductive invariant, of the keys and of each request. *)

\* A key that is not issued lists nothing.
KeyInv == \A k \in Keys \ issued : acl[k] = {}

\* Callers that are refused, from now on for good.
Over(who) ==
    \/ who \in {"wrong", "none"}
    \/ who \in issued /\ (who \notin keys \/ who \in expired)

\* Operations without a knowledge base.
NoKb == {"passthrough", "pass_stream", "mcp_list_kbs"}

\* What a request is allowed, and was given, is within the rights of its caller.
RightsInv(q) ==
    /\ q.allowed \subseteq Rights(q.who)
    /\ \A b \in q.gave : MayUse(Rights(q.who), b)
    /\ q.pc = "verified" => q.who \in issued

\* Behind the checks of a route or a tool, its knowledge base is one it may use.
KbInv(q) ==
    /\ q.op \in NoKb => q.kb = 0
    /\ (q.pc \in {"work", "log", "generate", "record"} /\ q.op \notin NoKb) =>
           q.kb \in Kbs /\ MayUse(q.allowed, q.kb)

\* A request whose key was over when it arrived does not get past the middleware.
LateInv(q) ==
    q.late => /\ Over(q.who)
              /\ q.pc \in {"arrived", "counted", "answered"}
              /\ q.gave = {}
              /\ q.status \in {"none", "401", "413", "429"}

\* The audit log names the caller; an answer is given when it is written.
RecordInv(q) ==
    /\ q.pc \in {"known", "handler", "work", "log", "generate", "record", "denied"} =>
           q.actor = q.who
    /\ q.pc \in {"log", "record"} => q.op \in DOMAIN Recorded
    /\ q.status = "ok" => q.pc = "answered"
    /\ (q.pc = "generate" /\ q.op = "mcp_ask") => <<q.who, "mcp_ask", q.kb>> \in q.logged
    /\ (q.status = "ok" /\ q.op \in DOMAIN Recorded) =>
           <<q.who, Recorded[q.op], q.kb>> \in q.logged
    /\ (q.op \in Chats /\ (q.pc \in {"generate", "record"} \/ q.status \in {"ok", "502"})) =>
           <<q.who, "search", q.kb>> \in q.logged

ReqInv(q) == RightsInv(q) /\ KbInv(q) /\ LateInv(q) /\ RecordInv(q)

IndInv == TypeOK /\ KeyInv /\ \A r \in Requests : ReqInv(req[r])

\* The conjuncts of TypeOK about the knowledge bases, and about the keys.
DataType ==
    /\ made \in 0..MaxKbs
    /\ kbs \subseteq 1..made
    /\ docs \subseteq Kbs
    /\ jobs \subseteq Kbs

KeyType ==
    /\ keys \subseteq issued
    /\ issued \subseteq Keys
    /\ acl \in [Keys -> SUBSET (Kbs \cup {Star})]
    /\ expired \subseteq Keys

\* What a step leaves of the requests, as long as the keys stay as they are.
ReqNext ==
    /\ req' \in [Requests -> Reqs]
    /\ \A x \in Requests : ReqInv(req'[x])

--------------------------------------------------------------------------------
(* Lemmas *)

USE DEF Chats

LEMMA TypeParts == TypeOK <=> DataType /\ KeyType /\ req \in [Requests -> Reqs]
BY DEF TypeOK, DataType, KeyType

\* The operations that are recorded, and under which names.
LEMMA RecordedType ==
    /\ DOMAIN Recorded = {"search", "chat", "chat_stream", "passthrough", "kb_create",
                          "doc_delete", "upload", "url", "mcp_search", "mcp_ask", "mcp_status",
                          "mcp_ingest", "mcp_list_kbs"}
    /\ \A op \in DOMAIN Recorded : Recorded[op] \in Actions
    /\ Recorded["mcp_ask"] = "mcp_ask"
    /\ Recorded["chat_stream"] = "search" /\ Recorded["chat"] = "chat_rag"
<1>1. DOMAIN Recorded = {"search", "chat", "chat_stream", "passthrough", "kb_create",
                         "doc_delete", "upload", "url", "mcp_search", "mcp_ask", "mcp_status",
                         "mcp_ingest", "mcp_list_kbs"}
  BY DEF Recorded
<1>2. \A op \in DOMAIN Recorded : Recorded[op] \in Actions
  <2>1. /\ Recorded.search \in Actions /\ Recorded.chat \in Actions
        /\ Recorded.chat_stream \in Actions /\ Recorded.passthrough \in Actions
        /\ Recorded.kb_create \in Actions /\ Recorded.doc_delete \in Actions
        /\ Recorded.upload \in Actions
    BY DEF Recorded, Actions
  <2>2. /\ Recorded.url \in Actions /\ Recorded.mcp_search \in Actions
        /\ Recorded.mcp_ask \in Actions /\ Recorded.mcp_status \in Actions
        /\ Recorded.mcp_ingest \in Actions /\ Recorded.mcp_list_kbs \in Actions
    BY DEF Recorded, Actions
  <2>. QED
    BY <1>1, <2>1, <2>2
<1>3. Recorded["mcp_ask"] = "mcp_ask"
  BY DEF Recorded
<1>4. Recorded["chat_stream"] = "search" /\ Recorded["chat"] = "chat_rag"
  BY DEF Recorded
<1>. QED
  BY <1>1, <1>2, <1>3, <1>4

\* A step that changes one request keeps the invariant of all.
LEMMA ChangeOne ==
    ASSUME IndInv, NEW r \in Requests, NEW v \in Reqs, ReqInv(v),
           req' = [req EXCEPT ![r] = v]
    PROVE  ReqNext
BY DEF IndInv, TypeOK, ReqNext

\* A record that is added, of an action with a name.
LEMMA RowType ==
    ASSUME IndInv, NEW r \in Requests, NEW a \in Actions
    PROVE  Row(r, a) \in Rows
<1>1. req[r] \in Reqs
  BY DEF IndInv, TypeOK
<1>. QED
  BY <1>1 DEF Row, Rows, Reqs

\* What is known of a request before a step.
LEMMA Known ==
    ASSUME IndInv, NEW r \in Requests
    PROVE  /\ req[r] \in Reqs /\ ReqInv(req[r])
           /\ DataType /\ KeyType /\ KeyInv
           /\ req \in [Requests -> Reqs]
BY TypeParts DEF IndInv

\* Where a request may stand.
LEMMA PcNames ==
    /\ "answered" \in PCs /\ "generate" \in PCs /\ "log" \in PCs /\ "record" \in PCs
    /\ "denied" \in PCs /\ "work" \in PCs
    /\ "ok" \in Statuses /\ "error" \in Statuses \ {"ok"} /\ "none" \in Statuses \ {"ok"}
BY DEF PCs, Statuses

\* A request that is answered with a refusal or an error.
LEMMA AnswerNext ==
    ASSUME IndInv, NEW r \in Requests, NEW status \in Statuses \ {"ok"}, Answer(r, status),
           req[r].late => status \in {"none", "401", "413", "429"},
           status = "502" /\ req[r].op \in Chats => req[r].pc = "generate"
    PROVE  ReqNext
<1> DEFINE v == [req[r] EXCEPT !.pc = "answered", !.status = status]
<1>1. v \in Reqs
  BY Known DEF Reqs, PCs
<1>2. ReqInv(v)
  BY Known DEF Reqs, ReqInv, RightsInv, KbInv, LateInv, RecordInv
<1>3. req' = [req EXCEPT ![r] = v]
  BY Known DEF Answer, Reqs
<1>. QED
  BY <1>1, <1>2, <1>3, ChangeOne

\* A request that goes on as it is.
LEMMA GotoNext ==
    ASSUME IndInv, NEW r \in Requests, NEW pc \in PCs, Goto(r, pc),
           ReqInv([req[r] EXCEPT !.pc = pc])
    PROVE  ReqNext
<1> DEFINE v == [req[r] EXCEPT !.pc = pc]
<1>1. v \in Reqs
  BY Known DEF Reqs
<1>2. req' = [req EXCEPT ![r] = v]
  BY Known DEF Goto, Reqs
<1>. QED
  BY <1>1, <1>2, ChangeOne

\* A request that is answered with something of knowledge bases it may use, and that
\* is not recorded, or was.
LEMMA ReplyNext ==
    ASSUME IndInv, NEW r \in Requests, NEW given \in SUBSET Kbs, Reply(r, given),
           ~req[r].late,
           \A b \in given : MayUse(req[r].allowed, b),
           req[r].op \notin Chats,
           req[r].op \in DOMAIN Recorded =>
               <<req[r].who, Recorded[req[r].op], req[r].kb>> \in req[r].logged
    PROVE  ReqNext
<1> DEFINE v == [req[r] EXCEPT !.pc = "answered", !.status = "ok", !.gave = @ \cup given]
<1>1. v \in Reqs
  <2>1. req[r].gave \cup given \in SUBSET Kbs
    BY Known DEF Reqs
  <2>2. "answered" \in PCs /\ "ok" \in Statuses
    BY DEF PCs, Statuses
  <2>. QED
    BY <2>1, <2>2, Known DEF Reqs
<1>2. ReqInv(v)
  BY Known DEF Reqs, ReqInv, RightsInv, KbInv, LateInv, RecordInv, MayUse
<1>3. req' = [req EXCEPT ![r] = v]
  BY Known DEF Reply, Reqs
<1>. QED
  BY <1>1, <1>2, <1>3, ChangeOne

--------------------------------------------------------------------------------
(* The steps of a request *)

\* A request that arrives is only late if its caller is refused for good.
LEMMA ArriveNext ==
    ASSUME IndInv, NEW r \in Requests, NEW op \in Routes \cup Tools, NEW who \in Callers,
           NEW kb \in Kbs \cup Names \cup {0}, op \in NoKb => kb = 0,
           Arrive(r, op, who, kb)
    PROVE  ReqNext
<1> DEFINE late == \/ who \in {"wrong", "none"}
                   \/ who \in issued /\ (who \notin keys \/ who \in expired)
           v == [NoRequest EXCEPT !.op = op, !.who = who, !.kb = kb,
                                  !.pc = IF who = "stdio" THEN "handler" ELSE "arrived",
                                  !.allowed = IF who = "stdio" THEN {Star} ELSE {},
                                  !.actor = IF who = "stdio" THEN "stdio" ELSE "none",
                                  !.late = late]
<1>1. late \in BOOLEAN /\ late = Over(who)
  BY DEF Over
<1>2. late => who # "stdio"
  BY Known, KeysAssumption DEF KeyType
<1>3. req' = [req EXCEPT ![r] = v]
  BY DEF Arrive
<1> HIDE DEF late
<1>4. v \in Reqs
  <2>1. {"idle", "arrived", "handler"} \subseteq PCs /\ "none" \in Statuses
        /\ {"none", "stdio"} \subseteq Callers
    BY DEF PCs, Statuses, Callers
  <2>. QED
    BY <1>1, <2>1 DEF Reqs, NoRequest
<1>5. ReqInv(v)
  BY <1>1, <1>2 DEF ReqInv, RightsInv, KbInv, LateInv, RecordInv, NoRequest, Rights, MayUse, NoKb
<1>. QED
  BY <1>3, <1>4, <1>5, ChangeOne

\* The middleware allows a request what its key lists, and lets no late one through.
LEMMA MiddlewareNext ==
    ASSUME IndInv, NEW r \in Requests, Middleware(r)
    PROVE  ReqNext
<1> USE Known
<1> DEFINE q == req[r]
<1>1. CASE RejectOversized(r)
  BY <1>1, AnswerNext DEF RejectOversized, Statuses
<1>2. CASE CountAddress(r)
  <2>1. ReqInv([q EXCEPT !.pc = "counted"])
    BY <1>2 DEF CountAddress, At, Reqs, ReqInv, RightsInv, KbInv, LateInv, RecordInv
  <2>. QED
    BY <1>2, <2>1, AnswerNext, GotoNext DEF CountAddress, Statuses, PCs
<1>3. CASE MasterKey(r)
  <2> DEFINE v == [q EXCEPT !.pc = "known", !.allowed = {Star}, !.actor = q.who]
  <2>1. ~q.late
    BY <1>3, KeysAssumption DEF MasterKey, ReqInv, LateInv, Over, KeyType
  <2>2. v \in Reqs
    BY DEF Reqs, PCs
  <2>3. ReqInv(v)
    BY <1>3, <2>1 DEF MasterKey, At, Reqs, ReqInv, RightsInv, KbInv, LateInv, RecordInv, Rights
  <2>4. req' = [req EXCEPT ![r] = v]
    BY <1>3 DEF MasterKey, Admit, Reqs
  <2>. QED
    BY <2>2, <2>3, <2>4, ChangeOne
<1>4. CASE VerifyKey(r)
  <2>1. ASSUME q.who \in keys \ expired PROVE ReqInv([q EXCEPT !.pc = "verified"])
    BY <1>4, <2>1, KeysAssumption
       DEF VerifyKey, At, Reqs, ReqInv, RightsInv, KbInv, LateInv, RecordInv, KeyType, Over
  <2>. QED
    BY <1>4, <2>1, AnswerNext, GotoNext DEF VerifyKey, Statuses, PCs
<1>5. CASE TouchKey(r)
  <2> DEFINE v == [q EXCEPT !.pc = "known", !.allowed = acl[q.who], !.actor = q.who]
  <2>1. ~q.late /\ q.who \in issued /\ q.who \in Keys
    BY <1>5 DEF TouchKey, At, ReqInv, LateInv, RightsInv, KeyType
  <2>2. Rights(q.who) = acl[q.who]
    BY <2>1, KeysAssumption DEF Rights
  <2>3. v \in Reqs
    BY <2>1 DEF Reqs, PCs, KeyType
  <2>4. ReqInv(v)
    BY <1>5, <2>1, <2>2 DEF TouchKey, At, Reqs, ReqInv, RightsInv, KbInv, LateInv, RecordInv
  <2>5. CASE q.who \in keys
    <3>1. req' = [req EXCEPT ![r] = v]
      BY <1>5, <2>5 DEF TouchKey, Admit, Reqs
    <3>. QED
      BY <2>3, <2>4, <3>1, ChangeOne
  <2>6. CASE q.who \notin keys
    BY <1>5, <2>1, <2>6, AnswerNext DEF TouchKey, Statuses
  <2>. QED
    BY <2>5, <2>6
<1>6. CASE CountKey(r)
  <2>1. ReqInv([q EXCEPT !.pc = "handler"])
    BY <1>6 DEF CountKey, At, Reqs, ReqInv, RightsInv, KbInv, LateInv, RecordInv
  <2>. QED
    BY <1>6, <2>1, AnswerNext, GotoNext DEF CountKey, Statuses, PCs
<1>. QED
  BY <1>1, <1>2, <1>3, <1>4, <1>5, <1>6 DEF Middleware

\* A request behind the checks is given, or changes, its knowledge base, and goes on to
\* be recorded.
LEMMA GiveNext ==
    ASSUME IndInv, NEW r \in Requests, ~req[r].late,
           req[r].pc \in {"work", "handler"}, req[r].op \in (DOMAIN Recorded) \ NoKb,
           req[r].kb \in Kbs, MayUse(req[r].allowed, req[r].kb),
           req' = [req EXCEPT ![r].pc = "log", ![r].gave = {req[r].kb}]
    PROVE  ReqNext
<1> DEFINE v == [req[r] EXCEPT !.pc = "log", !.gave = {req[r].kb}]
<1>1. v \in Reqs
  BY Known DEF Reqs, PCs
<1>2. ReqInv(v)
  BY Known DEF Reqs, ReqInv, RightsInv, KbInv, LateInv, RecordInv, MayUse
<1>3. req' = [req EXCEPT ![r] = v]
  BY Known DEF Reqs
<1>. QED
  BY <1>1, <1>2, <1>3, ChangeOne

\* A request that is past the middleware was not late.
LEMMA NotLate ==
    ASSUME IndInv, NEW r \in Requests,
           req[r].pc \in {"handler", "work", "log", "generate", "record", "denied"}
    PROVE  ~req[r].late
BY Known DEF ReqInv, LateInv

\* The knowledge bases a list shows may be used.
LEMMA VisibleType ==
    ASSUME IndInv, NEW allowed
    PROVE  Visible(allowed) \in SUBSET Kbs /\ \A b \in Visible(allowed) : MayUse(allowed, b)
<1>1. kbs \subseteq Kbs
  BY TypeParts, MaxKbsAssumption DEF IndInv, DataType, Kbs
<1>. QED
  BY <1>1 DEF Visible

\* The routes give nothing before require_kb_access has let the request through.
LEMMA RouteNext ==
    ASSUME IndInv, NEW r \in Requests, CreateKb(r) \/ ListKbs(r) \/ RequireKb(r) \/ GetKb(r)
                                        \/ ReadDocuments(r) \/ Search(r)
    PROVE  ReqNext
<1> USE Known, NotLate
<1> DEFINE q == req[r]
<1>1. CASE CreateKb(r)
  <2>1. CASE Star \notin q.allowed
    BY <1>1, <2>1, AnswerNext DEF CreateKb, At, Statuses
  <2>2. CASE Star \in q.allowed
    <3> DEFINE v == [q EXCEPT !.pc = "log", !.kb = made + 1, !.gave = {made + 1}]
    <3>1. made + 1 \in Kbs
      BY <1>1, <2>2, MaxKbsAssumption DEF CreateKb, DataType, Kbs
    <3>2. v \in Reqs
      BY <3>1 DEF Reqs, PCs
    <3>3. q.op = "kb_create" /\ q.op \in (DOMAIN Recorded) \ NoKb /\ q.pc = "handler"
      BY <1>1, RecordedType DEF CreateKb, At, NoKb
    <3>4. ReqInv(v)
      BY <2>2, <3>1, <3>3 DEF Reqs, ReqInv, RightsInv, KbInv, LateInv, RecordInv, MayUse
    <3>5. req' = [req EXCEPT ![r] = v]
      BY <1>1, <2>2 DEF CreateKb, Reqs
    <3>. QED
      BY <3>2, <3>4, <3>5, ChangeOne
  <2>. QED
    BY <2>1, <2>2
<1>2. CASE ListKbs(r)
  <2>1. q.op \notin DOMAIN Recorded
    BY <1>2, RecordedType DEF ListKbs
  <2>. QED
    BY <1>2, <2>1, VisibleType, ReplyNext DEF ListKbs, At
<1>3. CASE RequireKb(r)
  <2>1. ASSUME MayUse(q.allowed, q.kb), q.kb \in kbs
        PROVE  ReqInv([q EXCEPT !.pc = "work"])
    <3>1. q.kb \in Kbs
      BY <2>1, MaxKbsAssumption DEF DataType, Kbs
    <3>. QED
      BY <1>3, <2>1, <3>1
         DEF RequireKb, At, Reqs, ReqInv, RightsInv, KbInv, LateInv, RecordInv
  <2>. QED
    BY <1>3, <2>1, AnswerNext, GotoNext DEF RequireKb, At, Statuses, PCs
<1>4. CASE GetKb(r)
  <2>1. q.op \notin DOMAIN Recorded /\ q.op \notin NoKb /\ q.op \notin Chats
    BY <1>4, RecordedType DEF GetKb, NoKb
  <2>2. q.kb \in Kbs /\ MayUse(q.allowed, q.kb)
    BY <1>4, <2>1 DEF GetKb, At, ReqInv, KbInv
  <2>3. {q.kb} \in SUBSET Kbs /\ Reply(r, {q.kb}) /\ ~q.late
    BY <1>4, <2>2 DEF GetKb, At
  <2>. QED
    BY <2>1, <2>2, <2>3, ReplyNext
<1>5. CASE ReadDocuments(r)
  <2>1. q.op \notin DOMAIN Recorded /\ q.op \notin NoKb /\ q.op \notin Chats
    BY <1>5, RecordedType DEF ReadDocuments, NoKb
  <2>2. q.kb \in Kbs /\ MayUse(q.allowed, q.kb)
    BY <1>5, <2>1 DEF ReadDocuments, At, ReqInv, KbInv
  <2>3. {q.kb} \in SUBSET Kbs /\ ~q.late
    BY <1>5, <2>2 DEF ReadDocuments, At
  <2>4. CASE Reply(r, {q.kb})
    BY <2>1, <2>2, <2>3, <2>4, ReplyNext
  <2>5. CASE Answer(r, "404")
    BY <2>3, <2>5, AnswerNext DEF Statuses
  <2>. QED
    BY <1>5, <2>4, <2>5 DEF ReadDocuments
<1>6. CASE Search(r)
  <2>1. q.op \in DOMAIN Recorded
    BY <1>6, RecordedType DEF Search
  <2>2. ReqInv([q EXCEPT !.pc = "log"])
    BY <1>6, <2>1 DEF Search, At, Reqs, ReqInv, RightsInv, KbInv, LateInv, RecordInv
  <2>. QED
    BY <1>6, <2>2, GotoNext DEF Search, PCs
<1>. QED
  BY <1>1, <1>2, <1>3, <1>4, <1>5, <1>6

\* Nor do they change anything before.
LEMMA ChangingRouteNext ==
    ASSUME IndInv, NEW r \in Requests, Upload(r) \/ IngestUrl(r) \/ DeleteDocument(r)
    PROVE  ReqNext
<1> USE Known, NotLate
<1> DEFINE q == req[r]
<1>1. q.pc = "work" /\ q.op \in {"upload", "url", "doc_delete"}
  BY DEF Upload, IngestUrl, DeleteDocument, At
<1>2. q.op \in (DOMAIN Recorded) \ NoKb
  BY <1>1, RecordedType DEF NoKb
<1>3. q.kb \in Kbs /\ MayUse(q.allowed, q.kb) /\ ~q.late
  BY <1>1, <1>2 DEF ReqInv, KbInv
<1>4. {"403", "404", "413", "415", "422", "500", "502"} \subseteq Statuses \ {"ok"}
  BY DEF Statuses
<1>5. CASE Upload(r)
  BY <1>1, <1>2, <1>3, <1>4, <1>5, GiveNext, AnswerNext DEF Upload
<1>6. CASE IngestUrl(r)
  BY <1>1, <1>2, <1>3, <1>4, <1>6, GiveNext, AnswerNext DEF IngestUrl
<1>7. CASE DeleteDocument(r)
  BY <1>1, <1>2, <1>3, <1>4, <1>7, GiveNext, AnswerNext DEF DeleteDocument
<1>. QED
  BY <1>5, <1>6, <1>7

\* What is answered as done has been recorded, under the caller's name.
LEMMA RecordNext ==
    ASSUME IndInv, NEW r \in Requests,
           RecordSearch(r) \/ Generate(r) \/ StreamPassthrough(r) \/ Record(r)
    PROVE  ReqNext
<1> USE Known, NotLate
<1> DEFINE q == req[r]
<1>1. CASE RecordSearch(r)
  <2>1. q.op \in Chats /\ q.pc = "log" /\ ~q.late
    BY <1>1 DEF RecordSearch, At
  <2>2. q.op \notin NoKb /\ q.kb \in Kbs /\ MayUse(q.allowed, q.kb) /\ q.actor = q.who
    BY <2>1 DEF NoKb, ReqInv, KbInv, RecordInv
  <2> DEFINE row == Row(r, "search")
  <2>3. {row} \in SUBSET Rows
        /\ row = <<q.who, "search", q.kb>>
    BY <2>2, RowType DEF Actions, Row
  <2> HIDE DEF row
  <2>4. CASE req' = [req EXCEPT ![r].pc = "answered", ![r].status = "ok",
                                ![r].gave = {q.kb}, ![r].logged = {row}]
             /\ q.op = "chat_stream"
    <3> DEFINE v == [q EXCEPT !.pc = "answered", !.status = "ok", !.gave = {q.kb},
                              !.logged = {row}]
    <3>1. {q.kb} \in SUBSET Kbs
      BY <2>2
    <3>2. v \in Reqs
      BY <2>3, <3>1, PcNames DEF Reqs
    <3>3. req' = [req EXCEPT ![r] = v]
      BY <2>4 DEF Reqs
    <3>4. RightsInv(v) /\ KbInv(v) /\ LateInv(v)
      BY <2>1, <2>2, <3>1 DEF Reqs, ReqInv, RightsInv, KbInv, LateInv, MayUse
    <3>5. RecordInv(v)
      BY <2>2, <2>3, <2>4, RecordedType DEF Reqs, RecordInv
    <3>6. ReqInv(v)
      BY <3>4, <3>5 DEF ReqInv
    <3>. QED
      BY <3>2, <3>3, <3>6, ChangeOne
  <2>5. ASSUME NEW pc \in {"generate", "record"},
               req' = [req EXCEPT ![r].pc = pc, ![r].logged = {row}]
        PROVE  ReqNext
    <3> DEFINE v == [q EXCEPT !.pc = pc, !.logged = {row}]
    <3>1. v \in Reqs
      BY <2>3, PcNames DEF Reqs
    <3>2. ReqInv(v)
      BY <2>1, <2>2, <2>3, RecordedType
         DEF Reqs, ReqInv, RightsInv, KbInv, LateInv, RecordInv
    <3>3. req' = [req EXCEPT ![r] = v]
      BY <2>5 DEF Reqs
    <3>. QED
      BY <3>1, <3>2, <3>3, ChangeOne
  <2>. QED
    BY <1>1, <2>4, <2>5 DEF RecordSearch, row
<1>2. CASE Generate(r)
  <2>1. q.op \in {"chat", "passthrough"} /\ q.pc \in {"generate", "handler"} /\ ~q.late
        /\ (q.op = "chat" => q.pc = "generate")
    BY <1>2 DEF Generate, At
  <2>2. q.op \in DOMAIN Recorded
    BY <2>1, RecordedType
  <2>3. ReqInv([q EXCEPT !.pc = "record"])
    BY <2>1, <2>2 DEF NoKb, Reqs, ReqInv, RightsInv, KbInv, LateInv, RecordInv
  <2>. QED
    BY <1>2, <2>1, <2>3, AnswerNext, GotoNext DEF Generate, Statuses, PCs
<1>3. CASE Record(r)
  <2>1. q.pc \in {"log", "record"} /\ ~q.late /\ q.op \in DOMAIN Recorded /\ q.actor = q.who
    BY <1>3 DEF Record, At, ReqInv, RecordInv
  <2> DEFINE row == Row(r, RecordedAs(q.op))
             given == q.gave \cup ({q.kb} \cap Kbs)
             v == [q EXCEPT !.pc = "answered", !.status = "ok", !.gave = given,
                            !.logged = @ \cup {row}]
  <2>2. row \in Rows
        /\ row = <<q.who, RecordedAs(q.op), q.kb>>
    BY <2>1, RowType, RecordedType DEF Row, RecordedAs, Actions
  <2>3. \A b \in {q.kb} \cap Kbs : MayUse(q.allowed, b)
    BY <2>1, MaxKbsAssumption DEF ReqInv, KbInv, Kbs
  <2>4. q.logged \cup {row} \in SUBSET Rows
        /\ given \in SUBSET Kbs
    BY <2>2 DEF Reqs
  <2>5. \A b \in given : MayUse(Rights(q.who), b)
    BY <2>3 DEF ReqInv, RightsInv, MayUse
  <2>6. req' = [req EXCEPT ![r] = v]
    BY <1>3 DEF Record, Reqs
  <2> HIDE DEF row, given
  <2>7. v \in Reqs
    BY <2>4, PcNames DEF Reqs
  <2>8. RightsInv(v) /\ KbInv(v) /\ LateInv(v)
    BY <2>1, <2>5 DEF Reqs, ReqInv, RightsInv, KbInv, LateInv
  <2>9. q.op \in Chats => <<q.who, "search", q.kb>> \in q.logged
    BY <1>3 DEF Record, At, ReqInv, RecordInv
  <2>10. <<q.who, Recorded[q.op], q.kb>> \in q.logged \cup {row}
    <3>1. CASE q.op = "chat_stream"
      BY <2>9, <3>1, RecordedType
    <3>2. CASE q.op # "chat_stream"
      BY <2>2, <3>2, RecordedType DEF RecordedAs
    <3>. QED
      BY <3>1, <3>2
  <2>11. RecordInv(v)
    BY <2>1, <2>9, <2>10 DEF Reqs, RecordInv
  <2>. QED
    BY <2>6, <2>7, <2>8, <2>11, ChangeOne DEF ReqInv
<1>4. CASE StreamPassthrough(r)
  <2>1. q.op = "pass_stream" /\ q.pc = "handler" /\ ~q.late
    BY <1>4 DEF StreamPassthrough, At
  <2>2. q.op \notin DOMAIN Recorded
    BY <2>1, RecordedType
  <2>3. Reply(r, {}) /\ {} \in SUBSET Kbs /\ q.op \notin Chats
    BY <1>4, <2>1 DEF StreamPassthrough
  <2>. QED
    BY <2>1, <2>2, <2>3, ReplyNext
<1>. QED
  BY <1>1, <1>2, <1>3, <1>4

\* A tool works on the knowledge base it resolved and checked; its refusals give nothing.
LEMMA ToolNext ==
    ASSUME IndInv, NEW r \in Requests, Tool(r)
    PROVE  ReqNext
<1> USE Known, NotLate
<1> DEFINE q == req[r]
<1>1. CASE ResolveKb(r)
  <2>1. q.pc = "handler" /\ q.op \in KbTools /\ ~q.late
    BY <1>1 DEF ResolveKb, At
  <2>2. q.op \notin NoKb /\ q.op \notin Chats
    BY <2>1 DEF KbTools, NoKb
  <2>3. ASSUME NEW b \in Candidates(q.kb), MayUse(q.allowed, b),
               req' = [req EXCEPT ![r].pc = "work", ![r].kb = b]
        PROVE  ReqNext
    <3> DEFINE v == [q EXCEPT !.pc = "work", !.kb = b]
    <3>1. b \in Kbs
      BY MaxKbsAssumption DEF Candidates, DataType, Kbs
    <3>2. v \in Reqs
      BY <3>1, PcNames DEF Reqs
    <3>3. ReqInv(v)
      BY <2>1, <2>2, <2>3, <3>1 DEF Reqs, ReqInv, RightsInv, KbInv, LateInv, RecordInv
    <3>4. req' = [req EXCEPT ![r] = v]
      BY <2>3 DEF Reqs
    <3>. QED
      BY <3>2, <3>3, <3>4, ChangeOne
  <2>4. ASSUME Goto(r, "denied") PROVE ReqNext
    <3>1. ReqInv([q EXCEPT !.pc = "denied"])
      BY <2>1, <2>2 DEF Reqs, ReqInv, RightsInv, KbInv, LateInv, RecordInv
    <3>. QED
      BY <2>4, <3>1, PcNames, GotoNext
  <2>5. ASSUME Answer(r, "error") PROVE ReqNext
    BY <2>1, <2>5, PcNames, AnswerNext
  <2>. QED
    BY <1>1, <2>3, <2>4, <2>5 DEF ResolveKb
<1>2. CASE ListKbsTool(r)
  <2> DEFINE given == Visible(q.allowed)
             v == [q EXCEPT !.pc = "log", !.gave = given]
  <2>1. q.pc = "handler" /\ q.op = "mcp_list_kbs" /\ ~q.late /\ q.op \in DOMAIN Recorded
    BY <1>2, RecordedType DEF ListKbsTool, At
  <2>2. given \in SUBSET Kbs /\ \A b \in given : MayUse(q.allowed, b)
    BY VisibleType
  <2>3. req' = [req EXCEPT ![r] = v]
    BY <1>2 DEF ListKbsTool, Reqs
  <2> HIDE DEF given
  <2>4. v \in Reqs
    BY <2>2, PcNames DEF Reqs
  <2>5. ReqInv(v)
    BY <2>1, <2>2 DEF Reqs, ReqInv, RightsInv, KbInv, LateInv, RecordInv, MayUse, NoKb
  <2>. QED
    BY <2>3, <2>4, <2>5, ChangeOne
<1>3. CASE SearchTool(r)
  <2>1. q.op \in DOMAIN Recorded
    BY <1>3, RecordedType DEF SearchTool
  <2>2. ReqInv([q EXCEPT !.pc = "log"])
    BY <1>3, <2>1 DEF SearchTool, At, Reqs, ReqInv, RightsInv, KbInv, LateInv, RecordInv
  <2>. QED
    BY <1>3, <2>2, PcNames, GotoNext DEF SearchTool
<1>4. CASE AskTool(r)
  <2>1. q.op = "mcp_ask" /\ q.pc \in {"log", "generate"} /\ ~q.late
        /\ q.op \notin NoKb /\ q.actor = q.who
    BY <1>4 DEF AskTool, At, NoKb, ReqInv, RecordInv
  <2>2. q.kb \in Kbs /\ MayUse(q.allowed, q.kb)
    BY <2>1 DEF ReqInv, KbInv
  <2>3. CASE q.pc = "log"
    <3> DEFINE row == Row(r, "mcp_ask")
               v == [q EXCEPT !.pc = "generate", !.logged = {row}]
    <3>1. {row} \in SUBSET Rows /\ row = <<q.who, "mcp_ask", q.kb>>
      BY <2>1, RowType DEF Actions, Row
    <3>2. req' = [req EXCEPT ![r] = v]
      BY <1>4, <2>3 DEF AskTool, At, Reqs
    <3> HIDE DEF row
    <3>3. v \in Reqs
      BY <3>1, PcNames DEF Reqs
    <3>4. ReqInv(v)
      BY <2>1, <2>2, <2>3, <3>1 DEF Reqs, ReqInv, RightsInv, KbInv, LateInv, RecordInv
    <3>. QED
      BY <3>2, <3>3, <3>4, ChangeOne
  <2>4. CASE q.pc = "generate"
    <3>1. Answer(r, "error") \/ Reply(r, {q.kb})
      BY <1>4, <2>4 DEF AskTool, At
    <3>2. {q.kb} \in SUBSET Kbs
      BY <2>2
    <3>3. <<q.who, Recorded[q.op], q.kb>> \in q.logged
      BY <2>1, <2>4, RecordedType DEF ReqInv, RecordInv
    <3>. QED
      BY <2>1, <2>2, <3>1, <3>2, <3>3, PcNames, AnswerNext, ReplyNext
  <2>. QED
    BY <2>1, <2>3, <2>4
<1>5. CASE JobStatus(r)
  <2>1. q.pc = "handler" /\ q.op = "mcp_status" /\ ~q.late /\ q.op \in (DOMAIN Recorded) \ NoKb
    BY <1>5, RecordedType DEF JobStatus, At, NoKb
  <2>2. CASE q.kb \notin jobs
    BY <1>5, <2>1, <2>2, PcNames, AnswerNext DEF JobStatus
  <2>3. CASE q.kb \in jobs /\ MayUse(q.allowed, q.kb)
    BY <1>5, <2>1, <2>3, GiveNext DEF JobStatus, DataType
  <2>4. CASE q.kb \in jobs /\ ~MayUse(q.allowed, q.kb)
    <3>1. ReqInv([q EXCEPT !.pc = "denied"])
      BY <2>1 DEF Reqs, ReqInv, RightsInv, KbInv, LateInv, RecordInv
    <3>. QED
      BY <1>5, <2>4, <3>1, PcNames, GotoNext DEF JobStatus
  <2>. QED
    BY <2>2, <2>3, <2>4
<1>6. CASE IngestPath(r)
  <2>1. q.pc = "work" /\ q.op = "mcp_ingest" /\ ~q.late /\ q.op \in (DOMAIN Recorded) \ NoKb
    BY <1>6, RecordedType DEF IngestPath, At, NoKb
  <2>2. q.kb \in Kbs /\ MayUse(q.allowed, q.kb)
    BY <2>1 DEF ReqInv, KbInv
  <2>. QED
    BY <1>6, <2>1, <2>2, PcNames, AnswerNext, GiveNext DEF IngestPath
<1>7. CASE RecordDenial(r)
  <2> DEFINE row == Row(r, "denied")
             v == [q EXCEPT !.pc = "answered", !.status = "error", !.logged = {row}]
  <2>1. ~q.late
    BY <1>7 DEF RecordDenial, At
  <2>2. {row} \in SUBSET Rows
    BY RowType DEF Actions
  <2>3. req' = [req EXCEPT ![r] = v]
    BY <1>7 DEF RecordDenial, Reqs
  <2> HIDE DEF row
  <2>4. v \in Reqs
    BY <2>2, PcNames DEF Reqs
  <2>5. ReqInv(v)
    BY <2>1 DEF Reqs, ReqInv, RightsInv, KbInv, LateInv, RecordInv
  <2>. QED
    BY <2>3, <2>4, <2>5, ChangeOne
<1>. QED
  BY <1>1, <1>2, <1>3, <1>4, <1>5, <1>6, <1>7 DEF Tool

\* A request that comes, and one that is done with.
LEMMA RequestNext ==
    ASSUME IndInv, NEW r \in Requests, Request(r)
    PROVE  ReqNext
<1>1. CASE Leave(r)
  <2>1. NoRequest \in Reqs
    BY DEF NoRequest, Reqs, PCs, Callers, Statuses
  <2>2. ReqInv(NoRequest)
    BY RecordedType DEF NoRequest, ReqInv, RightsInv, KbInv, LateInv, RecordInv, NoKb
  <2>. QED
    BY <1>1, <2>1, <2>2, ChangeOne DEF Leave
<1>2. ASSUME NEW op \in KbRoutes, NEW who \in Callers, NEW b \in Kbs, Arrive(r, op, who, b)
      PROVE  ReqNext
  BY <1>2, ArriveNext DEF Routes, KbRoutes, NoKb
<1>3. ASSUME NEW op \in {"kb_list", "passthrough", "pass_stream", "kb_create", "mcp_list_kbs"},
             NEW who \in Callers, Arrive(r, op, who, 0)
      PROVE  ReqNext
  BY <1>3, ArriveNext DEF Routes, Tools
<1>4. ASSUME NEW op \in KbTools, NEW who \in Callers, NEW x \in Kbs \cup Names,
             Arrive(r, op, who, x)
      PROVE  ReqNext
  BY <1>4, ArriveNext DEF Tools, KbTools, NoKb
<1>5. ASSUME NEW who \in Callers, NEW b \in Kbs, Arrive(r, "mcp_status", who, b)
      PROVE  ReqNext
  BY <1>5, ArriveNext DEF Tools, NoKb
<1>. QED
  BY <1>1, <1>2, <1>3, <1>4, <1>5 DEF Request

\* The tables stay of their types, whatever a request does.
LEMMA DataNext ==
    ASSUME IndInv, NEW r \in Requests, Request(r) \/ Middleware(r) \/ Route(r) \/ Tool(r)
    PROVE  DataType' /\ UNCHANGED <<issued, acl, expired>> /\ keys' = keys
<1> USE Known
<1>1. CASE CreateKb(r)
  BY <1>1, MaxKbsAssumption DEF CreateKb, DataType, keyVars, Kbs
<1>2. ASSUME req[r].pc = "work", req[r].op \in (DOMAIN Recorded) \ NoKb PROVE req[r].kb \in Kbs
  BY <1>2 DEF ReqInv, KbInv
<1>3. CASE Upload(r)
  BY <1>2, <1>3, RecordedType DEF Upload, At, DataType, keyVars, NoKb
<1>4. CASE IngestUrl(r)
  BY <1>2, <1>4, RecordedType DEF IngestUrl, At, DataType, keyVars, NoKb
<1>5. CASE DeleteDocument(r)
  BY <1>5 DEF DeleteDocument, DataType, keyVars
<1>6. CASE IngestPath(r)
  BY <1>2, <1>6, RecordedType DEF IngestPath, At, DataType, keyVars, NoKb
<1>7. CASE UNCHANGED <<dataVars, keyVars>>
  BY <1>7 DEF dataVars, keyVars, DataType
<1>8. Request(r) \/ Middleware(r) => UNCHANGED <<dataVars, keyVars>>
  BY DEF Request, Middleware, Arrive, Leave, RejectOversized, CountAddress, MasterKey,
         VerifyKey, TouchKey, CountKey
<1>9. \/ ListKbs(r) \/ RequireKb(r) \/ GetKb(r) \/ ReadDocuments(r) \/ Search(r)
      \/ RecordSearch(r) \/ Generate(r) \/ StreamPassthrough(r) \/ Record(r)
      => UNCHANGED <<dataVars, keyVars>>
  BY DEF ListKbs, RequireKb, GetKb, ReadDocuments, Search, RecordSearch, Generate,
         StreamPassthrough, Record
<1>10. \/ ResolveKb(r) \/ ListKbsTool(r) \/ SearchTool(r) \/ AskTool(r) \/ JobStatus(r)
       \/ RecordDenial(r)
       => UNCHANGED <<dataVars, keyVars>>
  BY DEF ResolveKb, ListKbsTool, SearchTool, AskTool, JobStatus, RecordDenial
<1>. QED
  BY <1>1, <1>3, <1>4, <1>5, <1>6, <1>7, <1>8, <1>9, <1>10 DEF Route, Tool

--------------------------------------------------------------------------------
(* The admin page *)

\* Rights only grow, and only before a key is used; a caller refused for good stays so.
LEMMA KeysKeepRequests ==
    ASSUME IndInv, UNCHANGED req, issued \subseteq issued',
           \A k \in issued : acl'[k] = acl[k],
           \A k \in issued : (k \notin keys \/ k \in expired) => (k \notin keys' \/ k \in expired')
    PROVE  (\A x \in Requests : ReqInv(req[x]))'
<1>1. \A who : Rights(who) \subseteq Rights(who)' /\ (Over(who) => Over(who)')
  BY DEF IndInv, KeyInv, Rights, Over
<1>2. ASSUME NEW x \in Requests PROVE ReqInv(req[x])'
  <2>1. ReqInv(req[x]) /\ req'[x] = req[x]
    BY DEF IndInv
  <2>2. RightsInv(req[x])'
    BY <1>1, <2>1 DEF ReqInv, RightsInv, MayUse
  <2>3. LateInv(req[x])'
    BY <1>1, <2>1 DEF ReqInv, LateInv
  <2>4. KbInv(req[x])' /\ RecordInv(req[x])'
    BY <2>1 DEF ReqInv, KbInv, RecordInv, MayUse
  <2>. QED
    BY <2>2, <2>3, <2>4 DEF ReqInv
<1>. QED
  BY <1>2

\* The admin page keeps the invariant: a key that was issued keeps its list, and one
\* that is over stays over.
LEMMA AdminNext ==
    ASSUME IndInv, Admin
    PROVE  IndInv'
<1>1. DataType /\ KeyType /\ KeyInv /\ req \in [Requests -> Reqs]
  BY TypeParts DEF IndInv
<1>2. SUFFICES DataType' /\ KeyType' /\ KeyInv' /\ UNCHANGED req
               /\ (\A x \in Requests : ReqInv(req[x]))'
  BY <1>1 DEF IndInv, TypeOK, DataType, KeyType
<1>3. ASSUME NEW k \in Keys, NEW list \in (SUBSET kbs) \cup {{Star}}, IssueKey(k, list)
      PROVE  DataType' /\ KeyType' /\ KeyInv' /\ UNCHANGED req
             /\ (\A x \in Requests : ReqInv(req[x]))'
  <2>1. AclOf(list) \in SUBSET (Kbs \cup {Star})
    BY <1>1, MaxKbsAssumption DEF AclOf, DataType, Kbs
  <2>2. /\ issued' = issued \cup {k} /\ keys' = keys \cup {k} /\ expired' = expired
        /\ acl' = [acl EXCEPT ![k] = AclOf(list)] /\ k \notin issued /\ UNCHANGED dataVars
        /\ UNCHANGED req
    BY <1>3 DEF IssueKey
  <2>3. DataType' /\ KeyType'
    BY <1>1, <2>1, <2>2 DEF dataVars, DataType, KeyType
  <2>4. KeyInv'
    BY <1>1, <2>2 DEF KeyInv, KeyType
  <2>5. /\ issued \subseteq issued'
        /\ \A x \in issued : acl'[x] = acl[x]
        /\ \A x \in issued : (x \notin keys \/ x \in expired) => (x \notin keys' \/ x \in expired')
    BY <1>1, <2>2 DEF KeyType
  <2>. QED
    BY <2>2, <2>3, <2>4, <2>5, KeysKeepRequests
<1>4. ASSUME NEW k \in Keys, RevokeKey(k) \/ Expire(k)
      PROVE  DataType' /\ KeyType' /\ KeyInv' /\ UNCHANGED req
             /\ (\A x \in Requests : ReqInv(req[x]))'
  <2>1. /\ issued' = issued /\ acl' = acl /\ UNCHANGED dataVars /\ UNCHANGED req
        /\ keys' \subseteq keys /\ expired \subseteq expired' /\ expired' \subseteq expired \cup {k}
    BY <1>4 DEF RevokeKey, Expire
  <2>2. DataType' /\ KeyType' /\ KeyInv'
    BY <1>1, <2>1 DEF dataVars, DataType, KeyType, KeyInv
  <2>3. /\ issued \subseteq issued'
        /\ \A x \in issued : acl'[x] = acl[x]
        /\ \A x \in issued : (x \notin keys \/ x \in expired) => (x \notin keys' \/ x \in expired')
    BY <2>1
  <2>. QED
    BY <2>1, <2>2, <2>3, KeysKeepRequests
<1>5. ASSUME NEW b \in Kbs, DeleteKb(b)
      PROVE  DataType' /\ KeyType' /\ KeyInv' /\ UNCHANGED req
             /\ (\A x \in Requests : ReqInv(req[x]))'
  <2>1. UNCHANGED <<keys, issued, acl, expired>> /\ UNCHANGED req
    BY <1>5 DEF DeleteKb, keyVars
  <2>2. DataType' /\ KeyType' /\ KeyInv'
    BY <1>1, <1>5, <2>1 DEF DeleteKb, DataType, KeyType, KeyInv
  <2>. QED
    BY <2>1, <2>2, KeysKeepRequests
<1>. QED
  BY <1>3, <1>4, <1>5 DEF Admin

--------------------------------------------------------------------------------
(* The theorems *)

\* The server starts in the invariant: no request, no key.
LEMMA InitInv == Init => IndInv
<1> SUFFICES ASSUME Init PROVE IndInv
  OBVIOUS
<1>1. NoRequest \in Reqs
  BY DEF NoRequest, Reqs, PCs, Callers, Statuses
<1>2. ReqInv(NoRequest)
  BY RecordedType DEF NoRequest, ReqInv, RightsInv, KbInv, LateInv, RecordInv, NoKb
<1>3. TypeOK
  BY <1>1, MaxKbsAssumption DEF Init, TypeOK
<1>4. KeyInv
  BY DEF Init, KeyInv
<1>. QED
  BY <1>2, <1>3, <1>4 DEF Init, IndInv

\* Every step keeps it.
LEMMA StepInv == IndInv /\ [Next]_vars => IndInv'
<1> SUFFICES ASSUME IndInv, [Next]_vars PROVE IndInv'
  OBVIOUS
<1>1. ASSUME NEW r \in Requests, Request(r) \/ Middleware(r) \/ Route(r) \/ Tool(r)
      PROVE  IndInv'
  <2>1. DataType' /\ UNCHANGED <<issued, acl, expired>> /\ keys' = keys
    BY <1>1, DataNext
  <2>2. ReqNext
    BY <1>1, RequestNext, MiddlewareNext, RouteNext, ChangingRouteNext, RecordNext, ToolNext
       DEF Route
  <2>3. (\A x \in Requests : ReqInv(req[x]))'
    BY <2>1, <2>2
       DEF ReqNext, ReqInv, RightsInv, KbInv, LateInv, RecordInv, Over, Rights, MayUse
  <2>4. KeyType' /\ KeyInv'
    BY <2>1, TypeParts DEF IndInv, KeyType, KeyInv
  <2>5. TypeOK'
    BY <2>1, <2>2, <2>4 DEF ReqNext, TypeOK, DataType, KeyType
  <2>. QED
    BY <2>3, <2>4, <2>5 DEF IndInv
<1>2. CASE UNCHANGED vars
  <2>1. UNCHANGED <<made, kbs, docs, jobs, keys, issued, acl, expired>> /\ UNCHANGED req
    BY <1>2 DEF vars, dataVars, keyVars
  <2>2. TypeOK' /\ KeyInv'
    BY <2>1 DEF IndInv, TypeOK, KeyInv
  <2>3. (\A x \in Requests : ReqInv(req[x]))'
    BY <2>1 DEF IndInv, ReqInv, RightsInv, KbInv, LateInv, RecordInv, Over, Rights, MayUse
  <2>. QED
    BY <2>2, <2>3 DEF IndInv
<1>. QED
  BY <1>1, <1>2, AdminNext DEF Next

LEMMA Inductive == Spec => []IndInv
BY InitInv, StepInv, PTL DEF Spec

\* The tables and the requests of apps/api and apps/mcp are always of their types.
THEOREM TypeCorrect == Spec => []TypeOK
<1>1. IndInv => TypeOK
  BY DEF IndInv
<1>. QED
  BY <1>1, Inductive, PTL

\* No caller is ever given, or changes, what its key does not list, by whatever route
\* of main.py or tool of server.py, and whatever is revoked or deleted meanwhile.
THEOREM AccessWithinAcl == Spec => []AnswersWithinAcl
<1>1. IndInv => AnswersWithinAcl
  BY DEF IndInv, ReqInv, RightsInv, AnswersWithinAcl
<1>. QED
  BY <1>1, Inductive, PTL

\* A request that arrives with a key that is over is refused by the middleware of main.py.
THEOREM LateKeyRefused == Spec => []LateKeyIsRefused
<1>1. IndInv => LateKeyIsRefused
  BY DEF IndInv, ReqInv, LateInv, LateKeyIsRefused
<1>. QED
  BY <1>1, Inductive, PTL

\* What was answered as done has its audit row, under the name of its caller, a chat the
\* row of its search too; but a streamed chat without a knowledge base has none.
THEOREM UseRecorded == Spec => []UseIsRecorded
<1>1. IndInv => UseIsRecorded
  BY DEF IndInv, ReqInv, RecordInv, UseIsRecorded
<1>. QED
  BY <1>1, Inductive, PTL

\* No step of verify_api_key, or of any request, brings back the row of a revoked key.
THEOREM RevokedForever == Spec => RevokedStaysRevoked
<1>1. IndInv /\ [Next]_vars => [\A k \in issued \ keys : k \notin keys']_vars
  <2> SUFFICES ASSUME IndInv, Next PROVE \A k \in issued \ keys : k \notin keys'
    OBVIOUS
  <2>1. ASSUME NEW r \in Requests, Request(r) \/ Middleware(r) \/ Route(r) \/ Tool(r)
        PROVE  keys' = keys
    BY <2>1, DataNext
  <2>2. ASSUME Admin PROVE \A k \in issued \ keys : k \notin keys'
    BY <2>2 DEF Admin, IssueKey, RevokeKey, Expire, DeleteKb, keyVars
  <2>. QED
    BY <2>1, <2>2 DEF Next
<1>. QED
  BY <1>1, Inductive, PTL DEF Spec, RevokedStaysRevoked
================================================================================
