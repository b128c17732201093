------------------------------ MODULE KbAdminProofs ------------------------------
(***************************************************************************)
(* Proofs about KbAdmin, for any threads, bounds and page size: type       *)
(* correctness, that a knowledge base goes once, for good, recorded and,   *)
(* if nothing was being added, completely, and that the list page never    *)
(* rests on a page beyond the last.                                        *)
(***************************************************************************)
EXTENDS KbAdmin, FiniteSetTheorems, WellFoundedInduction, TLAPS

--------------------------------------------------------------------------------
(* The inductive invariant *)

\* A load of the list that was not refused, and may be shown.
Loading(q) == q.op = "list" /\ (q.pc = "answered" => q.ok)

\* An undisturbed load is of the current page, and of the knowledge bases as they are.
LoadInv(q) ==
    (Loading(q) /\ ~q.disturbed) =>
        /\ q.page = page
        /\ q.pc \in {"read", "answered"} => q.total = Cardinality(kbs)
        /\ q.pc = "answered" => q.read = OnPage(page)

\* What a request works on was created; a deletion is recorded before it is done.
WorkInv(q) ==
    /\ q.kb \in 0..made
    /\ q.pc = "idle" => q.op = "none"
    /\ q.op = "list" => /\ q.read \subseteq 1..made /\ q.total \in 0..made
                        /\ q.pc \in {"sent", "read", "answered"}
    /\ (q.op \in Ops \ {"create", "list"} /\ q.pc \notin {"idle", "answered"}) => q.kb # 0
    /\ (q.op = "delete" /\ q.pc \in {"read", "write"}) => q.kb \in audit

\* An undisturbed load is the only one.
Alone ==
    \A t, u \in Threads : (t # u /\ Loading(req[t]) /\ ~req[t].disturbed) => req[u].op # "list"

\* The page as it rests, undisturbed and with no load under way.
Rests == ~disturbed /\ \A t \in Threads : req[t].op # "list"
RestInv == Rests => items = OnPage(page) /\ total = Cardinality(kbs)

\* A knowledge base is not deleted before it is there, and gone afterwards.
OnceInv == \A b \in Kbs : deleted[b] <= 1 /\ (b \in kbs \/ b > made => deleted[b] = 0)

\* Chunks of a knowledge base that is there are of documents that are there.
ChunkInv == \A b \in kbs : DocsOf(chunks, b) \subseteq docs

\* Nothing is added any more to one deleted while nothing was.
Quiet(b) == b \in (1..made) \ (kbs \cup unquiet)
QuietInv == \A b \in 1..made : Quiet(b) => ~Filling(b)

KbType == made \in 0..MaxKbs /\ kbs \subseteq 1..made

DocType ==
    /\ uploads \in 0..MaxDocs /\ docs \subseteq (1..uploads) \X (1..made)
    /\ chunks \subseteq (1..uploads) \X (1..made)

PastType ==
    /\ notes \in 0..MaxAnns /\ anns \subseteq (1..notes) \X (1..made)
    /\ audit \subseteq 1..made /\ unquiet \subseteq 1..made /\ deleted \in [Kbs -> Nat]

PageType ==
    /\ total \in 0..made /\ page \in 1..TotalPages(total) /\ items \subseteq 1..made
    /\ disturbed \in BOOLEAN

ReqType == req \in [Threads -> Reqs] /\ \A t \in Threads : WorkInv(req[t]) /\ LoadInv(req[t])

IndInv ==
    /\ KbType /\ DocType /\ PastType /\ PageType /\ ReqType
    /\ DeletionIsRecorded /\ OnceInv
    /\ ChunkInv /\ QuietInv /\ QuietDeletionIsComplete
    /\ Alone /\ RestInv

--------------------------------------------------------------------------------
(* Lemmas about sets of numbers and pages *)

\* A set of natural numbers that is not empty has a least one.
LEMMA LeastNumber ==
    ASSUME NEW S \in SUBSET Nat, S # {}
    PROVE  \E x \in S : \A y \in S : x <= y
<1>. DEFINE Less == {ss \in Nat \X Nat : ss[1] < ss[2]}
<1>1. IsWellFoundedOn(Less, Nat)
  BY NatLessThanWellFounded DEF OpToRel
<1>2. PICK x \in S : \A y \in S : ~(<<y, x>> \in Less)
  <2>. HIDE DEF Less
  <2>. QED
    BY <1>1, WFMin
<1>3. ASSUME NEW y \in S PROVE x <= y
  <2>1. y < x => <<y, x>> \in Less
    OBVIOUS
  <2>2. ~(y < x)
    BY <1>2, <2>1, Zenon
  <2>. QED
    BY <2>2
<1>. QED
  BY <1>3

\* The numbers of a set below another: how many there are.
Below(S, b) == {c \in S : c < b}

LEMMA Counting ==
    ASSUME NEW n \in Nat, NEW S \in SUBSET (1..n)
    PROVE  /\ IsFiniteSet(S) /\ Cardinality(S) \in 0..n
           /\ (Cardinality(S) = 0 <=> S = {})
           /\ \A b \in Nat : /\ IsFiniteSet(Below(S, b)) /\ Cardinality(Below(S, b)) \in Nat
                             /\ Below(S, b + 1) = IF b \in S THEN Below(S, b) \cup {b}
                                                             ELSE Below(S, b)
           /\ Below(S, 0) = {} /\ Below(S, n + 1) = S
<1>1. IsFiniteSet(1..n) /\ Cardinality(1..n) = n
  BY FS_Interval
<1>2. IsFiniteSet(S) /\ Cardinality(S) \in Nat /\ Cardinality(S) <= n
  BY <1>1, FS_Subset, FS_CardinalityType
<1>3. Cardinality(S) = 0 <=> S = {}
  BY <1>2, FS_EmptySet
<1>4. ASSUME NEW b \in Nat
      PROVE  /\ IsFiniteSet(Below(S, b)) /\ Cardinality(Below(S, b)) \in Nat
             /\ Below(S, b + 1) = IF b \in S THEN Below(S, b) \cup {b} ELSE Below(S, b)
  <2>1. Below(S, b) \subseteq S
    BY DEF Below
  <2>2. IsFiniteSet(Below(S, b)) /\ Cardinality(Below(S, b)) \in Nat
    BY <1>2, <2>1, FS_Subset, FS_CardinalityType
  <2>3. Below(S, b + 1) = IF b \in S THEN Below(S, b) \cup {b} ELSE Below(S, b)
    <3>1. ASSUME NEW c \in S PROVE c < b + 1 <=> c < b \/ c = b
      OBVIOUS
    <3>2. \A c : c \in Below(S, b + 1) <=> c \in Below(S, b) \/ (c = b /\ b \in S)
      BY <3>1 DEF Below
    <3>. QED
      BY <3>2
  <2>. QED
    BY <2>2, <2>3
<1>5. Below(S, 0) = {} /\ Below(S, n + 1) = S
  <2>1. ASSUME NEW c \in S PROVE ~(c < 0) /\ c < n + 1
    OBVIOUS
  <2>. QED
    BY <2>1 DEF Below
<1>. QED
  BY <1>2, <1>3, <1>4, <1>5

\* Every rank below the number of elements is the rank of one.
LEMMA RankOfOne ==
    ASSUME NEW n \in Nat, NEW S \in SUBSET (1..n), NEW r \in Nat, r < Cardinality(S)
    PROVE  \E b \in S : Cardinality(Below(S, b)) = r
<1>. DEFINE Above == {b \in Nat : Cardinality(Below(S, b)) > r}
<1>1. n + 1 \in Above
  <2>1. Below(S, n + 1) = S
    BY Counting
  <2>. QED
    BY <2>1
<1>2. PICK x \in Above : \A y \in Above : x <= y
  BY <1>1, LeastNumber
<1>3. x # 0
  <2>1. Below(S, 0) = {} /\ Cardinality({}) = 0
    BY Counting, FS_EmptySet
  <2>2. Cardinality(Below(S, x)) > r
    BY <1>2
  <2>. QED
    BY <2>1, <2>2
<1>4. PICK b \in Nat : b + 1 = x /\ b \notin Above
  <2>1. x - 1 \in Nat /\ (x - 1) + 1 = x /\ ~(x <= x - 1)
    BY <1>2, <1>3
  <2>. QED
    BY <1>2, <2>1
<1>5. /\ IsFiniteSet(Below(S, b)) /\ Cardinality(Below(S, b)) \in Nat
      /\ Below(S, b + 1) = IF b \in S THEN Below(S, b) \cup {b} ELSE Below(S, b)
  BY <1>4, Counting
<1>6. Cardinality(Below(S, b)) <= r /\ Cardinality(Below(S, x)) > r
  BY <1>2, <1>4, <1>5
<1>7. b \in S
  BY <1>4, <1>5, <1>6
<1>8. Cardinality(Below(S, x)) = Cardinality(Below(S, b)) + 1
  <2>1. b \notin Below(S, b)
    BY <1>4 DEF Below
  <2>. QED
    BY <1>4, <1>5, <1>7, <2>1, FS_AddElement
<1>. QED
  BY <1>5, <1>6, <1>7, <1>8

\* There is a page at least, and the last one begins within what it is to show.
LEMMA PagesType ==
    ASSUME NEW n \in Nat
    PROVE  /\ TotalPages(n) \in Nat \ {0}
           /\ n > 0 => (TotalPages(n) - 1) * PageSize < n
<1>1. CASE n = 0
  BY <1>1 DEF TotalPages
<1>2. CASE n > 0
  <2>1. TotalPages(n) = (n + PageSize - 1) \div PageSize
    BY <1>2 DEF TotalPages
  <2>2. n + PageSize - 1 \in Nat /\ n + PageSize - 1 >= PageSize
    BY <1>2, PageSizeAssumption
  <2>. QED
    BY <1>2, <2>1, <2>2, PageSizeAssumption
<1>. QED
  BY <1>1, <1>2

\* A page that is there shows something, if there is anything.
LEMMA PageShows ==
    ASSUME KbType, NEW p \in 1..TotalPages(Cardinality(kbs)), kbs # {}
    PROVE  OnPage(p) # {}
<1>. DEFINE n == Cardinality(kbs)
            r == (p - 1) * PageSize
<1>1. made \in Nat /\ kbs \in SUBSET (1..made)
  BY BoundsAssumption DEF KbType
<1>2. n \in Nat /\ n > 0
  <2>1. n \in 0..made /\ (n = 0 <=> kbs = {})
    BY <1>1, Counting
  <2>2. n # 0
    BY <2>1
  <2>3. PICK m \in 0..made : m = n
    BY <2>1
  <2>. QED
    BY <1>1, <2>2, <2>3
<1>3. TotalPages(n) \in Nat \ {0} /\ (TotalPages(n) - 1) * PageSize < n
  BY <1>2, PagesType
<1>4. r \in Nat /\ r < n
  BY <1>2, <1>3, PageSizeAssumption
<1>5. PICK b \in kbs : Cardinality(Below(kbs, b)) = r
  BY <1>1, <1>4, RankOfOne
<1>6. r \in r..(p * PageSize - 1)
  BY <1>4, PageSizeAssumption
<1>. QED
  BY <1>5, <1>6 DEF OnPage, Below

--------------------------------------------------------------------------------
(* Lemmas about steps of one request *)

LEMMA Known ==
    ASSUME IndInv, NEW t \in Threads
    PROVE  /\ req[t] \in Reqs /\ WorkInv(req[t]) /\ LoadInv(req[t])
           /\ KbType /\ DocType /\ PastType /\ PageType /\ ReqType
           /\ made \in Nat /\ MaxKbs \in Nat /\ MaxDocs \in Nat /\ MaxAnns \in Nat
BY BoundsAssumption DEF IndInv, ReqType, KbType

\* A request that does not start a load, nor becomes one.
LEMMA OneReq ==
    ASSUME IndInv, NEW t \in Threads, NEW v \in Reqs, req' = [req EXCEPT ![t] = v],
           UNCHANGED <<kbVars, pageVars>>, audit \subseteq audit',
           WorkInv(v)', LoadInv(v),
           v.op = "list" <=> req[t].op = "list",
           Loading(v) /\ ~v.disturbed => Loading(req[t]) /\ ~req[t].disturbed
    PROVE  KbType' /\ PageType' /\ ReqType' /\ Alone' /\ RestInv'
<1>1. KbType /\ PageType /\ ReqType /\ Alone /\ RestInv
  BY DEF IndInv
<1>2. UNCHANGED <<made, kbs, page, total, items, disturbed>>
  BY DEF kbVars, pageVars
<1>3. KbType' /\ PageType'
  <2>1. KbType'
    BY <1>1, <1>2 DEF KbType
  <2>2. TotalPages(total)' = TotalPages(total)
    BY <1>2 DEF TotalPages
  <2>3. UNCHANGED disturbed
    BY <1>2
  <2>. QED
    BY <1>1, <1>2, <2>1, <2>2, <2>3 DEF PageType
<1>4. \A p : OnPage(p)' = OnPage(p)
  BY <1>2 DEF OnPage
<1>5. ReqType'
  <2>1. \A q : WorkInv(q) => WorkInv(q)'
    BY <1>2 DEF WorkInv
  <2>2. \A q : LoadInv(q) => LoadInv(q)'
    BY <1>2, <1>4 DEF LoadInv
  <2>. QED
    BY <1>1, <2>1, <2>2 DEF ReqType
<1>6. \A x \in Threads : req'[x].op = "list" <=> req[x].op = "list"
  BY <1>1 DEF ReqType
<1>7. Alone'
  <2>1. \A x \in Threads : Loading(req'[x]) /\ ~req'[x].disturbed
                           => Loading(req[x]) /\ ~req[x].disturbed
    BY <1>1 DEF ReqType
  <2>. QED
    BY <1>1, <1>6, <2>1 DEF Alone, Loading
<1>8. RestInv'
  BY <1>1, <1>2, <1>4, <1>6 DEF RestInv, Rests
<1>. QED
  BY <1>3, <1>5, <1>7, <1>8

\* A request that begins to fill has seen the knowledge base.
Fills(q) == q.op \in {"upload", "annotate"} /\ q.pc \in {"work", "read", "write"}

LEMMA OneFills ==
    ASSUME ReqType, NEW t \in Threads, NEW v \in Reqs, req' = [req EXCEPT ![t] = v],
           Fills(v) => v.kb \in kbs \/ (Fills(req[t]) /\ req[t].kb = v.kb)
    PROVE  \A b : Filling(b)' => b \in kbs \/ Filling(b)
BY DEF ReqType, Filling, Fills

\* A step of one request, which may record something.
LEMMA OneNext ==
    ASSUME IndInv, NEW t \in Threads, NEW v \in Reqs, req' = [req EXCEPT ![t] = v],
           UNCHANGED <<kbVars, docVars, annVars, deleted, unquiet, pageVars>>,
           audit \subseteq audit', audit' \subseteq 1..made,
           WorkInv(v)', LoadInv(v),
           v.op = "list" <=> req[t].op = "list",
           Loading(v) /\ ~v.disturbed => Loading(req[t]) /\ ~req[t].disturbed,
           Fills(v) => v.kb \in kbs \/ (Fills(req[t]) /\ req[t].kb = v.kb)
    PROVE  IndInv'
<1>1. KbType' /\ PageType' /\ ReqType' /\ Alone' /\ RestInv'
  BY OneReq
<1>2. UNCHANGED <<made, kbs, uploads, docs, chunks, notes, anns, deleted, unquiet>>
  BY DEF kbVars, docVars, annVars
<1>3. DocType' /\ PastType'
  BY <1>2 DEF IndInv, DocType, PastType
<1>4. DeletionIsRecorded' /\ OnceInv' /\ ChunkInv' /\ QuietDeletionIsComplete'
  BY <1>2 DEF IndInv, DeletionIsRecorded, OnceInv, ChunkInv, QuietDeletionIsComplete, DocsOf
<1>5. QuietInv'
  <2>1. \A b : Filling(b)' => b \in kbs \/ Filling(b)
    BY OneFills DEF IndInv
  <2>. QED
    BY <1>2, <2>1 DEF IndInv, QuietInv, Quiet
<1>. QED
  BY <1>1, <1>3, <1>4, <1>5 DEF IndInv

LEMMA NoRequestType ==
    ASSUME made \in Nat
    PROVE  NoRequest \in Reqs /\ WorkInv(NoRequest) /\ LoadInv(NoRequest)
<1>1. NoRequest \in Reqs
  <2>1. MaxKbs \in Nat
    BY BoundsAssumption
  <2>. QED
    BY <2>1 DEF NoRequest, Reqs, PCs
<1>2. WorkInv(NoRequest)
  BY DEF NoRequest, WorkInv, Ops
<1>3. LoadInv(NoRequest)
  BY DEF NoRequest, LoadInv, Loading
<1>. QED
  BY <1>1, <1>2, <1>3

\* A request that is over; a load only if it failed.
LEMMA FinishedType ==
    ASSUME IndInv, NEW t \in Threads, NEW ok \in BOOLEAN, ok => req[t].op # "list"
    PROVE  /\ Finished(t, ok) \in Reqs /\ WorkInv(Finished(t, ok)) /\ ~Loading(Finished(t, ok))
           /\ Finished(t, ok).op = req[t].op /\ Finished(t, ok).pc = "answered"
<1>. DEFINE v == Finished(t, ok)
<1>1. req[t] \in Reqs /\ made \in Nat /\ WorkInv(req[t])
  BY Known
<1>2. v \in Reqs
  <2>1. NoRequest \in Reqs /\ "answered" \in PCs
    BY <1>1, NoRequestType DEF PCs
  <2>. QED
    BY <1>1, <2>1 DEF Finished, Reqs
<1>3. v.op = req[t].op /\ v.pc = "answered" /\ v.ok = ok
      /\ v.kb = 0 /\ v.read = {} /\ v.total = 0
  BY DEF Finished, NoRequest
<1>. HIDE DEF v
<1>4. WorkInv(v)
  BY <1>1, <1>3 DEF WorkInv
<1>5. ~Loading(v)
  BY <1>3 DEF Loading
<1>. QED
  BY <1>2, <1>3, <1>4, <1>5 DEF v

LEMMA FinishNext ==
    ASSUME IndInv, NEW t \in Threads, NEW ok \in BOOLEAN, ok => req[t].op # "list",
           Finish(t, ok), UNCHANGED <<kbVars, docVars, annVars, pastVars, pageVars>>
    PROVE  IndInv'
<1>1. PICK v \in Reqs : v = Finished(t, ok)
  BY FinishedType
<1>2. /\ WorkInv(v) /\ ~Loading(v) /\ v.op = req[t].op /\ v.pc = "answered"
      /\ req' = [req EXCEPT ![t] = v]
  BY <1>1, FinishedType DEF Finish
<1>3. UNCHANGED <<made, audit, deleted, unquiet>>
  BY DEF kbVars, pastVars
<1>4. WorkInv(v)' /\ LoadInv(v) /\ ~Fills(v)
  BY <1>2, <1>3 DEF WorkInv, LoadInv, Fills
<1>5. audit' \subseteq 1..made
  BY <1>3 DEF IndInv, PastType
<1>. QED
  BY <1>2, <1>3, <1>4, <1>5, OneNext

\* A request that gets on and is no load; if that begins to fill, it has seen the
\* knowledge base.
LEMMA GotoNext ==
    ASSUME IndInv, NEW t \in Threads, NEW pc \in PCs \ {"idle", "answered"}, Goto(t, pc),
           UNCHANGED <<kbVars, docVars, annVars, deleted, unquiet, pageVars>>,
           audit' = audit \/ audit' = audit \cup {req[t].kb},
           req[t].op \notin {"list", "none"}, req[t].pc \notin {"idle", "answered"},
           req[t].op = "delete" /\ pc \in {"read", "write"} => req[t].kb \in audit',
           req[t].kb \in kbs \/ Fills(req[t]) \/ req[t].op \notin {"upload", "annotate"}
               \/ pc = "log",
           audit' = audit \/ req[t].kb # 0
    PROVE  IndInv'
<1>1. /\ req[t] \in Reqs /\ WorkInv(req[t]) /\ LoadInv(req[t]) /\ made \in Nat
      /\ audit \subseteq 1..made
  BY Known DEF PastType
<1>2. PICK v \in Reqs : v = [req[t] EXCEPT !.pc = pc]
  BY <1>1 DEF Reqs
<1>3. v.op = req[t].op /\ v.pc = pc /\ v.kb = req[t].kb
  BY <1>1, <1>2 DEF Reqs
<1>4. req' = [req EXCEPT ![t] = v]
  BY <1>2 DEF Goto
<1>5. made' = made
  BY DEF kbVars
<1>6. WorkInv(v)'
  BY <1>1, <1>3, <1>5 DEF WorkInv
<1>7. ~Loading(v) /\ LoadInv(v)
  BY <1>3 DEF Loading, LoadInv
<1>8. audit \subseteq audit' /\ audit' \subseteq 1..made
  BY <1>1 DEF WorkInv
<1>9. Fills(v) => v.kb \in kbs \/ (Fills(req[t]) /\ req[t].kb = v.kb)
  BY <1>3 DEF Fills
<1>. QED
  BY <1>3, <1>4, <1>6, <1>7, <1>8, <1>9, OneNext

--------------------------------------------------------------------------------
(* The routes that change nothing but their request *)

LEMMA FailNext ==
    ASSUME IndInv, NEW t \in Threads, Fail(t)
    PROVE  IndInv'
BY FinishNext DEF Fail

LEMMA AnswerNext ==
    ASSUME IndInv, NEW t \in Threads, RecordAndAnswer(t) \/ ReadDetail(t)
    PROVE  IndInv'
<1>1. req[t].op # "list"
  BY Known DEF RecordAndAnswer, ReadDetail, At, WorkInv
<1>. QED
  BY <1>1, FinishNext DEF RecordAndAnswer, ReadDetail

\* Looking for the knowledge base, and reading or writing its row.
LEMMA RowNext ==
    ASSUME IndInv, NEW t \in Threads, RequireKb(t) \/ ReadRow(t) \/ WriteRow(t)
    PROVE  IndInv'
<1>1. /\ UNCHANGED <<kbVars, docVars, annVars, pastVars, pageVars>>
      /\ UNCHANGED <<audit, deleted, unquiet>>
  BY DEF RequireKb, ReadRow, WriteRow, pastVars
<1>2. CASE Finish(t, FALSE)
  BY <1>1, <1>2, FinishNext
<1>3. CASE RequireKb(t) /\ req[t].kb \in kbs /\ Goto(t, "work")
  <2>1. "work" \in PCs \ {"idle", "answered"}
    BY DEF PCs
  <2>. QED
    BY <1>1, <1>3, <2>1, GotoNext DEF RequireKb
<1>4. CASE ReadRow(t) /\ Goto(t, "write")
  <2>1. "write" \in PCs \ {"idle", "answered"}
    BY DEF PCs
  <2>. QED
    BY <1>1, <1>4, <2>1, GotoNext DEF ReadRow, At
<1>5. CASE WriteRow(t) /\ Goto(t, "log")
  <2>1. "log" \in PCs \ {"idle", "answered"}
    BY DEF PCs
  <2>. QED
    BY <1>1, <1>5, <2>1, GotoNext DEF WriteRow, At
<1>. QED
  BY <1>2, <1>3, <1>4, <1>5 DEF RequireKb, ReadRow, WriteRow

LEMMA RecordDeletionNext ==
    ASSUME IndInv, NEW t \in Threads, RecordDeletion(t)
    PROVE  IndInv'
<1>1. "read" \in PCs \ {"idle", "answered"} /\ req[t].kb # 0
  BY Known DEF PCs, RecordDeletion, At, WorkInv, Ops
<1>. QED
  BY <1>1, GotoNext DEF RecordDeletion, At

\* Requests that read which documents or annotations there are.
LEMMA ReadIdsNext ==
    ASSUME IndInv, NEW t \in Threads, ReadDocIds(t) \/ FindDocument(t) \/ FindAnnotation(t)
    PROVE  IndInv'
<1>1. /\ req[t] \in Reqs /\ WorkInv(req[t]) /\ DocType /\ PastType
      /\ made \in Nat /\ MaxDocs \in Nat /\ MaxAnns \in Nat
  BY Known
<1>2. /\ UNCHANGED <<kbVars, docVars, annVars, pastVars, pageVars>>
      /\ UNCHANGED <<made, audit, deleted, unquiet>>
  BY DEF ReadDocIds, FindDocument, FindAnnotation, pastVars, kbVars
<1>3. ASSUME NEW read \in SUBSET Nat,
             req' = [req EXCEPT ![t].pc = "write", ![t].read = read],
             \/ At(t, "delete", "read") \/ At(t, "delete_doc", "work")
             \/ At(t, "annotate", "work")
      PROVE  IndInv'
  <2>1. PICK v \in Reqs : v = [req[t] EXCEPT !.pc = "write", !.read = read]
    BY <1>1 DEF Reqs, PCs
  <2>2. v.op = req[t].op /\ v.pc = "write" /\ v.kb = req[t].kb
    BY <1>1, <2>1 DEF Reqs
  <2>3. req' = [req EXCEPT ![t] = v]
    BY <1>3, <2>1 DEF IndInv, ReqType
  <2>4. WorkInv(v)'
    BY <1>1, <1>2, <1>3, <2>2 DEF WorkInv, At
  <2>5. ~Loading(v) /\ LoadInv(v)
    BY <1>3, <2>2 DEF Loading, LoadInv, At
  <2>6. Fills(v) => Fills(req[t]) /\ req[t].kb = v.kb
    BY <1>3, <2>2 DEF Fills, At
  <2>7. audit' \subseteq 1..made
    BY <1>1, <1>2 DEF PastType
  <2>. QED
    BY <1>2, <2>2, <2>3, <2>4, <2>5, <2>6, <2>7, OneNext
<1>4. /\ \A d \in docs : d[1] \in Nat
      /\ \A a \in anns : a[1] \in Nat
  BY <1>1 DEF DocType, PastType
<1>5. CASE ReadDocIds(t)
  <2>1. {d[1] : d \in DocsOf(docs, req[t].kb)} \in SUBSET Nat
    BY <1>4 DEF DocsOf
  <2>. QED
    BY <1>3, <1>5, <2>1 DEF ReadDocIds
<1>6. CASE FindDocument(t)
  <2>1. CASE Finish(t, FALSE)
    BY <1>2, <2>1, FinishNext
  <2>2. CASE \E d \in DocsOf(docs, req[t].kb) :
                 req' = [req EXCEPT ![t].pc = "write", ![t].read = {d[1]}]
    <3>1. PICK d \in docs : req' = [req EXCEPT ![t].pc = "write", ![t].read = {d[1]}]
      BY <2>2 DEF DocsOf
    <3>2. {d[1]} \in SUBSET Nat
      BY <1>4
    <3>. QED
      BY <1>3, <1>6, <3>1, <3>2 DEF FindDocument
  <2>. QED
    BY <1>6, <2>1, <2>2 DEF FindDocument
<1>7. CASE FindAnnotation(t)
  <2>1. {a[1] : a \in DocsOf(anns, req[t].kb)} \in SUBSET Nat
    BY <1>4 DEF DocsOf
  <2>. QED
    BY <1>3, <1>7, <2>1 DEF FindAnnotation
<1>. QED
  BY <1>5, <1>6, <1>7

--------------------------------------------------------------------------------
(* The list *)

LEMMA CountKbsNext ==
    ASSUME IndInv, NEW t \in Threads, CountKbs(t)
    PROVE  IndInv'
<1>1. /\ req[t] \in Reqs /\ WorkInv(req[t]) /\ LoadInv(req[t]) /\ KbType /\ PastType
      /\ made \in Nat /\ MaxKbs \in Nat
  BY Known
<1>2. /\ At(t, "list", "sent")
      /\ req' = [req EXCEPT ![t].pc = "read", ![t].total = Cardinality(kbs)]
      /\ UNCHANGED <<kbVars, docVars, annVars, pageVars>>
      /\ UNCHANGED <<made, audit, deleted, unquiet>>
  BY DEF CountKbs, pastVars, kbVars
<1>3. PICK n \in 0..MaxKbs : n = Cardinality(kbs) /\ n \in 0..made
  <2>1. Cardinality(kbs) \in 0..made
    BY <1>1, Counting DEF KbType
  <2>. QED
    BY <1>1, <2>1 DEF KbType
<1>4. PICK v \in Reqs : v = [req[t] EXCEPT !.pc = "read", !.total = n]
  BY <1>1 DEF Reqs, PCs
<1>5. /\ v.op = "list" /\ v.pc = "read" /\ v.kb = req[t].kb /\ v.total = n
      /\ v.read = req[t].read /\ v.page = req[t].page /\ v.disturbed = req[t].disturbed
  BY <1>1, <1>2, <1>4 DEF Reqs, At
<1>6. req' = [req EXCEPT ![t] = v]
  BY <1>2, <1>3, <1>4 DEF IndInv, ReqType
<1>7. WorkInv(v)'
  BY <1>1, <1>2, <1>3, <1>5 DEF WorkInv, At
<1>8. Loading(req[t]) /\ LoadInv(v) /\ ~Fills(v)
  BY <1>1, <1>2, <1>3, <1>5 DEF LoadInv, Loading, At, Fills
<1>9. audit' \subseteq 1..made /\ req[t].op = "list"
  BY <1>1, <1>2 DEF PastType, At
<1>. QED
  BY <1>2, <1>5, <1>6, <1>7, <1>8, <1>9, OneNext

LEMMA ListPageNext ==
    ASSUME IndInv, NEW t \in Threads, ListPage(t)
    PROVE  IndInv'
<1>1. /\ req[t] \in Reqs /\ WorkInv(req[t]) /\ LoadInv(req[t]) /\ KbType /\ PastType
      /\ made \in Nat /\ MaxKbs \in Nat
  BY Known
<1>2. /\ At(t, "list", "read")
      /\ req' = [req EXCEPT ![t].pc = "answered", ![t].read = OnPage(req[t].page),
                            ![t].ok = TRUE]
      /\ UNCHANGED <<kbVars, docVars, annVars, pageVars>>
      /\ UNCHANGED <<made, audit, deleted, unquiet>>
  BY DEF ListPage, pastVars, kbVars
<1>3. PICK shown \in SUBSET (1..made) : shown = OnPage(req[t].page)
  BY <1>1 DEF OnPage, KbType
<1>4. shown \in SUBSET Nat
  BY <1>1, <1>3
<1>5. PICK v \in Reqs : v = [req[t] EXCEPT !.pc = "answered", !.read = shown, !.ok = TRUE]
  BY <1>1, <1>4 DEF Reqs, PCs
<1>6. /\ v.op = "list" /\ v.pc = "answered" /\ v.kb = req[t].kb /\ v.total = req[t].total
      /\ v.read = shown /\ v.page = req[t].page /\ v.disturbed = req[t].disturbed
  BY <1>1, <1>2, <1>5 DEF Reqs, At
<1>7. req' = [req EXCEPT ![t] = v]
  BY <1>2, <1>3, <1>5 DEF IndInv, ReqType
<1>8. WorkInv(v)'
  BY <1>1, <1>2, <1>3, <1>6 DEF WorkInv, At
<1>9. Loading(req[t]) /\ LoadInv(v) /\ ~Fills(v)
  BY <1>1, <1>2, <1>3, <1>6 DEF LoadInv, Loading, At, Fills
<1>10. audit' \subseteq 1..made /\ req[t].op = "list"
  BY <1>1, <1>2 DEF PastType, At
<1>. QED
  BY <1>2, <1>6, <1>7, <1>8, <1>9, <1>10, OneNext

--------------------------------------------------------------------------------
(* Documents and annotations *)

\* A request that fills, or takes away, under way: what it writes is of a knowledge base
\* that is there, or that was not deleted quietly.
LEMMA DataNext ==
    ASSUME IndInv, NEW t \in Threads, NEW v \in Reqs, req' = [req EXCEPT ![t] = v],
           UNCHANGED <<kbVars, pastVars, pageVars>>,
           v.op = req[t].op, v.kb \in {req[t].kb, 0}, v.pc \in {"write", "log", "answered"},
           v.pc # "answered" => v.kb = req[t].kb,
           Fills(req[t]) \/ req[t].op = "delete_doc",
           req[t].kb # 0, DocType', notes' \in 0..MaxAnns, anns' \subseteq (1..notes') \X (1..made),
           ChunkInv',
           \A d \in docs' \cup chunks' \cup anns' :
               \/ d \in docs \cup chunks \cup anns
               \/ Fills(req[t]) /\ d[2] = req[t].kb
    PROVE  IndInv'
<1>1. /\ req[t] \in Reqs /\ WorkInv(req[t]) /\ KbType /\ PastType /\ ReqType
      /\ DeletionIsRecorded /\ OnceInv /\ QuietInv /\ QuietDeletionIsComplete /\ made \in Nat
  BY Known DEF IndInv
<1>2. UNCHANGED <<made, kbs, audit, deleted, unquiet>>
  BY DEF kbVars, pastVars
<1>3. ~Loading(v) /\ LoadInv(v) /\ req[t].op # "list"
  BY DEF Loading, LoadInv, Fills
<1>4. WorkInv(v)'
  BY <1>1, <1>2, <1>3 DEF WorkInv, Fills
<1>5. KbType' /\ PageType' /\ ReqType' /\ Alone' /\ RestInv'
  BY <1>2, <1>3, <1>4, OneReq
<1>6. Fills(v) => Fills(req[t]) /\ req[t].kb = v.kb
  BY DEF Fills
<1>7. PastType' /\ DeletionIsRecorded' /\ OnceInv'
  BY <1>1, <1>2 DEF PastType, DeletionIsRecorded, OnceInv
<1>8. QuietInv'
  <2>1. \A b : Filling(b)' => b \in kbs \/ Filling(b)
    BY <1>1, <1>6, OneFills
  <2>. QED
    BY <1>1, <1>2, <2>1 DEF QuietInv, Quiet
<1>9. QuietDeletionIsComplete'
  <2>. SUFFICES ASSUME NEW b \in (1..made) \ (kbs \cup unquiet),
                       NEW d \in docs' \cup chunks' \cup anns', d[2] = b
                PROVE  FALSE
    BY <1>2 DEF QuietDeletionIsComplete, DocsOf
  <2>1. DocsOf(docs \cup chunks \cup anns, b) = {} /\ ~Filling(b)
    BY <1>1 DEF QuietDeletionIsComplete, QuietInv, Quiet
  <2>2. d \notin docs \cup chunks \cup anns
    BY <2>1 DEF DocsOf
  <2>3. Fills(req[t]) /\ d[2] = req[t].kb
    BY <2>2
  <2>. QED
    BY <2>1, <2>3 DEF Fills, Filling
<1>. QED
  BY <1>5, <1>7, <1>8, <1>9 DEF IndInv

\* A request that gets on, as DataNext wants it.
LEMMA MovedReq ==
    ASSUME IndInv, NEW t \in Threads, NEW pc \in {"write", "log"}, NEW read \in SUBSET Nat
    PROVE  \E v \in Reqs : /\ v = [req[t] EXCEPT !.pc = pc, !.read = read]
                           /\ v.op = req[t].op /\ v.kb = req[t].kb /\ v.pc = pc
<1>1. req[t] \in Reqs
  BY Known
<1>2. PICK v \in Reqs : v = [req[t] EXCEPT !.pc = pc, !.read = read]
  BY <1>1 DEF Reqs, PCs
<1>. QED
  BY <1>1, <1>2 DEF Reqs

LEMMA CreateDocumentNext ==
    ASSUME IndInv, NEW t \in Threads, CreateDocument(t)
    PROVE  IndInv'
<1>1. /\ req[t] \in Reqs /\ WorkInv(req[t]) /\ KbType /\ DocType /\ PastType
      /\ made \in Nat /\ MaxDocs \in Nat /\ ChunkInv
  BY Known DEF IndInv
<1>2. /\ At(t, "upload", "work")
      /\ UNCHANGED <<kbVars, chunks, annVars, pastVars, pageVars>>
      /\ UNCHANGED <<made, kbs, notes, anns, audit, deleted, unquiet>>
  BY DEF CreateDocument, kbVars, annVars, pastVars
<1>3. req[t].kb \in 1..made /\ Fills(req[t])
  BY <1>1, <1>2 DEF WorkInv, At, Fills, Ops
<1>4. CASE Finish(t, FALSE) /\ UNCHANGED <<uploads, docs>>
  BY <1>2, <1>4, FinishNext DEF docVars
<1>5. CASE Goto(t, "log") /\ UNCHANGED <<uploads, docs>>
  <2>1. "log" \in PCs \ {"idle", "answered"}
    BY DEF PCs
  <2>2. UNCHANGED <<kbVars, docVars, annVars, deleted, unquiet, pageVars>> /\ audit' = audit
    BY <1>2, <1>5 DEF docVars
  <2>. QED
    BY <1>2, <1>5, <2>1, <2>2, GotoNext DEF At
<1>6. CASE /\ uploads < MaxDocs /\ uploads' = uploads + 1
           /\ docs' = docs \cup {<<uploads', req[t].kb>>}
           /\ req' = [req EXCEPT ![t].pc = "write", ![t].read = {uploads'}]
  <2>1. uploads \in Nat /\ uploads' \in 1..MaxDocs
    BY <1>1, <1>6 DEF DocType
  <2>2. PICK read \in SUBSET Nat : read = {uploads'}
    <3>1. uploads' \in Nat
      BY <1>1, <2>1
    <3>2. {uploads'} \in SUBSET Nat
      BY <3>1
    <3>. QED
      BY <3>2
  <2>3. PICK v \in Reqs : /\ v = [req[t] EXCEPT !.pc = "write", !.read = read]
                          /\ v.op = req[t].op /\ v.kb = req[t].kb /\ v.pc = "write"
    BY MovedReq
  <2>4. req' = [req EXCEPT ![t] = v]
    BY <1>6, <2>2, <2>3 DEF IndInv, ReqType
  <2>5. DocType'
    <3>1. (1..uploads) \X (1..made) \subseteq (1..uploads') \X (1..made')
      BY <1>2, <1>6, <2>1
    <3>2. <<uploads', req[t].kb>> \in (1..uploads') \X (1..made')
      BY <1>2, <1>3, <2>1
    <3>3. uploads' \in 0..MaxDocs
      BY <2>1
    <3>. QED
      BY <1>1, <1>2, <1>6, <3>1, <3>2, <3>3 DEF DocType
  <2>6. ChunkInv'
    BY <1>1, <1>2, <1>6 DEF ChunkInv, DocsOf
  <2>7. \A d \in docs' \cup chunks' \cup anns' :
            d \in docs \cup chunks \cup anns \/ d[2] = req[t].kb
    BY <1>2, <1>6
  <2>8. notes' \in 0..MaxAnns /\ anns' \subseteq (1..notes') \X (1..made) /\ req[t].kb # 0
    BY <1>1, <1>2, <1>3 DEF PastType
  <2>. QED
    BY <1>2, <1>3, <2>3, <2>4, <2>5, <2>6, <2>7, <2>8, DataNext
<1>. QED
  BY <1>4, <1>5, <1>6 DEF CreateDocument

LEMMA WriteChunksNext ==
    ASSUME IndInv, NEW t \in Threads, WriteChunks(t)
    PROVE  IndInv'
<1>. DEFINE written == {d \in docs : d[1] \in req[t].read}
<1>1. /\ req[t] \in Reqs /\ WorkInv(req[t]) /\ KbType /\ DocType /\ PastType
      /\ made \in Nat /\ MaxDocs \in Nat /\ ChunkInv
  BY Known DEF IndInv
<1>2. /\ At(t, "upload", "write")
      /\ UNCHANGED <<kbVars, uploads, docs, annVars, pastVars, pageVars>>
      /\ UNCHANGED <<made, kbs, notes, anns>>
  BY DEF WriteChunks, kbVars, annVars
<1>3. req[t].kb \in 1..made /\ Fills(req[t])
  BY <1>1, <1>2 DEF WorkInv, At, Fills, Ops
<1>4. CASE Finish(t, FALSE) /\ UNCHANGED chunks
  BY <1>2, <1>4, FinishNext DEF docVars
<1>5. CASE chunks' = chunks \cup written /\ Goto(t, "log")
  <2>1. req[t].read \in SUBSET Nat /\ req[t] = [req[t] EXCEPT !.read = req[t].read]
    BY <1>1 DEF Reqs
  <2>2. PICK v \in Reqs : /\ v = [req[t] EXCEPT !.pc = "log", !.read = req[t].read]
                          /\ v.op = req[t].op /\ v.kb = req[t].kb /\ v.pc = "log"
    BY <2>1, MovedReq
  <2>3. req' = [req EXCEPT ![t] = v]
    <3>1. v = [req[t] EXCEPT !.pc = "log"]
      BY <1>1, <2>2 DEF Reqs
    <3>. QED
      BY <1>5, <3>1 DEF Goto
  <2>4. DocType'
    BY <1>1, <1>2, <1>5 DEF DocType
  <2>5. ChunkInv'
    BY <1>1, <1>2, <1>5 DEF ChunkInv, DocsOf
  <2>6. \A d \in docs' \cup chunks' \cup anns' : d \in docs \cup chunks \cup anns
    BY <1>2, <1>5
  <2>7. notes' \in 0..MaxAnns /\ anns' \subseteq (1..notes') \X (1..made) /\ req[t].kb # 0
    BY <1>1, <1>2, <1>3 DEF PastType
  <2>. QED
    BY <1>2, <1>3, <2>2, <2>3, <2>4, <2>5, <2>6, <2>7, DataNext
<1>. QED
  BY <1>4, <1>5 DEF WriteChunks

LEMMA DeleteDocumentNext ==
    ASSUME IndInv, NEW t \in Threads, DeleteDocument(t)
    PROVE  IndInv'
<1>1. /\ req[t] \in Reqs /\ WorkInv(req[t]) /\ KbType /\ DocType /\ PastType
      /\ made \in Nat /\ MaxDocs \in Nat /\ ChunkInv
  BY Known DEF IndInv
<1>2. /\ At(t, "delete_doc", "write")
      /\ docs' = {d \in docs : d[1] \notin req[t].read}
      /\ chunks' = {d \in chunks : d[1] \notin req[t].read}
      /\ Finish(t, TRUE)
      /\ UNCHANGED <<kbVars, uploads, annVars, pastVars, pageVars>>
      /\ UNCHANGED <<made, kbs, notes, anns>>
  BY DEF DeleteDocument, kbVars, annVars
<1>3. req[t].kb # 0 /\ req[t].op = "delete_doc"
  BY <1>1, <1>2 DEF WorkInv, At, Ops
<1>4. PICK v \in Reqs : /\ v = Finished(t, TRUE) /\ v.op = req[t].op /\ v.pc = "answered"
                        /\ v.kb = 0
  BY <1>3, FinishedType DEF Finished, NoRequest
<1>5. req' = [req EXCEPT ![t] = v]
  BY <1>2, <1>4 DEF Finish
<1>6. DocType'
  BY <1>1, <1>2 DEF DocType
<1>7. ChunkInv'
  BY <1>1, <1>2 DEF ChunkInv, DocsOf
<1>8. \A d \in docs' \cup chunks' \cup anns' : d \in docs \cup chunks \cup anns
  BY <1>2
<1>9. notes' \in 0..MaxAnns /\ anns' \subseteq (1..notes') \X (1..made)
  BY <1>1, <1>2 DEF PastType
<1>. QED
  BY <1>2, <1>3, <1>4, <1>5, <1>6, <1>7, <1>8, <1>9, DataNext

LEMMA WriteAnnotationNext ==
    ASSUME IndInv, NEW t \in Threads, WriteAnnotation(t)
    PROVE  IndInv'
<1>1. /\ req[t] \in Reqs /\ WorkInv(req[t]) /\ KbType /\ DocType /\ PastType
      /\ made \in Nat /\ MaxAnns \in Nat /\ ChunkInv
  BY Known DEF IndInv
<1>2. /\ At(t, "annotate", "write")
      /\ UNCHANGED <<kbVars, docVars, pastVars, pageVars>>
      /\ UNCHANGED <<made, kbs, uploads, docs, chunks, audit, deleted, unquiet>>
  BY DEF WriteAnnotation, kbVars, docVars, pastVars
<1>3. req[t].kb \in 1..made /\ Fills(req[t])
  BY <1>1, <1>2 DEF WorkInv, At, Fills, Ops
<1>4. CASE Finish(t, FALSE) /\ UNCHANGED annVars
  BY <1>2, <1>4, FinishNext
<1>5. CASE Goto(t, "log") /\ UNCHANGED annVars
  <2>1. "log" \in PCs \ {"idle", "answered"}
    BY DEF PCs
  <2>. QED
    BY <1>2, <1>5, <2>1, GotoNext DEF At
<1>6. CASE /\ notes < MaxAnns /\ notes' = notes + 1
           /\ anns' = anns \cup {<<notes', req[t].kb>>} /\ Goto(t, "log")
  <2>1. req[t].read \in SUBSET Nat
    BY <1>1 DEF Reqs
  <2>2. PICK v \in Reqs : /\ v = [req[t] EXCEPT !.pc = "log", !.read = req[t].read]
                          /\ v.op = req[t].op /\ v.kb = req[t].kb /\ v.pc = "log"
    BY <2>1, MovedReq
  <2>3. req' = [req EXCEPT ![t] = v]
    <3>1. v = [req[t] EXCEPT !.pc = "log"]
      BY <1>1, <2>2 DEF Reqs
    <3>. QED
      BY <1>6, <3>1 DEF Goto
  <2>4. DocType' /\ ChunkInv'
    BY <1>1, <1>2 DEF DocType, ChunkInv, DocsOf
  <2>5. notes' \in 0..MaxAnns /\ anns' \subseteq (1..notes') \X (1..made)
    <3>1. notes \in Nat /\ notes' \in 1..MaxAnns
      BY <1>1, <1>6 DEF PastType
    <3>2. (1..notes) \X (1..made) \subseteq (1..notes') \X (1..made)
      BY <1>6, <3>1
    <3>3. <<notes', req[t].kb>> \in (1..notes') \X (1..made)
      BY <1>3, <3>1
    <3>. QED
      BY <1>1, <1>6, <3>1, <3>2, <3>3 DEF PastType
  <2>6. \A d \in docs' \cup chunks' \cup anns' :
            d \in docs \cup chunks \cup anns \/ d[2] = req[t].kb
    BY <1>2, <1>6
  <2>7. req[t].kb # 0
    BY <1>3
  <2>. QED
    BY <1>2, <1>3, <2>2, <2>3, <2>4, <2>5, <2>6, <2>7, DataNext
<1>. QED
  BY <1>4, <1>5, <1>6 DEF WriteAnnotation

--------------------------------------------------------------------------------
(* Knowledge bases come and go *)

\* A request with another mark of disturbance is the same request otherwise.
LEMMA Marked ==
    ASSUME NEW q \in Reqs, NEW d \in BOOLEAN
    PROVE  \E v \in Reqs : /\ v = [q EXCEPT !.disturbed = d]
                           /\ v.op = q.op /\ v.pc = q.pc /\ v.kb = q.kb /\ v.read = q.read
                           /\ v.total = q.total /\ v.ok = q.ok /\ v.page = q.page
                           /\ v.disturbed = d
<1>1. PICK v \in Reqs : v = [q EXCEPT !.disturbed = d]
  BY DEF Reqs
<1>. QED
  BY <1>1 DEF Reqs

\* After Disturb no load is undisturbed, and nothing else has changed but one request.
LEMMA Disturbed ==
    ASSUME NEW reqs \in [Threads -> Reqs], Disturb(reqs)
    PROVE  /\ req' \in [Threads -> Reqs]
           /\ \A x \in Threads :
                 /\ req'[x].op = reqs[x].op /\ req'[x].pc = reqs[x].pc /\ req'[x].kb = reqs[x].kb
                 /\ req'[x].read = reqs[x].read /\ req'[x].total = reqs[x].total
                 /\ reqs[x].op = "list" => req'[x].disturbed
<1>1. ASSUME NEW x \in Threads
      PROVE  /\ req'[x] \in Reqs
             /\ req'[x].op = reqs[x].op /\ req'[x].pc = reqs[x].pc /\ req'[x].kb = reqs[x].kb
             /\ req'[x].read = reqs[x].read /\ req'[x].total = reqs[x].total
             /\ reqs[x].op = "list" => req'[x].disturbed
  <2>1. PICK d \in BOOLEAN : d = (reqs[x].disturbed \/ reqs[x].op = "list")
    <3>1. (reqs[x].disturbed \/ reqs[x].op = "list") \in BOOLEAN
      OBVIOUS
    <3>. QED
      BY <3>1, Zenon
  <2>2. req'[x] = [reqs[x] EXCEPT !.disturbed = d]
    BY <2>1 DEF Disturb
  <2>3. reqs[x].op = "list" => d
    BY <2>1, Zenon
  <2>. QED
    BY <2>2, <2>3, Marked
<1>2. req' = [x \in Threads |-> req'[x]]
  BY DEF Disturb
<1>3. req' \in [Threads -> Reqs]
  BY <1>1, <1>2
<1>. QED
  BY <1>1, <1>3

\* So the loads are as they should be, once knowledge bases have come or gone.
LEMMA DisturbNext ==
    ASSUME IndInv, NEW t \in Threads, NEW v \in Reqs, Disturb([req EXCEPT ![t] = v]),
           WorkInv(v)', KbType', made' >= made, audit' = audit,
           UNCHANGED <<page, total, items>>
    PROVE  /\ PageType' /\ ReqType' /\ Alone' /\ RestInv'
           /\ \A x \in Threads \ {t} : /\ req'[x].op = req[x].op /\ req'[x].pc = req[x].pc
                                       /\ req'[x].kb = req[x].kb
           /\ req'[t].op = v.op /\ req'[t].pc = v.pc /\ req'[t].kb = v.kb
<1>. DEFINE reqs == [req EXCEPT ![t] = v]
<1>1. reqs \in [Threads -> Reqs] /\ ReqType /\ PageType /\ made \in Nat
  BY Known DEF ReqType
<1>2. made' \in Nat /\ 1..made \subseteq 1..made'
  BY <1>1, BoundsAssumption DEF KbType
<1>3. /\ req' \in [Threads -> Reqs]
      /\ \A x \in Threads :
            /\ req'[x].op = reqs[x].op /\ req'[x].pc = reqs[x].pc /\ req'[x].kb = reqs[x].kb
            /\ req'[x].read = reqs[x].read /\ req'[x].total = reqs[x].total
            /\ reqs[x].op = "list" => req'[x].disturbed
  <2>. HIDE DEF reqs
  <2>1. Disturb(reqs)
    BY DEF reqs
  <2>. QED
    BY <1>1, <2>1, Disturbed
<1>4. \A x \in Threads \ {t} : reqs[x] = req[x]
  BY <1>1
<1>5. reqs[t] = v
  BY <1>1 DEF ReqType
<1>. HIDE DEF reqs
<1>6. PageType'
  <2>1. TotalPages(total)' = TotalPages(total)
    BY DEF TotalPages
  <2>2. total' \in 0..made' /\ items' \subseteq 1..made'
    BY <1>1, <1>2 DEF PageType
  <2>3. disturbed' \in BOOLEAN
    BY Zenon DEF Disturb
  <2>. QED
    BY <1>1, <2>1, <2>2, <2>3 DEF PageType
<1>7. ReqType'
  <2>1. ASSUME NEW x \in Threads PROVE WorkInv(req[x])'
    <3>1. CASE x = t
      BY <1>3, <1>5, <3>1 DEF WorkInv
    <3>2. CASE x # t
      <4>1. WorkInv(req[x]) /\ reqs[x] = req[x]
        BY <1>1, <1>4, <3>2 DEF ReqType
      <4>2. req[x].kb \in 0..made => req[x].kb \in 0..made'
        BY <1>1, <1>2
      <4>3. req[x].total \in 0..made => req[x].total \in 0..made'
        BY <1>1, <1>2
      <4>. QED
        BY <1>2, <1>3, <4>1, <4>2, <4>3 DEF WorkInv
    <3>. QED
      BY <3>1, <3>2
  <2>2. \A x \in Threads : LoadInv(req[x])'
    BY <1>3 DEF LoadInv, Loading
  <2>. QED
    BY <1>3, <2>1, <2>2 DEF ReqType
<1>8. Alone'
  BY <1>3 DEF Alone, Loading
<1>9. RestInv'
  BY DEF RestInv, Rests, Disturb
<1>. QED
  BY <1>3, <1>4, <1>5, <1>6, <1>7, <1>8, <1>9

LEMMA CreateKbNext ==
    ASSUME IndInv, NEW t \in Threads, CreateKb(t)
    PROVE  IndInv'
<1>1. /\ req[t] \in Reqs /\ WorkInv(req[t]) /\ KbType /\ DocType /\ PastType /\ ReqType
      /\ DeletionIsRecorded /\ OnceInv /\ ChunkInv /\ QuietInv /\ QuietDeletionIsComplete
      /\ made \in Nat /\ MaxKbs \in Nat
  BY Known DEF IndInv
<1>2. /\ At(t, "create", "sent") /\ made < MaxKbs /\ made' = made + 1 /\ kbs' = kbs \cup {made'}
      /\ UNCHANGED <<uploads, docs, chunks, notes, anns, audit, deleted, unquiet,
                     page, total, items>>
  BY DEF CreateKb, docVars, annVars, pastVars
<1>3. made' \in 1..MaxKbs /\ 1..made \subseteq 1..made' /\ made' \notin 1..made
      /\ 1..made' = (1..made) \cup {made'} /\ made' >= made
  BY <1>1, <1>2
<1>4. PICK pc \in {"work", "log"} : Disturb([req EXCEPT ![t].kb = made', ![t].pc = pc])
  BY DEF CreateKb
<1>5. PICK n \in Kbs : n = made'
  BY <1>3 DEF Kbs
<1>6. PICK v \in Reqs : v = [req[t] EXCEPT !.kb = n, !.pc = pc]
  BY <1>1 DEF Reqs, PCs
<1>7. v.op = "create" /\ v.pc = pc /\ v.kb = n
  BY <1>1, <1>2, <1>6 DEF Reqs, At
<1>8. Disturb([req EXCEPT ![t] = v])
  <2>1. [req EXCEPT ![t] = v] = [req EXCEPT ![t].kb = made', ![t].pc = pc]
    BY <1>1, <1>5, <1>6 DEF ReqType
  <2>. QED
    BY <1>4, <2>1
<1>9. WorkInv(v)' /\ ~Fills(v)
  BY <1>1, <1>3, <1>5, <1>7 DEF WorkInv, Fills
<1>10. KbType'
  BY <1>1, <1>2, <1>3 DEF KbType
<1>11. /\ PageType' /\ ReqType' /\ Alone' /\ RestInv'
       /\ \A x \in Threads \ {t} : /\ req'[x].op = req[x].op /\ req'[x].pc = req[x].pc
                                   /\ req'[x].kb = req[x].kb
       /\ req'[t].op = "create"
  BY <1>2, <1>3, <1>7, <1>8, <1>9, <1>10, DisturbNext
<1>12. DocType' /\ PastType'
  <2>1. /\ (1..uploads) \X (1..made) \subseteq (1..uploads) \X (1..made')
        /\ (1..notes) \X (1..made) \subseteq (1..notes) \X (1..made')
    BY <1>3
  <2>. QED
    BY <1>1, <1>2, <1>3, <2>1 DEF DocType, PastType
<1>13. DeletionIsRecorded'
  BY <1>1, <1>2, <1>3 DEF DeletionIsRecorded
<1>14. OnceInv'
  <2>1. deleted[made'] = 0
    BY <1>1, <1>2, <1>3 DEF OnceInv, Kbs
  <2>2. \A b \in Kbs : b > made' => b > made
    BY <1>1, <1>2 DEF Kbs
  <2>. QED
    BY <1>1, <1>2, <2>1, <2>2 DEF OnceInv
<1>15. ChunkInv'
  <2>1. DocsOf(chunks, made') = {}
    BY <1>1, <1>3 DEF DocsOf, DocType
  <2>. QED
    BY <1>1, <1>2, <2>1 DEF ChunkInv, DocsOf
<1>16. \A b \in 1..made' : Quiet(b)' => b \in 1..made /\ Quiet(b)
  BY <1>2, <1>3 DEF Quiet
<1>17. QuietInv'
  BY <1>1, <1>11, <1>16 DEF QuietInv, Filling
<1>18. QuietDeletionIsComplete'
  <2>1. \A b \in (1..made') \ (kbs' \cup unquiet') : b \in (1..made) \ (kbs \cup unquiet)
    BY <1>2, <1>3
  <2>. QED
    BY <1>1, <1>2, <2>1 DEF QuietDeletionIsComplete, DocsOf
<1>. QED
  BY <1>10, <1>11, <1>12, <1>13, <1>14, <1>15, <1>17, <1>18 DEF IndInv

\* A knowledge base deleted while nothing filled it had only documents that the deletion
\* has read, with their chunks.
LEMMA DeleteRowsNext ==
    ASSUME IndInv, NEW t \in Threads, DeleteRows(t)
    PROVE  IndInv'
<1>. DEFINE b == req[t].kb
<1>1. /\ req[t] \in Reqs /\ WorkInv(req[t]) /\ KbType /\ DocType /\ PastType /\ ReqType
      /\ DeletionIsRecorded /\ OnceInv /\ ChunkInv /\ QuietInv /\ QuietDeletionIsComplete
      /\ made \in Nat /\ MaxKbs \in Nat
  BY Known DEF IndInv
<1>2. At(t, "delete", "write") /\ UNCHANGED <<made, uploads, notes, audit, page, total, items>>
  BY DEF DeleteRows
<1>3. CASE /\ Finish(t, FALSE)
           /\ UNCHANGED <<kbs, docs, chunks, anns, deleted, unquiet, disturbed>>
  <2>1. UNCHANGED <<kbVars, docVars, annVars, pastVars, pageVars>>
    BY <1>2, <1>3 DEF kbVars, docVars, annVars, pastVars, pageVars
  <2>. QED
    BY <1>3, <2>1, FinishNext
<1>4. CASE b \in kbs /\ ~(/\ Finish(t, FALSE)
           /\ UNCHANGED <<kbs, docs, chunks, anns, deleted, unquiet, disturbed>>)
  <2>1. /\ kbs' = kbs \ {b}
        /\ docs' = docs \ DocsOf(docs, b)
        /\ chunks' = {d \in chunks : d[1] \notin req[t].read}
        /\ anns' = anns \ DocsOf(anns, b)
        /\ deleted' = [deleted EXCEPT ![b] = @ + 1]
        /\ unquiet' = IF Filling(b) \/ \E d \in DocsOf(docs, b) : d[1] \notin req[t].read
                      THEN unquiet \cup {b} ELSE unquiet
        /\ Disturb([req EXCEPT ![t] = Finished(t, TRUE)])
    BY <1>4 DEF DeleteRows
  <2>2. b \in 1..made /\ b \in Kbs /\ b \in audit
    BY <1>1, <1>2, <1>4 DEF KbType, Kbs, WorkInv, At
  <2>3. PICK v \in Reqs : /\ v = Finished(t, TRUE) /\ v.op = "delete" /\ v.pc = "answered"
                          /\ WorkInv(v)
    BY <1>2, FinishedType DEF At
  <2>4. KbType' /\ WorkInv(v)' /\ made' >= made
    <3>1. KbType'
      BY <1>1, <1>2, <2>1 DEF KbType
    <3>2. WorkInv(v)'
      BY <1>2, <2>3 DEF WorkInv
    <3>. QED
      BY <1>1, <1>2, <3>1, <3>2
  <2>5. /\ PageType' /\ ReqType' /\ Alone' /\ RestInv'
        /\ \A x \in Threads \ {t} : /\ req'[x].op = req[x].op /\ req'[x].pc = req[x].pc
                                    /\ req'[x].kb = req[x].kb
        /\ req'[t].op = "delete"
    BY <1>2, <2>1, <2>3, <2>4, DisturbNext
  <2>6. DocType'
    BY <1>1, <1>2, <2>1 DEF DocType
  <2>7. PastType'
    <3>1. unquiet' \subseteq 1..made
      BY <1>1, <2>1, <2>2 DEF PastType
    <3>2. deleted' \in [Kbs -> Nat]
      BY <1>1, <2>1, <2>2 DEF PastType
    <3>3. anns' \subseteq anns
      BY <2>1
    <3>. QED
      BY <1>1, <1>2, <3>1, <3>2, <3>3 DEF PastType
  <2>8. DeletionIsRecorded'
    BY <1>1, <1>2, <2>1, <2>2 DEF DeletionIsRecorded
  <2>9. OnceInv'
    <3>. SUFFICES ASSUME NEW c \in Kbs
                  PROVE  deleted'[c] <= 1 /\ (c \in kbs' \/ c > made => deleted'[c] = 0)
      BY <1>2 DEF OnceInv
    <3>1. CASE c = b
      <4>1. deleted[b] = 0
        BY <1>4, <2>2, <1>1 DEF OnceInv
      <4>2. deleted'[c] = 1 /\ c \notin kbs' /\ ~(c > made)
        BY <1>1, <2>1, <2>2, <3>1, <4>1 DEF PastType
      <4>. QED
        BY <4>2
    <3>2. CASE c # b
      BY <1>1, <2>1, <2>2, <3>2 DEF OnceInv, PastType
    <3>. QED
      BY <3>1, <3>2
  <2>10. ChunkInv'
    <3>. SUFFICES ASSUME NEW c \in kbs', NEW d \in chunks', d[2] = c
                  PROVE  d \in docs'
      BY DEF ChunkInv, DocsOf
    <3>1. c \in kbs /\ c # b /\ d \in chunks
      BY <2>1
    <3>2. d \in docs
      BY <1>1, <3>1 DEF ChunkInv, DocsOf
    <3>. QED
      BY <2>1, <3>1, <3>2 DEF DocsOf
  <2>11. \A c : Filling(c)' => Filling(c)
    BY <2>5 DEF Filling
  <2>12. QuietInv'
    <3>. SUFFICES ASSUME NEW c \in 1..made, Quiet(c)', Filling(c)'
                  PROVE  FALSE
      BY <1>2 DEF QuietInv
    <3>1. c \notin kbs' /\ c \notin unquiet' /\ Filling(c)
      BY <2>11 DEF Quiet
    <3>2. CASE c = b
      BY <2>1, <3>1, <3>2
    <3>3. CASE c # b
      BY <1>1, <2>1, <3>1, <3>3 DEF QuietInv, Quiet
    <3>. QED
      BY <3>2, <3>3
  <2>13. QuietDeletionIsComplete'
    <3>. SUFFICES ASSUME NEW c \in (1..made) \ (kbs' \cup unquiet'),
                         NEW d \in docs' \cup chunks' \cup anns', d[2] = c
                  PROVE  FALSE
      BY <1>2 DEF QuietDeletionIsComplete, DocsOf
    <3>1. d \in docs \cup chunks \cup anns
      BY <2>1
    <3>2. CASE c = b
      <4>1. \A e \in DocsOf(docs, b) : e[1] \in req[t].read
        BY <2>1, <3>2
      <4>2. d \in chunks'
        BY <2>1, <3>2 DEF DocsOf
      <4>3. d \in chunks /\ d[1] \notin req[t].read
        BY <2>1, <4>2
      <4>4. d \in DocsOf(docs, b)
        BY <1>1, <1>4, <3>2, <4>3 DEF ChunkInv, DocsOf
      <4>. QED
        BY <4>1, <4>3, <4>4
    <3>3. CASE c # b
      <4>1. c \in (1..made) \ (kbs \cup unquiet)
        BY <2>1, <3>3
      <4>. QED
        BY <1>1, <3>1, <4>1 DEF QuietDeletionIsComplete, DocsOf
    <3>. QED
      BY <3>2, <3>3
  <2>. QED
    BY <2>4, <2>5, <2>6, <2>7, <2>8, <2>9, <2>10, <2>12, <2>13 DEF IndInv
<1>. QED
  BY <1>3, <1>4 DEF DeleteRows

--------------------------------------------------------------------------------
(* The page *)

\* A load of the page that is current now disturbs the others, and is disturbed by them.
LEMMA LoadNext ==
    ASSUME IndInv, NEW t \in Threads, NEW p \in Nat \ {0}, Load(t, p), page' = p, PageType',
           UNCHANGED <<kbVars, docVars, annVars, pastVars>>
    PROVE  IndInv'
<1>. DEFINE others == {u \in Threads \ {t} : req[u].op = "list"}
<1>1. /\ KbType /\ DocType /\ PastType /\ ReqType /\ DeletionIsRecorded /\ OnceInv
      /\ ChunkInv /\ QuietInv /\ QuietDeletionIsComplete /\ made \in Nat
  BY Known DEF IndInv
<1>2. UNCHANGED <<made, kbs, uploads, docs, chunks, notes, anns, audit, deleted, unquiet>>
  BY DEF kbVars, docVars, annVars, pastVars
<1>3. PICK v \in Reqs :
          /\ req'[t] = v /\ WorkInv(v) /\ v.op = "list" /\ v.pc = "sent" /\ v.page = p
          /\ ~v.disturbed => others = {}
  <2>1. PICK d \in BOOLEAN : d = (others # {})
    <3>1. (others # {}) \in BOOLEAN
      OBVIOUS
    <3>. QED
      BY <3>1, Zenon
  <2>2. req'[t] = [NoRequest EXCEPT !.op = "list", !.pc = "sent", !.page = p, !.disturbed = d]
    BY <2>1 DEF Load
  <2>3. NoRequest \in Reqs
    BY <1>1, NoRequestType
  <2>4. PICK v \in Reqs : v = [NoRequest EXCEPT !.op = "list", !.pc = "sent", !.page = p,
                                                !.disturbed = d]
    BY <2>3 DEF Reqs, PCs, Ops
  <2>5. /\ v.op = "list" /\ v.pc = "sent" /\ v.page = p /\ v.disturbed = d
        /\ v.kb = 0 /\ v.read = {} /\ v.total = 0
    BY <2>4 DEF NoRequest
  <2>6. WorkInv(v)
    BY <1>1, <2>5 DEF WorkInv
  <2>7. ~v.disturbed => others = {}
    BY <2>1, <2>5, Zenon
  <2>. QED
    BY <2>2, <2>4, <2>5, <2>6, <2>7
<1>4. ASSUME NEW x \in Threads \ {t}
      PROVE  /\ req'[x] \in Reqs
             /\ req'[x].op = req[x].op /\ req'[x].pc = req[x].pc /\ req'[x].kb = req[x].kb
             /\ req'[x].read = req[x].read /\ req'[x].total = req[x].total
             /\ req[x].op = "list" => req'[x].disturbed
  <2>1. PICK d \in BOOLEAN : d = (req[x].disturbed \/ x \in others)
    <3>1. (req[x].disturbed \/ x \in others) \in BOOLEAN
      OBVIOUS
    <3>. QED
      BY <3>1, Zenon
  <2>2. req'[x] = [req[x] EXCEPT !.disturbed = d]
    BY <2>1 DEF Load
  <2>3. req[x].op = "list" => d
    <3>1. req[x].op = "list" => x \in others
      OBVIOUS
    <3>. QED
      BY <2>1, <3>1, Zenon
  <2>4. req[x] \in Reqs
    BY <1>1 DEF ReqType
  <2>. QED
    BY <2>2, <2>3, <2>4, Marked
<1>5. req' \in [Threads -> Reqs]
  <2>1. req' = [x \in Threads |-> req'[x]]
    BY DEF Load
  <2>. QED
    BY <1>3, <1>4, <2>1
<1>6. ReqType'
  <2>1. ASSUME NEW x \in Threads PROVE WorkInv(req[x])'
    <3>1. CASE x = t
      BY <1>2, <1>3, <3>1 DEF WorkInv
    <3>2. CASE x # t
      BY <1>1, <1>2, <1>4, <3>2 DEF WorkInv, ReqType
    <3>. QED
      BY <3>1, <3>2
  <2>2. ASSUME NEW x \in Threads PROVE LoadInv(req[x])'
    <3>1. CASE x = t
      BY <1>3, <3>1 DEF LoadInv
    <3>2. CASE x # t
      BY <1>4, <3>2 DEF LoadInv, Loading
    <3>. QED
      BY <3>1, <3>2
  <2>. QED
    BY <1>5, <2>1, <2>2 DEF ReqType
<1>7. Alone'
  BY <1>3, <1>4 DEF Alone, Loading
<1>8. RestInv'
  BY <1>3 DEF RestInv, Rests
<1>9. KbType' /\ DocType' /\ PastType' /\ DeletionIsRecorded' /\ OnceInv' /\ ChunkInv'
      /\ QuietDeletionIsComplete'
  BY <1>1, <1>2 DEF KbType, DocType, PastType, DeletionIsRecorded, OnceInv, ChunkInv,
                    QuietDeletionIsComplete, DocsOf
<1>10. QuietInv'
  <2>1. \A c : Filling(c)' => Filling(c)
    BY <1>3, <1>4 DEF Filling
  <2>. QED
    BY <1>1, <1>2, <2>1 DEF QuietInv, Quiet
<1>. QED
  BY <1>6, <1>7, <1>8, <1>9, <1>10 DEF IndInv

LEMMA GotoPageNext ==
    ASSUME IndInv, NEW t \in Threads, GotoPage(t)
    PROVE  IndInv'
<1>1. PageType /\ made \in Nat
  BY Known
<1>2. PICK p \in 1..TotalPages(total) : page' = p /\ Load(t, p)
  BY DEF GotoPage
<1>3. /\ UNCHANGED <<kbVars, docVars, annVars, pastVars, total, items, disturbed>>
      /\ made' = made
  BY DEF GotoPage, kbVars
<1>4. total \in Nat
  BY <1>1 DEF PageType
<1>5. p \in Nat \ {0}
  <2>1. TotalPages(total) \in Nat
    BY <1>4, PagesType
  <2>. QED
    BY <2>1
<1>6. PageType'
  <2>1. TotalPages(total)' = TotalPages(total)
    BY <1>3 DEF TotalPages
  <2>2. disturbed' \in BOOLEAN
    BY <1>1, <1>3 DEF PageType
  <2>. QED
    BY <1>1, <1>2, <1>3, <2>1, <2>2 DEF PageType
<1>. QED
  BY <1>2, <1>3, <1>5, <1>6, LoadNext

LEMMA SubmitNext ==
    ASSUME IndInv, NEW t \in Threads, Submit(t)
    PROVE  IndInv'
<1>1. /\ req[t] \in Reqs /\ WorkInv(req[t]) /\ KbType /\ PastType /\ made \in Nat
      /\ MaxKbs \in Nat
  BY Known
<1>2. /\ UNCHANGED <<kbVars, docVars, annVars, pastVars, pageVars>>
      /\ UNCHANGED <<made, audit, deleted, unquiet>>
  BY DEF Submit, kbVars, pastVars
<1>3. PICK op \in Ops \ {"list"}, b \in 0..made : Send(t, op, b) /\ (b = 0 => op = "create")
  BY <1>1 DEF Submit, Ops
<1>4. req[t].op = "none"
  BY <1>1, <1>3 DEF Send, WorkInv
<1>5. NoRequest \in Reqs
  BY <1>1, NoRequestType
<1>6. PICK v \in Reqs : v = [NoRequest EXCEPT !.op = op, !.pc = "sent", !.kb = b]
  <2>1. b \in Kbs \cup {0}
    BY <1>1, <1>3 DEF Kbs, KbType
  <2>. QED
    BY <1>5, <2>1 DEF Reqs, PCs
<1>7. v.op = op /\ v.pc = "sent" /\ v.kb = b /\ v.read = {}
  BY <1>6 DEF NoRequest
<1>8. req' = [req EXCEPT ![t] = v]
  BY <1>3, <1>6 DEF Send
<1>9. WorkInv(v)'
  BY <1>2, <1>3, <1>7 DEF WorkInv
<1>10. ~Loading(v) /\ LoadInv(v) /\ ~Fills(v) /\ v.op # "list"
  BY <1>7 DEF Loading, LoadInv, Fills
<1>11. audit' \subseteq 1..made
  BY <1>1, <1>2 DEF PastType
<1>. QED
  BY <1>2, <1>4, <1>8, <1>9, <1>10, <1>11, OneNext

\* A request that ends without another.
LEMMA DropNext ==
    ASSUME IndInv, NEW t \in Threads, req' = [req EXCEPT ![t] = NoRequest],
           UNCHANGED <<kbVars, docVars, annVars, pastVars, page>>,
           PageType', RestInv'
    PROVE  IndInv'
<1>1. /\ KbType /\ DocType /\ PastType /\ ReqType /\ DeletionIsRecorded /\ OnceInv /\ Alone
      /\ ChunkInv /\ QuietInv /\ QuietDeletionIsComplete /\ made \in Nat
  BY Known DEF IndInv
<1>2. UNCHANGED <<made, kbs, uploads, docs, chunks, notes, anns, audit, deleted, unquiet, page>>
  BY DEF kbVars, docVars, annVars, pastVars
<1>3. NoRequest \in Reqs /\ WorkInv(NoRequest) /\ LoadInv(NoRequest)
  BY <1>1, NoRequestType
<1>4. NoRequest.op = "none"
  BY DEF NoRequest
<1>5. ReqType'
  <2>1. \A q : WorkInv(q) => WorkInv(q)'
    BY <1>2 DEF WorkInv
  <2>2. \A q : LoadInv(q) => LoadInv(q)'
    BY <1>2 DEF LoadInv, OnPage
  <2>. QED
    BY <1>1, <1>3, <2>1, <2>2 DEF ReqType
<1>6. Alone'
  BY <1>1, <1>4 DEF Alone, Loading, ReqType
<1>7. QuietInv'
  <2>1. \A c : Filling(c)' => Filling(c)
    BY <1>1, <1>4 DEF Filling, ReqType
  <2>. QED
    BY <1>1, <1>2, <2>1 DEF QuietInv, Quiet
<1>8. KbType' /\ DocType' /\ PastType' /\ DeletionIsRecorded' /\ OnceInv' /\ ChunkInv'
      /\ QuietDeletionIsComplete'
  BY <1>1, <1>2 DEF KbType, DocType, PastType, DeletionIsRecorded, OnceInv, ChunkInv,
                    QuietDeletionIsComplete, DocsOf
<1>. QED
  BY <1>5, <1>6, <1>7, <1>8 DEF IndInv

\* What an undisturbed load shows is what there is on the page.
LEMMA LoadedNext ==
    ASSUME IndInv, NEW t \in Threads, Loaded(t)
    PROVE  IndInv'
<1>. DEFINE max == TotalPages(req[t].total)
<1>1. /\ req[t] \in Reqs /\ WorkInv(req[t]) /\ LoadInv(req[t]) /\ KbType /\ PageType
      /\ made \in Nat
  BY Known
<1>2. /\ At(t, "list", "answered") /\ req[t].ok /\ items' = req[t].read
      /\ total' = req[t].total /\ disturbed' = req[t].disturbed
      /\ UNCHANGED <<kbVars, docVars, annVars, pastVars>>
      /\ UNCHANGED <<made, kbs>>
  BY DEF Loaded, kbVars
<1>3. items' \subseteq 1..made' /\ total' \in 0..made' /\ total' \in Nat
  BY <1>1, <1>2 DEF WorkInv, At
<1>4. disturbed' \in BOOLEAN
  <2>1. req[t].disturbed \in BOOLEAN
    BY <1>1 DEF Reqs
  <2>. QED
    BY <1>2, <2>1, Zenon
<1>5. max \in Nat \ {0} /\ TotalPages(total)' = max
  <2>1. TotalPages(total)' = max
    BY <1>2 DEF TotalPages
  <2>2. req[t].total \in Nat
    BY <1>2, <1>3
  <2>. QED
    BY <2>1, <2>2, PagesType
<1>6. page \in Nat \ {0}
  <2>1. TotalPages(total) \in Nat
    BY <1>1, PagesType DEF PageType
  <2>. QED
    BY <1>1, <2>1 DEF PageType
<1>7. CASE page > max /\ page' = max /\ Load(t, max)
  <2>1. PageType'
    BY <1>3, <1>4, <1>5, <1>7 DEF PageType
  <2>. QED
    BY <1>2, <1>5, <1>7, <2>1, LoadNext
<1>8. CASE page <= max /\ UNCHANGED page /\ req' = [req EXCEPT ![t] = NoRequest]
  <2>1. PageType'
    BY <1>3, <1>4, <1>5, <1>6, <1>8 DEF PageType
  <2>2. RestInv'
    <3>. SUFFICES ASSUME ~disturbed'
                  PROVE  items' = OnPage(page)' /\ total' = Cardinality(kbs)'
      BY DEF RestInv, Rests
    <3>1. Loading(req[t]) /\ ~req[t].disturbed
      BY <1>2 DEF Loading, At
    <3>2. req[t].page = page /\ req[t].total = Cardinality(kbs) /\ req[t].read = OnPage(page)
      BY <1>1, <1>2, <3>1 DEF LoadInv, At
    <3>3. OnPage(page)' = OnPage(page)
      BY <1>2, <1>8 DEF OnPage
    <3>. QED
      BY <1>2, <3>2, <3>3
  <2>. QED
    BY <1>2, <1>8, <2>1, <2>2, DropNext
<1>. QED
  BY <1>5, <1>6, <1>7, <1>8 DEF Loaded

LEMMA DoneNext ==
    ASSUME IndInv, NEW t \in Threads, Done(t)
    PROVE  IndInv'
<1>1. req[t] \in Reqs /\ PageType /\ ReqType /\ RestInv /\ made \in Nat
  BY Known DEF IndInv
<1>2. /\ UNCHANGED <<kbVars, docVars, annVars, pastVars, page, total, items>>
      /\ UNCHANGED <<made, kbs>>
      /\ disturbed' = (disturbed \/ req[t].op = "list")
  BY DEF Done, kbVars
<1>3. page \in Nat \ {0}
  <2>1. TotalPages(total) \in Nat
    BY <1>1, PagesType DEF PageType
  <2>. QED
    BY <1>1, <2>1 DEF PageType
<1>4. PageType'
  <2>1. TotalPages(total)' = TotalPages(total)
    BY <1>2 DEF TotalPages
  <2>2. disturbed' \in BOOLEAN
    <3>1. (disturbed \/ req[t].op = "list") \in BOOLEAN
      OBVIOUS
    <3>. QED
      BY <1>2, <3>1, Zenon
  <2>. QED
    BY <1>1, <1>2, <2>1, <2>2 DEF PageType
<1>5. CASE Load(t, page)
  BY <1>2, <1>3, <1>4, <1>5, LoadNext
<1>6. CASE req' = [req EXCEPT ![t] = NoRequest]
  <2>1. NoRequest.op = "none"
    BY DEF NoRequest
  <2>2. RestInv'
    <3>. SUFFICES ASSUME ~disturbed', \A x \in Threads : req'[x].op # "list"
                  PROVE  items' = OnPage(page)' /\ total' = Cardinality(kbs)'
      BY DEF RestInv, Rests
    <3>1. ~disturbed /\ req[t].op # "list"
      BY <1>2
    <3>2. \A x \in Threads : req[x].op # "list"
      BY <1>1, <1>6, <3>1 DEF ReqType
    <3>3. items = OnPage(page) /\ total = Cardinality(kbs)
      BY <1>1, <3>1, <3>2 DEF RestInv, Rests
    <3>4. OnPage(page)' = OnPage(page)
      BY <1>2 DEF OnPage
    <3>. QED
      BY <1>2, <3>3, <3>4
  <2>. QED
    BY <1>2, <1>4, <1>6, <2>2, DropNext
<1>. QED
  BY <1>5, <1>6 DEF Done

--------------------------------------------------------------------------------
(* The theorems *)

LEMMA InitInv ==
    ASSUME Init
    PROVE  IndInv
<1>1. MaxKbs \in Nat /\ MaxDocs \in Nat /\ MaxAnns \in Nat
  BY BoundsAssumption
<1>2. KbType /\ DocType
  BY <1>1 DEF Init, KbType, DocType
<1>3. PastType
  BY <1>1 DEF Init, PastType
<1>4. PageType
  <2>1. 1 \in 1..TotalPages(0)
    BY DEF TotalPages
  <2>2. disturbed \in BOOLEAN
    BY Zenon DEF Init
  <2>. QED
    BY <2>1, <2>2 DEF Init, PageType
<1>5. ReqType
  <2>1. NoRequest \in Reqs /\ WorkInv(NoRequest) /\ LoadInv(NoRequest)
    BY NoRequestType DEF Init
  <2>. QED
    BY <2>1 DEF Init, ReqType
<1>6. DeletionIsRecorded /\ OnceInv /\ ChunkInv
  BY DEF Init, DeletionIsRecorded, OnceInv, ChunkInv
<1>7. QuietInv /\ QuietDeletionIsComplete
  BY DEF Init, QuietInv, QuietDeletionIsComplete
<1>8. Alone /\ RestInv
  BY DEF Init, Alone, RestInv, Rests, Loading, NoRequest
<1>. QED
  BY <1>2, <1>3, <1>4, <1>5, <1>6, <1>7, <1>8 DEF IndInv

LEMMA NextInv ==
    ASSUME IndInv, [Next]_vars
    PROVE  IndInv'
<1>1. CASE \E t \in Threads : Serve(t)
  BY <1>1, FailNext, AnswerNext, RowNext, CreateKbNext, CountKbsNext, ListPageNext,
     RecordDeletionNext, ReadIdsNext, DeleteRowsNext, DeleteDocumentNext, CreateDocumentNext,
     WriteChunksNext, WriteAnnotationNext DEF Serve
<1>2. CASE \E t \in Threads : Console(t)
  BY <1>2, GotoPageNext, SubmitNext, LoadedNext, DoneNext DEF Console
<1>3. CASE UNCHANGED vars
  <2>1. /\ UNCHANGED <<made, kbs, uploads, docs, chunks, notes, anns, audit, deleted, unquiet>>
        /\ UNCHANGED <<page, total, items>> /\ UNCHANGED <<req>> /\ UNCHANGED <<disturbed>>
    BY <1>3 DEF vars, kbVars, docVars, annVars, pastVars, pageVars
  <2>2. KbType' /\ DocType' /\ PastType' /\ DeletionIsRecorded' /\ OnceInv' /\ ChunkInv'
        /\ QuietDeletionIsComplete'
    BY <2>1 DEF IndInv, KbType, DocType, PastType, DeletionIsRecorded, OnceInv, ChunkInv,
                QuietDeletionIsComplete, DocsOf
  <2>3. PageType'
    BY <2>1 DEF IndInv, PageType, TotalPages
  <2>4. \A p : OnPage(p)' = OnPage(p)
    BY <2>1 DEF OnPage
  <2>5. ReqType' /\ Alone' /\ RestInv'
    BY <2>1, <2>4 DEF IndInv, ReqType, WorkInv, LoadInv, Alone, RestInv, Rests
  <2>6. QuietInv'
    BY <2>1 DEF IndInv, QuietInv, Quiet, Filling
  <2>. QED
    BY <2>2, <2>3, <2>5, <2>6 DEF IndInv
<1>. QED
  BY <1>1, <1>2, <1>3 DEF Next

\* The invariant holds in every state.
THEOREM Invariance == Spec => []IndInv
<1>1. Init => IndInv
  BY InitInv
<1>2. IndInv /\ [Next]_vars => IndInv'
  BY NextInv
<1>. QED
  BY <1>1, <1>2, PTL DEF Spec

\* Type correctness: rows are of what was created, and the page of the list is within
\* the pages there were at its last load.
THEOREM TypeCorrect == Spec => []TypeOK
<1>1. IndInv => TypeOK
  BY DEF IndInv, TypeOK, KbType, DocType, PastType, PageType, ReqType
<1>. QED
  BY <1>1, Invariance, PTL

\* A knowledge base that is gone is in the audit log: delete_kb_route records before it
\* deletes.
THEOREM DeletionRecorded == Spec => []DeletionIsRecorded
<1>1. IndInv => DeletionIsRecorded
  BY DEF IndInv
<1>. QED
  BY <1>1, Invariance, PTL

\* Of several deletions of one knowledge base at a time, at most one is answered with
\* success: delete_kb looks for the row again in its transaction.
THEOREM OnlyOneDeletionSucceeds == Spec => []OneDeletionSucceeds
<1>1. IndInv => OneDeletionSucceeds
  BY DEF IndInv, OnceInv, OneDeletionSucceeds
<1>. QED
  BY <1>1, Invariance, PTL

\* A knowledge base deleted while nothing was being added to it leaves nothing behind,
\* now or later.
THEOREM QuietDeletionComplete == Spec => []QuietDeletionIsComplete
<1>1. IndInv => QuietDeletionIsComplete
  BY DEF IndInv
<1>. QED
  BY <1>1, Invariance, PTL

\* The list shows some knowledge bases if there are any: a load that finds its page
\* beyond the last loads the last (KbManage.vue, load).
THEOREM ListRestsOnAPage == Spec => []RestsOnAPage
<1>1. ASSUME IndInv PROVE RestsOnAPage
  <2>. SUFFICES ASSUME items = {}, ~disturbed, \A t \in Threads : req[t].op # "list", kbs # {}
                PROVE  FALSE
    BY DEF RestsOnAPage
  <2>1. KbType /\ PageType /\ items = OnPage(page) /\ total = Cardinality(kbs)
    BY <1>1 DEF IndInv, RestInv, Rests
  <2>2. page \in 1..TotalPages(Cardinality(kbs))
    BY <2>1 DEF PageType
  <2>3. PICK p \in 1..TotalPages(Cardinality(kbs)) : p = page
    BY <2>2
  <2>. QED
    BY <2>1, <2>3, PageShows
<1>. QED
  BY <1>1, Invariance, PTL

\* A step of the program never brings a knowledge base back: an edit that began before
\* the deletion writes to a row that is there, or not at all.
THEOREM DeletedStay == Spec => DeletedStaysDeleted
<1>1. ASSUME IndInv, [Next]_vars
      PROVE  [kbs' \cap (1..made) \subseteq kbs]_vars
  <2>1. kbs' \cap (1..made) \subseteq kbs
    <3>1. made \in Nat
      BY <1>1, BoundsAssumption DEF IndInv, KbType
    <3>2. CASE \E t \in Threads : CreateKb(t)
      BY <3>1, <3>2 DEF CreateKb
    <3>3. CASE \E t \in Threads : DeleteRows(t)
      BY <3>3 DEF DeleteRows
    <3>4. CASE kbs' = kbs
      BY <3>4
    <3>5. CASE \E t \in Threads : Serve(t) /\ ~CreateKb(t) /\ ~DeleteRows(t)
      <4>1. UNCHANGED kbVars
        BY <3>5 DEF Serve, Fail, RecordAndAnswer, RequireKb, ReadRow, WriteRow, CountKbs, ListPage,
           ReadDetail, RecordDeletion, ReadDocIds, FindDocument, DeleteDocument, CreateDocument,
           WriteChunks, FindAnnotation, WriteAnnotation
      <4>. QED
        BY <3>4, <4>1 DEF kbVars
    <3>6. CASE (\E t \in Threads : Console(t)) \/ UNCHANGED vars
      <4>1. UNCHANGED kbVars
        BY <3>6 DEF Console, GotoPage, Submit, Loaded, Done, vars
      <4>. QED
        BY <3>4, <4>1 DEF kbVars
    <3>. QED
      BY <1>1, <3>2, <3>3, <3>5, <3>6 DEF Next
  <2>. QED
    BY <2>1
<1>. QED
  BY <1>1, Invariance, PTL DEF Spec, DeletedStaysDeleted
================================================================================
