------------------------------ MODULE CrawlProofs ------------------------------
(***************************************************************************)
(* The properties of Crawl proved for any subscriptions, any directory,    *)
(* any number of crawls, imports and requests at a time and any number of  *)
(* faults, over any name service and any allow list.  First what a fetch   *)
(* can come to, by induction on the redirects that are left; then the      *)
(* inductive invariant IndInv.                                             *)
(***************************************************************************)
EXTENDS Crawl, FiniteSetTheorems, WellFoundedInduction, TLAPS

--------------------------------------------------------------------------------
(* What a fetch can come to. *)

\* Outcomes whose contacts were checked, and whose page is one if they have any.
Sound(o) ==
    /\ o.kind = "page" => o.page \in Pages
    /\ \A x \in o.contacts : HostAllowed(x[1]) /\ x[2] \in Public

Checked == {o \in Outcomes : Sound(o)}

\* What ends a fetch without a contact is checked.
LEMMA EndedChecked ==
    ASSUME NEW kind \in Kinds \ {"page"}
    PROVE  Ended(kind) \in Checked
BY DEF Ended, Checked, Sound, Outcomes

\* So is what a server replies, if all that follows a redirect is.
LEMMA RepliesChecked ==
    ASSUME NEW host, NEW more \in [Urls -> SUBSET Checked]
    PROVE  Replies(host, more) \subseteq Checked
<1>1. {Ended("failed"), Ended("raised")} \subseteq Checked
  BY EndedChecked DEF Kinds
<1>2. ASSUME NEW p \in Pages
      PROVE  [Ended("page") EXCEPT !.page = p] \in Checked
  BY DEF Ended, Checked, Sound, Outcomes, Kinds
<1>3. UNION {more[u] : u \in Urls} \subseteq Checked
  OBVIOUS
<1>4. {[Ended("page") EXCEPT !.page = p] : p \in Pages} \subseteq Checked
  BY <1>2
<1>. QED
  BY <1>1, <1>3, <1>4, Zenon DEF Replies

\* One round of the loop adds no contact but a checked one.
LEMMA HopChecked ==
    ASSUME NEW url \in Urls, NEW more \in [Urls -> SUBSET Checked]
    PROVE  Hop(url, more) \subseteq Checked
<1>1. Ended("blocked") \in Checked
  BY EndedChecked DEF Kinds
<1>2. CASE url = Malformed \/ ~HostAllowed(url)
  BY <1>1, <1>2, Zenon DEF Hop
<1>3. CASE ~(url = Malformed \/ ~HostAllowed(url))
  <2>1. url \in Hosts /\ HostAllowed(url)
    BY <1>3 DEF Urls
  <2>. DEFINE Asked(addr) == {[o EXCEPT !.contacts = @ \cup {<<url, addr>>}]
                                 : o \in Replies(url, more)}
              Looked(answer) == IF Pins(answer) = {} THEN {Ended("blocked")}
                                ELSE UNION {Asked(addr) : addr \in Pins(answer)}
  <2>2. ASSUME NEW addr \in Public PROVE Asked(addr) \subseteq Checked
    <3>1. addr \in Addresses
      BY DEF Public
    <3>2. ASSUME NEW o \in Checked
          PROVE  [o EXCEPT !.contacts = @ \cup {<<url, addr>>}] \in Checked
      <4>. DEFINE v == [o EXCEPT !.contacts = @ \cup {<<url, addr>>}]
      <4>1. v.kind = o.kind /\ v.page = o.page /\ v.contacts = o.contacts \cup {<<url, addr>>}
        BY DEF Checked, Outcomes
      <4>2. v \in Outcomes
        BY <2>1, <3>1 DEF Checked, Outcomes
      <4>3. Sound(v)
        <5>1. \A x \in v.contacts : x \in o.contacts \/ x = <<url, addr>>
          BY <4>1
        <5>. HIDE DEF v
        <5>. QED
          BY <2>1, <4>1, <5>1 DEF Checked, Sound
      <4>. QED
        BY <4>2, <4>3 DEF Checked
    <3>. QED
      BY <3>2, RepliesChecked
  <2>3. ASSUME NEW answer \in Answers(url) PROVE Looked(answer) \subseteq Checked
    <3>1. Pins(answer) \subseteq Public
      BY DEF Pins
    <3>. HIDE DEF Asked
    <3>. QED
      BY <1>1, <2>2, <3>1
  <2>4. Hop(url, more) = UNION {Looked(answer) : answer \in Answers(url)}
    BY <1>3, Zenon DEF Hop
  <2>. HIDE DEF Looked
  <2>. QED
    BY <2>3, <2>4
<1>. QED
  BY <1>2, <1>3

\* A set of natural numbers that is not empty has a least one.
LEMMA LeastNumber ==
    ASSUME NEW S \in SUBSET Nat, S # {}
    PROVE  \E x \in S : \A y \in S : x <= y
<1>. DEFINE Less == {ss \in Nat \X Nat : ss[1] < ss[2]}
<1>1. IsWellFoundedOn(Less, Nat)
  BY NatLessThanWellFounded DEF OpToRel
<1>2. PICK x \in S : \A y \in S : ~(<<y, x>> \in Less)
  <2>. HIDE DEF Less
  <2>. QED
    BY <1>1, WFMin
<1>3. ASSUME NEW y \in S PROVE x <= y
  <2>1. y < x => <<y, x>> \in Less
    OBVIOUS
  <2>2. ~(y < x)
    BY <1>2, <2>1, Zenon
  <2>. QED
    BY <2>2
<1>. QED
  BY <1>3

\* The fetches with n redirects left, from those with one less.
Round(n, less) ==
    LET more == IF n = 0 THEN [u \in Urls |-> {Ended("failed")}] ELSE less[n - 1]
    IN [u \in Urls |-> Hop(u, more)]

\* The recursion of Fetches has a solution, whatever the limit.
LEMMA FetchesExist ==
    ASSUME NEW m \in Nat
    PROVE  \E g : g = [n \in 0..m |-> Round(n, g)]
<1>. DEFINE Solves(g, k) == g = [n \in 0..k |-> Round(n, g)]
            Bad == {k \in Nat : ~\E g : Solves(g, k)}
<1>1. SUFFICES ASSUME Bad # {} PROVE FALSE
  BY Zenon
<1>2. PICK k \in Bad : \A j \in Bad : k <= j
  BY <1>1, LeastNumber, Bad \subseteq Nat
<1>3. CASE k = 0
  <2>. DEFINE g == [n \in 0..0 |-> Round(0, <<>>)]
  <2>1. Round(0, g) = Round(0, <<>>)
    BY DEF Round
  <2>2. Solves(g, 0)
    BY <2>1
  <2>. QED
    BY <1>2, <1>3, <2>2
<1>4. CASE k # 0
  <2>1. k - 1 \in Nat /\ ~(k - 1 \in Bad)
    BY <1>2, <1>4
  <2>2. PICK f : Solves(f, k - 1)
    BY <2>1
  <2>. DEFINE g == [n \in 0..k |-> IF n < k THEN f[n] ELSE Round(k, f)]
  <2>3. ASSUME NEW n \in 0..k PROVE Round(n, g) = Round(n, f)
    <3>1. CASE n = 0
      BY <3>1 DEF Round
    <3>2. CASE n # 0
      <4>1. n - 1 \in 0..k /\ n - 1 < k /\ k \in Nat
        BY <3>2
      <4>2. g[n - 1] = f[n - 1]
        BY <4>1
      <4>. HIDE DEF g
      <4>. QED
        BY <3>2, <4>2, Zenon DEF Round
    <3>. QED
      BY <3>1, <3>2
  <2>4. ASSUME NEW n \in 0..k PROVE g[n] = Round(n, g)
    <3>1. CASE n < k
      <4>1. n \in 0..(k - 1)
        BY <3>1
      <4>2. f[n] = Round(n, f)
        BY <2>2, <4>1
      <4>. QED
        BY <2>3, <3>1, <4>2
    <3>2. CASE n = k
      BY <2>3, <3>2
    <3>. QED
      BY <3>1, <3>2
  <2>5. Solves(g, k)
    <3>1. g = [n \in 0..k |-> g[n]]
      OBVIOUS
    <3>. HIDE DEF g
    <3>. QED
      BY <2>4, <3>1
  <2>. QED
    BY <1>2, <2>5
<1>. QED
  BY <1>3, <1>4

LEMMA FetchesUnfold == Fetches = [n \in 0..MaxRedirects |-> Round(n, Fetches)]
<1>1. PICK g : g = [n \in 0..MaxRedirects |-> Round(n, g)]
  BY FetchesExist, RedirectsAssumption
<1>2. Fetches = CHOOSE f : f = [n \in 0..MaxRedirects |-> Round(n, f)]
  BY DEF Fetches, Round
<1>. QED
  BY <1>1, <1>2, Zenon

\* No fetch contacts anything but a public address of a host of the allow list.
LEMMA FetchesChecked ==
    ASSUME NEW n \in 0..MaxRedirects
    PROVE  Fetches[n] \in [Urls -> SUBSET Checked]
<1>. DEFINE Bad == {k \in 0..MaxRedirects : Fetches[k] \notin [Urls -> SUBSET Checked]}
<1>1. SUFFICES ASSUME Bad # {} PROVE FALSE
  BY Zenon
<1>2. PICK k \in Bad : \A j \in Bad : k <= j
  BY <1>1, LeastNumber, Bad \subseteq Nat
<1>. DEFINE more == IF k = 0 THEN [u \in Urls |-> {Ended("failed")}] ELSE Fetches[k - 1]
<1>3. more \in [Urls -> SUBSET Checked]
  <2>1. CASE k = 0
    <3>1. Ended("failed") \in Checked
      BY EndedChecked DEF Kinds
    <3>. QED
      BY <2>1, <3>1
  <2>2. CASE k # 0
    <3>1. k - 1 \in 0..MaxRedirects /\ ~(k <= k - 1)
      BY <2>2, RedirectsAssumption
    <3>2. k - 1 \notin Bad
      BY <1>2, <3>1
    <3>. QED
      BY <2>2, <3>1, <3>2
  <2>. QED
    BY <2>1, <2>2
<1>4. Fetches[k] = [u \in Urls |-> Hop(u, more)]
  <2>1. Fetches[k] = Round(k, Fetches)
    BY <1>2, FetchesUnfold
  <2>. QED
    BY <2>1, Zenon DEF Round
<1>5. \A u \in Urls : Hop(u, more) \in SUBSET Checked
  <2>. HIDE DEF more
  <2>. QED
    BY <1>3, HopChecked
<1>. QED
  <2>. HIDE DEF more
  <2>. QED
    BY <1>2, <1>4, <1>5

LEMMA FetchChecked ==
    ASSUME NEW url \in Urls
    PROVE  Fetch(url) \subseteq Checked
<1>1. MaxRedirects \in 0..MaxRedirects
  BY RedirectsAssumption
<1>. QED
  BY <1>1, FetchesChecked DEF Fetch
--------------------------------------------------------------------------------
(* The inductive invariant. *)

\* The pages documents were created of; none is ever taken back.
Known == {docs[d].page : d \in DOMAIN docs}

Making == {"job", "source", "enqueue"}

\* What process p is at, being in state v: the document it works on is of the page it
\* has fetched, and it works on none unless it is making one; a crawl that is to mark
\* a page has seen a document of it; and whoever but the poster is about to create a
\* document knows of none of that page, or was raced.
Local(p, v) ==
    /\ v.got \in Checked
    /\ v.pc \in Making \cup {"create", "mark"} => v.got.page \in Pages
    /\ v.doc # 0 <=> v.pc \in Making
    /\ v.doc # 0 => docs[v.doc].page = v.got.page
    /\ v.last \in Known \cup {NoPage}
    /\ v.pc = "mark" => v.got.page \in Known
    /\ v.pc = "create" /\ p # Poster => v.got.page \notin Known \/ v.got.page \in raced
    /\ p \in Crawls => /\ v.todo \in Seq(Subs)
                       /\ v.pc # "idle" => v.todo # <<>>

\* The import has the last files of the directory still to do ...
Rest(todo) ==
    /\ Len(todo) <= Len(Directory)
    /\ \A i \in 1..Len(todo) : todo[i] = Directory[(Len(Directory) - Len(todo)) + i]

\* ... and a file it is done with has come in, unless it has counted one.
Taken(f, v) ==
    v.failed = 0 => \E d \in Found(f) : v.skipped = 0 => "queued" \in docs[d].has

Importing(v) ==
    /\ v.pc \in {"idle", "next", "create", "report"} \cup Making
    /\ v.pc # "idle" => /\ Rest(v.todo)
                       /\ \A i \in 1..(Len(Directory) - Len(v.todo)) : Taken(Directory[i], v)
    /\ v.pc \notin {"idle", "report"} => v.todo # <<>>
    /\ v.pc = "report" => v.todo = <<>>
    /\ v.pc \in Making \cup {"create"} => v.got.page = Head(v.todo)

\* A document is queued, given up or worked on.
AllAccounted ==
    \A d \in DOMAIN docs :
        "queued" \in docs[d].has \/ docs[d].lost \/ \E p \in Procs : proc[p].doc = d

CursorsAreKnown == \A s \in Subs : subs[s].last \in Known \cup {NoPage}

IndInv ==
    /\ TypeOK
    /\ \A p \in Procs : Local(p, proc[p])
    /\ Importing(proc[Importer])
    /\ AllAccounted
    /\ CursorsAreKnown
    /\ SecondOnlyByRace

--------------------------------------------------------------------------------
(* What every step leaves as it is. *)

\* Documents are added, and are given more, but keep their page and their maker.
Grows ==
    /\ docs' \in Seq(Docs) /\ Len(docs) <= Len(docs')
    /\ \A d \in DOMAIN docs :
          /\ docs'[d].page = docs[d].page /\ docs'[d].by = docs[d].by
          /\ docs[d].has \subseteq docs'[d].has

LEMMA Domains ==
    ASSUME NEW list, NEW S, list \in Seq(S)
    PROVE  Len(list) \in Nat /\ DOMAIN list = 1..Len(list)
OBVIOUS

LEMMA KnownGrows ==
    ASSUME TypeOK, Grows
    PROVE  DOMAIN docs \subseteq DOMAIN docs' /\ Known \subseteq Known'
<1>1. DOMAIN docs = 1..Len(docs) /\ DOMAIN docs' = 1..Len(docs')
  BY Domains DEF TypeOK, Grows
<1>2. Len(docs) \in Nat /\ Len(docs') \in Nat /\ Len(docs) <= Len(docs')
  BY Domains DEF TypeOK, Grows
<1>3. DOMAIN docs \subseteq DOMAIN docs'
  BY <1>1, <1>2
<1>. QED
  BY <1>3 DEF Known, Grows

\* A process that does nothing stays right while others add documents, if whoever is
\* overtaken is raced.
LEMMA LocalStays ==
    ASSUME TypeOK, Grows, NEW p \in Procs, NEW v \in States,
           v.doc \in 0..Len(docs), Local(p, v), raced \subseteq raced',
           v.pc = "create" /\ p # Poster /\ v.got.page \in Known' \ Known
              => v.got.page \in raced'
    PROVE  Local(p, v)'
<1>1. Known \subseteq Known' /\ DOMAIN docs = 1..Len(docs)
  BY KnownGrows, Domains DEF TypeOK
<1>2. v.doc # 0 => docs'[v.doc].page = v.got.page
  BY <1>1 DEF Local, Grows
<1>. QED
  BY <1>1, <1>2 DEF Local

\* What an import is done with stays done.
LEMMA TakenStays ==
    ASSUME TypeOK, Grows, NEW f, NEW v, NEW w, Taken(f, v),
           w.failed = 0 => v.failed = 0, w.skipped = 0 => v.skipped = 0
    PROVE  Taken(f, w)'
<1>1. SUFFICES ASSUME w.failed = 0
               PROVE  \E d \in Found(f)' : w.skipped = 0 => "queued" \in docs'[d].has
  BY DEF Taken
<1>2. PICK d \in Found(f) : v.skipped = 0 => "queued" \in docs[d].has
  BY <1>1 DEF Taken
<1>3. d \in DOMAIN docs /\ d \in DOMAIN docs' /\ docs[d].page = f
  BY <1>2, KnownGrows DEF Found
<1>4. docs'[d].page = f /\ docs[d].has \subseteq docs'[d].has
  BY <1>3 DEF Grows
<1>5. d \in Found(f)'
  BY <1>3, <1>4 DEF Found
<1>. QED
  BY <1>2, <1>4, <1>5

LEMMA ImportingStays ==
    ASSUME TypeOK, Grows, NEW v, Importing(v)
    PROVE  Importing(v)'
<1>1. ASSUME v.pc # "idle",
             NEW i \in 1..(Len(Directory) - Len(v.todo))
      PROVE  Taken(Directory[i], v)'
  <2>1. Taken(Directory[i], v)
    BY <1>1 DEF Importing
  <2>. QED
    BY <2>1, TakenStays
<1>. QED
  BY <1>1 DEF Importing

\* One process goes to v, while documents are added.
LEMMA Stepped ==
    ASSUME IndInv, NEW p \in Procs, NEW v \in States, proc' = [proc EXCEPT ![p] = v],
           Grows, v.doc \in 0..Len(docs'), raced \subseteq raced', raced' \subseteq Pages,
           Local(p, v)', p = Importer => Importing(v)',
           \A q \in Procs \ {p} :
              proc[q].pc = "create" /\ q # Poster /\ proc[q].got.page \in Known' \ Known
                => proc[q].got.page \in raced',
           \A d \in DOMAIN docs' :
              \/ "queued" \in docs'[d].has
              \/ docs'[d].lost
              \/ v.doc = d
              \/ \E q \in Procs \ {p} : proc[q].doc = d,
           SecondOnlyByRace',
           subs' \in [Subs -> Row], \A s \in Subs : subs'[s].last \in Known \cup {NoPage},
           others' \in 0..MaxOthers, faults' \in 0..MaxFaults
    PROVE  IndInv'
<1>1. proc \in [Procs -> States] /\ TypeOK
  BY DEF IndInv, TypeOK
<1>2. proc' \in [Procs -> States] /\ proc'[p] = v /\ \A q \in Procs \ {p} : proc'[q] = proc[q]
  BY <1>1
<1>3. Len(docs) \in Nat /\ Len(docs') \in Nat /\ Len(docs) <= Len(docs')
  BY <1>1, Domains DEF TypeOK, Grows
<1>4. \A q \in Procs \ {p} : proc[q].doc \in 0..Len(docs)
  BY <1>1 DEF TypeOK
<1>5. TypeOK'
  <2>1. \A q \in Procs : proc'[q].doc \in 0..Len(docs')
    <3>1. 0..Len(docs) \subseteq 0..Len(docs')
      BY <1>3
    <3>. QED
      BY <1>2, <1>4, <3>1
  <2>. QED
    BY <1>2, <2>1 DEF TypeOK, Grows
<1>6. ASSUME NEW q \in Procs PROVE Local(q, proc[q])'
  <2>1. CASE q = p
    BY <1>2, <2>1
  <2>2. CASE q # p
    <3>1. PICK w \in States : w = proc[q]
      BY <1>1
    <3>2. Local(q, w)
      BY <3>1 DEF IndInv
    <3>3. Local(q, w)'
      BY <1>1, <1>4, <2>2, <3>1, <3>2, LocalStays
    <3>4. proc'[q] = w
      BY <1>2, <2>2, <3>1
    <3>. QED
      BY <3>3, <3>4
  <2>. QED
    BY <2>1, <2>2
<1>7. Importing(proc[Importer])'
  <2>1. CASE Importer = p
    BY <1>2, <2>1
  <2>2. CASE Importer # p
    <3>1. PICK w \in States : w = proc[Importer]
      BY <1>1 DEF Procs
    <3>2. Importing(w)'
      BY <1>1, <3>1, ImportingStays DEF IndInv
    <3>3. proc'[Importer] = w
      BY <1>2, <2>2, <3>1 DEF Procs
    <3>. QED
      BY <3>2, <3>3
  <2>. QED
    BY <2>1, <2>2
<1>8. AllAccounted'
  BY <1>2 DEF AllAccounted
<1>9. CursorsAreKnown'
  BY <1>1, KnownGrows DEF CursorsAreKnown
<1>. QED
  BY <1>5, <1>6, <1>7, <1>8, <1>9 DEF IndInv

\* One process, at no document, goes to v, which is at none; no document changes.
LEMMA Moved ==
    ASSUME IndInv, NEW p \in Procs, NEW v \in States, proc' = [proc EXCEPT ![p] = v],
           docs' = docs, raced' = raced, proc[p].doc = 0, v.doc = 0,
           Local(p, v), p = Importer => Importing(v),
           subs' \in [Subs -> Row], \A s \in Subs : subs'[s].last \in Known \cup {NoPage},
           others' \in 0..MaxOthers, faults' \in 0..MaxFaults
    PROVE  IndInv'
<1>1. Grows
  BY DEF Grows, IndInv, TypeOK
<1>2. Known' = Known
  BY DEF Known
<1>3. Local(p, v)'
  BY <1>2 DEF Local
<1>4. p = Importer => Importing(v)'
  BY <1>1, ImportingStays DEF IndInv
<1>5. ASSUME NEW d \in DOMAIN docs'
      PROVE  \/ "queued" \in docs'[d].has
             \/ docs'[d].lost
             \/ v.doc = d
             \/ \E q \in Procs \ {p} : proc[q].doc = d
  <2>1. d # 0
    BY Domains DEF IndInv, TypeOK
  <2>. QED
    BY <2>1 DEF IndInv, AllAccounted
<1>6. SecondOnlyByRace'
  BY DEF IndInv, SecondOnlyByRace
<1>7. v.doc \in 0..Len(docs')
  BY Domains DEF IndInv, TypeOK
<1>8. raced' \subseteq Pages
  BY DEF IndInv, TypeOK
<1>. QED
  BY <1>1, <1>2, <1>3, <1>4, <1>5, <1>6, <1>7, <1>8, Stepped

--------------------------------------------------------------------------------
(* What a process is left at. *)

LEMMA NothingChecked == Nothing \in Checked /\ Nothing.kind = "failed" /\ Nothing.contacts = {}
BY EndedChecked DEF Nothing, Kinds, Ended

LEMMA IdleState ==
    /\ Idle \in States /\ Idle.pc = "idle" /\ Idle.todo = <<>> /\ Idle.last = NoPage
    /\ Idle.got = Nothing /\ Idle.doc = 0 /\ Idle.skipped = 0 /\ Idle.failed = 0
BY NothingChecked DEF Idle, States, PCs, Checked

LEMMA IdleLocal ==
    ASSUME NEW p \in Procs
    PROVE  Local(p, Idle) /\ Importing(Idle)
BY IdleState, NothingChecked DEF Local, Importing, Making

\* What a list looks like without its first.
LEMMA TailFacts ==
    ASSUME NEW S, NEW list \in Seq(S), list # <<>>
    PROVE  /\ Tail(list) \in Seq(S) /\ Head(list) \in S /\ Head(list) = list[1]
           /\ Len(Tail(list)) = Len(list) - 1 /\ Len(list) \in Nat \ {0}
           /\ \A i \in 1..Len(Tail(list)) : Tail(list)[i] = list[i + 1]
OBVIOUS

LEMMA OnwardState ==
    ASSUME IndInv, NEW p \in Procs
    PROVE  /\ Onward(p) \in States /\ Onward(p).doc = 0
           /\ Onward(p).skipped = proc[p].skipped /\ Onward(p).failed = proc[p].failed
           /\ Onward(p).todo = IF proc[p].todo = <<>> THEN <<>> ELSE Tail(proc[p].todo)
           /\ Onward(p).pc = IF Onward(p).todo = <<>>
                             THEN IF p = Importer THEN "report" ELSE "idle"
                             ELSE "next"
           /\ Local(p, Onward(p))
<1>. DEFINE rest == IF proc[p].todo = <<>> THEN <<>> ELSE Tail(proc[p].todo)
            end == IF rest = <<>> THEN IF p = Importer THEN "report" ELSE "idle" ELSE "next"
<1>1. proc[p] \in States
  BY DEF IndInv, TypeOK
<1>2. proc[p].todo \in Seq(Subs \cup Pages)
  BY <1>1 DEF States
<1>3. rest \in Seq(Subs \cup Pages)
  BY <1>2, TailFacts
<1>4. end \in {"report", "idle", "next"}
  OBVIOUS
<1>5. Onward(p) = [Idle EXCEPT !.todo = rest, !.pc = end,
                               !.skipped = proc[p].skipped, !.failed = proc[p].failed]
  BY Zenon DEF Onward
<1>. DEFINE v == Onward(p)
<1>6. /\ v \in States /\ v.doc = 0 /\ v.skipped = proc[p].skipped /\ v.failed = proc[p].failed
      /\ v.todo = rest /\ v.pc = end /\ v.got = Nothing /\ v.last = NoPage
  <2>. HIDE DEF rest, end
  <2>. QED
    BY <1>1, <1>3, <1>4, <1>5, IdleState DEF States, PCs
<1>7. p \in Crawls => v.todo \in Seq(Subs) /\ (v.pc # "idle" => v.todo # <<>>)
  <2>1. SUFFICES ASSUME p \in Crawls PROVE v.todo \in Seq(Subs) /\ (v.pc # "idle" => v.todo # <<>>)
    OBVIOUS
  <2>2. p # Importer /\ proc[p].todo \in Seq(Subs)
    BY <2>1, CrawlsAssumption DEF IndInv, Local
  <2>3. rest \in Seq(Subs)
    BY <2>2, TailFacts
  <2>. QED
    BY <1>6, <2>2, <2>3
<1>8. Local(p, v)
  <2>. HIDE DEF v
  <2>. QED
    BY <1>4, <1>6, <1>7, NothingChecked DEF Local, Making
<1>. QED
  BY <1>6, <1>8

\* The rest of the directory without its first file.
LEMMA RestOfTail ==
    ASSUME NEW S, NEW list \in Seq(S), list # <<>>, Rest(list)
    PROVE  /\ Rest(Tail(list)) /\ Len(Tail(list)) = Len(list) - 1
           /\ Head(list) = Directory[Len(Directory) - Len(Tail(list))]
<1>. DEFINE tail == Tail(list)
<1>1. PICK n \in Nat : n = Len(Directory)
  BY Domains, DirectoryAssumption
<1>2. PICK m \in Nat \ {0} : m = Len(list)
  BY TailFacts
<1>3. /\ Len(tail) = m - 1 /\ Head(list) = list[1]
      /\ \A i \in 1..(m - 1) : tail[i] = list[i + 1]
  BY <1>2, TailFacts
<1>4. m <= n /\ \A i \in 1..m : list[i] = Directory[(n - m) + i]
  BY <1>1, <1>2 DEF Rest
<1>. HIDE DEF tail
<1>5. list[1] = Directory[(n - m) + 1] /\ (n - m) + 1 = n - (m - 1)
  <2>1. 1 \in 1..m
    OBVIOUS
  <2>. QED
    BY <1>4, <2>1
<1>6. ASSUME NEW i \in 1..(m - 1)
      PROVE  tail[i] = Directory[(n - (m - 1)) + i]
  <2>1. i + 1 \in 1..m /\ (n - m) + (i + 1) = (n - (m - 1)) + i
    OBVIOUS
  <2>. QED
    BY <1>3, <1>4, <2>1
<1>7. Rest(tail)
  <2>1. m - 1 <= n
    BY <1>4
  <2>. QED
    BY <1>1, <1>3, <1>6, <2>1 DEF Rest
<1>. QED
  BY <1>1, <1>2, <1>3, <1>5, <1>7 DEF tail

\* The import goes on to the next file, the current one being taken.
LEMMA ImportOn ==
    ASSUME IndInv, proc[Importer].pc \notin {"idle", "report"}, NEW v \in States, Grows,
           v.todo = Tail(proc[Importer].todo),
           v.pc = IF v.todo = <<>> THEN "report" ELSE "next",
           v.failed = 0 => proc[Importer].failed = 0,
           v.skipped = 0 => proc[Importer].skipped = 0,
           NEW file, file = Head(proc[Importer].todo), Taken(file, v)'
    PROVE  Importing(v)'
<1>1. PICK old \in Seq(Subs \cup Pages) : old = proc[Importer].todo
  BY DEF IndInv, TypeOK, States, Procs
<1>2. old # <<>> /\ Rest(old)
  BY <1>1 DEF IndInv, Importing
<1>3. PICK n \in Nat : n = Len(Directory)
  BY Domains, DirectoryAssumption
<1>4. PICK m \in Nat : m = Len(v.todo)
  BY Domains DEF States
<1>5. Rest(v.todo) /\ Len(old) = m + 1 /\ Head(old) = Directory[n - m]
  <2>1. Rest(v.todo) /\ m = Len(old) - 1 /\ Head(old) = Directory[n - m]
    BY <1>1, <1>2, <1>3, <1>4, RestOfTail
  <2>2. Len(old) \in Nat
    BY Domains
  <2>. QED
    BY <2>1, <2>2
<1>6. ASSUME NEW i \in 1..(n - m) PROVE Taken(Directory[i], v)'
  <2>1. CASE i = n - m
    BY <1>1, <1>5, <2>1
  <2>2. CASE i # n - m
    <3>1. i \in 1..(n - (m + 1))
      BY <2>2
    <3>2. PICK o \in States : o = proc[Importer]
      BY DEF IndInv, TypeOK, Procs
    <3>3. Taken(Directory[i], o)
      BY <1>1, <1>3, <1>5, <3>1, <3>2 DEF IndInv, Importing
    <3>4. TypeOK /\ (v.failed = 0 => o.failed = 0) /\ (v.skipped = 0 => o.skipped = 0)
      BY <3>2 DEF IndInv
    <3>. QED
      BY <3>3, <3>4, TakenStays
  <2>. QED
    BY <2>1, <2>2
<1>. QED
  BY <1>3, <1>4, <1>5, <1>6 DEF Importing, Rest, Making

--------------------------------------------------------------------------------
(* The administrator, and time. *)

LEMMA RowsChange ==
    ASSUME IndInv, UNCHANGED <<docs, proc, raced, others, faults>>,
           subs' \in [Subs -> Row], \A s \in Subs : subs'[s].last \in Known \cup {NoPage}
    PROVE  IndInv'
<1>1. Known' = Known
  BY DEF Known
<1>2. TypeOK'
  BY DEF IndInv, TypeOK
<1>3. ASSUME NEW p \in Procs PROVE Local(p, proc[p])'
  <2>1. Local(p, proc[p])
    BY DEF IndInv
  <2>. QED
    BY <1>1, <2>1 DEF Local
<1>4. Importing(proc[Importer])'
  <2>1. Importing(proc[Importer])
    BY DEF IndInv
  <2>. QED
    BY <2>1 DEF Importing, Taken, Found
<1>5. AllAccounted' /\ SecondOnlyByRace'
  BY DEF IndInv, AllAccounted, SecondOnlyByRace
<1>6. CursorsAreKnown'
  BY <1>1 DEF CursorsAreKnown
<1>. QED
  BY <1>2, <1>3, <1>4, <1>5, <1>6 DEF IndInv

\* A row that keeps its cursor, or loses it, or gets a known one.
LEMMA RowWritten ==
    ASSUME IndInv, NEW s, NEW row \in Row, row.last \in Known \cup {NoPage},
           NEW written, written = [subs EXCEPT ![s] = row]
    PROVE  /\ written \in [Subs -> Row]
           /\ \A i \in Subs : written[i].last \in Known \cup {NoPage}
BY DEF IndInv, TypeOK, CursorsAreKnown

LEMMA RowFacts ==
    ASSUME IndInv, NEW s \in Subs
    PROVE  subs[s] \in Row /\ subs[s].last \in Known \cup {NoPage}
BY DEF IndInv, TypeOK, CursorsAreKnown

LEMMA NewRowIsRow == NewRow \in Row /\ NewRow.last = NoPage
BY DEF NewRow, Row

LEMMA AdminStep ==
    ASSUME IndInv, Admin
    PROVE  IndInv'
<1>. PICK s \in Subs : Subscribe(s) \/ Toggle(s) \/ Unsubscribe(s)
  BY DEF Admin
<1>. subs \in [Subs -> Row]
  BY DEF IndInv, TypeOK
<1>1. CASE Subscribe(s)
  <2>1. subs' = [subs EXCEPT ![s] = NewRow]
    BY <1>1 DEF Subscribe
  <2>. QED
    BY <1>1, <2>1, NewRowIsRow, RowWritten, RowsChange DEF Subscribe
<1>2. CASE Toggle(s)
  <2>. DEFINE row == [subs[s] EXCEPT !.enabled = ~@]
  <2>1. row \in Row /\ row.last = subs[s].last
    BY RowFacts DEF Row
  <2>2. subs' = [subs EXCEPT ![s] = row]
    BY <1>2 DEF Toggle, Toggled
  <2>3. row.last \in Known \cup {NoPage}
    BY <2>1, RowFacts
  <2>. HIDE DEF row
  <2>4. PICK r \in Row : r = row
    BY <2>1
  <2>5. subs' \in [Subs -> Row] /\ \A i \in Subs : subs'[i].last \in Known \cup {NoPage}
    BY <2>2, <2>3, <2>4 DEF IndInv, TypeOK, CursorsAreKnown
  <2>. QED
    BY <1>2, <2>5, RowsChange DEF Toggle
<1>3. CASE Unsubscribe(s)
  <2>1. [NewRow EXCEPT !.is = "deleted"] \in Row /\ [NewRow EXCEPT !.is = "deleted"].last = NoPage
    BY DEF NewRow, Row
  <2>2. subs' = [subs EXCEPT ![s] = [NewRow EXCEPT !.is = "deleted"]]
    BY <1>3 DEF Unsubscribe, Removed
  <2>3. subs' \in [Subs -> Row] /\ \A i \in Subs : subs'[i].last \in Known \cup {NoPage}
    BY <2>1, <2>2 DEF IndInv, TypeOK, CursorsAreKnown
  <2>. QED
    BY <1>3, <2>3, RowsChange DEF Unsubscribe
<1>. QED
  BY <1>1, <1>2, <1>3

LEMMA TimeStep ==
    ASSUME IndInv, NEW s \in Subs, TimePasses(s)
    PROVE  IndInv'
<1>1. subs' = [subs EXCEPT ![s].due = TRUE]
  BY DEF TimePasses
<1>2. subs' \in [Subs -> Row] /\ \A i \in Subs : subs'[i].last \in Known \cup {NoPage}
  BY <1>1, RowFacts DEF IndInv, TypeOK, CursorsAreKnown, Row
<1>. QED
  BY <1>2, RowsChange DEF TimePasses

--------------------------------------------------------------------------------
(* The crawl. *)

\* What a process is at when it is at no document.
LEMMA At ==
    ASSUME IndInv, NEW p \in Procs
    PROVE  /\ proc[p] \in States /\ Local(p, proc[p])
           /\ proc[p].pc \notin Making => proc[p].doc = 0
           /\ p = Importer => Importing(proc[p])
BY DEF IndInv, TypeOK, Local

\* A crawl under way is at a subscription.
LEMMA CrawlAt ==
    ASSUME IndInv, NEW c \in Crawls, Here(c) # "idle"
    PROVE  Current(c) \in Subs /\ c \in Procs /\ c # Importer /\ c # Poster
<1>1. c \in Procs /\ c # Importer /\ c # Poster
  BY CrawlsAssumption DEF Procs
<1>2. proc[c].todo \in Seq(Subs) /\ proc[c].todo # <<>>
  BY <1>1 DEF IndInv, Local, Here
<1>. QED
  BY <1>1, <1>2, TailFacts DEF Current

LEMMA KeepsRest ==
    ASSUME IndInv
    PROVE  /\ subs \in [Subs -> Row] /\ \A s \in Subs : subs[s].last \in Known \cup {NoPage}
           /\ others \in 0..MaxOthers /\ faults \in 0..MaxFaults
BY DEF IndInv, TypeOK, CursorsAreKnown

\* The list of some subscriptions is one.
LEMMA InOrderLists ==
    ASSUME NEW some \in SUBSET Subs, some # {}, NEW list \in InOrder(some)
    PROVE  list \in Seq(Subs) /\ list # <<>>
<1>1. Subs = 1..Len(Url) /\ Len(Url) \in Nat
  BY Domains, UrlAssumption DEF Subs
<1>2. IsFiniteSet(some)
  <2>1. IsFiniteSet(Subs)
    BY <1>1, FS_Interval
  <2>. QED
    BY <2>1, FS_Subset
<1>3. Cardinality(some) \in Nat /\ Cardinality(some) # 0
  BY <1>2, FS_CardinalityType, FS_EmptySet
<1>4. list \in [1..Cardinality(some) -> some]
  BY DEF InOrder
<1>5. list \in Seq(some) /\ Len(list) = Cardinality(some)
  BY <1>3, <1>4
<1>. QED
  BY <1>3, <1>5

LEMMA ScanStep ==
    ASSUME IndInv, NEW c \in Crawls, Scan(c)
    PROVE  IndInv'
<1>. DEFINE some == {s \in Subs : IsDue(s)}
<1>1. c \in Procs /\ c # Importer /\ c # Poster
  BY CrawlsAssumption DEF Procs
<1>2. PICK due \in InOrder(some) :
         proc' = [proc EXCEPT ![c] = [Idle EXCEPT !.pc = "next", !.todo = due]]
  BY DEF Scan
<1>3. due \in Seq(Subs) /\ due # <<>>
  <2>1. some \in SUBSET Subs /\ some # {}
    BY DEF Scan
  <2>. HIDE DEF some
  <2>. QED
    BY <1>2, <2>1, InOrderLists
<1>4. due \in Seq(Subs \cup Pages)
  BY <1>3
<1>5. [Idle EXCEPT !.pc = "next", !.todo = due] \in States
  BY <1>4, IdleState DEF States, PCs
<1>6. PICK v \in States : v = [Idle EXCEPT !.pc = "next", !.todo = due]
  BY <1>5
<1>7. /\ v.pc = "next" /\ v.todo = due /\ v.doc = 0 /\ v.last = NoPage /\ v.got = Nothing
  BY <1>6, IdleState DEF States
<1>8. Local(c, v)
  BY <1>1, <1>3, <1>7, NothingChecked DEF Local, Making
<1>9. proc[c].doc = 0
  BY <1>1, At DEF Scan, Here, Making
<1>10. UNCHANGED <<subs, docs, raced, others, faults>>
  BY DEF Scan
<1>. QED
  BY <1>1, <1>2, <1>6, <1>7, <1>8, <1>9, <1>10, KeepsRest, Moved

\* A step of a process to its next subscription or to its end.
LEMMA OnwardStep ==
    ASSUME IndInv, NEW c \in Crawls, Here(c) \notin Making,
           proc' = [proc EXCEPT ![c] = Onward(c)] \/ proc' = [proc EXCEPT ![c] = Idle],
           UNCHANGED <<docs, raced>>,
           subs' \in [Subs -> Row], \A s \in Subs : subs'[s].last \in Known \cup {NoPage},
           others' \in 0..MaxOthers, faults' \in 0..MaxFaults
    PROVE  IndInv'
<1>1. c \in Procs /\ c # Importer
  BY CrawlsAssumption DEF Procs
<1>2. proc[c].doc = 0
  BY <1>1, At DEF Here
<1>3. Onward(c) \in States /\ Onward(c).doc = 0 /\ Local(c, Onward(c))
  BY <1>1, OnwardState
<1>4. Idle \in States /\ Idle.doc = 0 /\ Local(c, Idle)
  BY <1>1, IdleState, IdleLocal
<1>5. PICK v \in States : proc' = [proc EXCEPT ![c] = v] /\ v.doc = 0 /\ Local(c, v)
  BY <1>3, <1>4
<1>. QED
  BY <1>1, <1>2, <1>5, Moved

LEMMA ReadStep ==
    ASSUME IndInv, NEW c \in Crawls, Read(c)
    PROVE  IndInv'
<1>1. Current(c) \in Subs /\ c \in Procs /\ c # Importer /\ c # Poster
  BY CrawlAt DEF Read
<1>2. UNCHANGED <<subs, docs, raced, others, faults>> /\ proc[c].pc = "next"
  BY DEF Read, Here
<1>3. CASE Exists(Current(c))
  <2>1. proc' = [proc EXCEPT ![c] = [GoTo(c, "fetch") EXCEPT !.last = subs[Current(c)].last]]
    BY <1>3 DEF Read
  <2>2. subs[Current(c)].last \in Known \cup {NoPage} /\ subs[Current(c)].last \in Pages \cup {NoPage}
    BY <1>1, RowFacts DEF Row
  <2>3. [GoTo(c, "fetch") EXCEPT !.last = subs[Current(c)].last] \in States
    BY <1>1, <2>2, At DEF GoTo, States, PCs
  <2>4. PICK v \in States : v = [GoTo(c, "fetch") EXCEPT !.last = subs[Current(c)].last]
    BY <2>3
  <2>5. /\ v.pc = "fetch" /\ v.last = subs[Current(c)].last /\ v.todo = proc[c].todo
        /\ v.got = proc[c].got /\ v.doc = proc[c].doc
    BY <1>1, <2>4, At DEF GoTo, States
  <2>6. proc[c].doc = 0
    BY <1>1, <1>2, At DEF Making
  <2>7. Local(c, v)
    BY <1>1, <1>2, <2>2, <2>5, <2>6, At DEF Local, Making
  <2>. QED
    BY <1>1, <1>2, <2>1, <2>4, <2>5, <2>6, <2>7, KeepsRest, Moved
<1>4. CASE ~Exists(Current(c))
  <2>1. proc' = [proc EXCEPT ![c] = Onward(c)]
    BY <1>4 DEF Read
  <2>. QED
    BY <1>2, <2>1, KeepsRest, OnwardStep DEF Here, Making
<1>. QED
  BY <1>3, <1>4

LEMMA FetchPageStep ==
    ASSUME IndInv, NEW c \in Crawls, FetchPage(c)
    PROVE  IndInv'
<1>1. Current(c) \in Subs /\ c \in Procs /\ c # Importer /\ c # Poster
  BY CrawlAt DEF FetchPage
<1>2. UNCHANGED <<subs, docs, raced, others>> /\ proc[c].pc = "fetch"
  BY DEF FetchPage, Here
<1>3. PICK o \in Fetch(Url[Current(c)]) :
         /\ faults' = IF Costs(Url[Current(c)], o) THEN faults + 1 ELSE faults
         /\ faults' <= MaxFaults
         /\ proc' = [proc EXCEPT ![c] = IF o.kind = "raised" THEN Idle
                                        ELSE [GoTo(c, "fetched") EXCEPT !.got = o]]
  BY DEF FetchPage
<1>4. o \in Checked
  <2>1. Url[Current(c)] \in Urls
    BY <1>1, UrlAssumption DEF Subs
  <2>. QED
    BY <1>3, <2>1, FetchChecked
<1>5. faults' \in 0..MaxFaults
  <2>1. faults \in Nat /\ MaxFaults \in Nat
    BY LimitsAssumption DEF IndInv, TypeOK
  <2>. QED
    BY <1>3, <2>1
<1>6. CASE o.kind = "raised"
  <2>1. proc' = [proc EXCEPT ![c] = Idle]
    BY <1>3, <1>6
  <2>. QED
    BY <1>2, <1>5, <2>1, KeepsRest, OnwardStep DEF Here, Making
<1>7. CASE o.kind # "raised"
  <2>1. proc' = [proc EXCEPT ![c] = [GoTo(c, "fetched") EXCEPT !.got = o]]
    BY <1>3, <1>7
  <2>2. [GoTo(c, "fetched") EXCEPT !.got = o] \in States
    BY <1>1, <1>4, At DEF GoTo, States, PCs, Checked
  <2>3. PICK v \in States : v = [GoTo(c, "fetched") EXCEPT !.got = o]
    BY <2>2
  <2>4. /\ v.pc = "fetched" /\ v.last = proc[c].last /\ v.todo = proc[c].todo
        /\ v.got = o /\ v.doc = proc[c].doc
    BY <1>1, <2>3, At DEF GoTo, States
  <2>5. proc[c].doc = 0
    BY <1>1, <1>2, At DEF Making
  <2>6. Local(c, v)
    BY <1>1, <1>2, <1>4, <2>4, <2>5, At DEF Local, Making
  <2>. QED
    BY <1>1, <1>2, <1>5, <2>1, <2>3, <2>4, <2>5, <2>6, KeepsRest, Moved
<1>. QED
  BY <1>6, <1>7

\* What a write leaves of a subscription.
LEMMA MarkErrorRow ==
    ASSUME IndInv, NEW s \in Subs
    PROVE  /\ MarkError(s) \in [Subs -> Row]
           /\ \A i \in Subs : MarkError(s)[i].last \in Known \cup {NoPage}
BY RowFacts DEF MarkError, IndInv, TypeOK, CursorsAreKnown, Row

LEMMA MarkFetchedRow ==
    ASSUME IndInv, NEW s \in Subs, NEW page \in Pages \cup {NoPage}, page \in Known \cup {NoPage}
    PROVE  /\ MarkFetched(s, page) \in [Subs -> Row]
           /\ \A i \in Subs : MarkFetched(s, page)[i].last \in Known \cup {NoPage}
<1>. DEFINE written == MarkFetched(s, page)
<1>1. subs \in [Subs -> Row]
  BY DEF IndInv, TypeOK
<1>2. /\ written \in [Subs -> Row] /\ written[s].last = page
      /\ \A i \in Subs \ {s} : written[i] = subs[i]
  BY <1>1 DEF MarkFetched, Row
<1>. QED
  BY <1>2, RowFacts

LEMMA RecordErrorStep ==
    ASSUME IndInv, NEW c \in Crawls, RecordError(c)
    PROVE  IndInv'
<1>1. Current(c) \in Subs /\ Here(c) = "fetched"
  BY CrawlAt DEF RecordError
<1>2. /\ UNCHANGED <<docs, raced, others, faults>>
      /\ subs' = subs \/ subs' = MarkError(Current(c))
      /\ proc' = [proc EXCEPT ![c] = Onward(c)] \/ proc' = [proc EXCEPT ![c] = Idle]
  BY DEF RecordError, Marking
<1>3. subs' \in [Subs -> Row] /\ \A s \in Subs : subs'[s].last \in Known \cup {NoPage}
  BY <1>1, <1>2, MarkErrorRow, KeepsRest
<1>. QED
  BY <1>1, <1>2, <1>3, KeepsRest, OnwardStep DEF Making

\* The page was read from the row, so it is known.
LEMMA RecordUnchangedStep ==
    ASSUME IndInv, NEW c \in Crawls, RecordUnchanged(c)
    PROVE  IndInv'
<1>1. Current(c) \in Subs /\ Here(c) = "fetched" /\ c \in Procs
  BY CrawlAt DEF RecordUnchanged
<1>2. PICK page \in Pages \cup {NoPage} : page = proc[c].got.page
  BY <1>1, At DEF States, Outcomes
<1>3. page \in Known \cup {NoPage}
  BY <1>1, <1>2, At DEF RecordUnchanged, Local
<1>4. /\ UNCHANGED <<docs, raced, others, faults>>
      /\ subs' = subs \/ subs' = MarkFetched(Current(c), page)
      /\ proc' = [proc EXCEPT ![c] = Onward(c)] \/ proc' = [proc EXCEPT ![c] = Idle]
  BY <1>2 DEF RecordUnchanged, Marking
<1>5. subs' \in [Subs -> Row] /\ \A s \in Subs : subs'[s].last \in Known \cup {NoPage}
  BY <1>1, <1>3, <1>4, MarkFetchedRow, KeepsRest
<1>. QED
  BY <1>1, <1>4, <1>5, KeepsRest, OnwardStep DEF Making

\* The page has come in before it is marked.
LEMMA RecordFetchedStep ==
    ASSUME IndInv, NEW c \in Crawls, RecordFetched(c)
    PROVE  IndInv'
<1>1. Current(c) \in Subs /\ Here(c) = "mark" /\ c \in Procs
  BY CrawlAt DEF RecordFetched
<1>2. PICK page \in Pages \cup {NoPage} : page = proc[c].got.page
  BY <1>1, At DEF States, Outcomes
<1>3. page \in Known \cup {NoPage}
  BY <1>1, <1>2, At DEF Here, Local
<1>4. /\ UNCHANGED <<docs, raced, others, faults>>
      /\ subs' = subs \/ subs' = MarkFetched(Current(c), page)
      /\ proc' = [proc EXCEPT ![c] = Onward(c)] \/ proc' = [proc EXCEPT ![c] = Idle]
  BY <1>2 DEF RecordFetched, Marking
<1>5. subs' \in [Subs -> Row] /\ \A s \in Subs : subs'[s].last \in Known \cup {NoPage}
  BY <1>1, <1>3, <1>4, MarkFetchedRow, KeepsRest
<1>. QED
  BY <1>1, <1>4, <1>5, KeepsRest, OnwardStep DEF Making

\* A process goes on with a page.
LEMMA WithState ==
    ASSUME IndInv, NEW p \in Procs, NEW page \in Pages, NEW pc \in PCs
    PROVE  /\ With(p, page, pc) \in States /\ With(p, page, pc).pc = pc
           /\ With(p, page, pc).todo = proc[p].todo /\ With(p, page, pc).last = NoPage
           /\ With(p, page, pc).got.page = page /\ With(p, page, pc).doc = proc[p].doc
           /\ With(p, page, pc).skipped = proc[p].skipped
           /\ With(p, page, pc).failed = proc[p].failed
           /\ With(p, page, pc).got \in Checked
<1>. DEFINE got == [Nothing EXCEPT !.page = page]
<1>1. got \in Checked /\ got.page = page
  BY NothingChecked DEF Checked, Sound, Outcomes
<1>2. proc[p] \in States
  BY At
<1>3. With(p, page, pc) = [proc[p] EXCEPT !.pc = pc, !.got = got, !.last = NoPage]
  BY Zenon DEF With
<1>. HIDE DEF got
<1>. QED
  BY <1>1, <1>2, <1>3 DEF States, Checked

\* Who finds no document of a page goes to create one, and a crawl that finds one marks.
LEMMA KnownIsFound ==
    ASSUME NEW page
    PROVE  page \in Known <=> Found(page) # {}
BY DEF Known, Found

LEMMA LookUpStep ==
    ASSUME IndInv, NEW c \in Crawls, LookUp(c)
    PROVE  IndInv'
<1>1. c \in Procs /\ c # Importer /\ c # Poster
  BY CrawlsAssumption DEF Procs
<1>2. UNCHANGED <<subs, docs, raced, others, faults>> /\ proc[c].pc = "fetched"
  BY DEF LookUp, Here
<1>3. PICK page \in Pages : page = proc[c].got.page
  BY <1>1, At DEF LookUp, Local, Checked, Sound
<1>4. PICK pc \in PCs : /\ pc = IF Found(page) = {} THEN "create" ELSE "mark"
                        /\ proc' = [proc EXCEPT ![c] = With(c, page, pc)]
  BY <1>3 DEF LookUp, PCs
<1>5. PICK v \in States : v = With(c, page, pc)
  BY <1>1, WithState
<1>6. /\ v.pc = pc /\ v.todo = proc[c].todo /\ v.last = NoPage /\ v.got.page = page
      /\ v.doc = proc[c].doc /\ v.got \in Checked
  BY <1>1, <1>5, WithState
<1>7. proc[c].doc = 0
  BY <1>1, <1>2, At DEF Making
<1>8. Local(c, v)
  <2>1. proc[c].todo \in Seq(Subs) /\ proc[c].todo # <<>>
    BY <1>1, <1>2, At DEF Local
  <2>2. pc \in {"create", "mark"}
    BY <1>4
  <2>. QED
    BY <1>4, <1>6, <1>7, <2>1, <2>2, KnownIsFound DEF Local, Making
<1>. QED
  BY <1>1, <1>2, <1>4, <1>5, <1>6, <1>7, <1>8, KeepsRest, Moved

--------------------------------------------------------------------------------
(* The import, and the request to ingest a URL. *)

LEMMA ImporterFacts == Importer \in Procs /\ Importer \notin Crawls /\ Importer # Poster
BY CrawlsAssumption DEF Procs, Importer, Poster

LEMMA StartImportStep ==
    ASSUME IndInv, StartImport
    PROVE  IndInv'
<1>. DEFINE pc == IF Directory = <<>> THEN "report" ELSE "next"
            n == Len(Directory)
<1>1. Directory \in Seq(Subs \cup Pages) /\ n \in Nat
  BY DirectoryAssumption
<1>2. [Idle EXCEPT !.todo = Directory, !.pc = pc] \in States
  BY <1>1, IdleState DEF States, PCs
<1>3. PICK v \in States : v = [Idle EXCEPT !.todo = Directory, !.pc = pc]
  BY <1>2
<1>4. /\ v.todo = Directory /\ v.pc = pc /\ v.doc = 0 /\ v.last = NoPage /\ v.got = Nothing
      /\ v.failed = 0 /\ v.skipped = 0
  BY <1>3, IdleState DEF States
<1>5. pc \in {"report", "next"} /\ (pc = "report" <=> Directory = <<>>)
  OBVIOUS
<1>. HIDE DEF pc
<1>6. Local(Importer, v)
  BY <1>4, <1>5, ImporterFacts, NothingChecked DEF Local, Making
<1>7. Importing(v)
  <2>1. Rest(Directory)
    BY <1>1 DEF Rest
  <2>2. 1..(n - n) = {}
    BY <1>1
  <2>. QED
    BY <1>4, <1>5, <2>1, <2>2 DEF Importing, Making
<1>8. proc[Importer].doc = 0
  BY ImporterFacts, At DEF StartImport, Here, Making
<1>9. /\ UNCHANGED <<subs, docs, raced, faults>> /\ others' = others + 1 /\ others < MaxOthers
      /\ proc' = [proc EXCEPT ![Importer] = v]
  BY <1>3 DEF StartImport, pc
<1>10. others' \in 0..MaxOthers
  BY <1>9, LimitsAssumption DEF IndInv, TypeOK
<1>. QED
  BY <1>4, <1>6, <1>7, <1>8, <1>9, <1>10, ImporterFacts, KeepsRest, Moved

LEMMA UnchangedGrows ==
    ASSUME IndInv, docs' = docs
    PROVE  Grows
BY DEF IndInv, TypeOK, Grows

LEMMA ImportFileStep ==
    ASSUME IndInv, ImportFile
    PROVE  IndInv'
<1>1. /\ UNCHANGED <<subs, docs, raced, others, faults>> /\ proc[Importer].pc = "next"
      /\ proc[Importer].doc = 0
  BY ImporterFacts, At DEF ImportFile, Here, Making
<1>2. PICK o \in States : o = proc[Importer]
  BY ImporterFacts, At
<1>3. PICK file \in Pages : file = Head(o.todo)
  <2>1. PICK todo \in Seq(Subs \cup Pages) : todo = o.todo
    BY DEF States
  <2>2. todo # <<>> /\ Rest(todo)
    BY <1>1, <1>2, <2>1, ImporterFacts, At DEF Importing
  <2>3. Head(todo) = Directory[Len(Directory) - Len(Tail(todo))] /\ Rest(Tail(todo))
        /\ Len(Tail(todo)) = Len(todo) - 1 /\ Len(todo) <= Len(Directory)
    BY <2>2, RestOfTail DEF Rest
  <2>4. Len(Directory) - Len(Tail(todo)) \in 1..Len(Directory)
    <3>1. Len(todo) \in Nat \ {0} /\ Len(Directory) \in Nat
      BY <2>2, TailFacts, DirectoryAssumption
    <3>. QED
      BY <2>3, <3>1
  <2>. QED
    BY <2>1, <2>3, <2>4, DirectoryAssumption
<1>4. CASE Found(file) = {}
  <2>1. proc' = [proc EXCEPT ![Importer] = With(Importer, file, "create")]
    BY <1>2, <1>3, <1>4 DEF ImportFile, Current
  <2>2. "create" \in PCs
    BY DEF PCs
  <2>3. PICK v \in States : v = With(Importer, file, "create")
    BY <2>2, ImporterFacts, WithState
  <2>4. /\ v.pc = "create" /\ v.todo = o.todo /\ v.last = NoPage /\ v.got.page = file
        /\ v.doc = 0 /\ v.got \in Checked /\ v.failed = o.failed /\ v.skipped = o.skipped
    BY <1>1, <1>2, <2>2, <2>3, ImporterFacts, WithState
  <2>5. Local(Importer, v)
    BY <1>4, <2>4, ImporterFacts, KnownIsFound DEF Local, Making
  <2>6. Importing(v)
    <3>1. Importing(o) /\ o.pc = "next"
      BY <1>1, <1>2, ImporterFacts, At
    <3>. QED
      BY <1>3, <2>4, <3>1 DEF Importing, Taken, Making
  <2>. QED
    BY <1>1, <2>1, <2>3, <2>4, <2>5, <2>6, ImporterFacts, KeepsRest, Moved
<1>5. CASE Found(file) # {}
  <2>1. proc' = [proc EXCEPT ![Importer] = [Onward(Importer) EXCEPT !.skipped = @ + 1]]
    BY <1>2, <1>3, <1>5 DEF ImportFile, Current
  <2>2. PICK on \in States : on = Onward(Importer)
    BY ImporterFacts, OnwardState
  <2>3. /\ on.doc = 0 /\ on.skipped = o.skipped /\ on.failed = o.failed /\ Local(Importer, on)
        /\ on.todo = IF o.todo = <<>> THEN <<>> ELSE Tail(o.todo)
        /\ on.pc = IF on.todo = <<>> THEN "report" ELSE "next"
    BY <1>2, <2>2, ImporterFacts, OnwardState
  <2>4. [on EXCEPT !.skipped = @ + 1] \in States
    <3>1. PICK k \in Nat : k = on.skipped + 1
      BY DEF States
    <3>2. [on EXCEPT !.skipped = k] \in States
      BY DEF States
    <3>. QED
      BY <3>1, <3>2
  <2>5. PICK v \in States : v = [on EXCEPT !.skipped = @ + 1]
    BY <2>4
  <2>6. /\ v.doc = 0 /\ v.skipped = o.skipped + 1 /\ v.failed = o.failed /\ v.todo = on.todo
        /\ v.pc = on.pc /\ v.got = on.got /\ v.last = on.last /\ o.skipped \in Nat
    BY <2>3, <2>5 DEF States
  <2>7. Local(Importer, v)
    BY <2>3, <2>6 DEF Local
  <2>8. o.todo # <<>>
    BY <1>1, <1>2, ImporterFacts, At DEF Importing
  <2>9. v.skipped # 0
    BY <2>6
  <2>10. Taken(file, v)
    BY <1>5, <2>9 DEF Taken
  <2>11. Importing(v)'
    <3>1. Taken(file, v)'
      BY <1>1, <2>10 DEF Taken, Found
    <3>2. /\ v.todo = Tail(proc[Importer].todo) /\ v.pc = IF v.todo = <<>> THEN "report" ELSE "next"
          /\ (v.failed = 0 => proc[Importer].failed = 0) /\ file = Head(proc[Importer].todo)
      BY <1>2, <1>3, <2>3, <2>6, <2>8
    <3>. QED
      BY <1>1, <2>9, <3>1, <3>2, ImportOn, UnchangedGrows
  <2>12. Importing(v)
    BY <1>1, <2>11 DEF Importing, Taken, Found
  <2>. QED
    BY <1>1, <2>1, <2>2, <2>5, <2>6, <2>7, <2>12, ImporterFacts, KeepsRest, Moved
<1>. QED
  BY <1>4, <1>5

LEMMA EndImportStep ==
    ASSUME IndInv, EndImport
    PROVE  IndInv'
<1>1. proc[Importer].doc = 0
  BY ImporterFacts, At DEF EndImport, Here, Making
<1>2. UNCHANGED <<subs, docs, raced, others, faults>> /\ proc' = [proc EXCEPT ![Importer] = Idle]
  BY DEF EndImport
<1>. QED
  BY <1>1, <1>2, ImporterFacts, IdleState, IdleLocal, KeepsRest, Moved

LEMMA PosterFacts == Poster \in Procs /\ Poster \notin Crawls /\ Poster # Importer
BY CrawlsAssumption DEF Procs, Importer, Poster

LEMMA PostUrlStep ==
    ASSUME IndInv, PostUrl
    PROVE  IndInv'
<1>0. PICK u \in Urls : \E o \in Fetch(u) :
         /\ o.kind = "page"
         /\ proc' = [proc EXCEPT ![Poster] = With(Poster, o.page, "create")]
  BY DEF PostUrl
<1>1. PICK o \in Fetch(u) :
         /\ o.kind = "page"
         /\ proc' = [proc EXCEPT ![Poster] = With(Poster, o.page, "create")]
  BY <1>0
<1>2. o.page \in Pages
  BY <1>1, FetchChecked DEF Checked, Sound
<1>3. "create" \in PCs
  BY DEF PCs
<1>4. PICK v \in States : v = With(Poster, o.page, "create")
  BY <1>2, <1>3, PosterFacts, WithState
<1>5. proc[Poster].doc = 0
  BY PosterFacts, At DEF PostUrl, Here, Making
<1>6. /\ v.pc = "create" /\ v.last = NoPage /\ v.got.page = o.page /\ v.doc = 0
      /\ v.got \in Checked
  BY <1>2, <1>3, <1>4, <1>5, PosterFacts, WithState
<1>7. Local(Poster, v)
  BY <1>2, <1>6, PosterFacts DEF Local, Making
<1>8. UNCHANGED <<subs, docs, raced, faults>> /\ others' = others + 1 /\ others < MaxOthers
  BY DEF PostUrl
<1>9. others' \in 0..MaxOthers
  BY <1>8, LimitsAssumption DEF IndInv, TypeOK
<1>. QED
  BY <1>1, <1>4, <1>5, <1>6, <1>7, <1>8, <1>9, PosterFacts, KeepsRest, Moved

--------------------------------------------------------------------------------
(* A document comes in. *)

LEMMA CreateGrows ==
    ASSUME IndInv, NEW p \in Procs, Create(p)
    PROVE  /\ proc[p].got.page \in Pages /\ Grows /\ Len(docs) \in Nat
           /\ Len(docs') = Len(docs) + 1 /\ DOMAIN docs' = 1..(Len(docs) + 1)
           /\ docs'[Len(docs) + 1] = [page |-> proc[p].got.page, by |-> p, has |-> {}, lost |-> FALSE]
           /\ \A d \in DOMAIN docs : docs'[d] = docs[d]
           /\ \A d \in DOMAIN docs' : d \in DOMAIN docs \/ d = Len(docs) + 1
<1>1. proc[p].got.page \in Pages
  BY At DEF Create, Here, Local
<1>2. PICK new \in Docs :
         new = [page |-> proc[p].got.page, by |-> p, has |-> {}, lost |-> FALSE]
  BY <1>1 DEF Docs
<1>3. docs' = Append(docs, new)
  BY <1>2 DEF Create
<1>4. docs \in Seq(Docs)
  BY DEF IndInv, TypeOK
<1>5. /\ docs' \in Seq(Docs) /\ Len(docs') = Len(docs) + 1 /\ Len(docs) \in Nat
      /\ docs'[Len(docs) + 1] = new /\ \A d \in 1..Len(docs) : docs'[d] = docs[d]
  BY <1>3, <1>4
<1>6. DOMAIN docs = 1..Len(docs) /\ DOMAIN docs' = 1..(Len(docs) + 1)
  BY <1>4, <1>5
<1>7. Grows
  BY <1>5, <1>6 DEF Grows
<1>. QED
  BY <1>1, <1>2, <1>5, <1>6, <1>7

\* Whoever else is about to create a document of the page is raced; whoever was
\* raced knew.
LEMMA CreateStep ==
    ASSUME IndInv, NEW p \in Procs, Create(p)
    PROVE  IndInv'
<1>1. PICK o \in States : o = proc[p]
  BY At
<1>2. o.pc = "create" /\ o.doc = 0 /\ Local(p, o) /\ (p = Importer => Importing(o))
  BY <1>1, At DEF Create, Here, Making
<1>3. PICK page \in Pages : page = o.got.page
  BY <1>1, CreateGrows
<1>4. PICK n \in Nat : n = Len(docs) + 1 /\ n # 0
  BY CreateGrows
<1>5. /\ Grows /\ DOMAIN docs' = 1..n /\ Len(docs') = n /\ DOMAIN docs = 1..(n - 1)
      /\ docs'[n].page = page /\ docs'[n].by = p
      /\ \A d \in DOMAIN docs : docs'[d] = docs[d]
      /\ \A d \in DOMAIN docs' : d \in DOMAIN docs \/ d = n
  <2>1. /\ Grows /\ DOMAIN docs' = 1..n /\ Len(docs') = n
        /\ docs'[n] = [page |-> page, by |-> p, has |-> {}, lost |-> FALSE]
        /\ \A d \in DOMAIN docs : docs'[d] = docs[d]
        /\ \A d \in DOMAIN docs' : d \in DOMAIN docs \/ d = n
    BY <1>1, <1>3, <1>4, CreateGrows
  <2>2. DOMAIN docs = 1..Len(docs) /\ Len(docs) = n - 1
    BY <1>4, Domains, CreateGrows DEF IndInv, TypeOK
  <2>. QED
    BY <2>1, <2>2
<1>6. Known' = Known \cup {page}
  BY <1>4, <1>5 DEF Known
<1>7. [GoTo(p, "job") EXCEPT !.doc = n] \in States
  BY <1>1 DEF GoTo, States, PCs
<1>8. PICK v \in States : v = [GoTo(p, "job") EXCEPT !.doc = n]
  BY <1>7
<1>9. /\ v.pc = "job" /\ v.todo = o.todo /\ v.last = o.last /\ v.got = o.got /\ v.doc = n
      /\ v.skipped = o.skipped /\ v.failed = o.failed
  BY <1>1, <1>8 DEF GoTo, States
<1>10. /\ proc' = [proc EXCEPT ![p] = v] /\ UNCHANGED <<subs, others, faults>>
       /\ raced' = IF \E q \in Procs \ {p} : proc[q].pc = "create" /\ proc[q].got.page = page
                   THEN raced \cup {page} ELSE raced
  BY <1>1, <1>3, <1>4, <1>8 DEF Create, Here
<1>11. raced \subseteq raced' /\ raced' \subseteq Pages
  BY <1>10 DEF IndInv, TypeOK
<1>12. Local(p, v)'
  BY <1>2, <1>3, <1>4, <1>5, <1>6, <1>9 DEF Local, Making
<1>13. p = Importer => Importing(v)'
  <2>1. p = Importer => Importing(v)
    BY <1>2, <1>9 DEF Importing, Taken, Making
  <2>. QED
    BY <1>5, <2>1, ImportingStays DEF IndInv
<1>14. \A q \in Procs \ {p} :
          proc[q].pc = "create" /\ q # Poster /\ proc[q].got.page \in Known' \ Known
            => proc[q].got.page \in raced'
  BY <1>6, <1>10
<1>15. ASSUME NEW d \in DOMAIN docs'
       PROVE  \/ "queued" \in docs'[d].has
              \/ docs'[d].lost
              \/ v.doc = d
              \/ \E q \in Procs \ {p} : proc[q].doc = d
  <2>1. CASE d = n
    BY <1>9, <2>1
  <2>2. CASE d # n
    <3>1. d \in DOMAIN docs /\ d # 0 /\ docs'[d] = docs[d]
      BY <1>5, <2>2
    <3>. QED
      BY <1>1, <1>2, <3>1 DEF IndInv, AllAccounted
  <2>. QED
    BY <2>1, <2>2
<1>16. SecondOnlyByRace'
  <2>1. SUFFICES ASSUME NEW d \in DOMAIN docs', NEW e \in DOMAIN docs', d < e,
                        docs'[d].page = docs'[e].page, docs'[e].by # Poster
                 PROVE  docs'[e].page \in raced'
    BY DEF SecondOnlyByRace
  <2>2. d \in 1..n /\ e \in 1..n /\ d # n
    BY <1>5, <2>1
  <2>3. d \in DOMAIN docs /\ docs'[d] = docs[d]
    BY <1>5, <2>2
  <2>4. CASE e = n
    <3>1. page \in Known /\ p # Poster
      BY <1>5, <2>1, <2>3, <2>4 DEF Known
    <3>. QED
      BY <1>2, <1>3, <1>5, <1>11, <2>4, <3>1 DEF Local
  <2>5. CASE e # n
    <3>1. e \in DOMAIN docs /\ docs'[e] = docs[e]
      BY <1>5, <2>2, <2>5
    <3>. QED
      BY <1>11, <2>1, <2>3, <3>1 DEF IndInv, SecondOnlyByRace
  <2>. QED
    BY <2>4, <2>5
<1>17. v.doc \in 0..Len(docs')
  BY <1>4, <1>5, <1>9
<1>. QED
  BY <1>5, <1>10, <1>11, <1>12, <1>13, <1>14, <1>15, <1>16, <1>17, KeepsRest, Stepped

\* A step that takes no page away and adds none keeps the documents of a page apart.
LEMMA SameDocuments ==
    ASSUME IndInv, Grows, Len(docs') = Len(docs), raced' = raced
    PROVE  /\ DOMAIN docs' = DOMAIN docs /\ Known' = Known /\ SecondOnlyByRace'
           /\ \A f : Found(f)' = Found(f)
<1>1. DOMAIN docs' = DOMAIN docs
  BY Domains DEF IndInv, TypeOK, Grows
<1>2. Known' = Known
  BY <1>1 DEF Known, Grows
<1>3. SecondOnlyByRace'
  BY <1>1 DEF IndInv, SecondOnlyByRace, Grows
<1>4. \A f : Found(f)' = Found(f)
  BY <1>1 DEF Found, Grows
<1>. QED
  BY <1>1, <1>2, <1>3, <1>4

\* The document of a process is given one more thing.
LEMMA ProvideGrows ==
    ASSUME IndInv, NEW p \in Procs, proc[p].pc \in Making,
           NEW what \in {"job", "source", "queued"},
           docs' = [docs EXCEPT ![proc[p].doc].has = @ \cup {what}]
    PROVE  /\ Grows /\ Len(docs') = Len(docs) /\ proc[p].doc \in DOMAIN docs
           /\ what \in docs'[proc[p].doc].has
           /\ \A d \in DOMAIN docs : docs'[d].lost = docs[d].lost
<1>1. docs \in Seq(Docs) /\ DOMAIN docs = 1..Len(docs) /\ Len(docs) \in Nat
  BY Domains DEF IndInv, TypeOK
<1>2. PICK d \in DOMAIN docs : d = proc[p].doc
  BY <1>1, At DEF Local, IndInv, TypeOK
<1>3. PICK new \in Docs : new = [docs[d] EXCEPT !.has = @ \cup {what}]
  <2>1. PICK row \in Docs : row = docs[d]
    BY <1>1
  <2>2. [row EXCEPT !.has = @ \cup {what}] \in Docs
    BY DEF Docs
  <2>. QED
    BY <2>1, <2>2
<1>4. docs' = [docs EXCEPT ![d] = new]
  BY <1>2, <1>3
<1>5. docs[d] \in Docs
  BY <1>1
<1>6. /\ new.page = docs[d].page /\ new.by = docs[d].by /\ new.lost = docs[d].lost
      /\ new.has = docs[d].has \cup {what}
  BY <1>3, <1>5 DEF Docs
<1>7. /\ docs' \in Seq(Docs) /\ Len(docs') = Len(docs) /\ docs'[d] = new
      /\ \A e \in DOMAIN docs : e # d => docs'[e] = docs[e]
  BY <1>1, <1>2, <1>4
<1>8. Grows
  BY <1>1, <1>6, <1>7 DEF Grows
<1>. QED
  BY <1>2, <1>6, <1>7, <1>8

LEMMA ProvideStep ==
    ASSUME IndInv, NEW p \in Procs, proc[p].pc \in Making,
           NEW what \in {"job", "source", "queued"}, NEW v \in States,
           Provide(p, what, v), Local(p, v), p = Importer => Importing(v)',
           v.doc \in {0, proc[p].doc}, v.doc = 0 => what = "queued"
    PROVE  IndInv'
<1>1. PICK d : d = proc[p].doc
  OBVIOUS
<1>2. /\ docs' = [docs EXCEPT ![d].has = @ \cup {what}] /\ proc' = [proc EXCEPT ![p] = v]
      /\ UNCHANGED <<subs, raced, others, faults>>
  BY <1>1 DEF Provide
<1>3. /\ Grows /\ Len(docs') = Len(docs) /\ d \in DOMAIN docs /\ what \in docs'[d].has
      /\ \A e \in DOMAIN docs : docs'[e].lost = docs[e].lost
  BY <1>1, <1>2, ProvideGrows
<1>4. DOMAIN docs' = DOMAIN docs /\ Known' = Known /\ SecondOnlyByRace'
  BY <1>2, <1>3, SameDocuments
<1>5. Local(p, v)'
  <2>1. v.doc # 0 => docs'[v.doc].page = docs[v.doc].page
    BY <1>1, <1>3 DEF Grows
  <2>. QED
    BY <1>2, <1>4, <2>1 DEF Local
<1>6. ASSUME NEW e \in DOMAIN docs'
      PROVE  \/ "queued" \in docs'[e].has
             \/ docs'[e].lost
             \/ v.doc = e
             \/ \E q \in Procs \ {p} : proc[q].doc = e
  <2>1. CASE e = d
    BY <1>1, <1>3, <2>1
  <2>2. CASE e # d
    BY <1>1, <1>3, <1>4, <2>2 DEF IndInv, AllAccounted, Grows
  <2>. QED
    BY <2>1, <2>2
<1>7. v.doc \in 0..Len(docs')
  BY <1>1, <1>3 DEF IndInv, TypeOK
<1>8. raced' \subseteq Pages /\ raced \subseteq raced'
  BY <1>2 DEF IndInv, TypeOK
<1>. QED
  BY <1>2, <1>3, <1>4, <1>5, <1>6, <1>7, <1>8, KeepsRest, Stepped

LEMMA GoesOnMaking ==
    ASSUME IndInv, NEW p \in Procs, proc[p].pc \in Making, NEW pc \in Making, Grows,
           NEW v \in States, v = GoTo(p, pc)
    PROVE  /\ Local(p, v) /\ v.doc = proc[p].doc /\ v.doc # 0
           /\ p = Importer => Importing(v)'
<1>1. PICK o \in States : o = proc[p] /\ Local(p, o) /\ (p = Importer => Importing(o))
  BY At
<1>3. v = [o EXCEPT !.pc = pc]
  BY <1>1 DEF GoTo
<1>4. /\ v.pc = pc /\ v.todo = o.todo /\ v.last = o.last /\ v.got = o.got /\ v.doc = o.doc
      /\ v.skipped = o.skipped /\ v.failed = o.failed
  BY <1>3 DEF States
<1>6. Local(p, v)
  BY <1>1, <1>4 DEF Local, Making
<1>7. p = Importer => Importing(v)
  BY <1>1, <1>4 DEF Importing, Taken, Making
<1>8. p = Importer => Importing(v)'
  BY <1>7, ImportingStays DEF IndInv
<1>. QED
  BY <1>1, <1>4, <1>6, <1>8 DEF Local

LEMMA CreateJobStep ==
    ASSUME IndInv, NEW p \in Procs, CreateJob(p) \/ WriteSource(p)
    PROVE  IndInv'
<1>1. PICK what \in {"job", "source"}, pc \in Making :
         proc[p].pc \in Making /\ Provide(p, what, GoTo(p, pc))
  BY DEF CreateJob, WriteSource, Here, Making
<1>2. Grows
  <2>1. docs' = [docs EXCEPT ![proc[p].doc].has = @ \cup {what}]
    BY <1>1 DEF Provide
  <2>. QED
    BY <1>1, <2>1, ProvideGrows
<1>3. PICK v \in States : v = GoTo(p, pc)
  BY At DEF GoTo, States, PCs, Making
<1>4. Provide(p, what, v)
  BY <1>1, <1>3
<1>5. /\ Local(p, v) /\ v.doc = proc[p].doc /\ v.doc # 0
      /\ p = Importer => Importing(v)'
  BY <1>1, <1>2, <1>3, GoesOnMaking
<1>. QED
  BY <1>1, <1>4, <1>5, ProvideStep

\* What a crawl has queued it may mark; what the import has queued is taken.
LEMMA EnqueueStep ==
    ASSUME IndInv, NEW p \in Procs, Enqueue(p)
    PROVE  IndInv'
<1>1. PICK o \in States : o = proc[p] /\ Local(p, o) /\ (p = Importer => Importing(o))
  BY At
<1>2. o.pc = "enqueue"
  BY <1>1 DEF Enqueue, Here
<1>3. PICK d \in DOMAIN docs : d = o.doc /\ docs[d].page = o.got.page
  <2>1. o.doc # 0 /\ o.doc \in 0..Len(docs)
    BY <1>1, <1>2 DEF Local, Making, IndInv, TypeOK
  <2>2. o.doc \in DOMAIN docs
    BY <2>1, Domains DEF IndInv, TypeOK
  <2>. QED
    BY <1>1, <2>1, <2>2 DEF Local
<1>4. docs' = [docs EXCEPT ![proc[p].doc].has = @ \cup {"queued"}]
  BY DEF Enqueue, Provide
<1>5. Grows /\ Len(docs') = Len(docs) /\ "queued" \in docs'[d].has
  BY <1>1, <1>2, <1>3, <1>4, ProvideGrows DEF Making
<1>6. o.got.page \in Known
  BY <1>3 DEF Known
<1>7. CASE p \in Crawls
  <2>1. Provide(p, "queued", [GoTo(p, "mark") EXCEPT !.doc = 0])
    BY <1>7 DEF Enqueue
  <2>2. [GoTo(p, "mark") EXCEPT !.doc = 0] \in States
    BY <1>1 DEF GoTo, States, PCs
  <2>3. PICK v \in States : v = [GoTo(p, "mark") EXCEPT !.doc = 0]
    BY <2>2
  <2>4. /\ v.pc = "mark" /\ v.todo = o.todo /\ v.last = o.last /\ v.got = o.got /\ v.doc = 0
    BY <1>1, <2>3 DEF GoTo, States
  <2>5. Local(p, v)
    BY <1>1, <1>2, <1>6, <2>4 DEF Local, Making
  <2>6. p # Importer
    BY <1>7, ImporterFacts
  <2>. QED
    BY <1>1, <1>2, <2>1, <2>3, <2>4, <2>5, <2>6, ProvideStep DEF Making
<1>8. CASE p \notin Crawls
  <2>1. Provide(p, "queued", Onward(p))
    BY <1>8 DEF Enqueue
  <2>2. PICK v \in States : v = Onward(p) /\ v.doc = 0 /\ Local(p, v)
    BY OnwardState
  <2>3. ASSUME p = Importer PROVE Importing(v)'
    <3>1. PICK file : file = Head(o.todo)
      OBVIOUS
    <3>2. o.todo # <<>> /\ file = o.got.page
      BY <1>1, <1>2, <2>3, <3>1 DEF Importing, Making
    <3>3. /\ v.todo = Tail(o.todo) /\ v.failed = o.failed /\ v.skipped = o.skipped
          /\ v.pc = IF v.todo = <<>> THEN "report" ELSE "next"
      BY <1>1, <2>2, <2>3, <3>2, OnwardState
    <3>4. d \in Found(file)'
      <4>1. d \in DOMAIN docs' /\ docs'[d].page = file
        BY <1>3, <1>5, <3>2, KnownGrows DEF Grows, IndInv
      <4>. QED
        BY <4>1 DEF Found
    <3>5. Taken(file, v)'
      BY <1>5, <3>4 DEF Taken
    <3>. QED
      BY <1>1, <1>2, <1>5, <2>3, <3>1, <3>3, <3>5, ImportOn
  <2>4. Provide(p, "queued", v)
    BY <2>1, <2>2
  <2>. QED
    BY <1>1, <1>2, <2>2, <2>3, <2>4, ProvideStep DEF Making
<1>. QED
  BY <1>7, <1>8

LEMMA SubmitStep ==
    ASSUME IndInv, NEW p \in Procs, Submit(p)
    PROVE  IndInv'
BY CreateStep, CreateJobStep, EnqueueStep DEF Submit

--------------------------------------------------------------------------------
(* Faults. *)

LEMMA GivenUpGrows ==
    ASSUME IndInv, NEW p \in Procs, docs' = GivenUp(p)
    PROVE  /\ Grows /\ Len(docs') = Len(docs)
           /\ \A d \in DOMAIN docs : docs'[d].has = docs[d].has
           /\ \A d \in DOMAIN docs : d # proc[p].doc => docs'[d] = docs[d]
           /\ \A d \in DOMAIN docs : d = proc[p].doc =>
                 "queued" \in docs'[d].has \/ docs'[d].lost
<1>1. docs \in Seq(Docs) /\ DOMAIN docs = 1..Len(docs) /\ Len(docs) \in Nat
  BY Domains DEF IndInv, TypeOK
<1>. DEFINE Left(d) == IF d = proc[p].doc
                       THEN [docs[d] EXCEPT !.lost = "queued" \notin docs[d].has]
                       ELSE docs[d]
<1>2. ASSUME NEW d \in 1..Len(docs)
      PROVE  /\ Left(d) \in Docs /\ Left(d).page = docs[d].page /\ Left(d).by = docs[d].by
             /\ Left(d).has = docs[d].has
             /\ d # proc[p].doc => Left(d) = docs[d]
             /\ d = proc[p].doc => "queued" \in docs[d].has \/ Left(d).lost
  <2>1. PICK row \in Docs : row = docs[d]
    BY <1>1
  <2>2. PICK lost \in BOOLEAN : lost = ("queued" \notin row.has)
    <3>1. ("queued" \notin row.has) \in BOOLEAN
      OBVIOUS
    <3>. QED
      BY <3>1, Zenon
  <2>3. "queued" \in row.has \/ lost
    BY <2>2, Zenon
  <2>4. /\ [row EXCEPT !.lost = lost] \in Docs
        /\ [row EXCEPT !.lost = lost].page = row.page
        /\ [row EXCEPT !.lost = lost].by = row.by
        /\ [row EXCEPT !.lost = lost].has = row.has
        /\ [row EXCEPT !.lost = lost].lost = lost
    BY DEF Docs
  <2>5. Left(d) = IF d = proc[p].doc THEN [row EXCEPT !.lost = lost] ELSE row
    BY <2>1, <2>2, Zenon
  <2>. HIDE DEF Left
  <2>6. CASE d = proc[p].doc
    <3>1. Left(d) = [row EXCEPT !.lost = lost]
      BY <2>5, <2>6
    <3>2. /\ Left(d) \in Docs /\ Left(d).page = row.page /\ Left(d).by = row.by
          /\ Left(d).has = row.has /\ Left(d).lost = lost
      BY <2>4, <3>1
    <3>. QED
      BY <2>1, <2>3, <2>6, <3>2
  <2>7. CASE d # proc[p].doc
    <3>1. Left(d) = row
      BY <2>5, <2>7
    <3>. QED
      BY <2>1, <2>7, <3>1
  <2>. QED
    BY <2>6, <2>7
<1>3. docs' = [d \in 1..Len(docs) |-> Left(d)]
  BY <1>1 DEF GivenUp
<1>. HIDE DEF Left
<1>4. docs' \in Seq(Docs) /\ Len(docs') = Len(docs)
  BY <1>1, <1>2, <1>3
<1>5. Grows
  BY <1>1, <1>2, <1>3, <1>4 DEF Grows
<1>. QED
  BY <1>1, <1>2, <1>3, <1>4, <1>5

\* A process gives up its document; it ends, or the import goes on.
LEMMA GiveUpStep ==
    ASSUME IndInv, NEW p \in Procs, NEW v \in States, docs' = GivenUp(p),
           proc' = [proc EXCEPT ![p] = v], v.doc = 0, Local(p, v),
           p = Importer => Importing(v)',
           UNCHANGED <<subs, raced, others>>, faults < MaxFaults, faults' = faults + 1
    PROVE  IndInv'
<1>1. /\ Grows /\ Len(docs') = Len(docs)
      /\ \A d \in DOMAIN docs : docs'[d].has = docs[d].has
      /\ \A d \in DOMAIN docs : d # proc[p].doc => docs'[d] = docs[d]
      /\ \A d \in DOMAIN docs : d = proc[p].doc => "queued" \in docs'[d].has \/ docs'[d].lost
  BY GivenUpGrows
<1>2. DOMAIN docs' = DOMAIN docs /\ Known' = Known /\ SecondOnlyByRace'
  BY <1>1, SameDocuments
<1>3. Local(p, v)'
  BY <1>2 DEF Local
<1>4. ASSUME NEW d \in DOMAIN docs'
      PROVE  \/ "queued" \in docs'[d].has
             \/ docs'[d].lost
             \/ v.doc = d
             \/ \E q \in Procs \ {p} : proc[q].doc = d
  <2>1. CASE d = proc[p].doc
    BY <1>1, <1>2, <2>1
  <2>2. CASE d # proc[p].doc
    <3>1. d \in DOMAIN docs /\ docs'[d] = docs[d]
      BY <1>1, <1>2, <2>2
    <3>. QED
      BY <2>2, <3>1 DEF IndInv, AllAccounted
  <2>. QED
    BY <2>1, <2>2
<1>5. faults' \in 0..MaxFaults /\ raced \subseteq raced' /\ raced' \subseteq Pages
  BY LimitsAssumption DEF IndInv, TypeOK
<1>6. v.doc \in 0..Len(docs')
  BY <1>1, Domains DEF IndInv, TypeOK
<1>. QED
  BY <1>1, <1>2, <1>3, <1>4, <1>5, <1>6, KeepsRest, Stepped

LEMMA RefusedStep ==
    ASSUME IndInv, NEW p \in Procs, Refused(p)
    PROVE  IndInv'
<1>1. /\ docs' = GivenUp(p) /\ UNCHANGED <<subs, raced, others>>
      /\ faults < MaxFaults /\ faults' = faults + 1
  BY DEF Refused
<1>2. CASE p # Importer
  <2>1. proc' = [proc EXCEPT ![p] = Idle]
    BY <1>2 DEF Refused
  <2>. QED
    BY <1>1, <1>2, <2>1, IdleState, IdleLocal, GiveUpStep
<1>3. CASE p = Importer
  <2>1. proc' = [proc EXCEPT ![p] = [Onward(p) EXCEPT !.failed = @ + 1]]
    BY <1>3 DEF Refused
  <2>2. PICK o \in States : o = proc[p] /\ Importing(o)
    BY <1>3, At
  <2>3. PICK on \in States : on = Onward(p)
    BY OnwardState
  <2>4. /\ on.doc = 0 /\ on.skipped = o.skipped /\ on.failed = o.failed /\ Local(p, on)
        /\ on.todo = IF o.todo = <<>> THEN <<>> ELSE Tail(o.todo)
        /\ on.pc = IF on.todo = <<>> THEN "report" ELSE "next"
    BY <1>3, <2>2, <2>3, OnwardState
  <2>5. PICK k \in Nat : k = on.failed + 1 /\ k # 0
    BY DEF States
  <2>6. [on EXCEPT !.failed = k] \in States
    BY DEF States
  <2>7. PICK v \in States : v = [on EXCEPT !.failed = k]
    BY <2>6
  <2>8. /\ v.doc = 0 /\ v.skipped = o.skipped /\ v.failed # 0 /\ v.todo = on.todo
        /\ v.pc = on.pc /\ v.got = on.got /\ v.last = on.last
    BY <2>4, <2>5, <2>7 DEF States
  <2>9. Local(p, v)
    BY <2>4, <2>8 DEF Local
  <2>10. proc[Importer].pc \notin {"idle", "report"} /\ o.todo # <<>>
    BY <1>3, <2>2 DEF Refused, Here, Importing
  <2>11. PICK file : file = Head(proc[Importer].todo)
    OBVIOUS
  <2>12. Taken(file, v)'
    BY <2>8 DEF Taken
  <2>13. Importing(v)'
    <3>1. /\ v.todo = Tail(proc[Importer].todo)
          /\ v.pc = IF v.todo = <<>> THEN "report" ELSE "next"
          /\ v.skipped = 0 => proc[Importer].skipped = 0
      BY <1>3, <2>2, <2>4, <2>8, <2>10
    <3>. QED
      BY <1>1, <2>8, <2>10, <2>11, <2>12, <3>1, GivenUpGrows, ImportOn
  <2>14. proc' = [proc EXCEPT ![p] = v]
    BY <2>1, <2>3, <2>5, <2>7
  <2>. QED
    BY <1>1, <2>8, <2>9, <2>13, <2>14, GiveUpStep
<1>. QED
  BY <1>2, <1>3

LEMMA KilledStep ==
    ASSUME IndInv, Killed
    PROVE  IndInv'
<1>1. /\ docs' = GivenUp(Importer) /\ UNCHANGED <<subs, raced, others>>
      /\ faults < MaxFaults /\ faults' = faults + 1 /\ proc' = [proc EXCEPT ![Importer] = Idle]
  BY DEF Killed
<1>2. PICK v \in States : v = Idle
  BY IdleState
<1>3. Grows
  BY <1>1, ImporterFacts, GivenUpGrows
<1>4. Importing(v)'
  <2>1. Importing(v)
    BY <1>2, ImporterFacts, IdleLocal
  <2>. QED
    BY <1>3, <2>1, ImportingStays DEF IndInv
<1>. QED
  BY <1>1, <1>2, <1>4, ImporterFacts, IdleState, IdleLocal, GiveUpStep

--------------------------------------------------------------------------------
(* The invariant. *)

LEMMA InitInv ==
    ASSUME Init
    PROVE  IndInv
<1>1. subs \in [Subs -> Row] /\ \A s \in Subs : subs[s].last = NoPage
  <2>1. [NewRow EXCEPT !.is = "not yet"] \in Row /\ [NewRow EXCEPT !.is = "not yet"].last = NoPage
    BY DEF NewRow, Row
  <2>. QED
    BY <2>1 DEF Init
<1>2. proc \in [Procs -> States] /\ \A p \in Procs : proc[p] = Idle
  BY IdleState DEF Init
<1>3. docs \in Seq(Docs) /\ Len(docs) = 0 /\ DOMAIN docs = {}
  <2>1. docs = <<>>
    BY DEF Init
  <2>2. docs \in Seq(Docs) /\ Len(docs) = 0
    BY <2>1
  <2>. QED
    BY <2>2, Domains
<1>4. TypeOK
  <2>1. \A p \in Procs : proc[p].doc \in 0..Len(docs)
    BY <1>2, <1>3, IdleState
  <2>2. raced = {} /\ others = 0 /\ faults = 0
    BY DEF Init
  <2>3. 0 \in 0..MaxOthers /\ 0 \in 0..MaxFaults
    BY LimitsAssumption
  <2>. QED
    BY <1>1, <1>2, <1>3, <2>1, <2>2, <2>3 DEF TypeOK
<1>5. \A p \in Procs : Local(p, proc[p])
  BY <1>2, IdleLocal
<1>6. Importing(proc[Importer])
  BY <1>2, ImporterFacts, IdleLocal
<1>7. AllAccounted /\ SecondOnlyByRace
  BY <1>3 DEF AllAccounted, SecondOnlyByRace
<1>8. CursorsAreKnown
  BY <1>1 DEF CursorsAreKnown
<1>. QED
  BY <1>4, <1>5, <1>6, <1>7, <1>8 DEF IndInv

LEMMA NextInv ==
    ASSUME IndInv, [Next]_vars
    PROVE  IndInv'
<1>1. ASSUME Admin PROVE IndInv'
  BY <1>1, AdminStep
<1>2. ASSUME NEW s \in Subs, TimePasses(s) PROVE IndInv'
  BY <1>2, TimeStep
<1>3. ASSUME NEW c \in Crawls, CrawlStep(c) PROVE IndInv'
  <2>1. c \in Procs
    BY DEF Procs
  <2>. QED
    BY <1>3, <2>1, ScanStep, ReadStep, FetchPageStep, RecordErrorStep, RecordUnchangedStep,
       LookUpStep, RecordFetchedStep, SubmitStep DEF CrawlStep
<1>4. ASSUME StartImport \/ ImportFile \/ Submit(Importer) \/ EndImport PROVE IndInv'
  BY <1>4, ImporterFacts, StartImportStep, ImportFileStep, SubmitStep, EndImportStep
<1>5. ASSUME PostUrl \/ Submit(Poster) PROVE IndInv'
  BY <1>5, PosterFacts, PostUrlStep, SubmitStep
<1>6. ASSUME NEW p \in Procs, Refused(p) PROVE IndInv'
  BY <1>6, RefusedStep
<1>7. ASSUME Killed PROVE IndInv'
  BY <1>7, KilledStep
<1>8. CASE UNCHANGED vars
  BY <1>8, KeepsRest, RowsChange DEF vars
<1>. QED
  BY <1>1, <1>2, <1>3, <1>4, <1>5, <1>6, <1>7, <1>8 DEF Next

\* The inductive invariant holds in every reachable state: of every fetch, document,
\* cursor and count of the import.
THEOREM Invariance == Spec => []IndInv
<1>1. Init => IndInv
  BY InitInv
<1>2. IndInv /\ [Next]_vars => IndInv'
  BY NextInv
<1>. QED
  BY <1>1, <1>2, PTL DEF Spec

\* The rows, the documents and the processes keep their types.
THEOREM TypeCorrect == Spec => []TypeOK
<1>1. IndInv => TypeOK
  BY DEF IndInv
<1>. QED
  BY <1>1, Invariance, PTL

\* No server is asked but at a public address of a host of the allow list, whatever
\* the name service says and however many redirects there are.
THEOREM ContactsChecked == Spec => []ContactsAreChecked
<1>1. IndInv => ContactsAreChecked
  BY DEF IndInv, Local, Checked, Sound, ContactsAreChecked
<1>. QED
  BY <1>1, Invariance, PTL

\* What a subscription is marked with has come in, or a fault made its process give
\* it up, whatever fails between the document and the mark.
THEOREM FetchedHasCome == Spec => []FetchedHasComeIn
<1>1. ASSUME IndInv, NEW s \in Subs, subs[s].last # NoPage
      PROVE  \E d \in Found(subs[s].last) :
                \/ "queued" \in docs[d].has
                \/ docs[d].lost
                \/ \E p \in Procs : proc[p].doc = d
  <2>1. PICK d \in DOMAIN docs : docs[d].page = subs[s].last
    BY <1>1 DEF IndInv, CursorsAreKnown, Known
  <2>2. d \in Found(subs[s].last)
    BY <2>1 DEF Found
  <2>. QED
    BY <1>1, <2>1, <2>2 DEF IndInv, AllAccounted
<1>2. IndInv => FetchedHasComeIn
  BY <1>1 DEF FetchedHasComeIn
<1>. QED
  BY <1>2, Invariance, PTL

\* A crawl or an import makes a second document of a page only in a race, for any
\* number of crawls at a time.
THEOREM SecondOnlyRaced == Spec => []SecondOnlyByRace
<1>1. IndInv => SecondOnlyByRace
  BY DEF IndInv
<1>. QED
  BY <1>1, Invariance, PTL

\* An import that reports no failure has left a document of every file, queued if it
\* skipped none, for any directory.
THEOREM ReportsHold == Spec => []ReportHolds
<1>1. ASSUME IndInv, Here(Importer) = "report", proc[Importer].failed = 0,
             NEW f \in Range(Directory)
      PROVE  \E d \in Found(f) : proc[Importer].skipped = 0 => "queued" \in docs[d].has
  <2>1. PICK i \in DOMAIN Directory : f = Directory[i]
    BY <1>1 DEF Range
  <2>2. proc[Importer].pc = "report" /\ Importing(proc[Importer])
    BY <1>1 DEF IndInv, Here
  <2>3. proc[Importer].todo = <<>>
    BY <2>2 DEF Importing
  <2>4. i \in 1..(Len(Directory) - Len(proc[Importer].todo))
    BY <2>1, <2>3, DirectoryAssumption
  <2>5. Taken(f, proc[Importer])
    BY <2>1, <2>2, <2>4 DEF Importing
  <2>. QED
    BY <1>1, <2>5 DEF Taken
<1>2. IndInv => ReportHolds
  BY <1>1 DEF ReportHolds
<1>. QED
  BY <1>2, Invariance, PTL

\* No fetch in flight brings back a subscription that was deleted, or ends or begins
\* a pause.
THEOREM AdminAlone == Spec => AdminDecides
<1>. DEFINE Obeyed == \A s \in Subs :
               /\ subs[s].is = "deleted" => subs'[s].is = "deleted"
               /\ (Exists(s) /\ Exists(s)' /\ subs[s].enabled # subs'[s].enabled) => proc' = proc
<1>1. ASSUME IndInv, [Next]_vars PROVE [Obeyed]_vars
  <2>. subs \in [Subs -> Row]
    BY <1>1 DEF IndInv, TypeOK
  <2>1. ASSUME subs' = subs PROVE Obeyed
    BY <2>1
  <2>2. ASSUME Admin PROVE Obeyed
    <3>. PICK s \in Subs : Subscribe(s) \/ Toggle(s) \/ Unsubscribe(s)
      BY <2>2 DEF Admin
    <3>1. proc' = proc
      BY DEF Subscribe, Toggle, Unsubscribe
    <3>2. subs[s].is # "deleted" /\ \A i \in Subs \ {s} : subs'[i] = subs[i]
      BY DEF Subscribe, Toggle, Unsubscribe, Toggled, Removed, Exists
    <3>. QED
      BY <3>1, <3>2
  <2>3. ASSUME NEW s \in Subs, TimePasses(s) PROVE Obeyed
    <3>1. \A i \in Subs : subs'[i].is = subs[i].is /\ subs'[i].enabled = subs[i].enabled
      BY <2>3 DEF TimePasses, Row
    <3>. QED
      BY <3>1
  <2>4. ASSUME NEW c \in Crawls,
               RecordError(c) \/ RecordUnchanged(c) \/ RecordFetched(c)
        PROVE  Obeyed
    <3>1. PICK s \in Subs : s = Current(c)
      BY <1>1, <2>4, CrawlAt DEF RecordError, RecordUnchanged, RecordFetched
    <3>2. \/ subs' = subs
          \/ subs' = [subs EXCEPT ![s].due = FALSE]
          \/ \E page : subs' = [subs EXCEPT ![s].last = page, ![s].due = FALSE]
      BY <2>4, <3>1 DEF RecordError, RecordUnchanged, RecordFetched, Marking, MarkError, MarkFetched
    <3>3. ASSUME NEW page, subs' = [subs EXCEPT ![s].last = page, ![s].due = FALSE],
                 NEW i \in Subs
          PROVE  subs'[i].is = subs[i].is /\ subs'[i].enabled = subs[i].enabled
      BY <3>3 DEF Row
    <3>4. ASSUME subs' = [subs EXCEPT ![s].due = FALSE], NEW i \in Subs
          PROVE  subs'[i].is = subs[i].is /\ subs'[i].enabled = subs[i].enabled
      BY <3>4 DEF Row
    <3>5. \A i \in Subs : subs'[i].is = subs[i].is /\ subs'[i].enabled = subs[i].enabled
      BY <3>2, <3>3, <3>4
    <3>. QED
      BY <3>5
  <2>5. ASSUME NEW p \in Procs, Submit(p) \/ Refused(p) PROVE subs' = subs
    BY <2>5 DEF Submit, Create, CreateJob, WriteSource, Enqueue, Provide, Refused
  <2>6. ASSUME NEW c \in Crawls, Scan(c) \/ Read(c) \/ FetchPage(c) \/ LookUp(c)
        PROVE  subs' = subs
    BY <2>6 DEF Scan, Read, FetchPage, LookUp
  <2>7. ASSUME StartImport \/ ImportFile \/ EndImport \/ PostUrl \/ Killed PROVE subs' = subs
    BY <2>7 DEF StartImport, ImportFile, EndImport, PostUrl, Killed
  <2>8. ASSUME UNCHANGED vars PROVE subs' = subs
    BY <2>8 DEF vars
  <2>9. Crawls \subseteq Procs /\ Importer \in Procs /\ Poster \in Procs
    BY DEF Procs
  <2>. HIDE DEF Obeyed
  <2>. QED
    BY <1>1, <2>1, <2>2, <2>3, <2>4, <2>5, <2>6, <2>7, <2>8, <2>9 DEF Next, CrawlStep
<1>. QED
  BY <1>1, Invariance, PTL DEF Spec, AdminDecides
================================================================================
