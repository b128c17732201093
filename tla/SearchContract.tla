----------------------------- MODULE SearchContract -----------------------------
(***************************************************************************)
(* What the search service promises of one knowledge base.  A document is  *)
(* registered, stored, and in the end discarded; in between, while it is   *)
(* ingested, after its ingest failed and while it is deleted, it is only   *)
(* partly there.  The answer to a query has every stored document, may     *)
(* have a partial one, and has nothing else: no document that was          *)
(* discarded, no part of the knowledge base left out.                      *)
(***************************************************************************)
CONSTANTS Docs, Queries, Pending

VARIABLES stored, partial, answer

vars == <<stored, partial, answer>>

Init ==
    /\ stored = {}
    /\ partial = {}
    /\ answer = [q \in Queries |-> Pending]

Register(d) ==
    /\ d \notin stored \cup partial
    /\ partial' = partial \cup {d}
    /\ UNCHANGED <<stored, answer>>

Complete(d) ==
    /\ d \in partial
    /\ partial' = partial \ {d}
    /\ stored' = stored \cup {d}
    /\ UNCHANGED answer

Withdraw(d) ==
    /\ d \in stored
    /\ stored' = stored \ {d}
    /\ partial' = partial \cup {d}
    /\ UNCHANGED answer

Discard(d) ==
    /\ d \in partial
    /\ partial' = partial \ {d}
    /\ UNCHANGED <<stored, answer>>

Ask(q) ==
    /\ answer' = [answer EXCEPT ![q] = Pending]
    /\ UNCHANGED <<stored, partial>>

Answer(q) ==
    /\ answer[q] = Pending
    /\ \E extra \in SUBSET partial : answer' = [answer EXCEPT ![q] = stored \cup extra]
    /\ UNCHANGED <<stored, partial>>

Next ==
    \/ \E d \in Docs : Register(d) \/ Complete(d) \/ Withdraw(d) \/ Discard(d)
    \/ \E q \in Queries : Ask(q) \/ Answer(q)

Spec == Init /\ [][Next]_vars
================================================================================
