---------------------------- MODULE MCSearchService ----------------------------
(***************************************************************************)
(* Instances of SearchService for TLC: which documents have the same       *)
(* content.                                                                *)
(***************************************************************************)
EXTENDS SearchRefinement

CONSTANTS d1, d2, d3, w1, c1, c2, c3, q1

\* The first two uploads are of one content; or every document has its own.
SameContent == [d \in Docs |-> IF d \in {d1, d2} THEN c1 ELSE IF d = d3 THEN c2 ELSE c3]
OwnContent  == [d \in Docs |-> IF d = d1 THEN c1 ELSE IF d = d2 THEN c2 ELSE c3]
================================================================================
