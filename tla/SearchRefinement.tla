---------------------------- MODULE SearchRefinement ----------------------------
(***************************************************************************)
(* How the state of SearchService maps to that of SearchContract.          *)
(***************************************************************************)
EXTENDS SearchService

\* A document is stored from the answer to its upload to the first step of its
\* deletion; every other registered document is partial.  A query's answer is
\* its hits.
StoredDocs == {d \in Kept : upload[d] = "done"}

Contract == INSTANCE SearchContract
    WITH Pending <- NotCached,
         stored  <- StoredDocs,
         partial <- docs \ StoredDocs,
         answer  <- [q \in Queries |-> IF Answered(q) THEN memo[q].hits ELSE NotCached]

\* One client at a time gets what the contract promises, through failed calls,
\* failed deletions and restarts of the process: every query finds all stored
\* documents and none that was deleted.
MeetsContract == Contract!Spec
================================================================================
