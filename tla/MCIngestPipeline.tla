---------------------------- MODULE MCIngestPipeline ----------------------------
(***************************************************************************)
(* Instances of IngestPipeline for TLC: where calls may fail and where     *)
(* processes may die, and which knowledge base a job's document is in.     *)
(***************************************************************************)
EXTENDS IngestPipeline

CONSTANTS j1, j2, k1

\* One document, or two documents of the same knowledge base.
OneKb == [j \in Jobs |-> k1]

\* Everywhere a worker makes a call that can fail: the registry and the files
\* in every step, the embedder and the vector store in "work".
StageCalls == Tasks \X {"resume", "check", "work", "commit"}
                \cup {<<"index", "count">>, <<"index", "ready">>}

\* The calls whose failure a retry of the same task repairs: those made while
\* the job stands at a stage that RetryFrom maps to itself, or whose task can
\* start from the stage it maps to.
RepairableCalls == ({"parse", "chunk"} \X {"resume", "check", "work", "artifact", "commit"})
                     \cup {<<"index", "count">>, <<"index", "ready">>}

\* The embedder's call.
EmbedderCall == {<<"embed", "work">>}

\* A worker dies in a task, but not between the commits of indexed and ready.
ResumableCrashes == (Tasks \X (Running \cup {"waiting"}))
                      \ {<<"index", "count">>, <<"index", "ready">>}

\* Between any two calls of a process that holds work nobody else knows of, but there.
AnyProcess == {<<"parse", p>> : p \in Submitting} \cup ResumableCrashes
================================================================================
