------------------------------ MODULE IngestState ------------------------------
(***************************************************************************)
(* The stage machine of one ingest job (core/ingest/state.py): the stages, *)
(* the whitelist of legal transitions, the stage a failed job resumes at,  *)
(* and the order that decides whether a stage method may be skipped.       *)
(* Pure definitions: the registry (IngestPipeline!TransitionJob) applies   *)
(* them to a job's row.                                                    *)
(***************************************************************************)
EXTENDS Naturals

\* The stages in the order a job goes through them, and the failed state.
ForwardStages == {"uploaded", "parsed", "chunked", "embedded", "indexed", "ready"}
Stages == ForwardStages \cup {"failed"}

\* Position of a forward stage (_STAGE_ORDER).
Rank == [uploaded |-> 0, parsed |-> 1, chunked |-> 2,
         embedded |-> 3, indexed |-> 4, ready |-> 5]

\* The whitelist: one stage forward, into failed from any stage but ready,
\* and out of failed into any stage but ready.
Transitions ==
    {p \in ForwardStages \X ForwardStages : Rank[p[2]] = Rank[p[1]] + 1}
      \cup {<<s, "failed">> : s \in ForwardStages \ {"ready"}}
      \cup {<<"failed", s>> : s \in ForwardStages \ {"ready"}}

CanTransition(frm, to) == <<frm, to>> \in Transitions

\* Mutant of RetryFrom: a failed job always starts over.
RetryFromStart == [s \in Stages |-> "uploaded"]

\* The stage a failed job is put back to, by the stage it failed at.
RetryFrom == [uploaded |-> "uploaded", parsed |-> "parsed", chunked |-> "parsed",
              embedded |-> "chunked", indexed |-> "embedded", failed |-> "uploaded"]

\* Has a job at stage cur already done the work that leads to target?
StageReached(cur, target) ==
    \/ cur = "ready"
    \/ /\ cur # "failed"
       /\ Rank[cur] >= Rank[target]
================================================================================
