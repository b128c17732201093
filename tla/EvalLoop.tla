-------------------------------- MODULE EvalLoop -------------------------------
(***************************************************************************)
(* The evaluation that runs for hours: the loop of                         *)
(* scripts/run_judge_eval_loop.py, which evaluates the entries of the data *)
(* set batch after batch and goes on where it was when it is started       *)
(* again, the servers it starts, and eval/ragas_runner.py, which evaluates *)
(* one batch and appends the details of each entry to a file.              *)
(*                                                                         *)
(* Entries are numbered as in the data set.  Files of details are named    *)
(* for the offset of their batch and the time, so that no two runs of the  *)
(* runner write to the same one; what they hold together is kept here, the *)
(* same line in files of one offset once.                                  *)
(***************************************************************************)
EXTENDS Naturals, FiniteSets

CONSTANTS
    Total,      \* --total: entries to evaluate, all that the data set has
    Batch,      \* --batch: entries a batch has at most
    MaxSkips,   \* bound: evaluations of an entry that fail and are skipped
    MaxFaults   \* bound: processes killed or crashed, servers that are not up or down in time

ASSUME TotalAssumption == Total \in Nat
ASSUME BatchAssumption == Batch \in Nat \ {0}
ASSUME LimitsAssumption == {MaxSkips, MaxFaults} \subseteq Nat

Entries == 1..Total

VARIABLES
    marker,    \* whether the details of the former judge are said to be removed
    details,   \* lines of the files of details
    loop, done,      \* where the loop is, and the number of entries it has counted
    gen, judge,      \* the two servers: whether they run, whether the loop holds them
    runners,         \* the runner of this loop, and one that outlived its loop
    orphaned,        \* whether a loop has lost a server, or ended before it stopped all
    skips, faults    \* how many there were

vars == <<marker, details, loop, done, gen, judge, runners, orphaned, skips, faults>>

\* whole: FALSE for a line whose writing was cut off; old: of the former judge.
Lines == [offset : 0..Total, id : Entries, whole : BOOLEAN, old : BOOLEAN]
PCs == {"off", "clean", "mark", "count", "gen", "judge", "run", "wait", "finally", "ended",
        "failed"}
Servers == [up : BOOLEAN, held : BOOLEAN]
Down == [up |-> FALSE, held |-> FALSE]

\* A runner: the offset it was given, the entry it is at and the last one of its batch.
Runners == [offset : 0..Total, at : 1..(Total + 1), last : 0..Total]
NoRunner == [offset |-> 0, at |-> 1, last |-> 0]
Working(w) == runners[w].at <= runners[w].last

TypeOK ==
    /\ marker \in BOOLEAN
    /\ details \subseteq Lines
    /\ loop \in PCs /\ done \in 0..Total
    /\ gen \in Servers /\ judge \in Servers
    /\ runners \in [{"own", "orphan"} -> Runners]
    /\ orphaned \in BOOLEAN
    /\ skips \in 0..MaxSkips /\ faults \in 0..MaxFaults

\* The details of an evaluation by the former judge are there.
Init ==
    /\ marker = FALSE
    /\ details = {[offset |-> 0, id |-> e, whole |-> TRUE, old |-> TRUE] : e \in Entries}
    /\ loop = "off" /\ done = 0
    /\ gen = Down /\ judge = Down
    /\ runners = [w \in {"own", "orphan"} |-> NoRunner]
    /\ orphaned = FALSE
    /\ skips = 0 /\ faults = 0

--------------------------------------------------------------------------------
(* The loop. *)

\* Mutant of DoneCount: lines are counted, not entries.
DoneLines == Cardinality(details)

\* _done_count: entries of which some file has a line that can be read.
DoneCount == Cardinality({l.id : l \in {m \in details : m.whole}})

\* The script is started: what it does first depends on the marker.
Start ==
    /\ loop \in {"off", "failed"}
    /\ loop' = IF marker THEN "count" ELSE "clean"
    /\ UNCHANGED <<marker, details, done, gen, judge, runners, orphaned, skips, faults>>

\* The files of the former judge go, then the marker is written.
Clean ==
    /\ loop = "clean"
    /\ details' = {} /\ loop' = "mark"
    /\ UNCHANGED <<marker, done, gen, judge, runners, orphaned, skips, faults>>

Mark ==
    /\ loop = "mark"
    /\ marker' = TRUE /\ loop' = "count"
    /\ UNCHANGED <<details, done, gen, judge, runners, orphaned, skips, faults>>

\* The top of the loop: it returns once everything is counted.
Count ==
    /\ loop = "count"
    /\ done' = DoneCount
    /\ loop' = IF DoneCount >= Total THEN "finally" ELSE "gen"
    /\ UNCHANGED <<marker, details, gen, judge, runners, orphaned, skips, faults>>

\* _start_server: the new process is the one the loop holds from now on.
Held(server) == [up |-> TRUE, held |-> ~server.up]

\* ensure_gen: a server that answers is used, whoever has started it.
EnsureGen ==
    /\ loop = "gen" /\ loop' = "judge"
    /\ gen' = IF gen.up THEN gen ELSE Held(gen)
    /\ UNCHANGED <<marker, details, done, judge, runners, orphaned, skips, faults>>

\* start_judge.
StartJudge ==
    /\ loop = "judge" /\ loop' = "run"
    /\ judge' = IF judge.up THEN judge ELSE Held(judge)
    /\ UNCHANGED <<marker, details, done, gen, runners, orphaned, skips, faults>>

\* A server that runs does not answer the probe: another is started, which cannot have
\* the port and ends, and the loop holds that one.  Its own, if it was that, is lost.
Lost(server) == server.up /\ server.held

\* Then the first one answers after all.
EnsureSlow ==
    /\ faults < MaxFaults /\ faults' = faults + 1
    /\ \/ /\ loop = "gen" /\ gen.up /\ loop' = "judge"
          /\ gen' = Held(gen) /\ orphaned' = (orphaned \/ Lost(gen))
          /\ UNCHANGED judge
       \/ /\ loop = "judge" /\ judge.up /\ loop' = "run"
          /\ judge' = Held(judge) /\ orphaned' = (orphaned \/ Lost(judge))
          /\ UNCHANGED gen
    /\ UNCHANGED <<marker, details, done, runners, skips>>

\* Or none answers in time, be it that it was started for the probe or that it ran, and
\* answered the probe or did not: RuntimeError.
ServerTimeout ==
    /\ faults < MaxFaults /\ faults' = faults + 1
    /\ loop' = "finally"
    /\ \/ /\ loop = "gen" /\ UNCHANGED judge
          /\ \/ gen.up /\ UNCHANGED <<gen, orphaned>>
             \/ gen' = Held(gen) /\ orphaned' = (orphaned \/ Lost(gen))
       \/ /\ loop = "judge" /\ UNCHANGED gen
          /\ \/ judge.up /\ UNCHANGED <<judge, orphaned>>
             \/ judge' = Held(judge) /\ orphaned' = (orphaned \/ Lost(judge))
    /\ UNCHANGED <<marker, details, done, runners, skips>>

\* The batch begins: the runner takes the entries behind as many as are done.
RunBatch ==
    /\ loop = "run" /\ loop' = "wait"
    /\ LET last == IF done + Batch < Total THEN done + Batch ELSE Total
       IN runners' = [runners EXCEPT !.own = [offset |-> done, at |-> done + 1, last |-> last]]
    /\ UNCHANGED <<marker, details, done, gen, judge, orphaned, skips, faults>>

\* Mutant of StopJudge: the server goes on.
StopNothing == UNCHANGED judge

\* stop_judge: only a server that the loop holds.
StopJudge == judge' = IF judge.held THEN Down ELSE judge

\* The runner has ended, whatever its exit code: the judge is stopped until the next
\* batch.
EndBatch ==
    /\ loop = "wait" /\ ~Working("own")
    /\ loop' = "count"
    /\ StopJudge
    /\ UNCHANGED <<marker, details, done, gen, runners, orphaned, skips, faults>>

\* The finally clause, after the return as after an exception.
Finally ==
    /\ loop = "finally"
    /\ loop' = IF done >= Total THEN "ended" ELSE "failed"
    /\ StopJudge
    /\ gen' = IF gen.held THEN Down ELSE gen
    /\ UNCHANGED <<marker, details, done, runners, orphaned, skips, faults>>

\* stop_judge waits 30 seconds, then raises TimeoutExpired: behind a batch on to the
\* finally clause, which stops the judge once more; there out of the script, and the
\* generation server, next in line, is never told to stop.
StopTimeout ==
    /\ judge.up /\ judge.held /\ faults < MaxFaults
    /\ faults' = faults + 1
    /\ \/ /\ loop = "wait" /\ ~Working("own") /\ loop' = "finally"
          /\ UNCHANGED <<gen, judge, orphaned>>
       \/ /\ loop = "finally" /\ loop' = "failed"
          /\ gen' = [gen EXCEPT !.held = FALSE] /\ judge' = [judge EXCEPT !.held = FALSE]
          /\ orphaned' = TRUE
    /\ UNCHANGED <<marker, details, done, runners, skips>>

\* A server ends by itself, by hand, or late after it was told to.
ServerEnds ==
    /\ \/ gen.up /\ gen' = [gen EXCEPT !.up = FALSE] /\ UNCHANGED judge
       \/ judge.up /\ judge' = [judge EXCEPT !.up = FALSE] /\ UNCHANGED gen
    /\ UNCHANGED <<marker, details, loop, done, runners, orphaned, skips, faults>>

LoopStep ==
    \/ Start \/ Clean \/ Mark \/ Count \/ EnsureGen \/ StartJudge
    \/ RunBatch \/ EndBatch \/ Finally

--------------------------------------------------------------------------------
(* The runner: run_eval with --skip-errors. *)

\* On to the next entry of the batch.
Onward(w) == [runners EXCEPT ![w].at = @ + 1]

\* A line of the entry the runner is at.
Line(w, whole) ==
    [offset |-> runners[w].offset, id |-> runners[w].at, whole |-> whole, old |-> FALSE]

\* The entry is evaluated and its details are appended at once.
Save(w) ==
    /\ Working(w)
    /\ details' = details \cup {Line(w, TRUE)}
    /\ runners' = Onward(w)
    /\ UNCHANGED <<marker, loop, done, gen, judge, orphaned, skips, faults>>

\* A ValueError, as of a judge that answers no number: the entry is skipped.
Skip(w) ==
    /\ Working(w) /\ skips < MaxSkips
    /\ skips' = skips + 1
    /\ runners' = Onward(w)
    /\ UNCHANGED <<marker, details, loop, done, gen, judge, orphaned, faults>>

\* Another exception, or the runner is killed, while it writes maybe.
Crash(w) ==
    /\ Working(w) /\ faults < MaxFaults
    /\ faults' = faults + 1
    /\ details' \in {details, details \cup {Line(w, FALSE)}}
    /\ runners' = [runners EXCEPT ![w] = NoRunner]
    /\ UNCHANGED <<marker, loop, done, gen, judge, orphaned, skips>>

--------------------------------------------------------------------------------
(* The loop is killed: it runs no finally clause, the servers stay, and so does the
   runner if it is not killed as well. *)
Kill ==
    /\ loop \notin {"off", "ended", "failed"} /\ faults < MaxFaults
    /\ faults' = faults + 1
    /\ loop' = "off" /\ done' = 0
    /\ orphaned' = (orphaned \/ gen.up \/ judge.up)
    /\ gen' = [gen EXCEPT !.held = FALSE] /\ judge' = [judge EXCEPT !.held = FALSE]
    /\ \/ runners' = [runners EXCEPT !.own = NoRunner]
       \/ /\ Working("own") /\ ~Working("orphan")
          /\ runners' = [own |-> NoRunner, orphan |-> runners.own]
    /\ UNCHANGED <<marker, details, skips>>

Next ==
    \/ LoopStep \/ EnsureSlow \/ ServerTimeout \/ StopTimeout \/ ServerEnds
    \/ \E w \in {"own", "orphan"} : Save(w) \/ Skip(w) \/ Crash(w)
    \/ Kill

Spec == Init /\ [][Next]_vars

\* The loop and its runner go on, and who finds the script ended starts it again.
FairSpec == Spec /\ WF_vars(LoopStep) /\ WF_vars(Save("own") \/ Skip("own"))

--------------------------------------------------------------------------------
(* Properties. *)

Saved == {l.id : l \in {m \in details : m.whole /\ ~m.old}}

\* When the loop says that everything is done, every entry has its details, however
\* often batches overlapped, lines were cut off and entries skipped (_done_count).
CompleteMeansAll == loop = "ended" => Saved = Entries

\* The judge takes no memory between batches, and no server that a loop has started
\* outlives it, also when servers are late to come up and the judge was late to stop
\* behind a batch (stop_judge, the finally clause).  Three things are excepted: a loop
\* that was killed, a server lost to the one started in its place, and a judge that does
\* not stop in the finally clause either, which leaves both servers behind.
ServersAreStopped ==
    ~orphaned => /\ judge.up => loop \in {"run", "wait", "finally"}
                 /\ loop \in {"off", "ended", "failed"} => ~gen.up

\* If no entry is ever skipped, all entries get their details, whatever is killed,
\* crashes or is cut off on the way.
ResumesToTheEnd == [](skips = 0) => <>(Saved = Entries)

\* The loop ends (the docstrings of the script and of run_eval).
LoopEnds == <>(loop = "ended")
================================================================================
