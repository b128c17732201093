----------------------------- MODULE EvalLoopProofs ------------------------------
(***************************************************************************)
(* Proofs about EvalLoop, for any data set, batch and number of faults:    *)
(* type correctness, that the loop says it is done only when every entry   *)
(* has its details, and that no server outlives it unnoticed.              *)
(***************************************************************************)
EXTENDS EvalLoop, FiniteSetTheorems, TLAPS

--------------------------------------------------------------------------------
(* The inductive invariant *)

\* Behind the first marker there are no details of the former judge.
MarkerInv ==
    /\ loop \in {"count", "gen", "judge", "run", "wait", "finally", "ended", "failed"} => marker
    /\ (marker \/ loop = "mark") => \A l \in details : ~l.old

\* A batch begins only while entries are missing; nothing is removed once all are there.
DoneInv ==
    /\ loop \in {"gen", "judge", "run", "wait"} => done < Total
    /\ (loop \in {"finally", "ended"} /\ done >= Total) => Saved = Entries
    /\ loop = "ended" => done >= Total

\* Unless one was orphaned, the loop holds the servers that run.
HeldInv == ~orphaned => (gen.up => gen.held) /\ (judge.up => judge.held)

IndInv == TypeOK /\ MarkerInv /\ DoneInv /\ HeldInv /\ ServersAreStopped

--------------------------------------------------------------------------------
(* Lemmas *)

\* Entries are counted by a line that can be read, once each: all are there when as many
\* are counted as the data set has.
LEMMA Counted ==
    ASSUME TypeOK
    PROVE  /\ DoneCount \in 0..Total
           /\ DoneCount >= Total => {l.id : l \in {m \in details : m.whole}} = Entries
<1>. DEFINE ids == {l.id : l \in {m \in details : m.whole}}
<1>1. ids \subseteq Entries
  BY DEF TypeOK, Lines
<1>2. IsFiniteSet(Entries) /\ Cardinality(Entries) = Total
  BY FS_Interval, TotalAssumption DEF Entries
<1>. HIDE DEF ids
<1>3. /\ IsFiniteSet(ids) /\ Cardinality(ids) <= Total
      /\ Cardinality(ids) = Total => ids = Entries
  BY <1>1, <1>2, FS_Subset
<1>4. Cardinality(ids) \in Nat
  BY <1>3, FS_CardinalityType
<1>5. DoneCount = Cardinality(ids)
  BY DEF DoneCount, ids
<1>. QED
  BY <1>3, <1>4, <1>5, TotalAssumption DEF ids

\* Lines that are added are of an entry of the data set, and not of the former judge.
LEMMA LineType ==
    ASSUME TypeOK, NEW w \in {"own", "orphan"}, Working(w), NEW whole \in BOOLEAN
    PROVE  /\ Line(w, whole) \in Lines /\ ~Line(w, whole).old
           /\ Onward(w) \in [{"own", "orphan"} -> Runners]
<1>1. runners[w] \in Runners
  BY DEF TypeOK
<1>2. runners[w].at \in 1..Total /\ runners[w].at + 1 \in 1..(Total + 1)
  BY <1>1, TotalAssumption DEF Runners, Working
<1>3. Line(w, whole) \in Lines /\ ~Line(w, whole).old
  BY <1>1, <1>2 DEF Line, Lines, Runners, Entries
<1>4. [runners[w] EXCEPT !.at = @ + 1] \in Runners
  BY <1>1, <1>2 DEF Runners
<1>5. Onward(w) \in [{"own", "orphan"} -> Runners]
  BY <1>4 DEF TypeOK, Onward
<1>. QED
  BY <1>3, <1>5

LEMMA NoRunnerType == NoRunner \in Runners
BY TotalAssumption DEF NoRunner, Runners

\* A step of a runner adds lines, and leaves the loop and the servers alone.
LEMMA RunnerNext ==
    ASSUME IndInv, runners' \in [{"own", "orphan"} -> Runners], skips' \in 0..MaxSkips,
           faults' \in 0..MaxFaults, details \subseteq details', details' \subseteq Lines,
           \A l \in details' \ details : ~l.old,
           UNCHANGED <<marker, loop, done>>, UNCHANGED <<gen, judge, orphaned>>
    PROVE  IndInv'
<1>1. TypeOK'
  BY DEF IndInv, TypeOK
<1>2. MarkerInv'
  BY DEF IndInv, MarkerInv
<1>3. DoneInv'
  <2>1. Saved \subseteq Saved'
    BY DEF Saved
  <2>2. Saved' \subseteq Entries
    BY DEF Saved, Lines
  <2>. QED
    BY <2>1, <2>2 DEF IndInv, DoneInv
<1>4. HeldInv' /\ ServersAreStopped'
  BY DEF IndInv, HeldInv, ServersAreStopped
<1>. QED
  BY <1>1, <1>2, <1>3, <1>4 DEF IndInv

LEMMA RunnersNext ==
    ASSUME IndInv, NEW w \in {"own", "orphan"}, Save(w) \/ Skip(w) \/ Crash(w)
    PROVE  IndInv'
<1>1. TypeOK /\ Working(w) /\ skips \in 0..MaxSkips /\ faults \in 0..MaxFaults
      /\ MaxSkips \in Nat /\ MaxFaults \in Nat
  BY LimitsAssumption DEF IndInv, TypeOK, Save, Skip, Crash
<1>2. UNCHANGED <<marker, loop, done>> /\ UNCHANGED <<gen, judge, orphaned>>
  BY DEF Save, Skip, Crash
<1>3. /\ Line(w, TRUE) \in Lines /\ ~Line(w, TRUE).old
      /\ Line(w, FALSE) \in Lines /\ ~Line(w, FALSE).old
      /\ Onward(w) \in [{"own", "orphan"} -> Runners]
  BY <1>1, LineType
<1>4. details \subseteq Lines
  BY <1>1 DEF TypeOK
<1>5. CASE Save(w)
  BY <1>1, <1>2, <1>3, <1>4, <1>5, RunnerNext DEF Save
<1>6. CASE Skip(w)
  <2>1. skips' \in 0..MaxSkips /\ faults' \in 0..MaxFaults
    BY <1>1, <1>6 DEF Skip
  <2>. QED
    BY <1>1, <1>2, <1>3, <1>4, <1>6, <2>1, RunnerNext DEF Skip
<1>7. CASE Crash(w)
  <2>1. skips' \in 0..MaxSkips /\ faults' \in 0..MaxFaults
    BY <1>1, <1>7 DEF Crash
  <2>2. runners' \in [{"own", "orphan"} -> Runners]
    BY <1>1, <1>7, NoRunnerType DEF Crash, TypeOK
  <2>3. /\ details \subseteq details' /\ details' \subseteq Lines
        /\ \A l \in details' \ details : ~l.old
    BY <1>3, <1>4, <1>7 DEF Crash
  <2>. QED
    BY <1>2, <2>1, <2>2, <2>3, RunnerNext
<1>. QED
  BY <1>5, <1>6, <1>7

--------------------------------------------------------------------------------
(* The steps of the loop *)

\* Those that leave the details and the servers alone.
LEMMA CountNext ==
    ASSUME IndInv, Start \/ Mark \/ Count
    PROVE  IndInv'
<1>1. UNCHANGED <<details, runners, skips, faults>> /\ UNCHANGED <<gen, judge, orphaned>>
  BY DEF Start, Mark, Count
<1>2. CASE Start \/ Mark
  <2>1. TypeOK'
    <3>1. loop' \in PCs /\ marker' \in BOOLEAN /\ done' = done
      BY <1>2 DEF Start, Mark, PCs, IndInv, TypeOK
    <3>. QED
      BY <1>1, <3>1 DEF IndInv, TypeOK
  <2>2. MarkerInv'
    BY <1>1, <1>2 DEF Start, Mark, IndInv, MarkerInv
  <2>3. DoneInv'
    BY <1>1, <1>2 DEF Start, Mark, DoneInv
  <2>4. HeldInv' /\ ServersAreStopped'
    BY <1>1, <1>2 DEF Start, Mark, IndInv, HeldInv, ServersAreStopped
  <2>. QED
    BY <2>1, <2>2, <2>3, <2>4 DEF IndInv
<1>3. CASE Count
  <2>1. /\ DoneCount \in 0..Total
        /\ DoneCount >= Total => {l.id : l \in {m \in details : m.whole}} = Entries
    BY Counted DEF IndInv
  <2>2. /\ loop = "count" /\ done' = DoneCount /\ marker' = marker
        /\ loop' = IF DoneCount >= Total THEN "finally" ELSE "gen"
    BY <1>3 DEF Count
  <2>3. TypeOK'
    BY <1>1, <2>1, <2>2 DEF IndInv, TypeOK, PCs
  <2>4. MarkerInv'
    BY <1>1, <2>2 DEF IndInv, MarkerInv
  <2>5. DoneInv'
    <3>1. \A l \in details : ~l.old
      BY <2>2 DEF IndInv, MarkerInv
    <3>2. Saved = {l.id : l \in {m \in details : m.whole}}
      BY <3>1 DEF Saved
    <3>3. Saved' = Saved
      BY <1>1 DEF Saved
    <3>4. Total \in Nat /\ DoneCount \in Nat
      BY <2>1, TotalAssumption
    <3>. QED
      BY <2>1, <2>2, <3>2, <3>3, <3>4 DEF DoneInv
  <2>6. HeldInv' /\ ServersAreStopped'
    BY <1>1, <2>2 DEF IndInv, HeldInv, ServersAreStopped
  <2>. QED
    BY <2>3, <2>4, <2>5, <2>6 DEF IndInv
<1>. QED
  BY <1>2, <1>3

LEMMA CleanNext ==
    ASSUME IndInv, Clean
    PROVE  IndInv'
<1>1. /\ loop = "clean" /\ details' = {} /\ loop' = "mark"
      /\ UNCHANGED <<marker, done, runners, skips, faults>> /\ UNCHANGED <<gen, judge, orphaned>>
  BY DEF Clean
<1>2. TypeOK'
  BY <1>1 DEF IndInv, TypeOK, PCs
<1>3. MarkerInv' /\ DoneInv'
  BY <1>1 DEF MarkerInv, DoneInv
<1>4. HeldInv' /\ ServersAreStopped'
  BY <1>1 DEF IndInv, HeldInv, ServersAreStopped
<1>. QED
  BY <1>2, <1>3, <1>4 DEF IndInv

\* A server that is started is one the loop holds, unless another has the port.
LEMMA HeldType ==
    ASSUME NEW s \in Servers
    PROVE  Held(s) \in Servers /\ Held(s).up /\ (~s.up => Held(s).held)
BY DEF Held, Servers

\* Putting another in the place of a server orphans one, or the loop holds what runs.
LEMMA LostOrHeld ==
    ASSUME NEW s \in Servers, s.up => s.held, ~Lost(s)
    PROVE  Held(s).held
BY DEF Lost, Held, Servers

\* The steps in which servers are started.
Starts == EnsureGen \/ StartJudge \/ EnsureSlow \/ ServerTimeout

LEMMA ServersNext ==
    ASSUME IndInv, Starts
    PROVE  IndInv'
<1>. USE DEF Starts
<1>1. /\ TypeOK /\ gen \in Servers /\ judge \in Servers /\ faults \in 0..MaxFaults
      /\ MaxFaults \in Nat /\ Total \in Nat /\ done \in 0..Total
      /\ UNCHANGED <<marker, details, done, runners, skips>>
  BY LimitsAssumption, TotalAssumption DEF IndInv, TypeOK, EnsureGen, EnsureSlow, StartJudge,
     ServerTimeout
<1>2. Held(gen) \in Servers /\ Held(judge) \in Servers
  BY <1>1, HeldType
<1>3. gen' \in Servers /\ judge' \in Servers
  BY <1>1, <1>2 DEF EnsureGen, EnsureSlow, StartJudge, ServerTimeout
<1>4. \/ orphaned' = orphaned
      \/ orphaned' = (orphaned \/ Lost(gen)) \/ orphaned' = (orphaned \/ Lost(judge))
  BY DEF EnsureGen, EnsureSlow, StartJudge, ServerTimeout
<1>5. orphaned' \in BOOLEAN
  <2>1. (orphaned \/ Lost(gen)) \in BOOLEAN /\ (orphaned \/ Lost(judge)) \in BOOLEAN
        /\ orphaned \in BOOLEAN
    BY <1>1 DEF TypeOK
  <2>. QED
    BY <1>4, <2>1, Zenon
<1>6. faults' \in 0..MaxFaults /\ loop' \in PCs
  BY <1>1 DEF EnsureGen, EnsureSlow, StartJudge, ServerTimeout, PCs
<1>7. TypeOK'
  BY <1>1, <1>3, <1>5, <1>6 DEF TypeOK
<1>8. loop \in {"gen", "judge"} /\ loop' \in {"judge", "run", "finally"}
  BY DEF EnsureGen, EnsureSlow, StartJudge, ServerTimeout
<1>9. MarkerInv' /\ DoneInv'
  BY <1>1, <1>8 DEF IndInv, MarkerInv, DoneInv
<1>10. HeldInv' /\ ServersAreStopped'
  <2>. SUFFICES ASSUME ~orphaned'
                PROVE  /\ gen'.up => gen'.held
                       /\ judge'.up => judge'.held /\ loop' \in {"run", "wait", "finally"}
    BY <1>8 DEF HeldInv, ServersAreStopped
  <2>1. ~orphaned /\ (gen.up => gen.held) /\ (judge.up => judge.held) /\ ~judge.up
    <3>1. ~orphaned
      <4>1. ~(orphaned \/ Lost(gen)) \/ ~(orphaned \/ Lost(judge)) \/ ~orphaned
        BY <1>4
      <4>. QED
        BY <4>1
    <3>2. HeldInv /\ ServersAreStopped
      BY DEF IndInv
    <3>3. (gen.up => gen.held) /\ (judge.up => judge.held)
      BY <3>1, <3>2 DEF HeldInv
    <3>4. judge.up => loop \in {"run", "wait", "finally"}
      BY <3>1, <3>2 DEF ServersAreStopped
    <3>. QED
      BY <1>8, <3>1, <3>3, <3>4
  <2>2. Held(judge).held /\ (~gen.up => Held(gen).held)
    BY <1>1, <2>1, HeldType
  <2>3. \/ gen' = gen
        \/ gen' = Held(gen) /\ (~gen.up \/ orphaned' = (orphaned \/ Lost(gen)))
    BY DEF EnsureGen, EnsureSlow, StartJudge, ServerTimeout
  <2>4. gen'.up => gen'.held
    BY <1>1, <2>1, <2>2, <2>3, LostOrHeld
  <2>5. \/ judge' = judge
        \/ judge' = Held(judge) /\ loop' \in {"run", "finally"}
    BY DEF EnsureGen, EnsureSlow, StartJudge, ServerTimeout
  <2>6. judge'.up => judge'.held /\ loop' \in {"run", "wait", "finally"}
    BY <2>1, <2>2, <2>5
  <2>. QED
    BY <2>4, <2>6
<1>. QED
  BY <1>7, <1>9, <1>10 DEF IndInv

\* A judge that does not stop behind a batch is still the loop's in the finally clause;
\* one that does not stop there is given up with the other server.
LEMMA StopTimeoutNext ==
    ASSUME IndInv, StopTimeout
    PROVE  IndInv'
<1>1. /\ TypeOK /\ gen \in Servers /\ judge \in Servers /\ faults \in 0..MaxFaults
      /\ MaxFaults \in Nat /\ UNCHANGED <<marker, details, done, runners, skips>>
  BY LimitsAssumption DEF IndInv, TypeOK, StopTimeout
<1>2. /\ [gen EXCEPT !.held = FALSE] \in Servers
      /\ [judge EXCEPT !.held = FALSE] \in Servers
  BY <1>1 DEF Servers
<1>3. faults' \in 0..MaxFaults /\ loop' \in PCs
  BY <1>1 DEF StopTimeout, PCs
<1>4. CASE loop = "wait" /\ loop' = "finally" /\ UNCHANGED <<gen, judge, orphaned>>
  <2>1. TypeOK'
    BY <1>1, <1>3, <1>4 DEF TypeOK
  <2>2. MarkerInv' /\ DoneInv'
    BY <1>1, <1>4, TotalAssumption DEF IndInv, MarkerInv, DoneInv, TypeOK
  <2>3. HeldInv' /\ ServersAreStopped'
    BY <1>4 DEF IndInv, HeldInv, ServersAreStopped
  <2>. QED
    BY <2>1, <2>2, <2>3 DEF IndInv
<1>5. CASE /\ loop = "finally" /\ loop' = "failed" /\ orphaned' = TRUE
           /\ gen' = [gen EXCEPT !.held = FALSE] /\ judge' = [judge EXCEPT !.held = FALSE]
  <2>1. TypeOK'
    BY <1>1, <1>2, <1>3, <1>5 DEF TypeOK
  <2>2. MarkerInv' /\ DoneInv'
    BY <1>1, <1>5 DEF IndInv, MarkerInv, DoneInv
  <2>3. HeldInv' /\ ServersAreStopped'
    BY <1>5 DEF HeldInv, ServersAreStopped
  <2>. QED
    BY <2>1, <2>2, <2>3 DEF IndInv
<1>. QED
  BY <1>4, <1>5 DEF StopTimeout

LEMMA ServerEndsNext ==
    ASSUME IndInv, ServerEnds
    PROVE  IndInv'
<1>1. /\ TypeOK /\ gen \in Servers /\ judge \in Servers
      /\ UNCHANGED <<marker, details, loop, done, runners, skips, faults>>
      /\ UNCHANGED orphaned
  BY DEF IndInv, TypeOK, ServerEnds
<1>2. /\ gen' \in Servers /\ (gen'.up => gen.up) /\ gen'.held = gen.held
      /\ judge' \in Servers /\ (judge'.up => judge.up) /\ judge'.held = judge.held
  BY <1>1 DEF ServerEnds, Servers
<1>3. TypeOK'
  BY <1>1, <1>2 DEF TypeOK
<1>4. MarkerInv' /\ DoneInv'
  BY <1>1 DEF IndInv, MarkerInv, DoneInv, Saved
<1>5. HeldInv' /\ ServersAreStopped'
  BY <1>1, <1>2 DEF IndInv, HeldInv, ServersAreStopped
<1>. QED
  BY <1>3, <1>4, <1>5 DEF IndInv

LEMMA BatchNext ==
    ASSUME IndInv, RunBatch \/ EndBatch \/ Finally
    PROVE  IndInv'
<1>1. /\ TypeOK /\ gen \in Servers /\ judge \in Servers /\ Down \in Servers
      /\ Total \in Nat /\ Batch \in Nat \ {0} /\ done \in 0..Total
      /\ UNCHANGED <<marker, details, done, skips, faults>> /\ UNCHANGED orphaned
  BY TotalAssumption, BatchAssumption DEF IndInv, TypeOK, RunBatch, EndBatch, Finally, Down,
     Servers
<1>2. CASE RunBatch
  <2>. DEFINE last == IF done + Batch < Total THEN done + Batch ELSE Total
  <2>1. /\ loop = "run" /\ loop' = "wait" /\ UNCHANGED <<gen, judge>>
        /\ runners' = [runners EXCEPT !.own = [offset |-> done, at |-> done + 1,
                                               last |-> last]]
    BY <1>2 DEF RunBatch
  <2>2. last \in 0..Total /\ done + 1 \in 1..(Total + 1)
    BY <1>1
  <2>3. runners' \in [{"own", "orphan"} -> Runners]
    <3>. HIDE DEF last
    <3>1. [offset |-> done, at |-> done + 1, last |-> last] \in Runners
      BY <1>1, <2>2 DEF Runners
    <3>. QED
      BY <1>1, <2>1, <3>1 DEF TypeOK
  <2>4. TypeOK'
    BY <1>1, <2>1, <2>3 DEF TypeOK, PCs
  <2>5. MarkerInv' /\ DoneInv'
    BY <1>1, <2>1 DEF IndInv, MarkerInv, DoneInv
  <2>6. HeldInv' /\ ServersAreStopped'
    BY <1>1, <2>1 DEF IndInv, HeldInv, ServersAreStopped
  <2>. QED
    BY <2>4, <2>5, <2>6 DEF IndInv
<1>3. CASE EndBatch
  <2>1. /\ loop = "wait" /\ loop' = "count" /\ gen' = gen /\ runners' = runners
        /\ judge' = IF judge.held THEN Down ELSE judge
    BY <1>3 DEF EndBatch, StopJudge
  <2>2. TypeOK'
    BY <1>1, <2>1 DEF TypeOK, PCs
  <2>3. MarkerInv' /\ DoneInv'
    BY <1>1, <2>1 DEF IndInv, MarkerInv, DoneInv
  <2>4. HeldInv' /\ ServersAreStopped'
    BY <1>1, <2>1 DEF IndInv, HeldInv, ServersAreStopped, Down
  <2>. QED
    BY <2>2, <2>3, <2>4 DEF IndInv
<1>4. CASE Finally
  <2>1. /\ loop = "finally" /\ loop' = (IF done >= Total THEN "ended" ELSE "failed")
        /\ runners' = runners
        /\ judge' = (IF judge.held THEN Down ELSE judge)
        /\ gen' = (IF gen.held THEN Down ELSE gen)
    BY <1>4 DEF Finally, StopJudge
  <2>2. TypeOK'
    BY <1>1, <2>1 DEF TypeOK, PCs
  <2>3. MarkerInv'
    BY <1>1, <2>1 DEF IndInv, MarkerInv
  <2>4. DoneInv'
    BY <1>1, <2>1 DEF IndInv, DoneInv, Saved
  <2>5. HeldInv' /\ ServersAreStopped'
    BY <1>1, <2>1 DEF IndInv, HeldInv, ServersAreStopped, Down
  <2>. QED
    BY <2>2, <2>3, <2>4, <2>5 DEF IndInv
<1>. QED
  BY <1>2, <1>3, <1>4

LEMMA KillNext ==
    ASSUME IndInv, Kill
    PROVE  IndInv'
<1>1. /\ TypeOK /\ gen \in Servers /\ judge \in Servers /\ faults \in 0..MaxFaults
      /\ MaxFaults \in Nat /\ Total \in Nat
  BY LimitsAssumption, TotalAssumption DEF IndInv, TypeOK
<1>2. /\ loop' = "off" /\ done' = 0 /\ faults' \in 0..MaxFaults
      /\ gen' = [gen EXCEPT !.held = FALSE] /\ judge' = [judge EXCEPT !.held = FALSE]
      /\ UNCHANGED <<marker, details, skips>>
  BY <1>1 DEF Kill
<1>3. gen' \in Servers /\ judge' \in Servers /\ gen'.up = gen.up /\ judge'.up = judge.up
  BY <1>1, <1>2 DEF Servers
<1>4. runners' \in [{"own", "orphan"} -> Runners]
  <2>1. NoRunner \in Runners /\ runners.own \in Runners /\ runners \in [{"own", "orphan"} -> Runners]
    BY <1>1, NoRunnerType DEF TypeOK
  <2>2. CASE runners' = [runners EXCEPT !.own = NoRunner]
    BY <2>1, <2>2
  <2>3. CASE runners' = [own |-> NoRunner, orphan |-> runners.own]
    BY <2>1, <2>3
  <2>. QED
    BY <2>2, <2>3 DEF Kill
<1>5. orphaned' = (orphaned \/ gen.up \/ judge.up)
  BY DEF Kill
<1>6. orphaned' \in BOOLEAN
  <2>1. (orphaned \/ gen.up \/ judge.up) \in BOOLEAN
    OBVIOUS
  <2>. QED
    BY <1>5, <2>1, Zenon
<1>7. TypeOK'
  <2>1. loop' \in PCs /\ done' \in 0..Total
    BY <1>1, <1>2 DEF PCs
  <2>. QED
    BY <1>1, <1>2, <1>3, <1>4, <1>6, <2>1 DEF TypeOK
<1>8. MarkerInv' /\ DoneInv'
  BY <1>2 DEF IndInv, MarkerInv, DoneInv
<1>9. HeldInv' /\ ServersAreStopped'
  <2>1. ~orphaned' => ~gen'.up /\ ~judge'.up
    BY <1>3, <1>5
  <2>. QED
    BY <2>1 DEF HeldInv, ServersAreStopped
<1>. QED
  BY <1>7, <1>8, <1>9 DEF IndInv

--------------------------------------------------------------------------------
(* The theorems *)

LEMMA InitInv ==
    ASSUME Init
    PROVE  IndInv
<1>1. Total \in Nat /\ MaxSkips \in Nat /\ MaxFaults \in Nat
  BY TotalAssumption, LimitsAssumption
<1>2. TypeOK
  <2>1. details \subseteq Lines
    <3>1. ASSUME NEW e \in Entries
          PROVE  [offset |-> 0, id |-> e, whole |-> TRUE, old |-> TRUE] \in Lines
      BY <1>1 DEF Lines
    <3>2. details = {[offset |-> 0, id |-> e, whole |-> TRUE, old |-> TRUE] : e \in Entries}
      BY DEF Init
    <3>. QED
      BY <3>1, <3>2
  <2>2. runners \in [{"own", "orphan"} -> Runners]
    BY NoRunnerType DEF Init
  <2>3. gen \in Servers /\ judge \in Servers
    BY DEF Init, Servers, Down
  <2>4. marker \in BOOLEAN /\ orphaned \in BOOLEAN
    BY Zenon DEF Init
  <2>5. loop \in PCs /\ done \in 0..Total /\ skips \in 0..MaxSkips /\ faults \in 0..MaxFaults
    BY <1>1 DEF Init, PCs
  <2>. QED
    BY <2>1, <2>2, <2>3, <2>4, <2>5 DEF TypeOK
<1>3. MarkerInv /\ DoneInv
  BY DEF Init, MarkerInv, DoneInv
<1>4. HeldInv /\ ServersAreStopped
  BY DEF Init, HeldInv, ServersAreStopped, Down
<1>. QED
  BY <1>2, <1>3, <1>4 DEF IndInv

LEMMA NextInv ==
    ASSUME IndInv, [Next]_vars
    PROVE  IndInv'
<1>1. CASE LoopStep
  BY <1>1, CountNext, CleanNext, ServersNext, BatchNext DEF LoopStep, Starts
<1>2. CASE EnsureSlow \/ ServerTimeout \/ StopTimeout \/ ServerEnds
  BY <1>2, ServersNext, StopTimeoutNext, ServerEndsNext DEF Starts
<1>3. CASE \E w \in {"own", "orphan"} : Save(w) \/ Skip(w) \/ Crash(w)
  BY <1>3, RunnersNext
<1>4. CASE Kill
  BY <1>4, KillNext
<1>5. CASE UNCHANGED vars
  <2>1. /\ UNCHANGED <<details, loop, done, runners, skips, faults>> /\ UNCHANGED <<gen, judge>>
        /\ UNCHANGED <<marker>> /\ UNCHANGED <<orphaned>>
    BY <1>5 DEF vars
  <2>2. TypeOK'
    BY <2>1 DEF IndInv, TypeOK
  <2>3. MarkerInv' /\ DoneInv' /\ HeldInv' /\ ServersAreStopped'
    BY <2>1 DEF IndInv, MarkerInv, DoneInv, HeldInv, ServersAreStopped, Saved
  <2>. QED
    BY <2>2, <2>3 DEF IndInv
<1>. QED
  BY <1>1, <1>2, <1>3, <1>4, <1>5 DEF Next

\* The invariant holds in every state.
THEOREM Invariance == Spec => []IndInv
<1>1. Init => IndInv
  BY InitInv
<1>2. IndInv /\ [Next]_vars => IndInv'
  BY NextInv
<1>. QED
  BY <1>1, <1>2, PTL DEF Spec

\* Type correctness: batches stay within the data set, however they overlap.
THEOREM TypeCorrect == Spec => []TypeOK
<1>1. IndInv => TypeOK
  BY DEF IndInv
<1>. QED
  BY <1>1, Invariance, PTL

\* When the loop ends with everything done, every entry has details of the present
\* judge: _done_count counts entries, not lines, and the former judge's lines are gone
\* before the first count.
THEOREM Complete == Spec => []CompleteMeansAll
<1>1. IndInv => CompleteMeansAll
  BY DEF IndInv, DoneInv, CompleteMeansAll
<1>. QED
  BY <1>1, Invariance, PTL

\* Between batches no judge runs, and no server outlives the loop that has started it,
\* however servers come up late or die and the judge is late to stop behind a batch;
\* but for a loop that was killed, has lost a slow server, or was left by an exception
\* of its finally clause.
THEOREM ServersStopped == Spec => []ServersAreStopped
<1>1. IndInv => ServersAreStopped
  BY DEF IndInv
<1>. QED
  BY <1>1, Invariance, PTL
================================================================================
