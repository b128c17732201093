--------------------------- MODULE AdminSessionProofs ---------------------------
(***************************************************************************)
(* Proofs about AdminSession, for any tabs, browsers and passwords and any *)
(* bounds: type correctness, and that however the requests of the tabs     *)
(* interleave with each other and with crashes, revoked sessions stay      *)
(* revoked, a request sent with one is refused, a tab that healed itself   *)
(* is not, and the file of the initial password holds it.                  *)
(***************************************************************************)
EXTENDS AdminSession, TLAPS

--------------------------------------------------------------------------------
(* The inductive invariant *)

\* What a request carries was given out; a request sent without a live session stays
\* without one, for identifiers only grow, and does not get past the gate.
LateInv(q) ==
    /\ q.sid \in 0..logins /\ q.tok \in 0..logins /\ q.got \in 0..logins
    /\ q.late => q.sid \notin Live
    /\ (q.late /\ q.op # "login") =>
           /\ q.pc \in {"sent", "gate", "answered"}
           /\ q.pc = "gate" => ~q.found
           /\ q.out \in {"none", "401", "lost"}

\* Up to the gate, the token of a fresh tab is the one of the cookie's session.
FreshInv(q) ==
    q.fresh => /\ q.pc \in {"sent", "session", "gate"} => q.tok = q.sid
               /\ q.out # "403_csrf"

\* What a change of the password has done before the file is removed.
ChangeInv(q) == q.op = "change" /\ q.pc = "changed" => changes > 0

ReqInv(q) == LateInv(q) /\ FreshInv(q) /\ ChangeInv(q)

\* As long as the initial password was not changed, and no start was cut short, the
\* file holds it, but in a first start that has not written it yet.
FileInv ==
    changes = 0 /\ "starting" \notin CrashPoints =>
        /\ up # "starting" => file = pw
        /\ up = "starting" => pw # 0 /\ (file = pw \/ (file = 0 /\ pw = starts))

TabInv == \A t \in fresh : token[t] = cookie[BrowserOf[t]]

\* The conjuncts of TypeOK: the server and the user's row, the sessions, the tabs.
UserType ==
    /\ up \in {"down", "starting", "up"} /\ starts \in 0..MaxStarts
    /\ pw \in Passwords \cup {0} /\ must \in BOOLEAN /\ file \in 0..MaxStarts
    /\ changes \in 0..MaxChanges /\ changer \in 0..MaxLogins

SessionType ==
    /\ logins \in 0..MaxLogins /\ sessions \subseteq 1..logins /\ expired \subseteq 1..logins
    /\ verified \in [Ids -> 0..MaxChanges] /\ opened \in [Ids -> 0..MaxChanges]

TabType ==
    /\ cookie \in [Browsers -> 0..logins] /\ stored \in [Browsers -> 0..logins]
    /\ token \in [Tabs -> 0..logins] /\ fresh \subseteq Tabs
    /\ view \in [Tabs -> {"login", "must", "console"}]

ReqType == req \in [Tabs -> Reqs] /\ \A t \in Tabs : ReqInv(req[t])

IndInv ==
    /\ UserType /\ SessionType /\ TabType /\ ReqType
    /\ OldSessionsAreRevoked /\ FileInv /\ TabInv

--------------------------------------------------------------------------------
(* Lemmas *)

\* An invariant of the requests holds for the others when sessions end, when one is
\* opened under the next number, and when the password changes once more.
LEMMA Later ==
    ASSUME SessionType, SessionType', UserType, UserType',
           logins' >= logins, changes' >= changes,
           \A i \in 0..logins : i \in Live' => i \in Live,
           NEW q \in Reqs, ReqInv(q)
    PROVE  ReqInv(q)'
<1>1. logins \in Nat /\ logins' \in Nat /\ changes \in Nat /\ changes' \in Nat
  BY BoundsAssumption DEF SessionType, UserType
<1>2. LateInv(q)'
  BY <1>1 DEF ReqInv, LateInv
<1>3. FreshInv(q)'
  BY DEF ReqInv, FreshInv
<1>4. ChangeInv(q)'
  BY <1>1 DEF ReqInv, ChangeInv
<1>. QED
  BY <1>2, <1>3, <1>4 DEF ReqInv

\* A step that changes one request, whatever else it does.
LEMMA ChangeOne ==
    ASSUME ReqType, SessionType, SessionType', UserType, UserType',
           logins' >= logins, changes' >= changes,
           \A i \in 0..logins : i \in Live' => i \in Live,
           NEW t \in Tabs, NEW v \in Reqs, ReqInv(v)', req' = [req EXCEPT ![t] = v]
    PROVE  ReqType'
<1>1. req' \in [Tabs -> Reqs]
  BY DEF ReqType
<1>2. ASSUME NEW x \in Tabs PROVE ReqInv(req[x])'
  <2>1. CASE x = t
    BY <2>1 DEF ReqType
  <2>2. CASE x # t
    <3>1. req'[x] = req[x] /\ req[x] \in Reqs /\ ReqInv(req[x])
      BY <2>2 DEF ReqType
    <3>2. PICK q \in Reqs : q = req[x]
      BY <3>1
    <3>3. ReqInv(q)'
      BY <3>1, <3>2, Later
    <3>. QED
      BY <3>1, <3>2, <3>3
  <2>. QED
    BY <2>1, <2>2
<1>. QED
  BY <1>1, <1>2 DEF ReqType

\* A step that leaves the sessions and the password alone.
LEMMA SameSessions ==
    ASSUME IndInv, UNCHANGED <<serverVars, userVars, file, sessionVars>>
    PROVE  /\ UserType' /\ SessionType' /\ OldSessionsAreRevoked' /\ FileInv'
           /\ logins' = logins /\ Live' = Live /\ changes' = changes
           /\ \A q : ReqInv(q) => ReqInv(q)'
<1>. USE DEF serverVars, userVars, sessionVars
<1>1. UserType' /\ SessionType'
  BY DEF IndInv, UserType, SessionType
<1>2. OldSessionsAreRevoked' /\ FileInv'
  BY DEF IndInv, OldSessionsAreRevoked, FileInv
<1>3. logins' = logins /\ Live' = Live /\ changes' = changes
  BY DEF Live
<1>. QED
  BY <1>1, <1>2, <1>3 DEF ReqInv, LateInv, FreshInv, ChangeInv

\* And a step that changes one request besides.
LEMMA SameSessionsOne ==
    ASSUME IndInv, UNCHANGED <<serverVars, userVars, file, sessionVars>>,
           NEW t \in Tabs, NEW v \in Reqs, ReqInv(v), req' = [req EXCEPT ![t] = v]
    PROVE  ReqType'
<1>1. /\ ReqType /\ SessionType /\ UserType /\ SessionType' /\ UserType'
      /\ logins' = logins /\ Live' = Live /\ changes' = changes
  BY SameSessions DEF IndInv
<1>2. logins \in Nat /\ changes \in Nat
  BY <1>1 DEF SessionType, UserType
<1>3. ReqInv(v)'
  BY SameSessions
<1>4. logins' >= logins /\ changes' >= changes
  BY <1>1, <1>2
<1>5. \A i \in 0..logins : i \in Live' => i \in Live
  BY <1>1
<1>. QED
  BY <1>1, <1>3, <1>4, <1>5, ChangeOne

\* A step of one request only.
LEMMA OnlyOne ==
    ASSUME IndInv, UNCHANGED <<serverVars, userVars, file, sessionVars, tabVars>>,
           NEW t \in Tabs, NEW v \in Reqs, ReqInv(v), req' = [req EXCEPT ![t] = v]
    PROVE  IndInv'
<1>1. ReqType' /\ UserType' /\ SessionType' /\ OldSessionsAreRevoked' /\ FileInv'
  BY SameSessions, SameSessionsOne
<1>2. TabType'
  BY DEF IndInv, TabType, tabVars, sessionVars
<1>3. TabInv'
  BY DEF IndInv, TabInv, tabVars
<1>. QED
  BY <1>1, <1>2, <1>3 DEF IndInv

\* A tab without a request.
LEMMA NoRequestType ==
    /\ NoRequest \in Reqs
    /\ logins \in Nat => ReqInv(NoRequest)
<1>1. NoRequest \in Reqs
  BY BoundsAssumption DEF NoRequest, Reqs, PCs, Outcomes
<1>2. logins \in Nat => ReqInv(NoRequest)
  BY DEF NoRequest, ReqInv, LateInv, FreshInv, ChangeInv
<1>. QED
  BY <1>1, <1>2

\* The answer to a request.
Answered(q, out) ==
    [NoRequest EXCEPT !.pc = "answered", !.op = q.op, !.out = out, !.sid = q.sid,
                      !.late = q.late, !.fresh = q.fresh]

\* An answer keeps the invariant unless a late request gets more than a refusal, or a
\* fresh tab is refused.
LEMMA AnswerOne ==
    ASSUME IndInv, NEW t \in Tabs, NEW out \in Outcomes, Answer(t, out),
           (req[t].late /\ req[t].op # "login") => out \in {"none", "401", "lost"},
           req[t].fresh => out # "403_csrf"
    PROVE  \E v \in Reqs : ReqInv(v) /\ req' = [req EXCEPT ![t] = v]
<1>. DEFINE q == req[t]
            v == Answered(q, out)
<1>1. q \in Reqs /\ ReqInv(q) /\ logins \in 0..MaxLogins
  BY DEF IndInv, ReqType, SessionType
<1>2. /\ v.pc = "answered" /\ v.op = q.op /\ v.out = out /\ v.sid = q.sid
      /\ v.tok = 0 /\ v.got = 0 /\ v.late = q.late /\ v.fresh = q.fresh
  BY DEF Answered, NoRequest
<1>3. req' = [req EXCEPT ![t] = v]
  BY DEF Answer, Answered
<1>4. v \in Reqs
  <2>1. NoRequest \in Reqs
    BY NoRequestType
  <2>2. "answered" \in PCs /\ q.op \in Ops \cup {"none"} /\ q.sid \in 0..MaxLogins
        /\ q.late \in BOOLEAN /\ q.fresh \in BOOLEAN
    BY <1>1 DEF Reqs, PCs
  <2>. QED
    BY <2>1, <2>2 DEF Answered, Reqs
<1>. HIDE DEF v
<1>5. LateInv(v)
  BY <1>1, <1>2 DEF ReqInv, LateInv
<1>6. FreshInv(v) /\ ChangeInv(v)
  BY <1>1, <1>2 DEF ReqInv, FreshInv, ChangeInv
<1>. QED
  BY <1>3, <1>4, <1>5, <1>6 DEF ReqInv

\* So a step that only answers keeps the invariant.
LEMMA AnswerNext ==
    ASSUME IndInv, NEW t \in Tabs, NEW out \in Outcomes, Answer(t, out),
           UNCHANGED <<serverVars, userVars, file, sessionVars, tabVars>>,
           (req[t].late /\ req[t].op # "login") => out \in {"none", "401", "lost"},
           req[t].fresh => out # "403_csrf"
    PROVE  IndInv'
<1>1. PICK v \in Reqs : ReqInv(v) /\ req' = [req EXCEPT ![t] = v]
  BY AnswerOne
<1>. QED
  BY <1>1, OnlyOne

\* What is known of a request before a step.
LEMMA Known ==
    ASSUME IndInv, NEW t \in Tabs
    PROVE  /\ req[t] \in Reqs /\ ReqInv(req[t])
           /\ logins \in 0..MaxLogins /\ changes \in 0..MaxChanges
BY DEF IndInv, ReqType, SessionType, UserType

\* A request that gets further, to a place a late one does not reach.
LEMMA GotoNext ==
    ASSUME IndInv, NEW t \in Tabs, NEW pc \in {"session", "handler", "verified"}, Goto(t, pc),
           UNCHANGED <<serverVars, userVars, file, sessionVars, tabVars>>,
           ~req[t].late \/ req[t].op = "login",
           pc = "session" => req[t].pc = "sent"
    PROVE  IndInv'
<1>. DEFINE v == [req[t] EXCEPT !.pc = pc]
<1>1. req[t] \in Reqs /\ ReqInv(req[t])
  BY Known
<1>2. req' = [req EXCEPT ![t] = v]
  BY DEF Goto
<1>3. v \in Reqs
  BY <1>1 DEF Reqs, PCs
<1>4. ReqInv(v)
  BY <1>1 DEF ReqInv, LateInv, FreshInv, ChangeInv, Reqs
<1>. QED
  BY <1>2, <1>3, <1>4, OnlyOne

--------------------------------------------------------------------------------
(* The middleware *)

LEMMA FindSessionNext ==
    ASSUME IndInv, NEW t \in Tabs, FindSession(t)
    PROVE  IndInv'
<1>1. req[t] \in Reqs /\ ReqInv(req[t])
  BY Known
<1>2. CASE req[t].op = "login" /\ Answer(t, "429")
  <2>1. "429" \in Outcomes
    BY DEF Outcomes
  <2>. QED
    BY <1>2, <2>1, AnswerNext DEF FindSession
<1>3. CASE req' = [req EXCEPT ![t].found = req[t].sid \in Live,
                              ![t].pc = IF req[t].sid \in Live THEN "session" ELSE "gate"]
  <2>. DEFINE v == [req[t] EXCEPT !.found = req[t].sid \in Live,
                                  !.pc = IF req[t].sid \in Live THEN "session" ELSE "gate"]
  <2>1. req' = [req EXCEPT ![t] = v]
    BY <1>3, <1>1 DEF IndInv, ReqType
  <2>2. v \in Reqs
    <3>1. CASE req[t].sid \in Live
      <4>1. v = [req[t] EXCEPT !.found = TRUE, !.pc = "session"]
        BY <3>1
      <4>. QED
        BY <1>1, <4>1 DEF Reqs, PCs
    <3>2. CASE req[t].sid \notin Live
      <4>1. v = [req[t] EXCEPT !.found = FALSE, !.pc = "gate"]
        <5>1. (req[t].sid \in Live) = FALSE
          BY <3>2
        <5>. QED
          BY <5>1, Zenon
      <4>. QED
        BY <1>1, <4>1 DEF Reqs, PCs
    <3>. QED
      BY <3>1, <3>2
  <2>3. ReqInv(v)
    BY <1>1 DEF FindSession, ReqInv, LateInv, FreshInv, ChangeInv, Reqs
  <2>. QED
    BY <2>1, <2>2, <2>3, OnlyOne DEF FindSession
<1>. QED
  BY <1>2, <1>3 DEF FindSession

LEMMA LoadUserNext ==
    ASSUME IndInv, NEW t \in Tabs, LoadUser(t)
    PROVE  IndInv'
<1>. DEFINE v == [req[t] EXCEPT !.pc = "gate", !.pw = pw, !.must = must]
<1>1. req[t] \in Reqs /\ ReqInv(req[t])
  BY Known
<1>2. req' = [req EXCEPT ![t] = v]
  BY <1>1 DEF IndInv, ReqType, LoadUser
<1>3. v \in Reqs
  BY <1>1 DEF IndInv, UserType, Reqs, PCs
<1>4. ReqInv(v)
  BY <1>1 DEF LoadUser, ReqInv, LateInv, FreshInv, ChangeInv, Reqs
<1>. QED
  BY <1>2, <1>3, <1>4, OnlyOne DEF LoadUser

LEMMA GateNext ==
    ASSUME IndInv, NEW t \in Tabs, Gate(t)
    PROVE  IndInv'
<1>1. req[t] \in Reqs /\ ReqInv(req[t]) /\ req[t].pc = "gate"
  BY Known DEF Gate
<1>2. UNCHANGED <<serverVars, userVars, file, sessionVars, tabVars>>
  BY DEF Gate
<1>3. "401" \in Outcomes /\ "403_must" \in Outcomes /\ "403_csrf" \in Outcomes
  BY DEF Outcomes
<1>4. CASE req[t].op = "login" /\ Goto(t, "handler")
  BY <1>2, <1>4, GotoNext
<1>5. CASE req[t].op # "login" /\ ~req[t].found /\ Answer(t, "401")
  BY <1>2, <1>3, <1>5, AnswerNext
<1>6. CASE /\ req[t].op # "login" /\ req[t].found
           /\ IF req[t].op = "act" /\ req[t].must THEN Answer(t, "403_must")
              ELSE IF req[t].op # "me" /\ req[t].tok # req[t].sid THEN Answer(t, "403_csrf")
              ELSE Goto(t, "handler")
  <2>1. ~req[t].late
    BY <1>1, <1>6 DEF ReqInv, LateInv
  <2>2. req[t].fresh => req[t].tok = req[t].sid
    BY <1>1 DEF ReqInv, FreshInv
  <2>3. CASE Answer(t, "403_must")
    BY <1>2, <1>3, <2>1, <2>3, AnswerNext
  <2>4. CASE req[t].tok # req[t].sid /\ Answer(t, "403_csrf")
    BY <1>2, <1>3, <2>1, <2>2, <2>4, AnswerNext
  <2>5. CASE Goto(t, "handler")
    BY <1>2, <2>1, <2>5, GotoNext
  <2>. QED
    BY <1>6, <2>3, <2>4, <2>5
<1>. QED
  BY <1>4, <1>5, <1>6 DEF Gate

--------------------------------------------------------------------------------
(* The routes *)

\* A late request is in a handler only if it is a login.
LEMMA Handled ==
    ASSUME IndInv, NEW t \in Tabs, req[t].pc \in {"handler", "verified", "changed"}
    PROVE  ~req[t].late \/ req[t].op = "login"
BY Known DEF ReqInv, LateInv

LEMMA UnreachableNext ==
    ASSUME IndInv, NEW t \in Tabs, Unreachable(t)
    PROVE  IndInv'
<1>1. "lost" \in Outcomes
  BY DEF Outcomes
<1>. QED
  BY <1>1, AnswerNext DEF Unreachable

LEMMA VerifyLoginNext ==
    ASSUME IndInv, NEW t \in Tabs, VerifyLogin(t)
    PROVE  IndInv'
<1>1. req[t] \in Reqs /\ ReqInv(req[t]) /\ changes \in 0..MaxChanges
  BY Known
<1>2. UNCHANGED <<serverVars, userVars, file, sessionVars, tabVars>>
  BY DEF VerifyLogin
<1>3. CASE Answer(t, "401")
  <2>1. "401" \in Outcomes
    BY DEF Outcomes
  <2>. QED
    BY <1>2, <1>3, <2>1, AnswerNext
<1>4. CASE req' = [req EXCEPT ![t].pc = "verified", ![t].read = changes, ![t].must = must]
  <2>. DEFINE v == [req[t] EXCEPT !.pc = "verified", !.read = changes, !.must = must]
  <2>1. req' = [req EXCEPT ![t] = v]
    BY <1>1, <1>4 DEF IndInv, ReqType
  <2>2. v \in Reqs
    BY <1>1 DEF Reqs, PCs, IndInv, UserType
  <2>3. ReqInv(v)
    BY <1>1 DEF VerifyLogin, At, ReqInv, LateInv, FreshInv, ChangeInv, Reqs
  <2>. QED
    BY <1>2, <2>1, <2>2, <2>3, OnlyOne
<1>. QED
  BY <1>3, <1>4 DEF VerifyLogin

LEMMA VerifyCurrentNext ==
    ASSUME IndInv, NEW t \in Tabs, VerifyCurrent(t)
    PROVE  IndInv'
<1>1. UNCHANGED <<serverVars, userVars, file, sessionVars, tabVars>>
  BY DEF VerifyCurrent
<1>2. ~req[t].late \/ req[t].op = "login"
  BY Handled DEF VerifyCurrent, At
<1>3. CASE Answer(t, "401")
  <2>1. "401" \in Outcomes
    BY DEF Outcomes
  <2>. QED
    BY <1>1, <1>3, <2>1, AnswerNext
<1>4. CASE Goto(t, "verified")
  BY <1>1, <1>2, <1>4, GotoNext
<1>. QED
  BY <1>3, <1>4 DEF VerifyCurrent

LEMMA MeOrActNext ==
    ASSUME IndInv, NEW t \in Tabs, MeOrAct(t)
    PROVE  IndInv'
<1>1. ~req[t].late \/ req[t].op = "login"
  BY Handled DEF MeOrAct, At
<1>2. "ok" \in Outcomes
  BY DEF Outcomes
<1>. QED
  BY <1>1, <1>2, AnswerNext DEF MeOrAct

\* The identifier of a new session is higher than any that was given out.
LEMMA CreateSessionNext ==
    ASSUME IndInv, NEW t \in Tabs, CreateSession(t)
    PROVE  IndInv'
<1>. DEFINE read == req[t].read
<1>1. /\ req[t] \in Reqs /\ ReqInv(req[t]) /\ logins \in 0..MaxLogins /\ changes \in 0..MaxChanges
      /\ UserType /\ SessionType /\ TabType /\ ReqType
      /\ OldSessionsAreRevoked /\ FileInv /\ TabInv
  BY Known DEF IndInv
<1>2. /\ At(t, "login", "verified") /\ logins < MaxLogins
      /\ logins' = logins + 1 /\ sessions' = sessions \cup {logins'} /\ expired' = expired
      /\ verified' = [verified EXCEPT ![logins'] = read]
      /\ opened' = [opened EXCEPT ![logins'] = changes]
      /\ UNCHANGED <<serverVars, userVars, file, tabVars>>
  BY DEF CreateSession, CreateAdminSession
<1>3. logins' \in 1..MaxLogins /\ logins' \in Ids /\ read \in 0..MaxChanges
  BY <1>1, <1>2, BoundsAssumption DEF Ids, Reqs
<1>4. UserType' /\ FileInv' /\ changes' = changes
  BY <1>1, <1>2 DEF UserType, FileInv, serverVars, userVars
<1>5. SessionType'
  <2>1. sessions' \subseteq 1..logins' /\ expired' \subseteq 1..logins'
    BY <1>1, <1>2, BoundsAssumption DEF SessionType
  <2>. QED
    BY <1>1, <1>2, <1>3, <2>1 DEF SessionType
<1>6. TabType'
  <2>1. 0..logins \subseteq 0..logins'
    BY <1>1, <1>2
  <2>. QED
    BY <1>1, <1>2, <2>1 DEF TabType, tabVars
<1>7. OldSessionsAreRevoked'
  <2>. SUFFICES ASSUME NEW i \in sessions', verified'[i] < changes'
                PROVE  i = changer' \/ verified'[i] < opened'[i]
    BY DEF OldSessionsAreRevoked
  <2>1. CASE i = logins'
    BY <1>1, <1>2, <1>3, <1>4, <2>1 DEF SessionType
  <2>2. CASE i # logins'
    BY <1>1, <1>2, <1>3, <1>4, <2>2 DEF SessionType, OldSessionsAreRevoked, Ids, userVars
  <2>. QED
    BY <2>1, <2>2
<1>8. TabInv'
  BY <1>1, <1>2 DEF TabInv, tabVars
<1>9. ReqType'
  <2>1. PICK n \in 0..MaxLogins : n = logins'
    BY <1>3
  <2>. DEFINE v == [req[t] EXCEPT !.pc = "answered", !.out = "ok", !.got = n]
  <2>2. req' = [req EXCEPT ![t] = v]
    BY <1>1, <2>1 DEF CreateSession, ReqType
  <2>3. v \in Reqs
    BY <1>1, <2>1 DEF Reqs, PCs, Outcomes, UserType
  <2>4. PICK w \in Reqs : w = v
    BY <2>3
  <2>5. w.sid = req[t].sid /\ w.tok = req[t].tok /\ w.got = n /\ w.late = req[t].late
        /\ w.op = "login" /\ w.pc = "answered" /\ w.out = "ok" /\ w.fresh = req[t].fresh
    BY <1>1, <1>2, <2>4 DEF Reqs, At
  <2>6. \A i \in 0..logins : i \in Live' => i \in Live
    BY <1>1, <1>2 DEF Live
  <2>7. logins' >= logins /\ changes' >= changes /\ 0..logins \subseteq 0..logins'
    BY <1>1, <1>2, <1>4
  <2>8. LateInv(w)'
    BY <1>1, <2>1, <2>5, <2>6, <2>7 DEF ReqInv, LateInv
  <2>9. FreshInv(w)' /\ ChangeInv(w)'
    BY <1>1, <2>5 DEF ReqInv, FreshInv, ChangeInv
  <2>10. req' = [req EXCEPT ![t] = w] /\ ReqInv(w)'
    BY <2>2, <2>4, <2>8, <2>9 DEF ReqInv
  <2>. QED
    BY <1>1, <1>4, <1>5, <2>6, <2>7, <2>10, ChangeOne
<1>. QED
  BY <1>4, <1>5, <1>6, <1>7, <1>8, <1>9 DEF IndInv

\* Of the sessions, only the changer's own survives.
LEMMA SetPasswordNext ==
    ASSUME IndInv, NEW t \in Tabs, SetPassword(t)
    PROVE  IndInv'
<1>1. /\ req[t] \in Reqs /\ ReqInv(req[t]) /\ logins \in 0..MaxLogins /\ changes \in 0..MaxChanges
      /\ UserType /\ SessionType /\ TabType /\ ReqType /\ TabInv
  BY Known DEF IndInv
<1>2. /\ At(t, "change", "verified") /\ changes < MaxChanges
      /\ pw' = req[t].new /\ must' = FALSE /\ changes' = changes + 1 /\ changer' = req[t].sid
      /\ sessions' = sessions \cap {req[t].sid} /\ Goto(t, "changed")
      /\ UNCHANGED <<serverVars, file, expired, logins, verified, opened, tabVars>>
  BY DEF SetPassword
<1>3. UserType'
  <2>1. pw' \in Passwords \cup {0} /\ changer' \in 0..MaxLogins
    BY <1>1, <1>2 DEF Reqs, Passwords
  <2>2. changes' \in 0..MaxChanges
    BY <1>1, <1>2, BoundsAssumption
  <2>3. must' \in BOOLEAN
    BY <1>2, Zenon
  <2>4. UNCHANGED <<up, starts, file>>
    BY <1>2 DEF serverVars
  <2>. QED
    BY <1>1, <2>1, <2>2, <2>3, <2>4 DEF UserType
<1>4. SessionType'
  BY <1>1, <1>2 DEF SessionType
<1>5. TabType' /\ TabInv'
  BY <1>1, <1>2 DEF TabType, TabInv, tabVars
<1>6. FileInv'
  BY <1>1, <1>2 DEF FileInv
<1>7. OldSessionsAreRevoked'
  BY <1>2 DEF OldSessionsAreRevoked
<1>8. ReqType'
  <2>1. PICK w \in Reqs : w = [req[t] EXCEPT !.pc = "changed"]
    BY <1>1 DEF Reqs, PCs
  <2>2. w.sid = req[t].sid /\ w.tok = req[t].tok /\ w.got = req[t].got /\ w.late = req[t].late
        /\ w.op = "change" /\ w.pc = "changed" /\ w.out = req[t].out /\ w.fresh = req[t].fresh
    BY <1>1, <1>2, <2>1 DEF Reqs, At
  <2>3. req' = [req EXCEPT ![t] = w]
    BY <1>2, <2>1 DEF Goto
  <2>4. \A i \in 0..logins : i \in Live' => i \in Live
    BY <1>2 DEF Live
  <2>5. logins' >= logins /\ changes' >= changes /\ changes' > 0
    BY <1>1, <1>2
  <2>6. LateInv(w)'
    BY <1>1, <1>2, <2>2, <2>4 DEF ReqInv, LateInv, At
  <2>7. FreshInv(w)' /\ ChangeInv(w)'
    BY <1>1, <2>2, <2>5 DEF ReqInv, FreshInv, ChangeInv
  <2>8. ReqInv(w)'
    BY <2>6, <2>7 DEF ReqInv
  <2>. QED
    BY <1>1, <1>3, <1>4, <2>3, <2>4, <2>5, <2>8, ChangeOne
<1>. QED
  BY <1>3, <1>4, <1>5, <1>6, <1>7, <1>8 DEF IndInv

LEMMA RemoveInitialFileNext ==
    ASSUME IndInv, NEW t \in Tabs, RemoveInitialFile(t)
    PROVE  IndInv'
<1>1. /\ req[t] \in Reqs /\ ReqInv(req[t]) /\ logins \in 0..MaxLogins
      /\ UserType /\ SessionType /\ TabType /\ ReqType /\ OldSessionsAreRevoked /\ TabInv
      /\ changes \in 0..MaxChanges
  BY Known DEF IndInv
<1>2. /\ At(t, "change", "changed") /\ file' = 0 /\ Answer(t, "ok")
      /\ UNCHANGED <<serverVars, userVars, sessionVars, tabVars>>
  BY DEF RemoveInitialFile
<1>3. UserType'
  <2>1. file' \in 0..MaxStarts
    BY <1>2, BoundsAssumption
  <2>2. UNCHANGED <<up, starts>> /\ UNCHANGED <<pw, must, changes, changer>>
    BY <1>2 DEF serverVars, userVars
  <2>. QED
    BY <1>1, <2>1, <2>2 DEF UserType
<1>4. SessionType' /\ OldSessionsAreRevoked' /\ Live' = Live /\ logins' = logins
  BY <1>1, <1>2 DEF SessionType, OldSessionsAreRevoked, sessionVars, userVars, Live
<1>5. TabType' /\ TabInv'
  BY <1>1, <1>2 DEF TabType, TabInv, tabVars, sessionVars
<1>6. FileInv'
  BY <1>1, <1>2 DEF FileInv, ReqInv, ChangeInv, At, userVars
<1>7. ReqType'
  <2>1. PICK v \in Reqs : ReqInv(v) /\ req' = [req EXCEPT ![t] = v]
    <3>1. "ok" \in Outcomes /\ (~req[t].late \/ req[t].op = "login")
      BY <1>2, Handled DEF Outcomes, At
    <3>. QED
      BY <1>2, <3>1, AnswerOne
  <2>2. changes' = changes /\ logins' >= logins /\ changes' >= changes
    BY <1>1, <1>2, <1>4 DEF userVars
  <2>3. ReqInv(v)'
    BY <1>4, <2>1, <2>2 DEF ReqInv, LateInv, FreshInv, ChangeInv
  <2>4. \A i \in 0..logins : i \in Live' => i \in Live
    BY <1>4
  <2>. QED
    BY <1>1, <1>3, <1>4, <2>1, <2>2, <2>3, <2>4, ChangeOne
<1>. QED
  BY <1>3, <1>4, <1>5, <1>6, <1>7 DEF IndInv

LEMMA LogoutNext ==
    ASSUME IndInv, NEW t \in Tabs, Logout(t)
    PROVE  IndInv'
<1>1. /\ req[t] \in Reqs /\ ReqInv(req[t]) /\ logins \in 0..MaxLogins /\ changes \in 0..MaxChanges
      /\ UserType /\ SessionType /\ TabType /\ ReqType
      /\ OldSessionsAreRevoked /\ FileInv /\ TabInv
  BY Known DEF IndInv
<1>2. /\ At(t, "logout", "handler") /\ sessions' = sessions \ {req[t].sid} /\ Answer(t, "ok")
      /\ UNCHANGED <<serverVars, userVars, file, expired, logins, verified, opened, tabVars>>
  BY DEF Logout, RevokeSession
<1>3. UserType' /\ FileInv' /\ changes' = changes
  BY <1>1, <1>2 DEF UserType, FileInv, serverVars, userVars
<1>4. SessionType' /\ OldSessionsAreRevoked'
  BY <1>1, <1>2 DEF SessionType, OldSessionsAreRevoked, userVars
<1>5. TabType' /\ TabInv'
  BY <1>1, <1>2 DEF TabType, TabInv, tabVars
<1>6. ReqType'
  <2>1. PICK v \in Reqs : ReqInv(v) /\ req' = [req EXCEPT ![t] = v]
    <3>1. "ok" \in Outcomes /\ (~req[t].late \/ req[t].op = "login")
      BY <1>2, Handled DEF Outcomes, At
    <3>. QED
      BY <1>2, <3>1, AnswerOne
  <2>2. \A i \in 0..logins : i \in Live' => i \in Live
    BY <1>2 DEF Live
  <2>3. logins' >= logins /\ changes' >= changes
    BY <1>1, <1>2, <1>3
  <2>4. ReqInv(v)'
    BY <1>1, <1>3, <1>4, <2>1, <2>2, <2>3, Later
  <2>. QED
    BY <1>1, <1>3, <1>4, <2>1, <2>2, <2>3, <2>4, ChangeOne
<1>. QED
  BY <1>3, <1>4, <1>5, <1>6 DEF IndInv

--------------------------------------------------------------------------------
(* The server *)

LEMMA StartNext ==
    ASSUME IndInv, Start
    PROVE  IndInv'
<1>1. /\ UserType /\ SessionType /\ TabType /\ ReqType
      /\ OldSessionsAreRevoked /\ FileInv /\ TabInv
  BY DEF IndInv
<1>2. /\ up = "down" /\ starts < MaxStarts /\ starts' = starts + 1 /\ up' = "starting"
      /\ sessions' = Live /\ EnsureAdminUser
      /\ UNCHANGED <<changes, changer, file, expired, logins, verified, opened, tabVars, req>>
  BY DEF Start, PurgeExpiredSessions
<1>3. starts' \in 1..MaxStarts
  BY <1>1, <1>2, BoundsAssumption DEF UserType
<1>4. UserType'
  <2>1. pw' \in Passwords \cup {0} /\ must' \in BOOLEAN
    BY <1>1, <1>2, <1>3 DEF UserType, EnsureAdminUser, Passwords
  <2>. QED
    BY <1>1, <1>2, <1>3, <2>1 DEF UserType
<1>5. SessionType' /\ OldSessionsAreRevoked'
  BY <1>1, <1>2 DEF SessionType, OldSessionsAreRevoked, Live
<1>6. TabType' /\ TabInv'
  BY <1>1, <1>2 DEF TabType, TabInv, tabVars
<1>7. FileInv'
  BY <1>1, <1>2, <1>3 DEF FileInv, EnsureAdminUser
<1>8. ReqType'
  <2>1. Live' = Live
    BY <1>2 DEF Live
  <2>. QED
    BY <1>1, <1>2, <2>1 DEF ReqType, ReqInv, LateInv, FreshInv, ChangeInv
<1>. QED
  BY <1>4, <1>5, <1>6, <1>7, <1>8 DEF IndInv

LEMMA WriteInitialFileNext ==
    ASSUME IndInv, WriteInitialFile
    PROVE  IndInv'
<1>1. /\ UserType /\ SessionType /\ TabType /\ ReqType
      /\ OldSessionsAreRevoked /\ FileInv /\ TabInv
  BY DEF IndInv
<1>2. /\ up = "starting" /\ file' = (IF file = 0 THEN starts ELSE file) /\ up' = "up"
      /\ UNCHANGED <<starts, userVars, sessionVars, tabVars, req>>
  BY DEF WriteInitialFile
<1>3. UserType'
  <2>1. file' \in 0..MaxStarts
    BY <1>1, <1>2 DEF UserType
  <2>. QED
    BY <1>1, <1>2, <2>1 DEF UserType, userVars
<1>4. SessionType' /\ OldSessionsAreRevoked'
  BY <1>1, <1>2 DEF SessionType, OldSessionsAreRevoked, sessionVars, userVars
<1>5. TabType' /\ TabInv'
  BY <1>1, <1>2 DEF TabType, TabInv, tabVars, sessionVars
<1>6. FileInv'
  BY <1>1, <1>2 DEF FileInv, userVars
<1>7. ReqType'
  BY <1>1, <1>2 DEF ReqType, ReqInv, LateInv, FreshInv, ChangeInv, Live, sessionVars, userVars
<1>. QED
  BY <1>3, <1>4, <1>5, <1>6, <1>7 DEF IndInv

LEMMA CrashNext ==
    ASSUME IndInv, Crash
    PROVE  IndInv'
<1>1. /\ UserType /\ SessionType /\ TabType /\ ReqType
      /\ OldSessionsAreRevoked /\ FileInv /\ TabInv
  BY DEF IndInv
<1>2. /\ up \in CrashPoints /\ up' = "down"
      /\ UNCHANGED <<starts, userVars, file, sessionVars, tabVars>>
  BY DEF Crash
<1>3. UserType' /\ FileInv'
  BY <1>1, <1>2 DEF UserType, FileInv, userVars
<1>4. SessionType' /\ OldSessionsAreRevoked'
  BY <1>1, <1>2 DEF SessionType, OldSessionsAreRevoked, sessionVars, userVars
<1>5. TabType' /\ TabInv'
  BY <1>1, <1>2 DEF TabType, TabInv, tabVars, sessionVars
<1>6. ASSUME NEW t \in Tabs PROVE req'[t] \in Reqs /\ ReqInv(req'[t])
  <2>1. req[t] \in Reqs /\ ReqInv(req[t])
    BY <1>1 DEF ReqType
  <2>2. CASE req[t].pc \in {"idle", "answered"}
    BY <2>1, <2>2 DEF Crash
  <2>3. CASE req[t].pc \notin {"idle", "answered"}
    <3>1. PICK v \in Reqs : v = [req[t] EXCEPT !.pc = "answered", !.out = "lost"]
      BY <2>1 DEF Reqs, PCs, Outcomes
    <3>2. ReqInv(v)
      BY <2>1, <3>1 DEF ReqInv, LateInv, FreshInv, ChangeInv, Reqs
    <3>3. req'[t] = v
      BY <2>3, <3>1 DEF Crash
    <3>. QED
      BY <3>2, <3>3
  <2>. QED
    BY <2>2, <2>3
<1>7. ReqType'
  <2>1. req' = [t \in Tabs |-> req'[t]]
    BY DEF Crash
  <2>2. req' \in [Tabs -> Reqs]
    BY <1>6, <2>1
  <2>3. Live' = Live /\ logins' = logins /\ changes' = changes
    BY <1>2 DEF Live, sessionVars, userVars
  <2>. QED
    BY <1>6, <2>2, <2>3 DEF ReqType, ReqInv, LateInv, FreshInv, ChangeInv
<1>. QED
  BY <1>3, <1>4, <1>5, <1>7 DEF IndInv

LEMMA ExpireNext ==
    ASSUME IndInv, NEW i \in Ids, Expire(i)
    PROVE  IndInv'
<1>1. /\ UserType /\ SessionType /\ TabType /\ ReqType
      /\ OldSessionsAreRevoked /\ FileInv /\ TabInv
  BY DEF IndInv
<1>2. /\ i \in Live /\ expired' = expired \cup {i}
      /\ UNCHANGED <<serverVars, userVars, file, sessions, logins, verified, opened, tabVars, req>>
  BY DEF Expire
<1>3. UserType' /\ FileInv'
  BY <1>1, <1>2 DEF UserType, FileInv, serverVars, userVars
<1>4. SessionType' /\ OldSessionsAreRevoked'
  BY <1>1, <1>2 DEF SessionType, OldSessionsAreRevoked, userVars, Live
<1>5. TabType' /\ TabInv'
  BY <1>1, <1>2 DEF TabType, TabInv, tabVars
<1>6. ReqType'
  BY <1>1, <1>2 DEF ReqType, ReqInv, LateInv, FreshInv, ChangeInv, Live, userVars
<1>. QED
  BY <1>3, <1>4, <1>5, <1>6 DEF IndInv

--------------------------------------------------------------------------------
(* The console *)

\* A request that a tab sends with what its browser and itself hold.
LEMMA SendNext ==
    ASSUME IndInv, NEW t \in Tabs, NEW op \in Ops, NEW typed \in Passwords \cup {0},
           NEW new \in Chosen \cup {0}, Send(t, op, typed, new),
           UNCHANGED <<serverVars, userVars, file, sessionVars, tabVars>>
    PROVE  IndInv'
<1>. DEFINE sid == cookie[BrowserOf[t]]
            late == sid \notin Live
            v == [NoRequest EXCEPT !.pc = "sent", !.op = op, !.typed = typed, !.new = new,
                                   !.sid = sid, !.tok = token[t],
                                   !.late = late, !.fresh = t \in fresh]
<1>1. logins \in 0..MaxLogins /\ TabType /\ TabInv
  BY DEF IndInv, SessionType
<1>2. sid \in 0..logins /\ token[t] \in 0..logins /\ (t \in fresh => token[t] = sid)
  BY <1>1, TabsAssumption DEF TabType, TabInv
<1>3. req' = [req EXCEPT ![t] = v]
  BY DEF Send
<1>4. PICK l \in BOOLEAN : l = late
  OBVIOUS
<1>5. PICK f \in BOOLEAN : f = (t \in fresh)
  <2>1. (t \in fresh) \in BOOLEAN
    OBVIOUS
  <2>. QED
    BY <2>1, Zenon
<1>6. v = [NoRequest EXCEPT !.pc = "sent", !.op = op, !.typed = typed, !.new = new,
                            !.sid = sid, !.tok = token[t], !.late = l, !.fresh = f]
  BY <1>4, <1>5
<1>. HIDE DEF v
<1>7. v \in Reqs
  <2>1. sid \in 0..MaxLogins /\ token[t] \in 0..MaxLogins
    BY <1>1, <1>2, BoundsAssumption
  <2>2. NoRequest \in Reqs
    BY NoRequestType
  <2>. HIDE DEF sid
  <2>. QED
    BY <1>6, <2>1, <2>2 DEF Reqs, PCs
<1>8. /\ v.sid = sid /\ v.tok = token[t] /\ v.got = 0 /\ v.late = l /\ v.fresh = f
      /\ v.op = op /\ v.pc = "sent" /\ v.out = "none"
  BY <1>6 DEF NoRequest
<1>9. ReqInv(v)
  <2>1. (v.late => v.sid \notin Live) /\ (v.fresh => t \in fresh)
    BY <1>4, <1>5, <1>8, Zenon
  <2>2. (v.fresh => v.tok = v.sid) /\ v.sid \in 0..logins /\ v.tok \in 0..logins
    BY <1>2, <1>8, <2>1
  <2>. QED
    BY <1>1, <1>8, <2>1, <2>2 DEF ReqInv, LateInv, FreshInv, ChangeInv
<1>. QED
  BY <1>3, <1>7, <1>9, OnlyOne

\* A /me that a tab asks with a session and a token of its own.
LEMMA AskMeOne ==
    ASSUME IndInv, NEW t \in Tabs, NEW sid \in 0..logins, NEW tok \in 0..logins,
           AskMe(t, sid, tok)
    PROVE  \E v \in Reqs : ReqInv(v) /\ req' = [req EXCEPT ![t] = v]
<1>. DEFINE late == sid \notin Live
            v == [NoRequest EXCEPT !.pc = "sent", !.op = "me", !.sid = sid, !.tok = tok,
                                   !.late = late]
<1>1. logins \in 0..MaxLogins
  BY DEF IndInv, SessionType
<1>2. req' = [req EXCEPT ![t] = v]
  BY DEF AskMe
<1>3. PICK l \in BOOLEAN : l = late
  OBVIOUS
<1>4. v = [NoRequest EXCEPT !.pc = "sent", !.op = "me", !.sid = sid, !.tok = tok, !.late = l]
  BY <1>3
<1>. HIDE DEF v
<1>5. v \in Reqs
  <2>1. sid \in 0..MaxLogins /\ tok \in 0..MaxLogins
    BY <1>1, BoundsAssumption
  <2>2. NoRequest \in Reqs
    BY NoRequestType
  <2>. QED
    BY <1>4, <2>1, <2>2 DEF Reqs, PCs, Ops
<1>6. /\ v.sid = sid /\ v.tok = tok /\ v.got = 0 /\ v.late = l /\ v.fresh = FALSE
      /\ v.op = "me" /\ v.pc = "sent" /\ v.out = "none"
  BY <1>4 DEF NoRequest
<1>7. ReqInv(v)
  <2>1. v.late => v.sid \notin Live
    BY <1>3, <1>6, Zenon
  <2>. QED
    BY <1>1, <1>6, <2>1 DEF ReqInv, LateInv, FreshInv, ChangeInv
<1>. QED
  BY <1>2, <1>5, <1>7

LEMMA SubmitNext ==
    ASSUME IndInv, NEW t \in Tabs,
           SubmitLogin(t) \/ SubmitChange(t) \/ ClickLogout(t) \/ ClickAction(t)
    PROVE  IndInv'
<1>1. UNCHANGED <<serverVars, userVars, file, sessionVars, tabVars>>
  BY DEF SubmitLogin, SubmitChange, ClickLogout, ClickAction
<1>2. Typed \subseteq Passwords
  BY BoundsAssumption DEF Typed, Passwords
<1>3. CASE SubmitLogin(t)
  <2>1. PICK p \in Typed : Send(t, "login", p, 0)
    BY <1>3 DEF SubmitLogin
  <2>. QED
    BY <1>1, <1>2, <2>1, SendNext DEF Ops
<1>4. CASE SubmitChange(t)
  <2>1. PICK p \in Typed, c \in Chosen : Send(t, "change", p, c)
    BY <1>4 DEF SubmitChange
  <2>. QED
    BY <1>1, <1>2, <2>1, SendNext DEF Ops
<1>5. CASE ClickLogout(t) \/ ClickAction(t)
  BY <1>1, <1>5, SendNext DEF ClickLogout, ClickAction, Ops
<1>. QED
  BY <1>3, <1>4, <1>5

\* What the tabs hold decides nothing but whether a token is the cookie's.
LEMMA TabsNext ==
    ASSUME IndInv, UNCHANGED <<serverVars, userVars, file, sessionVars>>,
           NEW t \in Tabs, NEW v \in Reqs, ReqInv(v), req' = [req EXCEPT ![t] = v],
           TabType', TabInv'
    PROVE  IndInv'
BY SameSessions, SameSessionsOne DEF IndInv

LEMMA ReloadNext ==
    ASSUME IndInv, NEW t \in Tabs, Reload(t)
    PROVE  IndInv'
<1>. DEFINE b == BrowserOf[t]
<1>1. TabType /\ TabInv /\ b \in Browsers /\ logins' = logins
  BY TabsAssumption DEF IndInv, Reload, sessionVars
<1>2. /\ token' = [token EXCEPT ![t] = stored[b]] /\ fresh' = fresh \ {t}
      /\ AskMe(t, cookie[b], token'[t])
      /\ UNCHANGED <<serverVars, userVars, file, sessionVars, cookie, stored>>
  BY DEF Reload
<1>3. PICK w \in {"login", "console"} : view' = [view EXCEPT ![t] = w]
  BY DEF Reload
<1>4. TabType'
  BY <1>1, <1>2, <1>3 DEF TabType
<1>5. TabInv'
  BY <1>1, <1>2 DEF TabInv, TabType
<1>6. PICK v \in Reqs : ReqInv(v) /\ req' = [req EXCEPT ![t] = v]
  <2>1. PICK tok \in 0..logins : tok = token'[t]
    BY <1>1, <1>4 DEF TabType
  <2>2. PICK sid \in 0..logins : sid = cookie[b]
    BY <1>1 DEF TabType
  <2>. QED
    BY <1>2, <2>1, <2>2, AskMeOne
<1>. QED
  BY <1>2, <1>4, <1>5, <1>6, TabsNext

LEMMA ChangedNext ==
    ASSUME IndInv, NEW t \in Tabs, Changed(t)
    PROVE  IndInv'
<1>1. TabType /\ TabInv /\ BrowserOf[t] \in Browsers /\ logins' = logins
  BY TabsAssumption DEF IndInv, Changed, sessionVars
<1>2. /\ view' = [view EXCEPT ![t] = "console"]
      /\ AskMe(t, cookie[BrowserOf[t]], token[t])
      /\ UNCHANGED <<serverVars, userVars, file, sessionVars, cookie, stored, token, fresh>>
  BY DEF Changed
<1>3. TabType' /\ TabInv'
  BY <1>1, <1>2 DEF TabType, TabInv
<1>4. PICK v \in Reqs : ReqInv(v) /\ req' = [req EXCEPT ![t] = v]
  BY <1>1, <1>2, AskMeOne DEF TabType
<1>. QED
  BY <1>2, <1>3, <1>4, TabsNext

\* The tab that logged in is fresh, and no other of its browser.
LEMMA LoggedInNext ==
    ASSUME IndInv, NEW t \in Tabs, LoggedIn(t)
    PROVE  IndInv'
<1>. DEFINE b == BrowserOf[t]
            got == req[t].got
<1>1. TabType /\ TabInv /\ b \in Browsers /\ logins' = logins /\ logins \in Nat
  BY TabsAssumption, BoundsAssumption DEF IndInv, LoggedIn, sessionVars, SessionType
<1>2. req[t] \in Reqs /\ got \in 0..logins
  BY Known DEF ReqInv, LateInv
<1>3. /\ cookie' = [cookie EXCEPT ![b] = got] /\ fresh' = (fresh \ TabsOf(b)) \cup {t}
      /\ token' = [token EXCEPT ![t] = got] /\ stored' = [stored EXCEPT ![b] = got]
      /\ UNCHANGED <<serverVars, userVars, file, sessionVars>>
  BY DEF LoggedIn, SetCsrfToken
<1>4. TabType'
  <2>1. PICK w \in {"must", "console"} : view' = [view EXCEPT ![t] = w]
    BY DEF LoggedIn
  <2>. QED
    BY <1>1, <1>2, <1>3, <2>1 DEF TabType
<1>5. TabInv'
  BY <1>1, <1>2, <1>3, TabsAssumption DEF TabInv, TabType, TabsOf
<1>6. PICK v \in Reqs : ReqInv(v) /\ req' = [req EXCEPT ![t] = v]
  <2>1. CASE req' = [req EXCEPT ![t] = NoRequest]
    BY <1>1, <2>1, NoRequestType
  <2>2. CASE AskMe(t, got, got)
    BY <1>2, <2>2, AskMeOne
  <2>. QED
    BY <2>1, <2>2 DEF LoggedIn
<1>. QED
  BY <1>3, <1>4, <1>5, <1>6, TabsNext

LEMMA LoggedOutNext ==
    ASSUME IndInv, NEW t \in Tabs, LoggedOut(t)
    PROVE  IndInv'
<1>. DEFINE b == BrowserOf[t]
<1>1. TabType /\ TabInv /\ b \in Browsers /\ logins' = logins /\ logins \in Nat
  BY TabsAssumption, BoundsAssumption DEF IndInv, LoggedOut, sessionVars, SessionType
<1>2. /\ cookie' = [cookie EXCEPT ![b] = 0] /\ fresh' = fresh \ TabsOf(b)
      /\ token' = [token EXCEPT ![t] = 0] /\ stored' = [stored EXCEPT ![b] = 0]
      /\ view' = [view EXCEPT ![t] = "login"] /\ req' = [req EXCEPT ![t] = NoRequest]
      /\ UNCHANGED <<serverVars, userVars, file, sessionVars>>
  BY DEF LoggedOut, SetCsrfToken
<1>3. TabType'
  BY <1>1, <1>2 DEF TabType
<1>4. TabInv'
  BY <1>1, <1>2, TabsAssumption DEF TabInv, TabType, TabsOf
<1>. QED
  BY <1>1, <1>2, <1>3, <1>4, NoRequestType, TabsNext

\* The token of the session that answered /me; the tab is fresh if that session is the
\* cookie's still.
LEMMA MeAnsweredNext ==
    ASSUME IndInv, NEW t \in Tabs, MeAnswered(t)
    PROVE  IndInv'
<1>. DEFINE b == BrowserOf[t]
            sid == req[t].sid
<1>1. TabType /\ TabInv /\ b \in Browsers /\ logins' = logins /\ logins \in Nat
  BY TabsAssumption, BoundsAssumption DEF IndInv, MeAnswered, sessionVars, SessionType
<1>2. sid \in 0..logins
  BY Known DEF ReqInv, LateInv
<1>3. /\ cookie' = cookie /\ req' = [req EXCEPT ![t] = NoRequest]
      /\ UNCHANGED <<serverVars, userVars, file, sessionVars>>
  BY DEF MeAnswered
<1>4. TabType' /\ TabInv'
  <2>1. CASE /\ SetCsrfToken(t, sid) /\ UNCHANGED view
             /\ fresh' = IF sid = cookie[b] THEN fresh \cup {t} ELSE fresh \ {t}
    <3>1. TabType'
      BY <1>1, <1>2, <1>3, <2>1 DEF TabType, SetCsrfToken
    <3>2. TabInv'
      BY <1>1, <1>2, <1>3, <2>1 DEF TabInv, TabType, SetCsrfToken
    <3>. QED
      BY <3>1, <3>2
  <2>2. CASE /\ SetCsrfToken(t, 0) /\ fresh' = fresh \ {t}
             /\ view' = [view EXCEPT ![t] = "login"]
    <3>1. TabType'
      BY <1>1, <1>3, <2>2 DEF TabType, SetCsrfToken
    <3>2. TabInv'
      BY <1>1, <1>3, <2>2 DEF TabInv, TabType, SetCsrfToken
    <3>. QED
      BY <3>1, <3>2
  <2>. QED
    BY <2>1, <2>2 DEF MeAnswered
<1>. QED
  BY <1>1, <1>3, <1>4, NoRequestType, TabsNext

LEMMA ShownNext ==
    ASSUME IndInv, NEW t \in Tabs, Shown(t)
    PROVE  IndInv'
<1>1. logins \in Nat
  BY BoundsAssumption DEF IndInv, SessionType
<1>. QED
  BY <1>1, NoRequestType, OnlyOne DEF Shown

--------------------------------------------------------------------------------
(* The theorems *)

LEMMA InitInv ==
    ASSUME Init
    PROVE  IndInv
<1>1. UserType /\ SessionType
  <2>1. must \in BOOLEAN
    BY Zenon DEF Init
  <2>2. UserType
    BY <2>1, BoundsAssumption DEF Init, UserType
  <2>3. SessionType
    BY BoundsAssumption DEF Init, SessionType, Ids
  <2>. QED
    BY <2>2, <2>3
<1>2. TabType /\ TabInv /\ OldSessionsAreRevoked /\ FileInv
  BY DEF Init, TabType, TabInv, OldSessionsAreRevoked, FileInv
<1>3. ReqType
  BY NoRequestType DEF Init, ReqType
<1>. QED
  BY <1>1, <1>2, <1>3 DEF IndInv

LEMMA NextInv ==
    ASSUME IndInv, [Next]_vars
    PROVE  IndInv'
<1>1. CASE Server
  BY <1>1, StartNext, WriteInitialFileNext, CrashNext, ExpireNext DEF Server
<1>2. CASE \E t \in Tabs : Serve(t)
  BY <1>2, UnreachableNext, FindSessionNext, LoadUserNext, GateNext, VerifyLoginNext,
     CreateSessionNext, VerifyCurrentNext, SetPasswordNext, RemoveInitialFileNext, LogoutNext,
     MeOrActNext DEF Serve
<1>3. CASE \E t \in Tabs : Console(t)
  BY <1>3, SubmitNext, ReloadNext, LoggedInNext, ChangedNext, LoggedOutNext, MeAnsweredNext,
     ShownNext DEF Console
<1>4. CASE UNCHANGED vars
  <2>1. /\ UNCHANGED <<serverVars, userVars, file, sessionVars>>
        /\ UNCHANGED tabVars /\ req' = req
    BY <1>4 DEF vars
  <2>2. TabType' /\ TabInv'
    BY <2>1 DEF IndInv, TabType, TabInv, tabVars, sessionVars
  <2>3. ReqType'
    BY <2>1, SameSessions DEF IndInv, ReqType
  <2>. QED
    BY <2>1, <2>2, <2>3, SameSessions DEF IndInv
<1>. QED
  BY <1>1, <1>2, <1>3, <1>4 DEF Next

\* The invariant holds in every state.
THEOREM Invariance == Spec => []IndInv
<1>1. Init => IndInv
  BY InitInv
<1>2. IndInv /\ [Next]_vars => IndInv'
  BY NextInv
<1>. QED
  BY <1>1, <1>2, PTL DEF Spec

\* Type correctness: what the server stores, the browsers keep and the requests carry
\* stays what it is, and no identifier is used that was not given out.
THEOREM TypeCorrect == Spec => []TypeOK
<1>1. IndInv => TypeOK
  BY DEF IndInv, TypeOK, UserType, SessionType, TabType, ReqType
<1>. QED
  BY <1>1, Invariance, PTL

\* A change of the password ends every session but the changer's, and those of logins
\* that overlapped it: set_admin_password writes and revokes in one transaction.
THEOREM OldSessionsRevoked == Spec => []OldSessionsAreRevoked
<1>1. IndInv => OldSessionsAreRevoked
  BY DEF IndInv
<1>. QED
  BY <1>1, Invariance, PTL

\* A request sent with a session that was over by then is refused, unless it is a login:
\* a session never comes back, and the middleware reads it before anything is done.
THEOREM LateSessionRefused == Spec => []LateSessionIsRefused
<1>1. IndInv => LateSessionIsRefused
  BY DEF IndInv, ReqType, ReqInv, LateInv, LateSessionIsRefused
<1>. QED
  BY <1>1, Invariance, PTL

\* A tab whose token is of its browser's cookie when it sends a request is not refused
\* for its token, whatever the other tabs of the browser do meanwhile.
THEOREM FreshTabAccepted == Spec => []FreshTabIsAccepted
<1>1. IndInv => FreshTabIsAccepted
  BY DEF IndInv, ReqType, ReqInv, FreshInv, FreshTabIsAccepted
<1>. QED
  BY <1>1, Invariance, PTL

\* If the server does not die between the row of the administrator and the file of the
\* initial password, the file holds it until it is changed, through any restarts.
THEOREM InitialFileValid ==
    ASSUME "starting" \notin CrashPoints
    PROVE  Spec => []InitialFileIsValid
<1>1. IndInv => InitialFileIsValid
  BY DEF IndInv, FileInv, InitialFileIsValid
<1>. QED
  BY <1>1, Invariance, PTL
================================================================================
