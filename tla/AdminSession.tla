----------------------------- MODULE AdminSession ------------------------------
(***************************************************************************)
(* The console's channel: the administrator's password and sessions        *)
(* (routes/admin.py, registry.py), the middleware that stands before every *)
(* admin route and the start of the server (apps/api/main.py), and the     *)
(* tabs of the web console, which share a cookie and a stored CSRF token   *)
(* per browser and hold a token each (apps/web/src: api.js, App.vue,       *)
(* Login.vue).  Handlers run in the threads of a pool: a request of one    *)
(* tab interleaves with those of the others between any two transactions.  *)
(*                                                                         *)
(* A session, its cookie and its CSRF token are one number, in the order   *)
(* of the logins; 0 is none.  The password of the n-th start of the server *)
(* is n, other passwords are chosen by the administrator; 0 is none.       *)
(***************************************************************************)
EXTENDS Naturals, FiniteSets

CONSTANTS
    Tabs,         \* tabs of the console
    Browsers,     \* browsers they are in
    BrowserOf,    \* the browser of a tab
    Chosen,       \* passwords an administrator chooses
    MaxLogins,    \* bound: sessions opened
    MaxChanges,   \* bound: changes of the password
    MaxStarts,    \* bound: starts of the server
    MaxExpired,   \* bound: sessions that expire before they end otherwise
    CrashPoints   \* when the server may die: "starting", "up"

Ids == 1..MaxLogins
Passwords == (1..MaxStarts) \cup Chosen

ASSUME BoundsAssumption == MaxLogins \in Nat /\ MaxChanges \in Nat /\ MaxStarts \in Nat \ {0}
                          /\ MaxExpired \in Nat
ASSUME TabsAssumption == BrowserOf \in [Tabs -> Browsers]

VARIABLES
    up,        \* the server: "down", "starting", "up"
    starts,    \* how often it was started
    pw,        \* the administrator's password; 0: no such row
    must,      \* admin_users.must_change_password
    file,      \* the file admin_initial_password; 0: none
    changes,   \* how often the password was changed
    changer,   \* the session that changed it last
    sessions,  \* rows of admin_sessions
    expired,   \* sessions whose expires_at has passed
    logins,    \* how many were opened
    verified,  \* per session: changes when its login verified the password,
    opened,    \* and when its row was written
    cookie,    \* the session cookie of each browser
    stored,    \* the CSRF token each browser stores
    token,     \* the CSRF token in each tab's memory
    fresh,     \* tabs whose token is of the browser's cookie
    view,      \* what a tab shows: "login", "must", "console"
    req        \* the request of each tab

serverVars  == <<up, starts>>
userVars    == <<pw, must, changes, changer>>
sessionVars == <<sessions, expired, logins, verified, opened>>
tabVars     == <<cookie, stored, token, fresh, view>>
vars == <<serverVars, userVars, file, sessionVars, tabVars, req>>

\* Ops of the console; "act" stands for any other that changes something.
Ops == {"login", "change", "logout", "me", "act"}
PCs == {"idle", "sent", "session", "gate", "handler", "verified", "changed", "answered"}
Outcomes == {"none", "ok", "401", "403_must", "403_csrf", "429", "lost"}

\* A request: what was typed and chosen, the cookie and the token it carries;
\* the user's row and the session as the middleware read them; the outcome, and
\* the session a login opened.  And when it was sent: whether its session was
\* over, and whether its tab was fresh.
Reqs == [pc : PCs, op : Ops \cup {"none"}, typed : Passwords \cup {0}, new : Chosen \cup {0},
         sid : 0..MaxLogins, tok : 0..MaxLogins,
         found : BOOLEAN, pw : Passwords \cup {0}, must : BOOLEAN,
         read : 0..MaxChanges, out : Outcomes, got : 0..MaxLogins,
         late : BOOLEAN, fresh : BOOLEAN]

NoRequest == [pc |-> "idle", op |-> "none", typed |-> 0, new |-> 0, sid |-> 0, tok |-> 0,
              found |-> FALSE, pw |-> 0, must |-> FALSE, read |-> 0, out |-> "none", got |-> 0,
              late |-> FALSE, fresh |-> FALSE]

TypeOK ==
    /\ up \in {"down", "starting", "up"}
    /\ starts \in 0..MaxStarts
    /\ pw \in Passwords \cup {0}
    /\ must \in BOOLEAN
    /\ file \in 0..MaxStarts
    /\ changes \in 0..MaxChanges
    /\ changer \in 0..MaxLogins
    /\ logins \in 0..MaxLogins
    /\ sessions \subseteq 1..logins
    /\ expired \subseteq 1..logins
    /\ verified \in [Ids -> 0..MaxChanges]
    /\ opened \in [Ids -> 0..MaxChanges]
    /\ cookie \in [Browsers -> 0..logins]
    /\ stored \in [Browsers -> 0..logins]
    /\ token \in [Tabs -> 0..logins]
    /\ fresh \subseteq Tabs
    /\ view \in [Tabs -> {"login", "must", "console"}]
    /\ req \in [Tabs -> Reqs]

Init ==
    /\ up = "down"
    /\ starts = 0
    /\ pw = 0
    /\ must = FALSE
    /\ file = 0
    /\ changes = 0
    /\ changer = 0
    /\ sessions = {}
    /\ expired = {}
    /\ logins = 0
    /\ verified = [i \in Ids |-> 0]
    /\ opened = [i \in Ids |-> 0]
    /\ cookie = [b \in Browsers |-> 0]
    /\ stored = [b \in Browsers |-> 0]
    /\ token = [t \in Tabs |-> 0]
    /\ fresh = {}
    /\ view = [t \in Tabs |-> "login"]
    /\ req = [t \in Tabs |-> NoRequest]

--------------------------------------------------------------------------------
(* Helpers *)

Live == sessions \ expired

At(t, op, pc) == req[t].op = op /\ req[t].pc = pc
Goto(t, pc) == req' = [req EXCEPT ![t].pc = pc]
Answer(t, out) ==
    req' = [req EXCEPT ![t] = [NoRequest EXCEPT
        !.pc = "answered", !.op = req[t].op, !.out = out, !.sid = req[t].sid,
        !.late = req[t].late, !.fresh = req[t].fresh]]

\* ensure_admin_user: a row with the password generated at this start, unless there
\* is a row.
EnsureAdminUser ==
    IF pw = 0 THEN pw' = starts' /\ must' = TRUE ELSE UNCHANGED <<pw, must>>

\* purge_expired_sessions, revoke_admin_session.
PurgeExpiredSessions == sessions' = Live
RevokeSession(sid) == sessions' = sessions \ {sid}

\* create_admin_session, for a login that read the password after so many changes.
CreateAdminSession(read) ==
    /\ logins' = logins + 1
    /\ sessions' = sessions \cup {logins'}
    /\ verified' = [verified EXCEPT ![logins'] = read]
    /\ opened' = [opened EXCEPT ![logins'] = changes]

\* The tabs of a browser.
TabsOf(b) == {t \in Tabs : BrowserOf[t] = b}

\* setCsrfToken and clearCsrfToken: in memory and in the browser's store.
SetCsrfToken(t, tok) ==
    /\ token' = [token EXCEPT ![t] = tok]
    /\ stored' = [stored EXCEPT ![BrowserOf[t]] = tok]

\* Requests of an operation under way.
Pending(op) == {u \in Tabs : req[u].op = op /\ req[u].pc # "answered"}

\* refreshMe: /me with a cookie and a token; nothing is known of the tab's token.
AskMe(t, sid, tok) ==
    req' = [req EXCEPT ![t] = [NoRequest EXCEPT !.pc = "sent", !.op = "me",
                               !.sid = sid, !.tok = tok, !.late = sid \notin Live]]

--------------------------------------------------------------------------------
(* The server starts and stops *)

\* The registry is opened, which deletes expired sessions; a password is
\* generated, for the administrator if there is none.
Start ==
    /\ up = "down"
    /\ starts < MaxStarts
    /\ starts' = starts + 1
    /\ EnsureAdminUser
    /\ PurgeExpiredSessions
    /\ up' = "starting"
    /\ UNCHANGED <<changes, changer, file, expired, logins, verified, opened, tabVars, req>>

\* Mutant of WriteInitialFile: the file always holds the last one generated.
WriteInitialFileAlways ==
    /\ up = "starting"
    /\ file' = starts
    /\ up' = "up"
    /\ UNCHANGED <<starts, userVars, sessionVars, tabVars, req>>

\* The generated password is left in a file, unless there is one.
WriteInitialFile ==
    /\ up = "starting"
    /\ file' = IF file = 0 THEN starts ELSE file
    /\ up' = "up"
    /\ UNCHANGED <<starts, userVars, sessionVars, tabVars, req>>

\* The server dies, and with it the requests it was serving.
Crash ==
    /\ up \in CrashPoints
    /\ up' = "down"
    /\ req' = [t \in Tabs |-> IF req[t].pc \in {"idle", "answered"} THEN req[t]
                              ELSE [req[t] EXCEPT !.pc = "answered", !.out = "lost"]]
    /\ UNCHANGED <<starts, userVars, file, sessionVars, tabVars>>

\* A request finds no server.
Unreachable(t) ==
    /\ up # "up"
    /\ req[t].pc = "sent"
    /\ Answer(t, "lost")
    /\ UNCHANGED <<serverVars, userVars, file, sessionVars, tabVars>>

\* Time passes the expires_at of a session, 30 minutes after its login.
Expire(i) ==
    /\ i \in Live
    /\ Cardinality(expired) < MaxExpired
    /\ expired' = expired \cup {i}
    /\ UNCHANGED <<serverVars, userVars, file, sessions, logins, verified, opened, tabVars, req>>

--------------------------------------------------------------------------------
(* The middleware *)

\* Mutant of FindSession: the row decides, whatever its age.
FindSessionAnyAge(t) ==
    /\ up = "up"
    /\ req[t].pc = "sent"
    /\ \/ req[t].op = "login" /\ Answer(t, "429")
       \/ req' = [req EXCEPT ![t].found = req[t].sid \in sessions,
                             ![t].pc = IF req[t].sid \in sessions THEN "session" ELSE "gate"]
    /\ UNCHANGED <<serverVars, userVars, file, sessionVars, tabVars>>

\* Logins are limited by address; the session of the cookie is looked up.
FindSession(t) ==
    /\ up = "up"
    /\ req[t].pc = "sent"
    /\ \/ req[t].op = "login" /\ Answer(t, "429")
       \/ req' = [req EXCEPT ![t].found = req[t].sid \in Live,
                             ![t].pc = IF req[t].sid \in Live THEN "session" ELSE "gate"]
    /\ UNCHANGED <<serverVars, userVars, file, sessionVars, tabVars>>

\* The row of its user.
LoadUser(t) ==
    /\ req[t].pc = "session"
    /\ req' = [req EXCEPT ![t].pc = "gate", ![t].pw = pw, ![t].must = must]
    /\ UNCHANGED <<serverVars, userVars, file, sessionVars, tabVars>>

\* Without a session there is only the login; with an initial password nothing
\* but what leads to its change; and what changes something needs the token of
\* its session.
Gate(t) ==
    /\ req[t].pc = "gate"
    /\ \/ req[t].op = "login" /\ Goto(t, "handler")
       \/ req[t].op # "login" /\ ~req[t].found /\ Answer(t, "401")
       \/ /\ req[t].op # "login" /\ req[t].found
          /\ IF req[t].op = "act" /\ req[t].must THEN Answer(t, "403_must")
             ELSE IF req[t].op # "me" /\ req[t].tok # req[t].sid THEN Answer(t, "403_csrf")
             ELSE Goto(t, "handler")
    /\ UNCHANGED <<serverVars, userVars, file, sessionVars, tabVars>>

--------------------------------------------------------------------------------
(* The routes *)

\* login: the user's row is read and the password verified.
VerifyLogin(t) ==
    /\ At(t, "login", "handler")
    /\ IF req[t].typed # pw THEN Answer(t, "401")
       ELSE req' = [req EXCEPT ![t].pc = "verified", ![t].read = changes, ![t].must = must]
    /\ UNCHANGED <<serverVars, userVars, file, sessionVars, tabVars>>

\* A session is opened, with an identifier and a token of its own.  The answer says
\* whether the password must be changed by the row that was verified.
CreateSession(t) ==
    /\ At(t, "login", "verified")
    /\ logins < MaxLogins
    /\ CreateAdminSession(req[t].read)
    /\ req' = [req EXCEPT ![t].pc = "answered", ![t].out = "ok", ![t].got = logins']
    /\ UNCHANGED <<serverVars, userVars, file, expired, tabVars>>

\* change_password: the current password, against the row the middleware read.
VerifyCurrent(t) ==
    /\ At(t, "change", "handler")
    /\ IF req[t].typed # req[t].pw THEN Answer(t, "401") ELSE Goto(t, "verified")
    /\ UNCHANGED <<serverVars, userVars, file, sessionVars, tabVars>>

\* Mutant of SetPassword: the other sessions last until they expire.
SetPasswordOnly(t) ==
    /\ At(t, "change", "verified")
    /\ changes < MaxChanges
    /\ pw' = req[t].new
    /\ must' = FALSE
    /\ changes' = changes + 1
    /\ changer' = req[t].sid
    /\ Goto(t, "changed")
    /\ UNCHANGED <<serverVars, file, sessionVars, tabVars>>

\* set_admin_password: in one transaction the new password, and the end of all
\* sessions but the one that changes it.
SetPassword(t) ==
    /\ At(t, "change", "verified")
    /\ changes < MaxChanges
    /\ pw' = req[t].new
    /\ must' = FALSE
    /\ changes' = changes + 1
    /\ changer' = req[t].sid
    /\ sessions' = sessions \cap {req[t].sid}
    /\ Goto(t, "changed")
    /\ UNCHANGED <<serverVars, file, expired, logins, verified, opened, tabVars>>

\* The initial password's file is deleted.
RemoveInitialFile(t) ==
    /\ At(t, "change", "changed")
    /\ file' = 0
    /\ Answer(t, "ok")
    /\ UNCHANGED <<serverVars, userVars, sessionVars, tabVars>>

Logout(t) ==
    /\ At(t, "logout", "handler")
    /\ RevokeSession(req[t].sid)
    /\ Answer(t, "ok")
    /\ UNCHANGED <<serverVars, userVars, file, expired, logins, verified, opened, tabVars>>

\* me: the session's user and token.  And any other operation.
MeOrAct(t) ==
    /\ At(t, "me", "handler") \/ At(t, "act", "handler")
    /\ Answer(t, "ok")
    /\ UNCHANGED <<serverVars, userVars, file, sessionVars, tabVars>>

--------------------------------------------------------------------------------
(* The console *)

\* A request carries the cookie of the browser and the token of the tab.
Send(t, op, typed, new) ==
    /\ req[t].pc = "idle"
    /\ req' = [req EXCEPT ![t] =
          LET sid == cookie[BrowserOf[t]]
          IN [NoRequest EXCEPT !.pc = "sent", !.op = op, !.typed = typed, !.new = new,
                               !.sid = sid, !.tok = token[t],
                               !.late = sid \notin Live, !.fresh = t \in fresh]]

\* What an administrator types: the password of the first start, or a chosen one.  Those
\* of later starts are never anybody's password.
Typed == {1} \cup Chosen

SubmitLogin(t) ==
    /\ view[t] # "console"
    /\ logins + Cardinality(Pending("login")) < MaxLogins
    /\ \E p \in Typed : Send(t, "login", p, 0)
    /\ UNCHANGED <<serverVars, userVars, file, sessionVars, tabVars>>

SubmitChange(t) ==
    /\ view[t] = "must"
    /\ changes + Cardinality(Pending("change")) < MaxChanges
    /\ \E p \in Typed, c \in Chosen : Send(t, "change", p, c)
    /\ UNCHANGED <<serverVars, userVars, file, sessionVars, tabVars>>

ClickLogout(t) ==
    /\ view[t] = "console"
    /\ Send(t, "logout", 0, 0)
    /\ UNCHANGED <<serverVars, userVars, file, sessionVars, tabVars>>

ClickAction(t) ==
    /\ view[t] = "console"
    /\ Send(t, "act", 0, 0)
    /\ UNCHANGED <<serverVars, userVars, file, sessionVars, tabVars>>

\* The login page or the console is loaded again: the tab takes the stored token,
\* then asks for /me.
Reload(t) ==
    /\ req[t].pc = "idle"
    /\ token' = [token EXCEPT ![t] = stored[BrowserOf[t]]]
    /\ fresh' = fresh \ {t}
    /\ \E v \in {"login", "console"} : view' = [view EXCEPT ![t] = v]
    /\ AskMe(t, cookie[BrowserOf[t]], token'[t])
    /\ UNCHANGED <<serverVars, userVars, file, sessionVars, cookie, stored>>

\* Login.vue, submit: the cookie and the token of the new session; then the form
\* for the change of the password, or the console.
LoggedIn(t) ==
    /\ At(t, "login", "answered")
    /\ req[t].out = "ok"
    /\ cookie' = [cookie EXCEPT ![BrowserOf[t]] = req[t].got]
    /\ fresh' = (fresh \ TabsOf(BrowserOf[t])) \cup {t}
    /\ SetCsrfToken(t, req[t].got)
    /\ view' = [view EXCEPT ![t] = IF req[t].must THEN "must" ELSE "console"]
    /\ IF req[t].must THEN req' = [req EXCEPT ![t] = NoRequest]
       ELSE AskMe(t, req[t].got, req[t].got)
    /\ UNCHANGED <<serverVars, userVars, file, sessionVars>>

\* Login.vue, changePw: the password is changed; on to the console.
Changed(t) ==
    /\ At(t, "change", "answered")
    /\ req[t].out = "ok"
    /\ view' = [view EXCEPT ![t] = "console"]
    /\ AskMe(t, cookie[BrowserOf[t]], token[t])
    /\ UNCHANGED <<serverVars, userVars, file, sessionVars, cookie, stored, token, fresh>>

\* App.vue, doLogout: the response deletes the cookie, the console the token.
LoggedOut(t) ==
    /\ At(t, "logout", "answered")
    /\ req[t].out = "ok"
    /\ cookie' = [cookie EXCEPT ![BrowserOf[t]] = 0]
    /\ fresh' = fresh \ TabsOf(BrowserOf[t])
    /\ SetCsrfToken(t, 0)
    /\ view' = [view EXCEPT ![t] = "login"]
    /\ req' = [req EXCEPT ![t] = NoRequest]
    /\ UNCHANGED <<serverVars, userVars, file, sessionVars>>

\* Mutant of MeAnswered: the token in memory is good enough.
MeAnsweredKeepingToken(t) ==
    /\ At(t, "me", "answered")
    /\ \/ /\ req[t].out = "ok"
          /\ UNCHANGED <<token, stored>>
          /\ fresh' = IF req[t].sid = cookie[BrowserOf[t]] THEN fresh \cup {t} ELSE fresh \ {t}
          /\ UNCHANGED view
       \/ /\ req[t].out # "ok"
          /\ SetCsrfToken(t, 0)
          /\ fresh' = fresh \ {t}
          /\ view' = [view EXCEPT ![t] = "login"]
    /\ req' = [req EXCEPT ![t] = NoRequest]
    /\ UNCHANGED <<serverVars, userVars, file, sessionVars, cookie>>

\* App.vue, refreshMe: the token of the session the request came with, or none
\* and the login page.
MeAnswered(t) ==
    /\ At(t, "me", "answered")
    /\ \/ /\ req[t].out = "ok"
          /\ SetCsrfToken(t, req[t].sid)
          /\ fresh' = IF req[t].sid = cookie[BrowserOf[t]] THEN fresh \cup {t} ELSE fresh \ {t}
          /\ UNCHANGED view
       \/ /\ req[t].out # "ok"
          /\ SetCsrfToken(t, 0)
          /\ fresh' = fresh \ {t}
          /\ view' = [view EXCEPT ![t] = "login"]
    /\ req' = [req EXCEPT ![t] = NoRequest]
    /\ UNCHANGED <<serverVars, userVars, file, sessionVars, cookie>>

\* Any other answer is shown, or thrown: the tab stays as it is.
Shown(t) ==
    /\ req[t].pc = "answered"
    /\ req[t].op = "act" \/ (req[t].op # "me" /\ req[t].out # "ok")
    /\ req' = [req EXCEPT ![t] = NoRequest]
    /\ UNCHANGED <<serverVars, userVars, file, sessionVars, tabVars>>

--------------------------------------------------------------------------------

Server == Start \/ WriteInitialFile \/ Crash \/ \E i \in Ids : Expire(i)

Serve(t) ==
    \/ Unreachable(t) \/ FindSession(t) \/ LoadUser(t) \/ Gate(t)
    \/ VerifyLogin(t) \/ CreateSession(t)
    \/ VerifyCurrent(t) \/ SetPassword(t) \/ RemoveInitialFile(t)
    \/ Logout(t) \/ MeOrAct(t)

Console(t) ==
    \/ SubmitLogin(t) \/ SubmitChange(t) \/ ClickLogout(t) \/ ClickAction(t) \/ Reload(t)
    \/ LoggedIn(t) \/ Changed(t) \/ LoggedOut(t) \/ MeAnswered(t) \/ Shown(t)

Next == Server \/ \E t \in Tabs : Serve(t) \/ Console(t)

Spec == Init /\ [][Next]_vars

--------------------------------------------------------------------------------
(* Properties *)

\* A session whose login verified a password that has been changed since is the
\* changer's own, or its login overlapped the change.
OldSessionsAreRevoked ==
    \A i \in sessions : verified[i] < changes => i = changer \/ verified[i] < opened[i]

\* A request that is sent with a session already revoked, logged out or expired
\* gets nothing but a login, however the requests of other tabs interleave.
LateSessionIsRefused ==
    \A t \in Tabs : req[t].late /\ req[t].op # "login" => req[t].out \in {"none", "401", "lost"}

\* As long as the initial password was not changed, the file holds it: the first
\* login is possible, after any number of restarts.
InitialFileIsValid == up = "up" /\ changes = 0 => file = pw

\* A tab that has asked /me, or has logged in, since its browser's cookie changed
\* last is not refused for its CSRF token: several tabs heal themselves.
FreshTabIsAccepted ==
    \A t \in Tabs : req[t].fresh => req[t].out # "403_csrf"
================================================================================
