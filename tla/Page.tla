-------------------------------- MODULE Page --------------------------------
(***************************************************************************)
(* The dashboard and the login page (frontend/static/js/app.js and         *)
(* login.js): the session check at load, the tables and the answers they   *)
(* are filled from, imports, the message line with its timer, and the way  *)
(* to the login page and back.                                             *)
(*                                                                         *)
(* Requests are answered in any order and each may fail.  location.replace *)
(* only starts a navigation: callbacks of the page run until the browser   *)
(* has the next page, and the last of several navigations wins.  The       *)
(* polling of a sync is SyncPoll; here are the steps in which it touches   *)
(* the rest of the page.                                                   *)
(***************************************************************************)
EXTENDS Integers, Sequences

CONSTANTS
    Tables,      \* the tables of the page, "reservations" among them
    Paths, Home, \* addresses of the dashboard; Home is "/"
    MsgLife,     \* ticks a message stays (5000 ms)
    MaxVersion,  \* bound on the changes of the database
    MaxCalls     \* bound on table loads in flight at once

ASSUME TablesAssumption ==
    "reservations" \in Tables /\ Tables \subseteq {"reservations", "alerts", "gpu_coverage"}
ASSUME PathsAssumption == Home \in Paths /\ "none" \notin Paths
ASSUME PageBoundsAssumption ==
    MsgLife \in Nat \ {0} /\ MaxVersion \in Nat \ {0} /\ MaxCalls \in Nat

VARIABLES
    session,    \* the server knows the cookie
    db,         \* version of what the server would answer
    loc,        \* the page in the browser and its path, or its ?next=
    nav,        \* the navigation under way
    me,         \* GET /api/me of this page
    calls,      \* loads in flight, in the order they were sent
    shown,      \* table -> version it shows, or Blank
    loading,    \* the indicator of the reservations table
    import,     \* POST /api/import
    logout,     \* POST /api/logout
    message,    \* is there a message
    msgTimer,   \* the timer msgTimer refers to: ticks left, or NoTimer
    msgTimers,  \* all pending timers of messages
    login,      \* POST /api/login of the login page
    busy,       \* its form is waiting
    redirects,  \* history: redirectToLogin before a good answer of /api/me, up to 2
    eager,      \* history: the user acted before that
    mine,       \* history: version of the last import this page completed
    overtaken,  \* history: tables last filled by a load that was overtaken
    msgAge,     \* history: ticks since the last showMsg
    lastPath,   \* history: path of the last dashboard
    signedOut,  \* history: the user asked to leave it
    bounced     \* history: the server sent the browser away from a dashboard

server == <<session, db>>
tables == <<calls, shown, loading, overtaken>>
messages == <<message, msgTimer, msgTimers, msgAge>>
loginPage == <<login, busy>>
places == <<lastPath, signedOut, bounced>>
vars == <<session, db, loc, nav, me, calls, shown, loading, import, logout, message,
          msgTimer, msgTimers, login, busy, redirects, eager, mine, overtaken, msgAge,
          lastPath, signedOut, bounced>>

-----------------------------------------------------------------------------

Blank == 0
Versions == 1..MaxVersion
NoTimer == -1
NoPath == "none"
NoNav == [at |-> "none", path |-> NoPath]
Places == [at : {"app"}, path : Paths] \cup [at : {"login"}, path : Paths \cup {NoPath}]
Pending == {"sent", "ok", "error", "expired"}

\* A load; `older' once the table was filled from another while it was under
\* way.
Calls == [table : Tables, at : Pending, v : 0..MaxVersion, older : BOOLEAN]

PageTypeOK ==
    /\ session \in BOOLEAN
    /\ db \in Versions
    /\ loc \in Places
    /\ nav \in Places \cup {NoNav}
    /\ me \in {"none", "valid", "refused"} \cup Pending
    /\ calls \in Seq(Calls) /\ Len(calls) <= MaxCalls
    /\ shown \in [Tables -> 0..MaxVersion]
    /\ loading \in BOOLEAN
    /\ import \in {"none"} \cup Pending
    /\ logout \in {"none", "sent", "answered"}
    /\ message \in BOOLEAN
    /\ msgTimer \in {NoTimer} \cup 0..MsgLife
    /\ msgTimers \subseteq 0..MsgLife
    /\ login \in {"none", "sent", "ok", "error"}
    /\ busy \in BOOLEAN
    /\ redirects \in 0..2
    /\ eager \in BOOLEAN
    /\ mine \in 0..MaxVersion
    /\ overtaken \subseteq Tables
    /\ msgAge \in 0..MsgLife
    /\ lastPath \in Paths
    /\ signedOut \in BOOLEAN
    /\ bounced \in BOOLEAN
    /\ loc.at = "login" => me = "none" /\ calls = <<>> /\ ~loading
    /\ loc.at = "app" => login = "none" /\ ~busy

\* A dashboard has been served and asks who is there.
Init ==
    /\ session \in BOOLEAN
    /\ db = 1
    /\ \E p \in Paths : loc = [at |-> "app", path |-> p] /\ lastPath = p
    /\ nav = NoNav
    /\ me = "sent"
    /\ calls = <<>>
    /\ shown = [t \in Tables |-> Blank]
    /\ loading = FALSE
    /\ import = "none"
    /\ logout = "none"
    /\ message = FALSE
    /\ msgTimer = NoTimer
    /\ msgTimers = {}
    /\ login = "none"
    /\ busy = FALSE
    /\ redirects = 0
    /\ eager = FALSE
    /\ mine = 0
    /\ overtaken = {}
    /\ msgAge = 0
    /\ signedOut = FALSE
    /\ bounced = FALSE

-----------------------------------------------------------------------------
(* The helpers of the page.                                                *)

Unverified == me # "valid"

\* Mutant: the timer of the message before is left to fire.
MutantShowMsg ==
    /\ message' = TRUE
    /\ msgTimers' = msgTimers \cup {MsgLife}
    /\ msgTimer' = MsgLife
    /\ msgAge' = 0

showMsg ==
    /\ message' = TRUE
    /\ msgTimers' = (msgTimers \ {msgTimer}) \cup {MsgLife}
    /\ msgTimer' = MsgLife
    /\ msgAge' = 0

\* Mutant: the login page is not told where the user was.
MutantRedirectToLogin ==
    /\ nav' = [at |-> "login", path |-> NoPath]
    /\ redirects' = IF Unverified /\ redirects < 2 THEN redirects + 1 ELSE redirects

redirectToLogin ==
    /\ nav' = [at |-> "login", path |-> loc.path]
    /\ redirects' = IF Unverified /\ redirects < 2 THEN redirects + 1 ELSE redirects

\* A request answered 401 redirects, any other leaves the page alone.
RedirectIf(expired) ==
    IF expired THEN redirectToLogin ELSE UNCHANGED <<nav, redirects>>

\* What the server makes of a request that needs a session.
Outcomes == {"error", IF session THEN "ok" ELSE "expired"}

\* The calls cs and, behind them, a load of table t.
NewLoad(t) == [table |-> t, at |-> "sent", v |-> 0, older |-> FALSE]
With(cs, t) == IF t \in Tables THEN Append(cs, NewLoad(t)) ELSE cs

\* Loads are sent, after which cs are in flight.
Load(cs) ==
    /\ Len(cs) <= MaxCalls
    /\ calls' = cs
    /\ loading' = (loading \/ \E i \in DOMAIN cs \ DOMAIN calls : cs[i].table = "reservations")
    /\ UNCHANGED <<shown, overtaken>>

-----------------------------------------------------------------------------
(* The server and other users.                                             *)

DbChanges ==
    /\ db < MaxVersion
    /\ db' = db + 1
    /\ UNCHANGED <<session, loc, nav, me, tables, import, logout, messages, loginPage,
                   redirects, eager, mine, places>>

SessionEnds ==
    /\ session
    /\ session' = FALSE
    /\ UNCHANGED <<db, loc, nav, me, tables, import, logout, messages, loginPage,
                   redirects, eager, mine, places>>

-----------------------------------------------------------------------------
(* onMounted and loadMe.                                                   *)

AnswerMe ==
    /\ me = "sent"
    /\ me' \in Outcomes
    /\ UNCHANGED <<server, loc, nav, tables, import, logout, messages, loginPage,
                   redirects, eager, mine, places>>

\* Mutant: the tables are loaded while loadMe is still asking.
MutantMounted ==
    /\ me \in {"ok", "expired"}
    /\ me' = IF me = "ok" THEN "valid" ELSE "refused"
    /\ RedirectIf(me = "expired")
    /\ Load(With(With(calls, "reservations"), "gpu_coverage"))
    /\ UNCHANGED <<server, loc, import, logout, messages, loginPage, eager, mine, places>>

\* There is a session: load what the dashboard shows.
Mounted ==
    /\ me = "ok"
    /\ me' = "valid"
    /\ Load(With(With(calls, "reservations"), "gpu_coverage"))
    /\ redirects' = 0
    /\ eager' = FALSE
    /\ UNCHANGED <<server, loc, nav, import, logout, messages, loginPage, mine, places>>

\* There is none, or it cannot be told: load nothing.
NotMounted ==
    /\ me \in {"expired", "error"}
    /\ me' = "refused"
    /\ RedirectIf(me = "expired")
    /\ IF me = "error" THEN showMsg ELSE UNCHANGED messages
    /\ UNCHANGED <<server, loc, tables, import, logout, loginPage, eager, mine, places>>

-----------------------------------------------------------------------------
(* The tables.                                                             *)

\* Mutant: the answer may come from a cache.
MutantAnswerLoad(i) ==
    /\ calls[i].at = "sent"
    /\ \E o \in Outcomes, v \in 1..db :
          calls' = [calls EXCEPT ![i].at = o, ![i].v = IF o = "ok" THEN v ELSE 0]
    /\ UNCHANGED <<server, loc, nav, me, shown, loading, overtaken, import, logout,
                   messages, loginPage, redirects, eager, mine, places>>

\* apiFetch up to the answer: the server reads the table, or refuses.
AnswerLoad(i) ==
    /\ calls[i].at = "sent"
    /\ \E o \in Outcomes :
          calls' = [calls EXCEPT ![i].at = o, ![i].v = IF o = "ok" THEN db ELSE 0]
    /\ UNCHANGED <<server, loc, nav, me, shown, loading, overtaken, import, logout,
                   messages, loginPage, redirects, eager, mine, places>>

\* The calls without the i-th; the others to the same table are now older than
\* what it shows.
Handled(i) ==
    [j \in 1..(Len(calls) - 1) |->
        LET c == calls[IF j < i THEN j ELSE j + 1]
        IN  [c EXCEPT !.older = @ \/ c.table = calls[i].table]]

\* finally { loading.value = false }
DoneLoading(i) == loading' = (loading /\ calls[i].table # "reservations")

\* loadReservations, loadAlerts, loadGPUCoverage after their await.
LoadOk(i) ==
    /\ calls[i].at = "ok"
    /\ shown' = [shown EXCEPT ![calls[i].table] = calls[i].v]
    /\ calls' = Handled(i)
    /\ DoneLoading(i)
    /\ overtaken' = IF calls[i].older
                    THEN overtaken \cup {calls[i].table}
                    ELSE overtaken \ {calls[i].table}
    /\ UNCHANGED <<server, loc, nav, me, import, logout, messages, loginPage, redirects,
                   eager, mine, places>>

\* Mutant: the indicator is only taken away after a success.
MutantLoadFails(i) ==
    /\ calls[i].at \in {"error", "expired"}
    /\ RedirectIf(calls[i].at = "expired")
    /\ showMsg
    /\ shown' = [shown EXCEPT ![calls[i].table] = Blank]
    /\ calls' = Handled(i)
    /\ UNCHANGED <<server, loc, me, loading, overtaken, import, logout, loginPage, eager,
                   mine, places>>

\* Their catch: say so and empty the table.
LoadFails(i) ==
    /\ calls[i].at \in {"error", "expired"}
    /\ RedirectIf(calls[i].at = "expired")
    /\ showMsg
    /\ shown' = [shown EXCEPT ![calls[i].table] = Blank]
    /\ calls' = Handled(i)
    /\ DoneLoading(i)
    /\ UNCHANGED <<server, loc, me, overtaken, import, logout, loginPage, eager, mine, places>>

\* A click on the tab of the alerts or of the GPU coverage.
OpenTab(t) ==
    /\ loc.at = "app"
    /\ t # "reservations"
    /\ Load(With(calls, t))
    /\ eager' = (eager \/ Unverified)
    /\ UNCHANGED <<server, loc, nav, me, import, logout, messages, loginPage, redirects,
                   mine, places>>

\* The end of a run that the page was polling for: syncData works before the
\* session is known.
PollDone ==
    /\ loc.at = "app"
    /\ showMsg
    /\ Load(With(With(With(calls, "reservations"), "alerts"), "gpu_coverage"))
    /\ eager' = (eager \/ Unverified)
    /\ UNCHANGED <<server, loc, nav, me, import, logout, loginPage, redirects, mine, places>>

\* Anything else that syncData and its polling say, at any moment.
SyncSays ==
    /\ loc.at = "app"
    /\ showMsg
    /\ UNCHANGED <<server, loc, nav, me, tables, import, logout, loginPage, redirects,
                   eager, mine, places>>

\* POST /api/sync or a status call was answered 401.
SyncExpired ==
    /\ loc.at = "app"
    /\ ~session
    /\ redirectToLogin
    /\ eager' = (eager \/ Unverified)
    /\ showMsg \/ UNCHANGED messages
    /\ UNCHANGED <<server, loc, me, tables, import, logout, loginPage, mine, places>>

-----------------------------------------------------------------------------
(* importFile.                                                             *)

\* A file was chosen; one import at a time is modelled.
Import ==
    /\ loc.at = "app"
    /\ import = "none"
    /\ import' = "sent"
    /\ eager' = (eager \/ Unverified)
    /\ UNCHANGED <<server, loc, nav, me, tables, logout, messages, loginPage, redirects,
                   mine, places>>

\* The rows are stored; the answer may be lost.
AcceptImport ==
    /\ import = "sent"
    /\ session
    /\ db < MaxVersion
    /\ db' = db + 1
    /\ import' \in {"ok", "error"}
    /\ UNCHANGED <<session, loc, nav, me, tables, logout, messages, loginPage, redirects,
                   eager, mine, places>>

RefuseImport ==
    /\ import = "sent"
    /\ import' \in {"error", IF session THEN "error" ELSE "expired"}
    /\ UNCHANGED <<server, loc, nav, me, tables, logout, messages, loginPage, redirects,
                   eager, mine, places>>

\* Mutant: the page does not look at the table it changed.
MutantImported ==
    /\ import = "ok"
    /\ import' = "none"
    /\ showMsg
    /\ Load(With(calls, "alerts"))
    /\ mine' = db
    /\ UNCHANGED <<server, loc, nav, me, logout, loginPage, redirects, eager, places>>

\* What the server answers from now on holds the imported rows.
Imported ==
    /\ import = "ok"
    /\ import' = "none"
    /\ showMsg
    /\ Load(With(With(calls, "reservations"), "alerts"))
    /\ mine' = db
    /\ UNCHANGED <<server, loc, nav, me, logout, loginPage, redirects, eager, places>>

ImportFails ==
    /\ import \in {"error", "expired"}
    /\ import' = "none"
    /\ RedirectIf(import = "expired")
    /\ showMsg
    /\ UNCHANGED <<server, loc, me, tables, logout, loginPage, eager, mine, places>>

-----------------------------------------------------------------------------
(* The message line.                                                       *)

\* A timer of a message fires, whichever message is there now.
MsgFires ==
    /\ 0 \in msgTimers
    /\ msgTimers' = msgTimers \ {0}
    /\ message' = FALSE
    /\ msgTimer' = NoTimer
    /\ UNCHANGED <<server, loc, nav, me, tables, import, logout, loginPage, redirects,
                   eager, mine, msgAge, places>>

\* Time passes; timers that are due fire first.
Tick ==
    /\ msgTimers # {}
    /\ 0 \notin msgTimers
    /\ msgTimers' = {n - 1 : n \in msgTimers}
    /\ msgTimer' = IF msgTimer = NoTimer THEN NoTimer ELSE msgTimer - 1
    /\ msgAge' = IF msgAge < MsgLife THEN msgAge + 1 ELSE MsgLife
    /\ UNCHANGED <<server, loc, nav, me, tables, import, logout, message, loginPage,
                   redirects, eager, mine, places>>

-----------------------------------------------------------------------------
(* Leaving, and the login page.                                            *)

\* The button is there once /api/me has named the user.
Logout ==
    /\ loc.at = "app"
    /\ me = "valid"
    /\ logout = "none"
    /\ logout' = "sent"
    /\ signedOut' = TRUE
    /\ UNCHANGED <<server, loc, nav, me, tables, import, messages, loginPage, redirects,
                   eager, mine, lastPath, bounced>>

\* Best effort: the session may survive a lost request.
AnswerLogout ==
    /\ logout = "sent"
    /\ logout' = "answered"
    /\ session' \in {FALSE, session}
    /\ UNCHANGED <<db, loc, nav, me, tables, import, messages, loginPage, redirects,
                   eager, mine, places>>

\* To the login page, with no way back.
LoggedOut ==
    /\ logout = "answered"
    /\ logout' = "none"
    /\ nav' = [at |-> "login", path |-> NoPath]
    /\ UNCHANGED <<server, loc, me, tables, import, messages, loginPage, redirects, eager,
                   mine, places>>

\* submit up to its await.
Submit ==
    /\ loc.at = "login"
    /\ ~busy
    /\ busy' = TRUE
    /\ login' = "sent"
    /\ UNCHANGED <<server, loc, nav, me, tables, import, logout, messages, redirects,
                   eager, mine, places>>

\* A session is opened, or the login is refused, or the answer is lost.
AnswerLogin ==
    /\ login = "sent"
    /\ \/ session' = TRUE /\ login' \in {"ok", "error"}
       \/ UNCHANGED session /\ login' = "error"
    /\ UNCHANGED <<db, loc, nav, me, tables, import, logout, messages, busy, redirects,
                   eager, mine, places>>

\* Mutant: nowhere to go when the login page was opened without ?next=.
MutantLoginOk ==
    /\ login = "ok"
    /\ login' = "none"
    /\ nav' = [at |-> "app", path |-> loc.path]
    /\ UNCHANGED <<server, loc, me, tables, import, logout, messages, busy, redirects,
                   eager, mine, places>>

\* To the page in ?next=, or home.
LoginOk ==
    /\ login = "ok"
    /\ login' = "none"
    /\ nav' = [at |-> "app", path |-> IF loc.path = NoPath THEN Home ELSE loc.path]
    /\ UNCHANGED <<server, loc, me, tables, import, logout, messages, busy, redirects,
                   eager, mine, places>>

LoginFails ==
    /\ login = "error"
    /\ login' = "none"
    /\ busy' = FALSE
    /\ UNCHANGED <<server, loc, nav, me, tables, import, logout, messages, redirects,
                   eager, mine, places>>

\* The reload button.
Reload ==
    /\ nav' = loc
    /\ UNCHANGED <<server, loc, me, tables, import, logout, messages, loginPage, redirects,
                   eager, mine, places>>

\* The page the server answers a request for p with: a dashboard asked for
\* without a session is the login page, with no way back.
requireAuthPage(p) ==
    IF p.at = "app" /\ ~session THEN [at |-> "login", path |-> NoPath] ELSE p

\* The browser has the next page; what the old one was waiting for is lost.
Arrive ==
    /\ nav # NoNav
    /\ loc' = requireAuthPage(nav)
    /\ nav' = NoNav
    /\ me' = IF loc'.at = "app" THEN "sent" ELSE "none"
    /\ calls' = <<>>
    /\ shown' = [t \in Tables |-> Blank]
    /\ loading' = FALSE
    /\ import' = "none"
    /\ logout' = "none"
    /\ message' = FALSE
    /\ msgTimer' = NoTimer
    /\ msgTimers' = {}
    /\ login' = "none"
    /\ busy' = FALSE
    /\ redirects' = 0
    /\ eager' = FALSE
    /\ mine' = 0
    /\ overtaken' = {}
    /\ msgAge' = 0
    /\ lastPath' = IF loc'.at = "app" THEN loc'.path ELSE lastPath
    /\ signedOut' = (signedOut /\ loc'.at = "login")
    /\ bounced' = (loc'.at = "login" /\ (bounced \/ nav.at = "app"))
    /\ UNCHANGED server

-----------------------------------------------------------------------------

LoadStep(i) == AnswerLoad(i) \/ LoadOk(i) \/ LoadFails(i)
AppStep ==
    \/ AnswerMe \/ Mounted \/ NotMounted
    \/ AcceptImport \/ RefuseImport \/ Imported \/ ImportFails
    \/ AnswerLogout \/ LoggedOut
    \/ \E i \in DOMAIN calls : LoadStep(i)
LoginStep == AnswerLogin \/ LoginOk \/ LoginFails

Next ==
    \/ DbChanges \/ SessionEnds
    \/ AppStep \/ LoginStep
    \/ MsgFires \/ Tick
    \/ \E t \in Tables : OpenTab(t)
    \/ PollDone \/ SyncSays \/ SyncExpired \/ Import \/ Logout \/ Submit
    \/ Reload \/ Arrive

Spec == Init /\ [][Next]_vars

-----------------------------------------------------------------------------
(* Properties.                                                             *)

\* A table goes back to an older state of the database only when two loads of
\* it overlapped and the one that read first is applied last; a load that was
\* sent after the shown data arrived never undoes it.
RegressOnlyIfConcurrent ==
    [][\A t \in Tables :
          (shown'[t] # Blank /\ shown'[t] < shown[t]) =>
              \E i \in DOMAIN calls :
                  calls[i].table = t /\ calls[i].at = "ok" /\ calls[i].older]_vars

\* A user who imported a file sees it: when no load is under way any more, the
\* two tables an import changes hold it, unless the last load failed or was
\* overtaken as above.
ImportShown ==
    \A t \in Tables \cap {"reservations", "alerts"} :
        \/ \E i \in DOMAIN calls : calls[i].table = t
        \/ shown[t] \in {Blank} \cup mine..MaxVersion
        \/ t \in overtaken

\* A message stays its time, unless another replaces it or the page is left:
\* showMsg clears the timer of the message before.
MessageStays ==
    [][(message /\ ~message') => (msgAge = MsgLife \/ (nav # NoNav /\ nav' = NoNav))]_vars

\* "Gate data loading on a valid session so 401s do not race into multiple
\* redirects": a page redirects twice only when its session ended after
\* /api/me was answered, or when the user did not wait for a good answer.
OneRedirect == redirects > 1 => eager

\* Whoever loses the session and logs in again comes back to the page that was
\* left.  Only those may start at the home page who signed out, or whose
\* request for the dashboard reached the server without a session: a reload
\* after the session ended, or a login whose session ended before the
\* dashboard was asked for.
ReturnsWhereTheyWere ==
    [][(loc.at = "login" /\ loc'.at = "app") =>
          \/ loc'.path = lastPath
          \/ (signedOut \/ bounced) /\ loc'.path = Home]_vars

\* Neither the loading indicator nor the busy login form is left behind: each
\* is backed by a request, or by a navigation that replaces the page, whichever
\* requests fail, overlap or are cut off.
NothingStuck ==
    /\ loading => \E i \in DOMAIN calls : calls[i].table = "reservations"
    /\ busy => login # "none" \/ nav # NoNav
=============================================================================
