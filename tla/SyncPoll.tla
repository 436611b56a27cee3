------------------------------ MODULE SyncPoll ------------------------------
(***************************************************************************)
(* The sync button of the page (frontend/static/js/app.js): the POST that  *)
(* starts a run on the server, the loop of status calls that follows it,   *)
(* and the loop that a page resumes when it finds a run under way.         *)
(*                                                                         *)
(* JavaScript runs one callback at a time, but between the sending of a    *)
(* request, the moment the server looks at its state and the moment the    *)
(* page sees the answer, anything else may happen: other timers, clicks,   *)
(* the end of the run, runs that other users start.  Requests may fail any *)
(* number of times, and take any number of ticks.                          *)
(***************************************************************************)
EXTENDS Integers

CONSTANTS
    MaxClicks,   \* bound on the clicks that start a sync
    FirstDelay,  \* ticks to the first probe (2000 ms)
    Interval,    \* ticks between two probes (5000 ms)
    Cap,         \* SYNC_POLL_TIMEOUT_MS in ticks
    MaxErrs      \* SYNC_POLL_MAX_CONSECUTIVE_ERRS

ASSUME PollAssumption ==
    /\ MaxClicks \in Nat /\ FirstDelay \in Nat /\ Interval \in Nat
    /\ Cap \in Nat /\ MaxErrs \in Nat \ {0}

VARIABLES
    session,        \* the server knows the page's cookie
    running,        \* syncState.running
    page,           \* "open", "leaving" for the login page, or "gone"
    resume,         \* the status call of resumeSyncIfRunning
    post,           \* click -> its POST /api/sync
    loop,           \* loop -> where it stands
    syncRunning,    \* the spinner; the button is disabled meanwhile
    syncPollTimer,  \* the loop whose timer was set last, or None
    clicks,
    overlapped,     \* history: a click's answer came during a status call
    outcome         \* history: click -> what became of its run

server == <<session, running>>
spinner == <<syncRunning, syncPollTimer>>
vars == <<session, running, page, resume, post, loop, syncRunning,
          syncPollTimer, clicks, overlapped, outcome>>

-----------------------------------------------------------------------------

Clicks == 1..MaxClicks

\* Click k starts loop k; loop 0 is the one found at page load.
Loops == 0..MaxClicks
None == -1

\* What a status call comes back with: the server's flag, a failure, or 401.
Answers == {"running", "idle", "error", "expired"}
InCall == {"sent"} \cup Answers

\* A timer with `left' ticks to go, or a call; `age' is the time since
\* pollStart, counted up to just beyond Cap.
Off == [at |-> "off", left |-> 0, age |-> 0, errs |-> 0]
FirstTimer == [at |-> "timer", left |-> FirstDelay, age |-> 0, errs |-> 0]
LoopStates ==
    [at : {"off", "timer"} \cup InCall,
     left : Nat, age : 0..(Cap + 1), errs : 0..(MaxErrs - 1)]

Alive(l) == loop[l].at # "off"
Calling(l) == loop[l].at \in InCall

PollTypeOK ==
    /\ session \in BOOLEAN
    /\ running \in BOOLEAN
    /\ page \in {"open", "leaving", "gone"}
    /\ resume \in {"none", "done"} \cup InCall
    /\ post \in [Clicks -> {"none", "sent", "ok", "error", "expired", "polled", "failed"}]
    /\ loop \in [Loops -> LoopStates]
    /\ syncRunning \in BOOLEAN
    /\ syncPollTimer \in Loops \cup {None}
    /\ clicks \in 0..MaxClicks
    /\ \A k \in Clicks : post[k] # "none" => k <= clicks
    /\ overlapped \in BOOLEAN
    /\ outcome \in [Clicks -> {"none", "running", "ended", "told"}]

\* The page has been served; a run may be under way on the server.
Init ==
    /\ session \in BOOLEAN
    /\ running \in BOOLEAN
    /\ page = "open"
    /\ resume = "none"
    /\ post = [k \in Clicks |-> "none"]
    /\ loop = [l \in Loops |-> Off]
    /\ syncRunning = FALSE
    /\ syncPollTimer = None
    /\ clicks = 0
    /\ overlapped = FALSE
    /\ outcome = [k \in Clicks |-> "none"]

Here == page # "gone"

-----------------------------------------------------------------------------
(* The server.                                                             *)

\* Somebody else starts a run.
OtherStarts ==
    /\ ~running
    /\ running' = TRUE
    /\ UNCHANGED <<session, page, resume, post, loop, spinner, clicks, overlapped, outcome>>

\* The goroutine of POST /api/sync is done.
RunEnds ==
    /\ running
    /\ running' = FALSE
    /\ outcome' = [k \in Clicks |-> IF outcome[k] = "running" THEN "ended" ELSE outcome[k]]
    /\ UNCHANGED <<session, page, resume, post, loop, spinner, clicks, overlapped>>

SessionEnds ==
    /\ session
    /\ session' = FALSE
    /\ UNCHANGED <<running, page, resume, post, loop, spinner, clicks, overlapped, outcome>>

\* requireAuth and syncStatus: what a status call can come back with.
StatusAnswer ==
    {"error", IF ~session THEN "expired" ELSE IF running THEN "running" ELSE "idle"}

\* syncAll: 202 starts a run and 409 joins the one there is, which is the same
\* to the page.
AcceptPost(k) ==
    /\ post[k] = "sent"
    /\ session
    /\ running' = TRUE
    /\ post' = [post EXCEPT ![k] = "ok"]
    /\ outcome' = [outcome EXCEPT ![k] = "running"]
    /\ UNCHANGED <<session, page, resume, loop, spinner, clicks, overlapped>>

RefusePost(k) ==
    /\ post[k] = "sent"
    /\ ~session
    /\ post' = [post EXCEPT ![k] = "expired"]
    /\ UNCHANGED <<server, page, resume, loop, spinner, clicks, overlapped, outcome>>

\* The request, or the answer to it, is lost: the run may have begun.
LosePost(k) ==
    /\ post[k] = "sent"
    /\ running' \in {running, running \/ session}
    /\ post' = [post EXCEPT ![k] = "error"]
    /\ UNCHANGED <<session, page, resume, loop, spinner, clicks, overlapped, outcome>>

-----------------------------------------------------------------------------
(* Polling.                                                                *)

\* redirectToLogin, on a 401.
LeaveIf(expired) == page' = IF expired THEN "leaving" ELSE page

\* pollSyncStatus: clear the pending timer, if syncPollTimer names one that
\* has not fired, and set the first of loop l.
pollSyncStatus(l) ==
    /\ loop' = [i \in Loops |->
                  CASE i = l -> FirstTimer
                    [] i # l /\ i = syncPollTimer /\ loop[i].at = "timer" -> Off
                    [] OTHER -> loop[i]]
    /\ syncPollTimer' = l

\* The end of loop l, seen from the page's state.
Stop(l) ==
    /\ loop' = [loop EXCEPT ![l] = Off]
    /\ syncRunning' = FALSE
    /\ syncPollTimer' = None

Rearm(l, errs) ==
    /\ loop' = [loop EXCEPT ![l].at = "timer", ![l].left = Interval, ![l].errs = errs]
    /\ syncPollTimer' = l

\* Loop l gives up and says so, also for the clicks whose loops it replaced.
GivesUp(l) ==
    /\ Stop(l)
    /\ outcome' = [k \in Clicks |->
                      IF outcome[k] # "none" /\ (k = l \/ ~Alive(k))
                      THEN "told" ELSE outcome[k]]

\* Mutant: no cap.
MutantFire(l) ==
    /\ Here
    /\ loop[l].at = "timer"
    /\ loop[l].left = 0
    /\ loop' = [loop EXCEPT ![l].at = "sent"]
    /\ UNCHANGED <<server, page, resume, post, spinner, clicks, overlapped, outcome>>

\* tick: the timer has fired; too late, or ask.
Fire(l) ==
    /\ Here
    /\ loop[l].at = "timer"
    /\ loop[l].left = 0
    /\ IF loop[l].age > Cap
       THEN GivesUp(l)
       ELSE /\ loop' = [loop EXCEPT ![l].at = "sent"]
            /\ UNCHANGED <<spinner, outcome>>
    /\ UNCHANGED <<server, page, resume, post, clicks, overlapped>>

AnswerStatus(l) ==
    /\ Here
    /\ loop[l].at = "sent"
    /\ \E a \in StatusAnswer : loop' = [loop EXCEPT ![l].at = a]
    /\ UNCHANGED <<server, page, resume, post, spinner, clicks, overlapped, outcome>>

\* if (s.running): the spinner is on, ask again later.
SeesRunning(l) ==
    /\ Here
    /\ loop[l].at = "running"
    /\ syncRunning' = TRUE
    /\ Rearm(l, 0)
    /\ UNCHANGED <<server, page, resume, post, clicks, overlapped, outcome>>

\* Mutant: the tables are not loaded.
MutantSeesIdle(l) ==
    /\ Here
    /\ loop[l].at = "idle"
    /\ Stop(l)
    /\ UNCHANGED <<server, page, resume, post, clicks, overlapped, outcome>>

\* The run is over: stop and load the tables anew.  What they then show is
\* the outcome of every run that has ended by now.
SeesIdle(l) ==
    /\ Here
    /\ loop[l].at = "idle"
    /\ Stop(l)
    /\ outcome' = [k \in Clicks |-> IF outcome[k] = "ended" THEN "told" ELSE outcome[k]]
    /\ UNCHANGED <<server, page, resume, post, clicks, overlapped>>

\* Mutant: one error more than the limit is let pass.
MutantSeesError(l) ==
    /\ Here
    /\ loop[l].at \in {"error", "expired"}
    /\ LeaveIf(loop[l].at = "expired")
    /\ IF loop[l].errs + 1 > MaxErrs
       THEN GivesUp(l)
       ELSE Rearm(l, loop[l].errs + 1) /\ UNCHANGED <<syncRunning, outcome>>
    /\ UNCHANGED <<server, resume, post, clicks, overlapped>>

\* catch: give up at the limit of errors in a row, else ask again later.
SeesError(l) ==
    /\ Here
    /\ loop[l].at \in {"error", "expired"}
    /\ LeaveIf(loop[l].at = "expired")
    /\ IF loop[l].errs + 1 >= MaxErrs
       THEN GivesUp(l)
       ELSE Rearm(l, loop[l].errs + 1) /\ UNCHANGED <<syncRunning, outcome>>
    /\ UNCHANGED <<server, resume, post, clicks, overlapped>>

-----------------------------------------------------------------------------
(* The button and the page.                                                *)

\* syncData up to its await.
Click ==
    /\ Here
    /\ ~syncRunning
    /\ clicks < MaxClicks
    /\ clicks' = clicks + 1
    /\ syncRunning' = TRUE
    /\ post' = [post EXCEPT ![clicks + 1] = "sent"]
    /\ UNCHANGED <<server, page, resume, loop, syncPollTimer, overlapped, outcome>>

\* 202 or 409.
PostAccepted(k) ==
    /\ Here
    /\ post[k] = "ok"
    /\ post' = [post EXCEPT ![k] = "polled"]
    /\ pollSyncStatus(k)
    /\ overlapped' = (overlapped \/ \E l \in Loops : Calling(l))
    /\ UNCHANGED <<server, page, resume, syncRunning, clicks, outcome>>

\* Mutant: the spinner is left on.
MutantPostFailed(k) ==
    /\ Here
    /\ post[k] \in {"error", "expired"}
    /\ LeaveIf(post[k] = "expired")
    /\ post' = [post EXCEPT ![k] = "failed"]
    /\ UNCHANGED <<server, resume, loop, spinner, clicks, overlapped, outcome>>

\* catch of syncData.
PostFailed(k) ==
    /\ Here
    /\ post[k] \in {"error", "expired"}
    /\ LeaveIf(post[k] = "expired")
    /\ post' = [post EXCEPT ![k] = "failed"]
    /\ syncRunning' = FALSE
    /\ UNCHANGED <<server, resume, loop, syncPollTimer, clicks, overlapped, outcome>>

\* onMounted: loadMe has found a session and the page looks for a run to
\* resume; the button works before that.
Mounted ==
    /\ Here
    /\ resume = "none"
    /\ session
    /\ resume' = "sent"
    /\ UNCHANGED <<server, page, post, loop, spinner, clicks, overlapped, outcome>>

\* loadMe was answered 401, or failed: nothing is resumed.
NotMounted ==
    /\ Here
    /\ resume = "none"
    /\ resume' = "done"
    /\ page' \in {page, IF session THEN page ELSE "leaving"}
    /\ UNCHANGED <<server, post, loop, spinner, clicks, overlapped, outcome>>

AnswerResume ==
    /\ Here
    /\ resume = "sent"
    /\ resume' \in StatusAnswer
    /\ UNCHANGED <<server, page, post, loop, spinner, clicks, overlapped, outcome>>

\* Mutant: no look at syncPollTimer.
MutantResumes == resume = "running"

\* s.running && !syncPollTimer
Resumes == resume = "running" /\ syncPollTimer = None

\* resumeSyncIfRunning after its await; errors are ignored.
Resume ==
    /\ Here
    /\ resume \in Answers
    /\ resume' = "done"
    /\ LeaveIf(resume = "expired")
    /\ IF Resumes
       THEN syncRunning' = TRUE /\ pollSyncStatus(0)
       ELSE UNCHANGED <<loop, spinner>>
    /\ UNCHANGED <<server, post, clicks, overlapped, outcome>>

\* The browser has the login page: this page and its timers are no more.
Unload ==
    /\ page = "leaving"
    /\ page' = "gone"
    /\ UNCHANGED <<server, resume, post, loop, spinner, clicks, overlapped, outcome>>

\* Time passes; timers that are due fire first.
Tick ==
    /\ Here
    /\ \E l \in Loops : Alive(l)
    /\ \A l \in Loops : loop[l].at = "timer" => loop[l].left > 0
    /\ loop' = [l \in Loops |->
                  IF ~Alive(l) THEN loop[l]
                  ELSE [loop[l] EXCEPT !.left = IF @ > 0 THEN @ - 1 ELSE 0,
                                       !.age = IF @ <= Cap THEN @ + 1 ELSE @]]
    /\ UNCHANGED <<server, page, resume, post, spinner, clicks, overlapped, outcome>>

-----------------------------------------------------------------------------

LoopStep(l) ==
    Fire(l) \/ AnswerStatus(l) \/ SeesRunning(l) \/ SeesIdle(l) \/ SeesError(l)
PostStep(k) ==
    AcceptPost(k) \/ RefusePost(k) \/ LosePost(k) \/ PostAccepted(k) \/ PostFailed(k)

Next ==
    \/ OtherStarts \/ RunEnds \/ SessionEnds
    \/ Click \/ Mounted \/ NotMounted \/ AnswerResume \/ Resume \/ Unload \/ Tick
    \/ \E k \in Clicks : PostStep(k)
    \/ \E l \in Loops : LoopStep(l)

Spec == Init /\ [][Next]_vars

\* Every request is answered or fails, callbacks run, time passes and a
\* navigation completes.  Nothing is assumed of the server's run: it may go on
\* for ever, and others may start the next one.
Fairness ==
    /\ WF_vars(Tick)
    /\ WF_vars(Unload)
    /\ \A k \in Clicks : WF_vars(PostStep(k))
    /\ \A l \in Loops : WF_vars(LoopStep(l))

FairSpec == Spec /\ Fairness

-----------------------------------------------------------------------------
(* Properties.                                                             *)

\* The spinner, which disables the button, is never on without a request or a
\* polling loop that will turn it off: no failure, late answer or second loop
\* leaves the button dead.
SpinnerBacked ==
    syncRunning =>
        \/ \E k \in Clicks : post[k] \in {"sent", "ok", "error", "expired"}
        \/ \E l \in Loops : Alive(l)

\* A page polls with one loop.  The one exception is a POST that is answered
\* while a status call of an earlier loop is under way, when there is no timer
\* to clear; neither resumeSyncIfRunning nor a click at any other moment makes
\* two loops.
OneLoopUnlessOverlap ==
    \A i, j \in Loops : (Alive(i) /\ Alive(j) /\ i # j) => overlapped

\* "hard cap so UI never spins forever": whatever the server does, whichever
\* calls fail, and with two loops too, the spinner goes off.
SpinnerStops == []<>(~syncRunning \/ page = "gone")

\* A user whose click was accepted learns the outcome: the tables are loaded
\* after that run has ended, or the page says that it gave up; a loop that
\* another one replaced or outran does not take the outcome with it.
OutcomeShown ==
    \A k \in Clicks : (post[k] = "polled") ~> (outcome[k] = "told" \/ page = "gone")
=============================================================================
