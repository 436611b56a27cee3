--------------------------- MODULE SyncPollProofs ---------------------------
(***************************************************************************)
(* Proofs about the polling of the page, for any number of clicks, any     *)
(* delays and any limits.                                                  *)
(***************************************************************************)
EXTENDS SyncPoll, TLAPS

\* Unless loops have overlapped, the only one there is has its handle in
\* syncPollTimer, where the next pollSyncStatus and resumeSyncIfRunning find it.
HandleKept == ~overlapped => \A l \in Loops : Alive(l) => syncPollTimer = l

PollInv == PollTypeOK /\ SpinnerBacked /\ HandleKept

Ats == {"off", "timer"} \cup InCall

-----------------------------------------------------------------------------
(* What the assignments to a loop do to it.                                *)

LEMMA OffIsState == Off \in LoopStates /\ Off.at = "off"
  BY PollAssumption DEF Off, LoopStates

LEMMA SetAt ==
  ASSUME loop \in [Loops -> LoopStates], NEW l \in Loops, NEW a \in Ats
  PROVE  LET f == [loop EXCEPT ![l].at = a]
         IN  /\ f \in [Loops -> LoopStates]
             /\ \A i \in Loops : f[i].at = IF i = l THEN a ELSE loop[i].at
  BY DEF LoopStates, Ats

LEMMA SetRearmed ==
  ASSUME loop \in [Loops -> LoopStates], NEW l \in Loops, NEW e \in 0..(MaxErrs - 1),
         Rearm(l, e)
  PROVE  /\ loop' \in [Loops -> LoopStates]
         /\ loop'[l].at = "timer"
         /\ \A i \in Loops : i # l => loop'[i] = loop[i]
  BY PollAssumption DEF Rearm, LoopStates

LEMMA SetStopped ==
  ASSUME loop \in [Loops -> LoopStates], NEW l \in Loops, Stop(l)
  PROVE  /\ loop' \in [Loops -> LoopStates]
         /\ loop'[l].at = "off"
         /\ \A i \in Loops : i # l => loop'[i] = loop[i]
  BY OffIsState DEF Stop

LEMMA SetPolling ==
  ASSUME loop \in [Loops -> LoopStates], NEW l \in Loops, pollSyncStatus(l)
  PROVE  /\ loop' \in [Loops -> LoopStates]
         /\ loop'[l].at = "timer"
         /\ \A i \in Loops : i # l =>
               loop'[i] = IF i = syncPollTimer /\ loop[i].at = "timer" THEN Off ELSE loop[i]
  <1>1. FirstTimer \in LoopStates
    BY PollAssumption DEF FirstTimer, LoopStates
  <1>2. FirstTimer.at = "timer"
    BY DEF FirstTimer
  <1>3. \A i \in Loops : loop'[i] =
            IF i = l THEN FirstTimer
            ELSE IF i = syncPollTimer /\ loop[i].at = "timer" THEN Off ELSE loop[i]
    BY DEF pollSyncStatus
  <1>4. loop' = [i \in Loops |-> loop'[i]]
    BY DEF pollSyncStatus
  <1> QED BY <1>1, <1>2, <1>3, <1>4, OffIsState

\* A loop that stops takes the spinner and the handle with it, and is the only
\* one unless loops have overlapped.
LEMMA StopKeeps ==
  ASSUME PollInv, NEW l \in Loops, Alive(l), Stop(l), overlapped' = overlapped
  PROVE  SpinnerBacked' /\ HandleKept'
  <1>1. ~syncRunning'
    BY DEF Stop
  <1>2. \A i \in Loops : Alive(i)' => Alive(i) /\ i # l
    BY SetStopped DEF PollInv, PollTypeOK, Alive
  <1> QED BY <1>1, <1>2 DEF PollInv, SpinnerBacked, HandleKept

\* A loop that goes on keeps or takes the handle.
LEMMA RearmKeeps ==
  ASSUME PollInv, NEW l \in Loops, NEW e \in 0..(MaxErrs - 1), Alive(l), Rearm(l, e),
         overlapped' = overlapped
  PROVE  SpinnerBacked' /\ HandleKept'
  <1>1. /\ Alive(l)'
        /\ \A i \in Loops : Alive(i)' => Alive(i)
    BY SetRearmed DEF PollInv, PollTypeOK, Alive
  <1>2. syncPollTimer' = l
    BY DEF Rearm
  <1> QED BY <1>1, <1>2 DEF PollInv, SpinnerBacked, HandleKept

-----------------------------------------------------------------------------

LEMMA PollInit == Init => PollInv
  <1> SUFFICES ASSUME Init PROVE PollInv
    OBVIOUS
  <1>1. PollTypeOK
    <2>1. loop \in [Loops -> LoopStates]
      BY OffIsState DEF Init
    <2>2. /\ post \in [Clicks -> {"none", "sent", "ok", "error", "expired", "polled", "failed"}]
          /\ \A k \in Clicks : post[k] = "none"
      BY DEF Init
    <2>3. outcome \in [Clicks -> {"none", "running", "ended", "told"}]
      BY DEF Init
    <2>4. clicks \in 0..MaxClicks
      BY PollAssumption DEF Init
    <2>5. syncRunning \in BOOLEAN /\ overlapped \in BOOLEAN
      BY DEF Init
    <2>6. /\ page \in {"open", "leaving", "gone"}
          /\ resume \in {"none", "done"} \cup InCall
          /\ syncPollTimer \in Loops \cup {None}
      BY DEF Init
    <2> QED BY <2>1, <2>2, <2>3, <2>4, <2>5, <2>6 DEF Init, PollTypeOK
  <1>2. SpinnerBacked /\ HandleKept
    BY OffIsState DEF Init, SpinnerBacked, HandleKept, Alive
  <1> QED BY <1>1, <1>2 DEF PollInv

\* The steps that touch neither a loop nor its handle nor the spinner.
LEMMA QuietStep ==
  ASSUME PollInv, PollTypeOK',
         UNCHANGED <<loop, syncRunning, syncPollTimer, overlapped>>,
         \A k \in Clicks : post[k] \in {"sent", "ok", "error", "expired"} =>
                               post'[k] \in {"sent", "ok", "error", "expired"}
  PROVE  PollInv'
  BY DEF PollInv, SpinnerBacked, HandleKept, Alive

LEMMA PollStep == PollInv /\ [Next]_vars => PollInv'
  <1> SUFFICES ASSUME PollInv, [Next]_vars PROVE PollInv'
    OBVIOUS
  <1> USE PollAssumption
  <1>1. CASE OtherStarts \/ RunEnds \/ SessionEnds \/ Mounted \/ NotMounted
             \/ AnswerResume \/ Unload
    <2>1. PollTypeOK'
      BY <1>1 DEF PollInv, PollTypeOK, OtherStarts, RunEnds, SessionEnds, Mounted, NotMounted,
                  AnswerResume, StatusAnswer, Unload, spinner, server, InCall, Answers
    <2>2. UNCHANGED <<loop, syncRunning, syncPollTimer, overlapped, post>>
      BY <1>1 DEF OtherStarts, RunEnds, SessionEnds, Mounted, NotMounted, AnswerResume,
                  Unload, spinner
    <2> QED BY <2>1, <2>2, QuietStep
  <1>2. ASSUME NEW k \in Clicks, AcceptPost(k) \/ RefusePost(k) \/ LosePost(k)
        PROVE  PollInv'
    <2>1. PollTypeOK'
      BY <1>2 DEF PollInv, PollTypeOK, AcceptPost, RefusePost, LosePost, server, spinner, Clicks
    <2>2. /\ UNCHANGED <<loop, syncRunning, syncPollTimer, overlapped>>
          /\ post'[k] \in {"sent", "ok", "error", "expired"}
          /\ \A j \in Clicks : j # k => post'[j] = post[j]
      BY <1>2 DEF PollInv, PollTypeOK, AcceptPost, RefusePost, LosePost, spinner
    <2> QED BY <2>1, <2>2, QuietStep
  <1>3. CASE Click
    <2>1. clicks + 1 \in Clicks
      BY <1>3 DEF PollInv, PollTypeOK, Click, Clicks
    <2>2. PollTypeOK'
      BY <1>3, <2>1 DEF PollInv, PollTypeOK, Click, server, Clicks
    <2>3. post'[clicks + 1] = "sent"
      BY <1>3, <2>1 DEF PollInv, PollTypeOK, Click
    <2> QED BY <1>3, <2>1, <2>2, <2>3
        DEF PollInv, SpinnerBacked, HandleKept, Click, Alive
  <1>4. ASSUME NEW k \in Clicks, PostAccepted(k) PROVE PollInv'
    <2>1. k \in Loops
      BY DEF Clicks, Loops
    <2>2. /\ loop' \in [Loops -> LoopStates]
          /\ loop'[k].at = "timer"
          /\ \A i \in Loops : i # k =>
                loop'[i] = IF i = syncPollTimer /\ loop[i].at = "timer" THEN Off ELSE loop[i]
      BY <1>4, <2>1, SetPolling DEF PollInv, PollTypeOK, PostAccepted
    <2>3. syncPollTimer' = k
      BY <1>4 DEF PostAccepted, pollSyncStatus
    <2>4. PollTypeOK'
      BY <1>4, <2>1, <2>2, <2>3 DEF PollInv, PollTypeOK, PostAccepted, server
    <2>5. SpinnerBacked'
      BY <2>1, <2>2 DEF SpinnerBacked, Alive
    <2>6. HandleKept'
      <3> SUFFICES ASSUME ~overlapped', NEW i \in Loops, Alive(i)', i # k PROVE FALSE
        BY <2>3 DEF HandleKept
      <3>1. ~overlapped /\ ~Calling(i)
        BY <1>4 DEF PostAccepted, PollInv, PollTypeOK
      <3>2. Alive(i) /\ loop'[i] = loop[i]
        BY <2>2, OffIsState DEF Alive
      <3>3. loop[i].at = "timer"
        BY <3>1, <3>2 DEF PollInv, PollTypeOK, LoopStates, Alive, Calling
      <3>4. syncPollTimer = i
        BY <3>1, <3>2 DEF PollInv, HandleKept
      <3> QED BY <2>2, <3>2, <3>3, <3>4, OffIsState
    <2> QED BY <2>4, <2>5, <2>6 DEF PollInv
  <1>5. ASSUME NEW k \in Clicks, PostFailed(k) PROVE PollInv'
    <2>1. PollTypeOK'
      BY <1>5 DEF PollInv, PollTypeOK, PostFailed, LeaveIf, server
    <2>2. ~syncRunning' /\ UNCHANGED <<loop, syncPollTimer, overlapped>>
      BY <1>5 DEF PostFailed
    <2> QED BY <2>1, <2>2 DEF PollInv, SpinnerBacked, HandleKept, Alive
  <1>6. CASE Resume
    <2>1. CASE Resumes
      <3>1. 0 \in Loops /\ pollSyncStatus(0) /\ syncPollTimer = None
        BY <1>6, <2>1 DEF Loops, Resume, Resumes
      <3>2. /\ loop' \in [Loops -> LoopStates]
            /\ loop'[0].at = "timer"
            /\ \A i \in Loops : i # 0 =>
                  loop'[i] = IF i = syncPollTimer /\ loop[i].at = "timer" THEN Off ELSE loop[i]
        BY <3>1, SetPolling DEF PollInv, PollTypeOK
      <3>3. syncPollTimer' = 0 /\ syncRunning' = TRUE
        BY <1>6, <2>1 DEF Resume, pollSyncStatus
      <3>4. PollTypeOK'
        BY <1>6, <3>1, <3>2, <3>3 DEF PollInv, PollTypeOK, Resume, LeaveIf, server
      <3>5. SpinnerBacked'
        BY <3>1, <3>2 DEF SpinnerBacked, Alive
      <3>6. HandleKept'
        <4> SUFFICES ASSUME ~overlapped', NEW i \in Loops, Alive(i)', i # 0 PROVE FALSE
          BY <3>3 DEF HandleKept
        <4>1. ~overlapped
          BY <1>6 DEF Resume
        <4>2. Alive(i)
          BY <3>2, OffIsState DEF Alive
        <4>3. syncPollTimer = i
          BY <4>1, <4>2 DEF PollInv, HandleKept
        <4> QED BY <3>1, <4>3 DEF Loops, None
      <3> QED BY <3>4, <3>5, <3>6 DEF PollInv
    <2>2. CASE ~Resumes
      <3>1. PollTypeOK'
        BY <1>6, <2>2 DEF PollInv, PollTypeOK, Resume, LeaveIf, server, spinner
      <3>2. UNCHANGED <<loop, syncRunning, syncPollTimer, overlapped, post>>
        BY <1>6, <2>2 DEF Resume, spinner
      <3> QED BY <3>1, <3>2, QuietStep
    <2> QED BY <2>1, <2>2
  <1>7. CASE Tick
    <2>1. ASSUME NEW l \in Loops
          PROVE  loop'[l] \in LoopStates /\ loop'[l].at = loop[l].at
      <3>1. loop[l] \in LoopStates
        BY DEF PollInv, PollTypeOK
      <3>2. CASE ~Alive(l)
        BY <1>7, <3>1, <3>2 DEF Tick
      <3>3. CASE Alive(l)
        <4>1. loop'[l] = [loop[l] EXCEPT !.left = IF @ > 0 THEN @ - 1 ELSE 0,
                                         !.age = IF @ <= Cap THEN @ + 1 ELSE @]
          BY <1>7, <3>3 DEF Tick
        <4>2. loop'[l] = [at |-> loop[l].at,
                          left |-> IF loop[l].left > 0 THEN loop[l].left - 1 ELSE 0,
                          age |-> IF loop[l].age <= Cap THEN loop[l].age + 1 ELSE loop[l].age,
                          errs |-> loop[l].errs]
          BY <3>1, <4>1 DEF LoopStates
        <4> QED BY <3>1, <4>2 DEF LoopStates
      <3> QED BY <3>2, <3>3
    <2>2. loop' \in [Loops -> LoopStates]
      BY <1>7, <2>1 DEF Tick
    <2>3. PollTypeOK'
      BY <1>7, <2>2 DEF PollInv, PollTypeOK, Tick, server, spinner
    <2> QED BY <1>7, <2>1, <2>3
        DEF PollInv, SpinnerBacked, HandleKept, Tick, Alive, spinner
  <1>8. ASSUME NEW l \in Loops, loop[l].at \in {"timer"} \cup InCall, GivesUp(l),
               LeaveIf(loop[l].at = "expired") \/ UNCHANGED page,
               UNCHANGED <<server, resume, post, clicks, overlapped>>
        PROVE  PollInv'
    <2>1. Alive(l) /\ Stop(l)
      BY <1>8 DEF Alive, GivesUp, InCall, Answers
    <2>2. PollTypeOK'
      BY <1>8, <2>1, SetStopped
      DEF PollInv, PollTypeOK, GivesUp, Stop, LeaveIf, server
    <2> QED BY <1>8, <2>1, <2>2, StopKeeps DEF PollInv
  <1>9. ASSUME NEW l \in Loops, Fire(l) PROVE PollInv'
    <2>1. CASE loop[l].age > Cap
      BY <1>8, <1>9, <2>1 DEF Fire
    <2>2. CASE ~(loop[l].age > Cap)
      <3>1. loop' = [loop EXCEPT ![l].at = "sent"] /\ "sent" \in Ats
        BY <1>9, <2>2 DEF Fire, Ats, InCall
      <3>2. /\ loop' \in [Loops -> LoopStates]
            /\ \A i \in Loops : loop'[i].at = IF i = l THEN "sent" ELSE loop[i].at
        BY <3>1, SetAt DEF PollInv, PollTypeOK
      <3>3. PollTypeOK'
        BY <1>9, <2>2, <3>2 DEF PollInv, PollTypeOK, Fire, server, spinner
      <3>4. \A i \in Loops : Alive(i)' <=> Alive(i)
        BY <1>9, <3>2 DEF Fire, Alive
      <3> QED BY <1>9, <2>2, <3>3, <3>4
          DEF PollInv, SpinnerBacked, HandleKept, Fire, spinner
    <2> QED BY <2>1, <2>2
  <1>10. ASSUME NEW l \in Loops, AnswerStatus(l) PROVE PollInv'
    <2>1. PICK a \in StatusAnswer : loop' = [loop EXCEPT ![l].at = a]
      BY <1>10 DEF AnswerStatus
    <2>2. a \in Ats /\ a # "off"
      BY <2>1 DEF StatusAnswer, Ats, InCall, Answers
    <2>3. /\ loop' \in [Loops -> LoopStates]
          /\ \A i \in Loops : loop'[i].at = IF i = l THEN a ELSE loop[i].at
      BY <2>1, <2>2, SetAt DEF PollInv, PollTypeOK
    <2>4. PollTypeOK'
      BY <1>10, <2>3 DEF PollInv, PollTypeOK, AnswerStatus, server, spinner
    <2>5. \A i \in Loops : Alive(i)' <=> Alive(i)
      BY <1>10, <2>2, <2>3 DEF AnswerStatus, Alive
    <2> QED BY <1>10, <2>4, <2>5
        DEF PollInv, SpinnerBacked, HandleKept, AnswerStatus, spinner
  <1>11. ASSUME NEW l \in Loops, SeesRunning(l) PROVE PollInv'
    <2>1. Alive(l) /\ Rearm(l, 0) /\ 0 \in 0..(MaxErrs - 1)
      BY <1>11 DEF SeesRunning, Alive
    <2>2. PollTypeOK'
      BY <1>11, <2>1, SetRearmed DEF PollInv, PollTypeOK, SeesRunning, Rearm, server
    <2> QED BY <1>11, <2>1, <2>2, RearmKeeps DEF PollInv, SeesRunning
  <1>12. ASSUME NEW l \in Loops, SeesIdle(l) PROVE PollInv'
    <2>1. Alive(l) /\ Stop(l)
      BY <1>12 DEF SeesIdle, Alive
    <2>2. PollTypeOK'
      BY <1>12, <2>1, SetStopped DEF PollInv, PollTypeOK, SeesIdle, Stop, server
    <2> QED BY <1>12, <2>1, <2>2, StopKeeps DEF PollInv, SeesIdle
  <1>13. ASSUME NEW l \in Loops, SeesError(l) PROVE PollInv'
    <2>1. CASE loop[l].errs + 1 >= MaxErrs
      BY <1>8, <1>13, <2>1 DEF SeesError, InCall, Answers
    <2>2. CASE ~(loop[l].errs + 1 >= MaxErrs)
      <3>1. loop[l].errs + 1 \in 0..(MaxErrs - 1)
        BY <2>2 DEF PollInv, PollTypeOK, LoopStates
      <3>2. Alive(l) /\ Rearm(l, loop[l].errs + 1)
        BY <1>13, <2>2 DEF SeesError, Alive
      <3>3. PollTypeOK'
        BY <1>13, <2>2, <3>1, <3>2, SetRearmed
        DEF PollInv, PollTypeOK, SeesError, Rearm, LeaveIf, server
      <3> QED BY <1>13, <3>1, <3>2, <3>3, RearmKeeps DEF PollInv, SeesError
    <2> QED BY <2>1, <2>2
  <1>14. CASE UNCHANGED vars
    BY <1>14 DEF PollInv, PollTypeOK, SpinnerBacked, HandleKept, Alive, vars
  <1> QED
    BY <1>1, <1>2, <1>3, <1>4, <1>5, <1>6, <1>7, <1>9, <1>10, <1>11, <1>12, <1>13, <1>14
    DEF Next, PostStep, LoopStep

LEMMA PollInvHolds == Spec => []PollInv
  BY PollInit, PollStep, PTL DEF Spec

\* No counter of errors in a row reaches its limit while the loop goes on, and
\* handle, loops and answers keep their types.
THEOREM PollTypeCorrect == Spec => []PollTypeOK
  <1>1. PollInv => PollTypeOK
    BY DEF PollInv
  <1> QED BY <1>1, PollInvHolds, PTL

\* The button is never dead: with any number of clicks, loops and failures
\* there is a request or a loop that will turn the spinner off.
THEOREM SpinnerBackedThm == Spec => []SpinnerBacked
  <1>1. PollInv => SpinnerBacked
    BY DEF PollInv
  <1> QED BY <1>1, PollInvHolds, PTL

\* Two loops at a time come only from an answer to POST during a status call.
THEOREM OneLoopThm == Spec => []OneLoopUnlessOverlap
  <1>1. PollInv => OneLoopUnlessOverlap
    BY DEF PollInv, HandleKept, OneLoopUnlessOverlap
  <1> QED BY <1>1, PollInvHolds, PTL
=============================================================================
