----------------------------- MODULE PageProofs -----------------------------
(***************************************************************************)
(* Proofs about the dashboard and the login page (Page), for any paths,    *)
(* any number of loads in flight and any life of a message; and about what *)
(* the dashboard shows of its data (TableView), for lists of any length.   *)
(***************************************************************************)
EXTENDS Page, TableView, FiniteSetTheorems, TLAPS

\* Before a good answer of /api/me nothing has been asked that could be refused,
\* unless the user acted; after it redirects are no longer counted.
RedirectInv ==
    /\ me = "valid" => redirects = 0
    /\ (~eager /\ me # "valid") => /\ calls = <<>>
                                   /\ import = "none"
                                   /\ redirects <= IF me = "refused" THEN 1 ELSE 0

\* The login page has nothing under way but a login; the way back is known
\* until the user signs out or the server turns the browser away.
PlaceInv ==
    /\ loc.at = "login" => import = "none" /\ logout = "none"
    /\ logout # "none" => signedOut
    /\ loc.at = "app" => loc.path = lastPath
    /\ loc.at = "login" => loc.path = lastPath \/ (loc.path = NoPath /\ (signedOut \/ bounced))
    /\ nav.at = "login" => nav.path = lastPath \/ (nav.path = NoPath /\ (signedOut \/ bounced))
    /\ nav.at = "app" => nav.path = lastPath \/ (nav.path = Home /\ (signedOut \/ bounced))

\* There is one timer, the one that msgTimer refers to, and it fires when the
\* message has had its time.
MessageInv ==
    /\ msgTimers = IF msgTimer = NoTimer THEN {} ELSE {msgTimer}
    /\ msgTimer # NoTimer => msgTimer + msgAge = MsgLife

\* Nothing shown is ahead of the server, and an answer that was not overtaken is
\* no older than what its table shows.
AnswerInv ==
    /\ mine <= db
    /\ \A t \in Tables : shown[t] <= db
    /\ \A i \in DOMAIN calls : calls[i].v <= db
    /\ \A i \in DOMAIN calls :
          (calls[i].at = "ok" /\ ~calls[i].older) => shown[calls[i].table] <= calls[i].v

\* A load that has not been answered with data from before the import.
Good(c) == c.at = "ok" => mine <= c.v
ImportTables == Tables \cap {"reservations", "alerts"}

\* After an import a table shows it, or a load that will show it is under way; a
\* load that would hide it is behind such a one, or marked as overtaken.
ImportInv ==
    \A t \in ImportTables :
        /\ \/ shown[t] = Blank \/ mine <= shown[t] \/ t \in overtaken
           \/ \E j \in DOMAIN calls : calls[j].table = t /\ Good(calls[j])
        /\ \A i \in DOMAIN calls :
              (calls[i].table = t /\ ~Good(calls[i]) /\ ~calls[i].older) =>
                  \E j \in DOMAIN calls : calls[j].table = t /\ Good(calls[j])

\* The inductive invariant.
PageInv ==
    /\ PageTypeOK
    /\ RedirectInv
    /\ PlaceInv
    /\ MessageInv
    /\ AnswerInv
    /\ ImportInv
    /\ NothingStuck

-----------------------------------------------------------------------------
(* Loads in flight.                                                        *)

\* ds are the calls cs and loads that were just sent.
Extended(cs, ds) ==
    /\ ds \in Seq(Calls)
    /\ DOMAIN cs \subseteq DOMAIN ds
    /\ \A i \in DOMAIN cs : ds[i] = cs[i]
    /\ \A i \in DOMAIN ds \ DOMAIN cs : ds[i].at = "sent" /\ ds[i].v = 0 /\ ~ds[i].older

LEMMA NewLoadType ==
  ASSUME NEW t \in Tables
  PROVE  /\ NewLoad(t) \in Calls
         /\ NewLoad(t).table = t /\ NewLoad(t).at = "sent"
         /\ NewLoad(t).v = 0 /\ ~NewLoad(t).older
  BY PageBoundsAssumption DEF NewLoad, Calls, Pending

LEMMA WithExtends ==
  ASSUME NEW cs, NEW ds, Extended(cs, ds), NEW t
  PROVE  /\ Extended(cs, With(ds, t))
         /\ \A i \in DOMAIN ds : i \in DOMAIN With(ds, t) /\ With(ds, t)[i] = ds[i]
         /\ t \in Tables => \E i \in DOMAIN With(ds, t) : With(ds, t)[i] = NewLoad(t)
  <1>1. CASE t \notin Tables
    BY <1>1 DEF With
  <1>2. CASE t \in Tables
    <2> DEFINE es == Append(ds, NewLoad(t))
    <2>1. With(ds, t) = es /\ ds \in Seq(Calls) /\ Len(ds) \in Nat
      BY <1>2 DEF With, Extended
    <2>2. /\ es \in Seq(Calls) /\ DOMAIN es = 1..(Len(ds) + 1) /\ DOMAIN ds = 1..Len(ds)
          /\ \A i \in 1..Len(ds) : es[i] = ds[i]
          /\ es[Len(ds) + 1] = NewLoad(t)
      BY <1>2, <2>1, NewLoadType
    <2> HIDE DEF es
    <2>3. DOMAIN es = DOMAIN ds \cup {Len(ds) + 1}
      BY <2>1, <2>2
    <2>4. Extended(cs, es)
      BY <1>2, <2>2, <2>3, NewLoadType DEF Extended
    <2> QED BY <2>1, <2>2, <2>3, <2>4
  <1> QED BY <1>1, <1>2

LEMMA ExtendedRefl ==
  ASSUME PageTypeOK
  PROVE  Extended(calls, calls)
  BY DEF PageTypeOK, Extended

\* The calls after the i-th was handled are the others; those of its table are
\* marked.
LEMMA HandledIs ==
  ASSUME PageTypeOK, NEW i \in DOMAIN calls
  PROVE  /\ Handled(i) \in Seq(Calls)
         /\ Len(Handled(i)) < Len(calls)
         /\ \A j \in DOMAIN Handled(i) : \E k \in DOMAIN calls :
               /\ k # i /\ Handled(i)[j].table = calls[k].table
               /\ Handled(i)[j].at = calls[k].at /\ Handled(i)[j].v = calls[k].v
               /\ Handled(i)[j].older = (calls[k].older \/ calls[k].table = calls[i].table)
         /\ \A k \in DOMAIN calls : k # i => \E j \in DOMAIN Handled(i) :
               /\ Handled(i)[j].table = calls[k].table
               /\ Handled(i)[j].at = calls[k].at /\ Handled(i)[j].v = calls[k].v
  <1> DEFINE n == Len(calls) - 1
             K(j) == IF j < i THEN j ELSE j + 1
             H(j) == [calls[K(j)] EXCEPT !.older = @ \/ calls[K(j)].table = calls[i].table]
  <1>1. /\ calls \in Seq(Calls) /\ DOMAIN calls = 1..Len(calls) /\ Len(calls) \in Nat
        /\ i \in 1..Len(calls) /\ n \in Nat
    BY DEF PageTypeOK
  <1>2. \A j \in 1..n : K(j) \in 1..Len(calls) /\ K(j) # i
    BY <1>1
  <1>3. \A k \in 1..Len(calls) : k # i => \E j \in 1..n : K(j) = k
    <2> SUFFICES ASSUME NEW k \in 1..Len(calls), k # i PROVE \E j \in 1..n : K(j) = k
      OBVIOUS
    <2>1. CASE k < i
      BY <1>1, <2>1
    <2>2. CASE k > i
      <3>1. k - 1 \in 1..n /\ K(k - 1) = k
        BY <1>1, <2>2
      <3> QED BY <3>1
    <2> QED BY <1>1, <2>1, <2>2
  <1> HIDE DEF K
  <1>4. \A k \in 1..Len(calls) : calls[k] \in Calls
    BY <1>1
  <1>5. ASSUME NEW j \in 1..n
        PROVE  /\ H(j) \in Calls /\ H(j).table = calls[K(j)].table
               /\ H(j).at = calls[K(j)].at /\ H(j).v = calls[K(j)].v
               /\ H(j).older = (calls[K(j)].older \/ calls[K(j)].table = calls[i].table)
    BY <1>2, <1>4 DEF Calls
  <1>6. Handled(i) = [j \in 1..n |-> H(j)]
    BY DEF Handled, K
  <1> HIDE DEF H
  <1>7. /\ Handled(i) \in Seq(Calls) /\ Len(Handled(i)) = n
        /\ DOMAIN Handled(i) = 1..n /\ \A j \in 1..n : Handled(i)[j] = H(j)
    BY <1>1, <1>5, <1>6
  <1>8. n < Len(calls)
    BY <1>1
  <1> HIDE DEF n
  <1>9. ASSUME NEW j \in DOMAIN Handled(i)
        PROVE  \E k \in DOMAIN calls :
                 /\ k # i /\ Handled(i)[j].table = calls[k].table
                 /\ Handled(i)[j].at = calls[k].at /\ Handled(i)[j].v = calls[k].v
                 /\ Handled(i)[j].older = (calls[k].older \/ calls[k].table = calls[i].table)
    <2>1. j \in 1..n /\ K(j) # i /\ Handled(i)[j] = H(j)
      BY <1>2, <1>7
    <2> K(j) \in DOMAIN calls
      BY <1>1, <1>2, <1>7
    <2> WITNESS K(j) \in DOMAIN calls
    <2> QED BY <2>1, <1>5
  <1>10. ASSUME NEW k \in DOMAIN calls, k # i
         PROVE  \E j \in DOMAIN Handled(i) :
                  /\ Handled(i)[j].table = calls[k].table
                  /\ Handled(i)[j].at = calls[k].at /\ Handled(i)[j].v = calls[k].v
    <2>1. PICK j \in 1..n : K(j) = k
      BY <1>1, <1>3, <1>10
    <2>2. Handled(i)[j] = H(j)
      BY <1>7
    <2> j \in DOMAIN Handled(i)
      BY <1>7
    <2> WITNESS j \in DOMAIN Handled(i)
    <2> QED BY <2>1, <2>2, <1>5
  <1>11. Handled(i) \in Seq(Calls) /\ Len(Handled(i)) < Len(calls)
    BY <1>7, <1>8
  <1> QED BY <1>9, <1>10, <1>11
-----------------------------------------------------------------------------
(* What the helpers leave behind.                                          *)

LEMMA PlacesAre ==
  ASSUME PageTypeOK
  PROVE  /\ loc.at \in {"app", "login"} /\ loc.path \in Paths \cup {NoPath}
         /\ loc.at = "app" => loc.path \in Paths
         /\ loc = [at |-> loc.at, path |-> loc.path]
         /\ nav.at \in {"app", "login", "none"} /\ nav.path \in Paths \cup {NoPath}
         /\ nav.at = "app" => nav.path \in Paths
         /\ nav # NoNav <=> nav.at # "none"
         /\ nav # NoNav => nav \in Places
  BY DEF PageTypeOK, Places, NoNav, NoPath

LEMMA LoginPathIsPlace ==
  ASSUME NEW p \in Paths \cup {NoPath}
  PROVE  [at |-> "login", path |-> p] \in Places
  BY DEF Places

LEMMA AppPathIsPlace ==
  ASSUME NEW p \in Paths
  PROVE  [at |-> "app", path |-> p] \in Places
  BY DEF Places

LEMMA RedirectLeaves ==
  ASSUME PageTypeOK, NEW e \in BOOLEAN, RedirectIf(e)
  PROVE  nav' \in Places \cup {NoNav} /\ redirects' \in 0..2
  <1>1. CASE ~e
    BY <1>1 DEF RedirectIf, PageTypeOK
  <1>2. CASE e
    <2>1. nav' \in Places
      BY <1>2, PlacesAre, LoginPathIsPlace DEF RedirectIf, redirectToLogin
    <2>2. redirects' \in 0..2
      BY <1>2 DEF RedirectIf, redirectToLogin, PageTypeOK
    <2> QED BY <2>1, <2>2
  <1> QED BY <1>1, <1>2

LEMMA ShowMsgLeaves ==
  ASSUME PageTypeOK, showMsg
  PROVE  /\ message' \in BOOLEAN
         /\ msgTimer' \in {NoTimer} \cup 0..MsgLife
         /\ msgTimers' \subseteq 0..MsgLife
         /\ msgAge' \in 0..MsgLife
  <1>1. MsgLife \in 0..MsgLife /\ 0 \in 0..MsgLife
    BY PageBoundsAssumption
  <1>2. msgTimers' \subseteq msgTimers \cup {MsgLife} /\ msgTimers \subseteq 0..MsgLife
    BY DEF PageTypeOK, showMsg
  <1>3. message' = TRUE /\ msgTimer' = MsgLife /\ msgAge' = 0
    BY DEF showMsg
  <1>4. msgTimers' \subseteq 0..MsgLife
    BY <1>1, <1>2
  <1> QED BY <1>1, <1>3, <1>4

\* The server answers with a page: the one asked for, or the login page with no
\* way back for a dashboard without a session.
LEMMA AnsweredPage ==
  ASSUME PageTypeOK, Arrive
  PROVE  /\ nav \in Places /\ loc' \in Places
         /\ \/ loc' = nav
            \/ nav.at = "app" /\ loc' = [at |-> "login", path |-> NoPath]
         /\ loc'.at \in {"app", "login"}
         /\ loc'.at = "app" => loc'.path \in Paths
  <1>1. nav \in Places
    BY PlacesAre DEF Arrive
  <1>2. [at |-> "login", path |-> NoPath] \in Places
    BY LoginPathIsPlace
  <1>3. /\ loc' = nav \/ (nav.at = "app" /\ loc' = [at |-> "login", path |-> NoPath])
        /\ loc' \in Places
    BY <1>1, <1>2 DEF Arrive, requireAuthPage
  <1>4. \A p \in Places : p.at \in {"app", "login"} /\ (p.at = "app" => p.path \in Paths)
    BY DEF Places
  <1> QED BY <1>1, <1>3, <1>4

\* Sending loads keeps those in flight.
LEMMA LoadLeaves ==
  ASSUME PageTypeOK, NEW cs, Extended(calls, cs), Load(cs)
  PROVE  /\ calls' \in Seq(Calls) /\ Len(calls') <= MaxCalls
         /\ Extended(calls, calls')
         /\ loading' \in BOOLEAN
         /\ shown' = shown /\ overtaken' = overtaken
  BY DEF PageTypeOK, Load, Extended

LEMMA HandledLeaves ==
  ASSUME PageTypeOK, NEW i \in DOMAIN calls
  PROVE  /\ Handled(i) \in Seq(Calls) /\ Len(Handled(i)) <= MaxCalls
         /\ calls[i] \in Calls
  <1>1. calls \in Seq(Calls) /\ Len(calls) \in Nat /\ Len(calls) <= MaxCalls
    BY DEF PageTypeOK
  <1>2. Handled(i) \in Seq(Calls) /\ Len(Handled(i)) < Len(calls)
    BY HandledIs
  <1>3. Len(Handled(i)) \in Nat
    BY <1>2
  <1> QED BY <1>1, <1>2, <1>3, PageBoundsAssumption

\* The loads of the four places of the page that send some.
LEMMA LoadsExtend ==
  ASSUME PageTypeOK
  PROVE  /\ \A t : Extended(calls, With(calls, t))
         /\ \A s, t : Extended(calls, With(With(calls, s), t))
         /\ \A s, t, u : Extended(calls, With(With(With(calls, s), t), u))
  <1>1. \A t : Extended(calls, With(calls, t))
    BY ExtendedRefl, WithExtends
  <1>2. \A s, t : Extended(calls, With(With(calls, s), t))
    BY <1>1, WithExtends
  <1> QED BY <1>1, <1>2, WithExtends

-----------------------------------------------------------------------------
(* Every step keeps the types.                                             *)

\* Every step keeps the types.
LEMMA TypeStep ==
  ASSUME PageTypeOK, PlaceInv, [Next]_vars
  PROVE  PageTypeOK'
  <1> USE PlacesAre, PageBoundsAssumption
  <1>1. CASE DbChanges
    BY <1>1 DEF PageTypeOK, DbChanges, Versions, server, tables, messages, loginPage, places
  <1>2. CASE SessionEnds
    <2>1. /\ session' \in BOOLEAN
          /\ UNCHANGED <<db, loc, nav, me, tables, import, logout, messages, loginPage,
                         redirects, eager, mine, places>>
      BY <1>2 DEF SessionEnds
    <2> QED BY <2>1 DEF PageTypeOK, server, tables, messages, loginPage, places
  <1>3. CASE AnswerMe
    BY <1>3 DEF PageTypeOK, AnswerMe, Outcomes, Pending, server, tables, messages, loginPage, places
  <1>4. CASE Mounted
    <2>1. calls' \in Seq(Calls) /\ Len(calls') <= MaxCalls /\ loading' \in BOOLEAN
          /\ shown' = shown /\ overtaken' = overtaken
      BY <1>4, LoadsExtend, LoadLeaves DEF Mounted
    <2>2. /\ me = "ok" /\ me' = "valid" /\ redirects' = 0 /\ eager' = FALSE
          /\ UNCHANGED <<server, loc, nav, import, logout, messages, loginPage, mine, places>>
      BY <1>4 DEF Mounted
    <2>3. redirects' \in 0..2
      BY <2>2
    <2> QED BY <2>1, <2>2, <2>3 DEF PageTypeOK, server, messages, loginPage, places
  <1>5. CASE NotMounted
    <2>1. nav' \in Places \cup {NoNav} /\ redirects' \in 0..2
      BY <1>5, RedirectLeaves DEF NotMounted
    <2>2. /\ message' \in BOOLEAN /\ msgTimer' \in {NoTimer} \cup 0..MsgLife
          /\ msgTimers' \subseteq 0..MsgLife /\ msgAge' \in 0..MsgLife
      BY <1>5, ShowMsgLeaves DEF PageTypeOK, NotMounted, messages
    <2> QED BY <1>5, <2>1, <2>2 DEF PageTypeOK, NotMounted, server, tables, loginPage, places
  <1>6. ASSUME NEW i \in DOMAIN calls, AnswerLoad(i) PROVE PageTypeOK'
    <2>1. PICK o \in Outcomes :
             calls' = [calls EXCEPT ![i].at = o, ![i].v = IF o = "ok" THEN db ELSE 0]
      BY <1>6 DEF AnswerLoad
    <2>2. o \in Pending /\ db \in 0..MaxVersion /\ 0 \in 0..MaxVersion /\ calls[i] \in Calls
      BY HandledLeaves DEF Outcomes, Pending, PageTypeOK, Versions
    <2>3. [calls[i] EXCEPT !.at = o, !.v = IF o = "ok" THEN db ELSE 0] \in Calls
      BY <2>2 DEF Calls
    <2>4. calls' = [calls EXCEPT ![i] = [calls[i] EXCEPT !.at = o, !.v = IF o = "ok" THEN db ELSE 0]]
      BY <2>1
    <2>5. calls' \in Seq(Calls) /\ Len(calls') = Len(calls)
      BY <2>3, <2>4 DEF PageTypeOK
    <2>6. loc.at # "login"
      BY DEF PageTypeOK
    <2> QED BY <1>6, <2>5, <2>6 DEF PageTypeOK, AnswerLoad, server, tables, messages, loginPage, places
  <1>7. ASSUME NEW i \in DOMAIN calls, LoadOk(i) PROVE PageTypeOK'
    <2>1. /\ calls' \in Seq(Calls) /\ Len(calls') <= MaxCalls
          /\ calls[i].table \in Tables /\ calls[i].v \in 0..MaxVersion
      BY <1>7, HandledLeaves DEF LoadOk, Calls
    <2>2. loc.at # "login"
      BY DEF PageTypeOK
    <2>3. shown' \in [Tables -> 0..MaxVersion] /\ overtaken' \subseteq Tables
          /\ loading' \in BOOLEAN
      BY <1>7, <2>1 DEF PageTypeOK, LoadOk, DoneLoading
    <2> QED BY <1>7, <2>1, <2>2, <2>3 DEF PageTypeOK, LoadOk, server, messages, loginPage, places
  <1>8. ASSUME NEW i \in DOMAIN calls, LoadFails(i) PROVE PageTypeOK'
    <2>1. /\ calls' \in Seq(Calls) /\ Len(calls') <= MaxCalls /\ calls[i].table \in Tables
      BY <1>8, HandledLeaves DEF LoadFails, Calls
    <2>2. loc.at # "login"
      BY DEF PageTypeOK
    <2>3. shown' \in [Tables -> 0..MaxVersion] /\ loading' \in BOOLEAN
      BY <1>8, <2>1 DEF PageTypeOK, LoadFails, DoneLoading, Blank
    <2>4. nav' \in Places \cup {NoNav} /\ redirects' \in 0..2
      BY <1>8, RedirectLeaves DEF LoadFails
    <2>5. /\ message' \in BOOLEAN /\ msgTimer' \in {NoTimer} \cup 0..MsgLife
          /\ msgTimers' \subseteq 0..MsgLife /\ msgAge' \in 0..MsgLife
      BY <1>8, ShowMsgLeaves DEF LoadFails
    <2> QED BY <1>8, <2>1, <2>2, <2>3, <2>4, <2>5 DEF PageTypeOK, LoadFails, server, loginPage, places
  <1>9. ASSUME NEW t \in Tables, OpenTab(t) PROVE PageTypeOK'
    <2>1. calls' \in Seq(Calls) /\ Len(calls') <= MaxCalls /\ loading' \in BOOLEAN
          /\ shown' = shown /\ overtaken' = overtaken
      BY <1>9, LoadsExtend, LoadLeaves DEF OpenTab
    <2> QED BY <1>9, <2>1 DEF PageTypeOK, OpenTab, Unverified, server, tables, messages, loginPage, places
  <1>10. CASE PollDone
    <2>1. calls' \in Seq(Calls) /\ Len(calls') <= MaxCalls /\ loading' \in BOOLEAN
          /\ shown' = shown /\ overtaken' = overtaken
      BY <1>10, LoadsExtend, LoadLeaves DEF PollDone
    <2>2. /\ message' \in BOOLEAN /\ msgTimer' \in {NoTimer} \cup 0..MsgLife
          /\ msgTimers' \subseteq 0..MsgLife /\ msgAge' \in 0..MsgLife
      BY <1>10, ShowMsgLeaves DEF PageTypeOK, PollDone, messages
    <2> QED BY <1>10, <2>1, <2>2 DEF PageTypeOK, PollDone, Unverified, server, loginPage, places
  <1>11. CASE SyncSays
    <2>2. /\ message' \in BOOLEAN /\ msgTimer' \in {NoTimer} \cup 0..MsgLife
          /\ msgTimers' \subseteq 0..MsgLife /\ msgAge' \in 0..MsgLife
      BY <1>11, ShowMsgLeaves DEF PageTypeOK, SyncSays, messages
    <2> QED BY <1>11, <2>2 DEF PageTypeOK, SyncSays, server, tables, loginPage, places
  <1>12. CASE SyncExpired
    <2>1. nav' \in Places \cup {NoNav} /\ redirects' \in 0..2
      BY <1>12, RedirectLeaves DEF SyncExpired, RedirectIf
    <2>2. /\ message' \in BOOLEAN /\ msgTimer' \in {NoTimer} \cup 0..MsgLife
          /\ msgTimers' \subseteq 0..MsgLife /\ msgAge' \in 0..MsgLife
      BY <1>12, ShowMsgLeaves DEF PageTypeOK, SyncExpired, messages
    <2> QED BY <1>12, <2>1, <2>2 DEF PageTypeOK, SyncExpired, Unverified, server, tables, loginPage, places
  <1>13. CASE Import
    BY <1>13 DEF PageTypeOK, Import, Pending, Unverified, server, tables, messages, loginPage, places
  <1>14. CASE AcceptImport
    BY <1>14 DEF PageTypeOK, AcceptImport, Versions, Pending, server, tables, messages, loginPage, places
  <1>15. CASE RefuseImport
    BY <1>15 DEF PageTypeOK, RefuseImport, Pending, server, tables, messages, loginPage, places
  <1>16. CASE Imported
    <2>1. calls' \in Seq(Calls) /\ Len(calls') <= MaxCalls /\ loading' \in BOOLEAN
          /\ shown' = shown /\ overtaken' = overtaken
      BY <1>16, LoadsExtend, LoadLeaves DEF Imported
    <2>2. /\ message' \in BOOLEAN /\ msgTimer' \in {NoTimer} \cup 0..MsgLife
          /\ msgTimers' \subseteq 0..MsgLife /\ msgAge' \in 0..MsgLife
      BY <1>16, ShowMsgLeaves DEF PageTypeOK, Imported, messages
    <2>3. loc.at # "login" /\ mine' \in 0..MaxVersion
      BY <1>16 DEF PlaceInv, Imported, PageTypeOK, Versions
    <2> QED BY <1>16, <2>1, <2>2, <2>3 DEF PageTypeOK, Imported, server, loginPage, places
  <1>17. CASE ImportFails
    <2>1. nav' \in Places \cup {NoNav} /\ redirects' \in 0..2
      BY <1>17, RedirectLeaves DEF ImportFails
    <2>2. /\ message' \in BOOLEAN /\ msgTimer' \in {NoTimer} \cup 0..MsgLife
          /\ msgTimers' \subseteq 0..MsgLife /\ msgAge' \in 0..MsgLife
      BY <1>17, ShowMsgLeaves DEF PageTypeOK, ImportFails, messages
    <2> QED BY <1>17, <2>1, <2>2 DEF PageTypeOK, ImportFails, server, tables, loginPage, places
  <1>18. CASE MsgFires
    <2>1. /\ message' \in BOOLEAN /\ msgTimer' = NoTimer /\ msgTimers' = msgTimers \ {0}
          /\ UNCHANGED <<server, loc, nav, me, tables, import, logout, loginPage, redirects,
                         eager, mine, msgAge, places>>
      BY <1>18 DEF MsgFires
    <2>2. msgTimers' \subseteq 0..MsgLife
      BY <2>1 DEF PageTypeOK
    <2> QED BY <2>1, <2>2 DEF PageTypeOK, server, tables, loginPage, places
  <1>19. CASE Tick
    <2>1. /\ msgTimer' \in {NoTimer} \cup 0..MsgLife /\ msgTimers' \subseteq 0..MsgLife
          /\ msgAge' \in 0..MsgLife
      BY <1>19 DEF PageTypeOK, Tick, MessageInv, NoTimer
    <2> QED BY <1>19, <2>1 DEF PageTypeOK, Tick, server, tables, loginPage, places
  <1>20. CASE Logout
    BY <1>20 DEF PageTypeOK, Logout, server, tables, messages, loginPage, places
  <1>21. CASE AnswerLogout
    <2>1. session' \in BOOLEAN
      BY <1>21 DEF PageTypeOK, AnswerLogout
    <2> QED BY <1>21, <2>1 DEF PageTypeOK, AnswerLogout, server, tables, messages, loginPage, places
  <1>22. CASE LoggedOut
    BY <1>22, LoginPathIsPlace DEF PageTypeOK, LoggedOut, server, tables, messages, loginPage, places
  <1>23. CASE Submit
    BY <1>23 DEF PageTypeOK, Submit, server, tables, messages, loginPage, places
  <1>24. CASE AnswerLogin
    <2>1. /\ session' \in BOOLEAN /\ login = "sent" /\ login' \in {"ok", "error"}
          /\ UNCHANGED <<db, loc, nav, me, tables, import, logout, messages, busy, redirects,
                         eager, mine, places>>
      BY <1>24 DEF PageTypeOK, AnswerLogin
    <2> QED BY <2>1 DEF PageTypeOK, server, tables, messages, loginPage, places
  <1>25. CASE LoginOk
    <2>1. nav' \in Places
      BY <1>25, AppPathIsPlace, PathsAssumption DEF LoginOk
    <2> QED BY <1>25, <2>1 DEF PageTypeOK, LoginOk, server, tables, messages, loginPage, places
  <1>26. CASE LoginFails
    BY <1>26 DEF PageTypeOK, LoginFails, server, tables, messages, loginPage, places
  <1>27. CASE Arrive
    <2>1. /\ loc' \in Places /\ loc'.at \in {"app", "login"}
          /\ loc'.at = "app" => loc'.path \in Paths
      BY <1>27, AnsweredPage
    <2>2. calls' \in Seq(Calls) /\ Len(calls') <= MaxCalls
      BY <1>27 DEF Arrive
    <2>3. shown' \in [Tables -> 0..MaxVersion]
      BY <1>27 DEF Arrive, Blank
    <2>4. /\ nav' = NoNav /\ me' = IF loc'.at = "app" THEN "sent" ELSE "none"
          /\ calls' = <<>> /\ loading' = FALSE /\ import' = "none" /\ logout' = "none"
          /\ login' = "none" /\ busy' = FALSE /\ UNCHANGED server
      BY <1>27 DEF Arrive
    <2>5. /\ message' = FALSE /\ msgTimer' = NoTimer /\ msgTimers' = {} /\ msgAge' \in 0..MsgLife
          /\ redirects' \in 0..2 /\ eager' = FALSE /\ mine' \in 0..MaxVersion /\ overtaken' = {}
      BY <1>27 DEF Arrive
    <2>6. lastPath' \in Paths /\ signedOut' \in BOOLEAN /\ bounced' \in BOOLEAN
      BY <1>27, <2>1 DEF Arrive, PageTypeOK
    <2> QED BY <2>1, <2>2, <2>3, <2>4, <2>5, <2>6 DEF PageTypeOK, Pending, server
  <1>28. CASE Reload
    <2>1. nav' \in Places
      BY <1>28 DEF Reload, PageTypeOK
    <2> QED BY <1>28, <2>1 DEF PageTypeOK, Reload, server, tables, messages, loginPage, places
  <1>29. CASE UNCHANGED vars
    BY <1>29 DEF PageTypeOK, vars
  <1> QED BY <1>1, <1>2, <1>3, <1>4, <1>5, <1>6, <1>7, <1>8, <1>9, <1>10, <1>11, <1>12, <1>13,
         <1>14, <1>15, <1>16, <1>17, <1>18, <1>19, <1>20, <1>21, <1>22, <1>23, <1>24,
         <1>25, <1>26, <1>27, <1>28, <1>29
         DEF Next, AppStep, LoginStep, LoadStep

-----------------------------------------------------------------------------
(* The redirects and the way back.                                          *)

\* Redirects: before /api/me has answered nothing can redirect twice.
LEMMA RedirectStep ==
  ASSUME PageTypeOK, RedirectInv, [Next]_vars
  PROVE  RedirectInv'
  <1>1. CASE AnswerMe
    BY <1>1 DEF RedirectInv, AnswerMe, Outcomes, tables
  <1>2. CASE Mounted
    BY <1>2 DEF RedirectInv, Mounted, Load
  <1>3. CASE NotMounted
    BY <1>3 DEF RedirectInv, NotMounted, RedirectIf, redirectToLogin, tables, PageTypeOK
  <1>4. ASSUME NEW i \in DOMAIN calls, AnswerLoad(i) PROVE RedirectInv'
    BY <1>4 DEF RedirectInv, AnswerLoad, PageTypeOK
  <1>5. ASSUME NEW i \in DOMAIN calls, LoadOk(i) PROVE RedirectInv'
    BY <1>5 DEF RedirectInv, LoadOk
  <1>6. ASSUME NEW i \in DOMAIN calls, LoadFails(i) PROVE RedirectInv'
    BY <1>6 DEF RedirectInv, LoadFails, RedirectIf, redirectToLogin, Unverified
  <1>7. ASSUME NEW t \in Tables, OpenTab(t) PROVE RedirectInv'
    BY <1>7 DEF RedirectInv, OpenTab, Unverified, PageTypeOK
  <1>8. CASE PollDone
    BY <1>8 DEF RedirectInv, PollDone, Unverified, PageTypeOK
  <1>9. CASE SyncExpired
    BY <1>9 DEF RedirectInv, SyncExpired, redirectToLogin, Unverified, PageTypeOK, tables
  <1>10. CASE Import
    BY <1>10 DEF RedirectInv, Import, Unverified, PageTypeOK, tables
  <1>11. CASE AcceptImport
    BY <1>11 DEF RedirectInv, AcceptImport, tables
  <1>12. CASE RefuseImport
    BY <1>12 DEF RedirectInv, RefuseImport, tables
  <1>13. CASE Imported
    BY <1>13 DEF RedirectInv, Imported
  <1>14. CASE ImportFails
    BY <1>14 DEF RedirectInv, ImportFails, RedirectIf, redirectToLogin, Unverified, tables
  <1>15. CASE Arrive
    BY <1>15 DEF RedirectInv, Arrive
  <1>16. CASE UNCHANGED <<me, redirects, eager, calls, import>>
    BY <1>16 DEF RedirectInv
  <1> QED BY <1>1, <1>2, <1>3, <1>4, <1>5, <1>6, <1>7, <1>8, <1>9, <1>10, <1>11, <1>12,
         <1>13, <1>14, <1>15, <1>16
         DEF Next, AppStep, LoginStep, LoadStep, vars, server, tables, messages,
             loginPage, places, DbChanges, SessionEnds, SyncSays, MsgFires, Tick, Logout,
             AnswerLogout, LoggedOut, Submit, AnswerLogin, LoginOk, LoginFails, Reload

\* Places: the path in ?next= is the one that was left.
LEMMA PlaceStep ==
  ASSUME PageTypeOK, PlaceInv, [Next]_vars
  PROVE  PlaceInv'
  <1> USE PlacesAre
  <1>1. CASE NotMounted
    BY <1>1 DEF PlaceInv, NotMounted, RedirectIf, redirectToLogin, PageTypeOK, places
  <1>2. ASSUME NEW i \in DOMAIN calls, LoadFails(i) PROVE PlaceInv'
    BY <1>2 DEF PlaceInv, LoadFails, RedirectIf, redirectToLogin, PageTypeOK, places
  <1>3. CASE SyncExpired
    BY <1>3 DEF PlaceInv, SyncExpired, redirectToLogin, places
  <1>4. CASE Import
    BY <1>4 DEF PlaceInv, Import, places
  <1>5. CASE AcceptImport
    BY <1>5 DEF PlaceInv, AcceptImport, places
  <1>6. CASE RefuseImport
    BY <1>6 DEF PlaceInv, RefuseImport, places
  <1>7. CASE Imported
    BY <1>7 DEF PlaceInv, Imported, places
  <1>8. CASE ImportFails
    BY <1>8 DEF PlaceInv, ImportFails, RedirectIf, redirectToLogin, places
  <1>9. CASE Logout
    BY <1>9 DEF PlaceInv, Logout
  <1>10. CASE AnswerLogout
    BY <1>10 DEF PlaceInv, AnswerLogout, places
  <1>11. CASE LoggedOut
    BY <1>11 DEF PlaceInv, LoggedOut, places, NoNav
  <1>12. CASE LoginOk
    BY <1>12, PathsAssumption DEF PlaceInv, LoginOk, places, PageTypeOK, NoPath
  <1>13. CASE Arrive
    <2>1. /\ nav' = NoNav /\ import' = "none" /\ logout' = "none"
          /\ lastPath' = IF loc'.at = "app" THEN loc'.path ELSE lastPath
          /\ loc'.at = "login" => (signedOut => signedOut')
          /\ loc'.at = "login" => ((bounced \/ nav.at = "app") => bounced')
      BY <1>13 DEF Arrive
    <2>2. CASE loc' = nav
      BY <2>1, <2>2 DEF PlaceInv, NoNav
    <2>3. CASE nav.at = "app" /\ loc' = [at |-> "login", path |-> NoPath]
      BY <2>1, <2>3 DEF PlaceInv, NoNav
    <2> QED BY <1>13, <2>2, <2>3, AnsweredPage
  <1>14. CASE Reload
    BY <1>14 DEF PlaceInv, Reload, places
  <1>15. CASE UNCHANGED <<loc, nav, import, logout, places>>
    BY <1>15 DEF PlaceInv, places
  <1> QED BY <1>1, <1>2, <1>3, <1>4, <1>5, <1>6, <1>7, <1>8, <1>9, <1>10, <1>11, <1>12,
         <1>13, <1>14, <1>15
         DEF Next, AppStep, LoginStep, LoadStep, vars, server, tables, messages,
             loginPage, places, DbChanges, SessionEnds, AnswerMe, Mounted, AnswerLoad,
             LoadOk, OpenTab, PollDone, SyncSays, MsgFires, Tick, Submit, AnswerLogin,
             LoginFails

LEMMA ShowMsgTimes ==
  ASSUME MessageInv, showMsg
  PROVE  MessageInv'
  BY PageBoundsAssumption DEF MessageInv, showMsg, NoTimer

\* Messages: a message has exactly the timer that showMsg set for it.
LEMMA MessageStep ==
  ASSUME PageTypeOK, MessageInv, [Next]_vars
  PROVE  MessageInv'
  <1>1. CASE NotMounted
    BY <1>1, ShowMsgTimes DEF NotMounted, MessageInv, messages
  <1>2. CASE SyncExpired
    BY <1>2, ShowMsgTimes DEF SyncExpired, MessageInv, messages
  <1>3. ASSUME NEW i \in DOMAIN calls, LoadFails(i) PROVE MessageInv'
    BY <1>3, ShowMsgTimes DEF LoadFails
  <1>4. CASE PollDone
    BY <1>4, ShowMsgTimes DEF PollDone
  <1>5. CASE SyncSays
    BY <1>5, ShowMsgTimes DEF SyncSays
  <1>6. CASE Imported
    BY <1>6, ShowMsgTimes DEF Imported
  <1>7. CASE ImportFails
    BY <1>7, ShowMsgTimes DEF ImportFails
  <1>8. CASE MsgFires
    BY <1>8 DEF MessageInv, MsgFires
  <1>9. CASE Tick
    <2>1. /\ msgTimer # NoTimer /\ msgTimers = {msgTimer} /\ msgTimer # 0
          /\ msgTimer \in 0..MsgLife /\ msgAge \in 0..MsgLife /\ msgTimer + msgAge = MsgLife
      BY <1>9 DEF MessageInv, Tick, PageTypeOK
    <2>2. /\ msgTimers' = {n - 1 : n \in msgTimers} /\ msgTimer' = msgTimer - 1
          /\ msgAge' = IF msgAge < MsgLife THEN msgAge + 1 ELSE MsgLife
      BY <1>9, <2>1 DEF Tick
    <2>3. msgTimers' = {msgTimer'}
      BY <2>1, <2>2
    <2>4. msgTimer' # NoTimer /\ msgTimer' + msgAge' = MsgLife
      BY <2>1, <2>2, PageBoundsAssumption DEF NoTimer
    <2> QED BY <2>3, <2>4 DEF MessageInv
  <1>10. CASE Arrive
    BY <1>10 DEF MessageInv, Arrive, NoTimer
  <1>11. CASE UNCHANGED <<messages>>
    BY <1>11 DEF MessageInv, messages
  <1> QED BY <1>1, <1>2, <1>3, <1>4, <1>5, <1>6, <1>7, <1>8, <1>9, <1>10, <1>11
         DEF Next, AppStep, LoginStep, LoadStep, vars, server, tables, messages,
             loginPage, places, DbChanges, SessionEnds, AnswerMe, Mounted, AnswerLoad,
             LoadOk, OpenTab, Import, AcceptImport, RefuseImport, Logout, AnswerLogout,
             LoggedOut, Submit, AnswerLogin, LoginOk, LoginFails, Reload

-----------------------------------------------------------------------------
(* The answers and what the tables show.                                    *)

\* An answer is that of its load, and what it carries is of this moment.
LEMMA AnswerLoadIs ==
  ASSUME PageTypeOK, NEW i \in DOMAIN calls, AnswerLoad(i)
  PROVE  /\ DOMAIN calls' = DOMAIN calls
         /\ \A j \in DOMAIN calls : j # i => calls'[j] = calls[j]
         /\ calls'[i].table = calls[i].table /\ calls'[i].older = calls[i].older
         /\ calls'[i].v \in {0, db}
         /\ calls'[i].at = "ok" => calls'[i].v = db
  <1>1. PICK o \in Outcomes :
           calls' = [calls EXCEPT ![i].at = o, ![i].v = IF o = "ok" THEN db ELSE 0]
    BY DEF AnswerLoad
  <1>2. calls[i] \in Calls /\ calls \in Seq(Calls)
    BY HandledLeaves DEF PageTypeOK
  <1> DEFINE c == [calls[i] EXCEPT !.at = o, !.v = IF o = "ok" THEN db ELSE 0]
  <1>3. /\ c.table = calls[i].table /\ c.older = calls[i].older /\ c.v \in {0, db}
        /\ c.at = "ok" => c.v = db
    BY <1>2 DEF Calls
  <1>4. calls' = [calls EXCEPT ![i] = c]
    BY <1>1
  <1> HIDE DEF c
  <1>5. /\ DOMAIN calls' = DOMAIN calls /\ calls'[i] = c
        /\ \A j \in DOMAIN calls : j # i => calls'[j] = calls[j]
    BY <1>4
  <1> QED BY <1>3, <1>5

\* A load that was just sent carries nothing yet.
LEMMA SentLoads ==
  ASSUME PageTypeOK, AnswerInv,
         Extended(calls, calls'), UNCHANGED <<shown, db>>
  PROVE  /\ \A i \in DOMAIN calls' : calls'[i].v <= db
         /\ \A i \in DOMAIN calls' :
               (calls'[i].at = "ok" /\ ~calls'[i].older) => shown[calls'[i].table] <= calls'[i].v
  <1> SUFFICES ASSUME NEW i \in DOMAIN calls'
               PROVE  /\ calls'[i].v <= db
                      /\ (calls'[i].at = "ok" /\ ~calls'[i].older)
                             => shown[calls'[i].table] <= calls'[i].v
    OBVIOUS
  <1>1. CASE i \in DOMAIN calls
    BY <1>1 DEF Extended, AnswerInv
  <1>2. CASE i \notin DOMAIN calls
    BY <1>2, PageBoundsAssumption DEF Extended, PageTypeOK, Versions
  <1> QED BY <1>1, <1>2

\* When the database moves on, nothing that was read gets ahead of it.
LEMMA AnswersAge ==
  ASSUME PageTypeOK, AnswerInv, db' = db + 1, UNCHANGED <<mine, shown, calls>>
  PROVE  AnswerInv'
  <1>1. /\ db \in Nat /\ mine \in Nat /\ \A t \in Tables : shown[t] \in Nat
        /\ \A i \in DOMAIN calls : calls[i].v \in Nat
    BY HandledLeaves DEF PageTypeOK, Versions, Calls
  <1> QED BY <1>1 DEF AnswerInv

\* Answers left in flight, not overtaken, are of other tables than the i-th.
LEMMA HandledAnswers ==
  ASSUME PageTypeOK, AnswerInv, NEW i \in DOMAIN calls
  PROVE  \A j \in DOMAIN Handled(i) :
            /\ Handled(i)[j].v <= db /\ Handled(i)[j].table \in Tables
            /\ (Handled(i)[j].at = "ok" /\ ~Handled(i)[j].older) =>
                  /\ Handled(i)[j].table # calls[i].table
                  /\ shown[Handled(i)[j].table] <= Handled(i)[j].v
  <1> SUFFICES ASSUME NEW j \in DOMAIN Handled(i)
               PROVE  /\ Handled(i)[j].v <= db /\ Handled(i)[j].table \in Tables
                      /\ (Handled(i)[j].at = "ok" /\ ~Handled(i)[j].older) =>
                           /\ Handled(i)[j].table # calls[i].table
                           /\ shown[Handled(i)[j].table] <= Handled(i)[j].v
    OBVIOUS
  <1>1. PICK k \in DOMAIN calls :
          /\ k # i /\ Handled(i)[j].table = calls[k].table
          /\ Handled(i)[j].at = calls[k].at /\ Handled(i)[j].v = calls[k].v
          /\ Handled(i)[j].older = (calls[k].older \/ calls[k].table = calls[i].table)
    BY HandledIs
  <1>2. calls[k].table \in Tables
    BY HandledLeaves DEF Calls
  <1> QED BY <1>1, <1>2 DEF AnswerInv

\* Answers: a call that is not older carries at least the version shown.
LEMMA AnswerStep ==
  ASSUME PageTypeOK, AnswerInv, [Next]_vars
  PROVE  AnswerInv'
  <1>1. CASE DbChanges
    BY <1>1, AnswersAge DEF DbChanges, tables
  <1>2. CASE AcceptImport
    BY <1>2, AnswersAge DEF AcceptImport, tables
  <1>3. CASE Mounted
    <2>1. Extended(calls, calls') /\ UNCHANGED <<shown, db, mine>>
      BY <1>3, LoadsExtend, LoadLeaves DEF Mounted, server
    <2> QED BY <2>1, SentLoads DEF AnswerInv
  <1>4. ASSUME NEW t \in Tables, OpenTab(t) PROVE AnswerInv'
    <2>1. Extended(calls, calls') /\ UNCHANGED <<shown, db, mine>>
      BY <1>4, LoadsExtend, LoadLeaves DEF OpenTab, server
    <2> QED BY <2>1, SentLoads DEF AnswerInv
  <1>5. CASE PollDone
    <2>1. Extended(calls, calls') /\ UNCHANGED <<shown, db, mine>>
      BY <1>5, LoadsExtend, LoadLeaves DEF PollDone, server
    <2> QED BY <2>1, SentLoads DEF AnswerInv
  <1>6. CASE Imported
    <2>1. Extended(calls, calls') /\ UNCHANGED <<shown, db>> /\ mine' = db
      BY <1>6, LoadsExtend, LoadLeaves DEF Imported, server
    <2>2. db \in Nat
      BY DEF PageTypeOK, Versions
    <2> QED BY <2>1, <2>2, SentLoads DEF AnswerInv
  <1>7. ASSUME NEW i \in DOMAIN calls, AnswerLoad(i) PROVE AnswerInv'
    <2>1. UNCHANGED <<shown, db, mine>> /\ db \in Nat /\ shown \in [Tables -> 0..MaxVersion]
      BY <1>7 DEF AnswerLoad, server, PageTypeOK, Versions
    <2>2. calls[i].table \in Tables
      BY HandledLeaves DEF Calls
    <2>3. calls'[i].v <= db /\ (calls'[i].at = "ok" => shown[calls'[i].table] <= calls'[i].v)
      BY <1>7, <2>1, <2>2, AnswerLoadIs DEF AnswerInv
    <2> QED BY <1>7, <2>1, <2>3, AnswerLoadIs DEF AnswerInv
  <1>8. ASSUME NEW i \in DOMAIN calls, LoadOk(i) PROVE AnswerInv'
    <2>1. /\ calls' = Handled(i) /\ UNCHANGED <<db, mine>>
          /\ shown' = [shown EXCEPT ![calls[i].table] = calls[i].v]
          /\ calls[i].table \in Tables /\ shown \in [Tables -> 0..MaxVersion]
      BY <1>8, HandledLeaves DEF LoadOk, server, PageTypeOK, Calls
    <2>2. /\ \A t \in Tables : t # calls[i].table => shown'[t] = shown[t]
          /\ shown'[calls[i].table] = calls[i].v
      BY <2>1
    <2>3. \A t \in Tables : shown'[t] <= db
      BY <2>2 DEF AnswerInv
    <2>4. \A k \in DOMAIN calls : calls[k].table \in Tables
      BY HandledLeaves DEF Calls
    <2> QED BY <2>1, <2>2, <2>3, <2>4, HandledAnswers DEF AnswerInv
  <1>9. ASSUME NEW i \in DOMAIN calls, LoadFails(i) PROVE AnswerInv'
    <2>1. /\ calls' = Handled(i) /\ UNCHANGED <<db, mine>>
          /\ shown' = [shown EXCEPT ![calls[i].table] = Blank]
          /\ calls[i].table \in Tables /\ shown \in [Tables -> 0..MaxVersion]
          /\ db \in Nat
      BY <1>9, HandledLeaves DEF LoadFails, server, PageTypeOK, Calls, Versions
    <2>2. /\ \A t \in Tables : t # calls[i].table => shown'[t] = shown[t]
          /\ shown'[calls[i].table] = Blank
      BY <2>1
    <2>3. \A t \in Tables : shown'[t] <= db
      BY <2>1, <2>2 DEF AnswerInv, Blank
    <2>4. \A k \in DOMAIN calls : calls[k].table \in Tables
      BY HandledLeaves DEF Calls
    <2> QED BY <2>1, <2>2, <2>3, <2>4, HandledAnswers DEF AnswerInv
  <1>10. CASE Arrive
    <2>1. /\ calls' = <<>> /\ shown' = [t \in Tables |-> 0] /\ mine' = 0 /\ db' = db /\ db \in Nat
      BY <1>10 DEF Arrive, Blank, server, PageTypeOK, Versions
    <2> QED BY <2>1 DEF AnswerInv
  <1>11. CASE UNCHANGED <<mine, db, shown, calls>>
    BY <1>11 DEF AnswerInv
  <1> QED BY <1>1, <1>2, <1>3, <1>4, <1>5, <1>6, <1>7, <1>8, <1>9, <1>10, <1>11
         DEF Next, AppStep, LoginStep, LoadStep, vars, server, tables, messages,
             loginPage, places, SessionEnds, AnswerMe, NotMounted, SyncSays, SyncExpired,
             Import, RefuseImport, ImportFails, MsgFires, Tick, Logout, AnswerLogout,
             LoggedOut, Submit, AnswerLogin, LoginOk, LoginFails, Reload

-----------------------------------------------------------------------------
(* Imports, and what is left behind.                                        *)

\* Loads that are sent add to those under way, and are good.
LEMMA SentAreGood ==
  ASSUME PageTypeOK, ImportInv, Extended(calls, calls'), UNCHANGED <<shown, mine, overtaken>>
  PROVE  ImportInv'
  <1> SUFFICES ASSUME NEW t \in ImportTables
               PROVE  /\ \/ shown[t] = Blank \/ mine <= shown[t] \/ t \in overtaken
                         \/ \E j \in DOMAIN calls' :
                               calls'[j].table = t /\ (calls'[j].at = "ok" => mine <= calls'[j].v)
                      /\ \A i \in DOMAIN calls' :
                           ( /\ calls'[i].table = t /\ ~calls'[i].older
                             /\ ~(calls'[i].at = "ok" => mine <= calls'[i].v) ) =>
                               \E j \in DOMAIN calls' :
                                  calls'[j].table = t /\ (calls'[j].at = "ok" => mine <= calls'[j].v)
    BY DEF ImportInv, Good, ImportTables
  <1>1. \A j \in DOMAIN calls : j \in DOMAIN calls' /\ calls'[j] = calls[j]
    BY DEF Extended
  <1>2. \A j \in DOMAIN calls' : calls'[j].at = "ok" => j \in DOMAIN calls
    BY DEF Extended
  <1> QED BY <1>1, <1>2 DEF ImportInv, Good

\* Handling a load leaves the good loads of other tables, and of its own the
\* good ones but itself.
LEMMA HandledKeepsGood ==
  ASSUME PageTypeOK, NEW i \in DOMAIN calls, NEW k \in DOMAIN calls, k # i, Good(calls[k])
  PROVE  \E j \in DOMAIN Handled(i) :
            Handled(i)[j].table = calls[k].table /\ Good(Handled(i)[j])
  <1>1. PICK j \in DOMAIN Handled(i) :
          /\ Handled(i)[j].table = calls[k].table
          /\ Handled(i)[j].at = calls[k].at /\ Handled(i)[j].v = calls[k].v
    BY HandledIs
  <1>2. Good(Handled(i)[j])
    BY <1>1 DEF Good
  <1> QED BY <1>1, <1>2

\* A load left in flight that would hide the import, and is not marked, has a
\* good one of its table beside it.
LEMMA HandledBehind ==
  ASSUME PageTypeOK, ImportInv, NEW i \in DOMAIN calls
  PROVE  \A t \in ImportTables : \A j \in DOMAIN Handled(i) :
            (Handled(i)[j].table = t /\ ~Good(Handled(i)[j]) /\ ~Handled(i)[j].older) =>
                \E l \in DOMAIN Handled(i) : Handled(i)[l].table = t /\ Good(Handled(i)[l])
  <1> SUFFICES ASSUME NEW t \in ImportTables, NEW j \in DOMAIN Handled(i),
                      Handled(i)[j].table = t, ~Good(Handled(i)[j]), ~Handled(i)[j].older
               PROVE  \E l \in DOMAIN Handled(i) : Handled(i)[l].table = t /\ Good(Handled(i)[l])
    OBVIOUS
  <1>1. PICK k \in DOMAIN calls :
          /\ k # i /\ Handled(i)[j].table = calls[k].table
          /\ Handled(i)[j].at = calls[k].at /\ Handled(i)[j].v = calls[k].v
          /\ Handled(i)[j].older = (calls[k].older \/ calls[k].table = calls[i].table)
    BY HandledIs
  <1>2. calls[k].table = t /\ t # calls[i].table /\ ~calls[k].older /\ ~Good(calls[k])
    BY <1>1 DEF Good
  <1>3. PICK l \in DOMAIN calls : calls[l].table = t /\ Good(calls[l])
    BY <1>2 DEF ImportInv
  <1> QED BY <1>2, <1>3, HandledKeepsGood

\* Imports: a load sent after one carries it.
LEMMA ImportStep ==
  ASSUME PageTypeOK, AnswerInv, ImportInv, [Next]_vars
  PROVE  ImportInv'
  <1>1. CASE Mounted
    <2>1. Extended(calls, calls') /\ UNCHANGED <<shown, mine, overtaken>>
      BY <1>1, LoadsExtend, LoadLeaves DEF Mounted
    <2> QED BY <2>1, SentAreGood
  <1>2. ASSUME NEW t \in Tables, OpenTab(t) PROVE ImportInv'
    <2>1. Extended(calls, calls') /\ UNCHANGED <<shown, mine, overtaken>>
      BY <1>2, LoadsExtend, LoadLeaves DEF OpenTab
    <2> QED BY <2>1, SentAreGood
  <1>3. CASE PollDone
    <2>1. Extended(calls, calls') /\ UNCHANGED <<shown, mine, overtaken>>
      BY <1>3, LoadsExtend, LoadLeaves DEF PollDone
    <2> QED BY <2>1, SentAreGood
  <1>4. CASE Imported
    <2> DEFINE cs == With(With(calls, "reservations"), "alerts")
    <2>1. calls' = cs
      BY <1>4 DEF Imported, Load
    <2>2. \A t \in ImportTables : \E j \in DOMAIN cs : cs[j] = NewLoad(t)
      BY ExtendedRefl, WithExtends DEF ImportTables
    <2>3. \A t \in ImportTables : \E j \in DOMAIN calls' : calls'[j].table = t /\ calls'[j].at = "sent"
      BY <2>1, <2>2, NewLoadType DEF ImportTables
    <2> QED BY <2>3 DEF ImportInv, Good, ImportTables
  <1>5. ASSUME NEW i \in DOMAIN calls, AnswerLoad(i) PROVE ImportInv'
    <2>1. UNCHANGED <<shown, mine, overtaken, db>>
      BY <1>5 DEF AnswerLoad, server
    <2>2. DOMAIN calls' = DOMAIN calls
      BY <1>5, AnswerLoadIs
    <2>3. calls'[i].at = "ok" => mine <= calls'[i].v
      BY <1>5, AnswerLoadIs DEF AnswerInv
    <2>4. \A j \in DOMAIN calls :
             calls'[j].table = calls[j].table /\ calls'[j].older = calls[j].older
             /\ (j # i => calls'[j] = calls[j])
      BY <1>5, AnswerLoadIs
    <2>5. \A j \in DOMAIN calls :
             (calls[j].at = "ok" => mine <= calls[j].v) => (calls'[j].at = "ok" => mine <= calls'[j].v)
      BY <2>3, <2>4
    <2> QED BY <2>1, <2>2, <2>4, <2>5 DEF ImportInv, Good, ImportTables
  <1>6. ASSUME NEW i \in DOMAIN calls, LoadOk(i) PROVE ImportInv'
    <2>1. /\ calls' = Handled(i) /\ mine' = mine /\ calls[i].at = "ok"
          /\ shown' = [shown EXCEPT ![calls[i].table] = calls[i].v]
          /\ calls[i].table \in Tables /\ shown \in [Tables -> 0..MaxVersion]
          /\ overtaken' = IF calls[i].older THEN overtaken \cup {calls[i].table}
                          ELSE overtaken \ {calls[i].table}
      BY <1>6, HandledLeaves DEF LoadOk, PageTypeOK, Calls
    <2>2. /\ \A t \in Tables : t # calls[i].table => shown'[t] = shown[t]
          /\ shown'[calls[i].table] = calls[i].v
      BY <2>1
    <2>3. \A t \in ImportTables :
             \/ shown'[t] = Blank \/ mine <= shown'[t] \/ t \in overtaken'
             \/ \E j \in DOMAIN Handled(i) : Handled(i)[j].table = t /\ Good(Handled(i)[j])
      <3> SUFFICES ASSUME NEW t \in ImportTables
                   PROVE  \/ shown'[t] = Blank \/ mine <= shown'[t] \/ t \in overtaken'
                          \/ \E j \in DOMAIN Handled(i) :
                                Handled(i)[j].table = t /\ Good(Handled(i)[j])
        OBVIOUS
      <3>1. CASE t = calls[i].table
        <4>1. CASE calls[i].older \/ mine <= calls[i].v
          BY <3>1, <4>1, <2>1, <2>2
        <4>2. CASE ~calls[i].older /\ ~(mine <= calls[i].v)
          <5>1. PICK j \in DOMAIN calls : calls[j].table = t /\ Good(calls[j])
            BY <3>1, <4>2, <2>1 DEF ImportInv, Good
          <5>2. j # i
            BY <5>1, <4>2, <2>1 DEF Good
          <5> QED BY <5>1, <5>2, HandledKeepsGood
        <4> QED BY <4>1, <4>2
      <3>2. CASE t # calls[i].table
        BY <3>2, <2>1, <2>2, HandledKeepsGood DEF ImportInv, ImportTables
      <3> QED BY <3>1, <3>2
    <2> QED BY <2>1, <2>3, HandledBehind DEF ImportInv, Good, ImportTables
  <1>7. ASSUME NEW i \in DOMAIN calls, LoadFails(i) PROVE ImportInv'
    <2>1. /\ calls' = Handled(i) /\ mine' = mine /\ overtaken' = overtaken
          /\ shown' = [shown EXCEPT ![calls[i].table] = Blank]
          /\ calls[i].table \in Tables /\ shown \in [Tables -> 0..MaxVersion]
      BY <1>7, HandledLeaves DEF LoadFails, PageTypeOK, Calls
    <2>2. /\ \A t \in Tables : t # calls[i].table => shown'[t] = shown[t]
          /\ shown'[calls[i].table] = Blank
      BY <2>1
    <2>3. \A t \in ImportTables :
             \/ shown'[t] = Blank \/ mine <= shown'[t] \/ t \in overtaken'
             \/ \E j \in DOMAIN Handled(i) : Handled(i)[j].table = t /\ Good(Handled(i)[j])
      BY <2>1, <2>2, HandledKeepsGood DEF ImportInv, ImportTables
    <2> QED BY <2>1, <2>3, HandledBehind DEF ImportInv, Good, ImportTables
  <1>8. CASE Arrive
    <2>1. calls' = <<>> /\ shown' = [t \in Tables |-> Blank]
      BY <1>8 DEF Arrive
    <2> QED BY <2>1 DEF ImportInv, ImportTables
  <1>9. CASE UNCHANGED <<mine, shown, calls, overtaken>>
    BY <1>9 DEF ImportInv, Good, ImportTables
  <1> QED BY <1>1, <1>2, <1>3, <1>4, <1>5, <1>6, <1>7, <1>8, <1>9
         DEF Next, AppStep, LoginStep, LoadStep, vars, server, tables, messages,
             loginPage, places, DbChanges, SessionEnds, AnswerMe, NotMounted, SyncSays,
             SyncExpired, Import, AcceptImport, RefuseImport, ImportFails, MsgFires,
             Tick, Logout, AnswerLogout, LoggedOut, Submit, AnswerLogin, LoginOk,
             LoginFails, Reload

\* The indicator and the form are backed by what will free them.
LEMMA StuckStep ==
  ASSUME PageTypeOK, PlaceInv, NothingStuck, [Next]_vars
  PROVE  NothingStuck'
  <1>1. CASE Mounted
    <2>1. \A j \in DOMAIN calls : j \in DOMAIN calls' /\ calls'[j] = calls[j]
      BY <1>1, LoadsExtend, LoadLeaves DEF Mounted, Extended
    <2>2. loading' => \E j \in DOMAIN calls' : calls'[j].table = "reservations"
      BY <1>1, <2>1 DEF NothingStuck, Mounted, Load
    <2> QED BY <1>1, <2>2 DEF NothingStuck, Mounted, loginPage
  <1>2. CASE NotMounted
    BY <1>2 DEF NothingStuck, NotMounted, RedirectIf, redirectToLogin, NoNav, tables, loginPage
  <1>3. ASSUME NEW i \in DOMAIN calls, AnswerLoad(i) PROVE NothingStuck'
    BY <1>3, AnswerLoadIs DEF NothingStuck, AnswerLoad, loginPage
  <1>4. ASSUME NEW i \in DOMAIN calls, LoadOk(i) PROVE NothingStuck'
    <2>1. loading' => \E j \in DOMAIN calls' : calls'[j].table = "reservations"
      <3>1. SUFFICES ASSUME loading'
                     PROVE  \E j \in DOMAIN Handled(i) : Handled(i)[j].table = "reservations"
        BY <1>4 DEF LoadOk
      <3>2. loading /\ calls[i].table # "reservations"
        BY <1>4, <3>1 DEF LoadOk, DoneLoading
      <3>3. PICK k \in DOMAIN calls : calls[k].table = "reservations"
        BY <3>2 DEF NothingStuck
      <3>4. PICK j \in DOMAIN Handled(i) : Handled(i)[j].table = calls[k].table
        BY <3>2, <3>3, HandledIs
      <3> QED BY <3>3, <3>4
    <2>2. busy' => login' # "none" \/ nav' # NoNav
      BY <1>4 DEF NothingStuck, LoadOk, loginPage
    <2> QED BY <2>1, <2>2 DEF NothingStuck
  <1>5. ASSUME NEW i \in DOMAIN calls, LoadFails(i) PROVE NothingStuck'
    <2>1. loading' => \E j \in DOMAIN calls' : calls'[j].table = "reservations"
      <3>1. SUFFICES ASSUME loading'
                     PROVE  \E j \in DOMAIN Handled(i) : Handled(i)[j].table = "reservations"
        BY <1>5 DEF LoadFails
      <3>2. loading /\ calls[i].table # "reservations"
        BY <1>5, <3>1 DEF LoadFails, DoneLoading
      <3>3. PICK k \in DOMAIN calls : calls[k].table = "reservations"
        BY <3>2 DEF NothingStuck
      <3>4. PICK j \in DOMAIN Handled(i) : Handled(i)[j].table = calls[k].table
        BY <3>2, <3>3, HandledIs
      <3> QED BY <3>3, <3>4
    <2>2. busy' => login' # "none" \/ nav' # NoNav
      BY <1>5 DEF NothingStuck, LoadFails, loginPage, RedirectIf, redirectToLogin, NoNav
    <2> QED BY <2>1, <2>2 DEF NothingStuck
  <1>6. ASSUME NEW t \in Tables, OpenTab(t) PROVE NothingStuck'
    <2>1. \A j \in DOMAIN calls : j \in DOMAIN calls' /\ calls'[j] = calls[j]
      BY <1>6, LoadsExtend, LoadLeaves DEF OpenTab, Extended
    <2>2. loading' => \E j \in DOMAIN calls' : calls'[j].table = "reservations"
      BY <1>6, <2>1 DEF NothingStuck, OpenTab, Load
    <2> QED BY <1>6, <2>2 DEF NothingStuck, OpenTab, loginPage
  <1>7. CASE PollDone
    <2>1. \A j \in DOMAIN calls : j \in DOMAIN calls' /\ calls'[j] = calls[j]
      BY <1>7, LoadsExtend, LoadLeaves DEF PollDone, Extended
    <2>2. loading' => \E j \in DOMAIN calls' : calls'[j].table = "reservations"
      BY <1>7, <2>1 DEF NothingStuck, PollDone, Load
    <2> QED BY <1>7, <2>2 DEF NothingStuck, PollDone, loginPage
  <1>8. CASE Imported
    <2>1. \A j \in DOMAIN calls : j \in DOMAIN calls' /\ calls'[j] = calls[j]
      BY <1>8, LoadsExtend, LoadLeaves DEF Imported, Extended
    <2>2. loading' => \E j \in DOMAIN calls' : calls'[j].table = "reservations"
      BY <1>8, <2>1 DEF NothingStuck, Imported, Load
    <2> QED BY <1>8, <2>2 DEF NothingStuck, Imported, loginPage
  <1>9. CASE SyncExpired
    BY <1>9 DEF NothingStuck, SyncExpired, redirectToLogin, NoNav, tables, loginPage
  <1>10. CASE ImportFails
    BY <1>10 DEF NothingStuck, ImportFails, RedirectIf, redirectToLogin, NoNav, tables, loginPage
  <1>11. CASE LoggedOut
    BY <1>11 DEF NothingStuck, LoggedOut, NoNav, tables, loginPage
  <1>12. CASE Submit
    BY <1>12 DEF NothingStuck, Submit, tables
  <1>13. CASE AnswerLogin
    BY <1>13 DEF NothingStuck, AnswerLogin, tables
  <1>14. CASE LoginOk
    BY <1>14 DEF NothingStuck, LoginOk, tables, NoNav
  <1>15. CASE LoginFails
    BY <1>15 DEF NothingStuck, LoginFails, tables
  <1>16. CASE Arrive
    BY <1>16 DEF NothingStuck, Arrive
  <1>17. CASE Reload
    BY <1>17, PlacesAre DEF NothingStuck, Reload, NoNav, tables, loginPage
  <1>18. CASE UNCHANGED <<loading, calls, busy, login, nav>>
    BY <1>18 DEF NothingStuck
  <1> QED BY <1>1, <1>2, <1>3, <1>4, <1>5, <1>6, <1>7, <1>8, <1>9, <1>10, <1>11, <1>12,
         <1>13, <1>14, <1>15, <1>16, <1>17, <1>18
         DEF Next, AppStep, LoginStep, LoadStep, vars, server, tables, messages,
             loginPage, places, DbChanges, SessionEnds, AnswerMe, SyncSays, Import,
             AcceptImport, RefuseImport, MsgFires, Tick, Logout, AnswerLogout

-----------------------------------------------------------------------------
(* The page.                                                               *)

LEMMA PageInit == Init => PageInv
  <1> SUFFICES ASSUME Init PROVE PageInv
    OBVIOUS
  <1>1. PICK p \in Paths : loc = [at |-> "app", path |-> p] /\ lastPath = p
    BY DEF Init
  <1>2. /\ nav = NoNav /\ me = "sent" /\ calls = <<>> /\ loading = FALSE /\ import = "none"
        /\ logout = "none" /\ message = FALSE /\ msgTimer = NoTimer /\ msgTimers = {}
        /\ login = "none" /\ busy = FALSE /\ eager = FALSE /\ overtaken = {}
        /\ signedOut = FALSE /\ bounced = FALSE /\ session \in BOOLEAN
        /\ shown = [t \in Tables |-> Blank] /\ db = 1
        /\ redirects = 0 /\ mine = 0 /\ msgAge = 0
    BY DEF Init
  <1>3. PageTypeOK
    <2>1. calls \in Seq(Calls) /\ Len(calls) <= MaxCalls
      BY <1>2, PageBoundsAssumption
    <2>2. /\ db \in Versions /\ redirects \in 0..2 /\ mine \in 0..MaxVersion
          /\ msgAge \in 0..MsgLife /\ msgTimers \subseteq 0..MsgLife
      BY <1>2, PageBoundsAssumption DEF Versions
    <2>3. shown \in [Tables -> 0..MaxVersion]
      BY <1>2, PageBoundsAssumption DEF Blank
    <2>4. loc \in Places /\ loc.at = "app"
      BY <1>1, AppPathIsPlace
    <2> QED BY <1>1, <1>2, <2>1, <2>2, <2>3, <2>4 DEF PageTypeOK, Pending
  <1>4. RedirectInv /\ PlaceInv /\ MessageInv
    BY <1>1, <1>2 DEF RedirectInv, PlaceInv, MessageInv, NoNav, NoTimer
  <1>5. AnswerInv /\ ImportInv
    BY <1>2 DEF AnswerInv, ImportInv, ImportTables, Blank
  <1>6. NothingStuck
    BY <1>2 DEF NothingStuck
  <1> QED BY <1>3, <1>4, <1>5, <1>6 DEF PageInv

\* The invariant holds throughout.
LEMMA PageInvariant == Spec => []PageInv
  <1>1. PageInv /\ [Next]_vars => PageInv'
    BY TypeStep, RedirectStep, PlaceStep, MessageStep, AnswerStep, ImportStep, StuckStep
       DEF PageInv
  <1> QED BY <1>1, PageInit, PTL DEF Spec

\* Both pages stay well formed; the login page has no request of the dashboard
\* under way.
THEOREM PageTypeCorrect == Spec => []PageTypeOK
  <1>1. PageInv => PageTypeOK
    BY DEF PageInv
  <1> QED BY <1>1, PageInvariant, PTL

\* A user sees the file that was imported, whichever answers overtake each
\* other, unless the last load failed or was overtaken.
THEOREM ImportShownThm == Spec => []ImportShown
  <1>1. ASSUME PageInv PROVE ImportShown
    <2> SUFFICES ASSUME NEW t \in Tables \cap {"reservations", "alerts"}
                 PROVE  \/ \E i \in DOMAIN calls : calls[i].table = t
                        \/ shown[t] \in {Blank} \cup mine..MaxVersion
                        \/ t \in overtaken
      BY DEF ImportShown
    <2>1. \/ shown[t] = Blank \/ mine <= shown[t] \/ t \in overtaken
          \/ \E j \in DOMAIN calls : calls[j].table = t
      BY <1>1 DEF PageInv, ImportInv, ImportTables
    <2>2. shown[t] \in 0..MaxVersion /\ mine \in 0..MaxVersion
      BY <1>1 DEF PageInv, PageTypeOK
    <2> QED BY <2>1, <2>2, PageBoundsAssumption
  <1> QED BY <1>1, PageInvariant, PTL

\* A page that waited for /api/me redirects once.
THEOREM OneRedirectThm == Spec => []OneRedirect
  <1>1. ASSUME PageInv PROVE OneRedirect
    <2>1. redirects \in 0..2
      BY <1>1 DEF PageInv, PageTypeOK
    <2>2. ~eager => redirects <= 1
      <3>1. CASE me = "valid"
        BY <1>1, <3>1 DEF PageInv, RedirectInv
      <3>2. CASE me # "valid" /\ ~eager
        <4>1. redirects <= IF me = "refused" THEN 1 ELSE 0
          BY <1>1, <3>2 DEF PageInv, RedirectInv
        <4> QED BY <2>1, <4>1
      <3> QED BY <3>1, <3>2
    <2> QED BY <2>1, <2>2 DEF OneRedirect
  <1> QED BY <1>1, PageInvariant, PTL

\* Neither the loading indicator nor the busy login form is left behind.
THEOREM NothingStuckThm == Spec => []NothingStuck
  <1>1. PageInv => NothingStuck
    BY DEF PageInv
  <1> QED BY <1>1, PageInvariant, PTL

\* A table goes back only when an overtaken answer is applied.
THEOREM RegressOnlyIfConcurrentThm == Spec => RegressOnlyIfConcurrent
  <1>1. ASSUME PageInv, [Next]_vars, NEW t \in Tables, shown'[t] # Blank, shown'[t] < shown[t]
        PROVE  \E i \in DOMAIN calls :
                  calls[i].table = t /\ calls[i].at = "ok" /\ calls[i].older
    <2>0. PageTypeOK /\ shown \in [Tables -> 0..MaxVersion] /\ shown[t] \in Nat
      BY <1>1 DEF PageInv, PageTypeOK
    <2>1. ASSUME NEW i \in DOMAIN calls, LoadOk(i)
          PROVE  calls[i].table = t /\ calls[i].at = "ok" /\ calls[i].older
      <3>1. shown' = [shown EXCEPT ![calls[i].table] = calls[i].v] /\ calls[i].at = "ok"
        BY <2>1 DEF LoadOk
      <3>2. calls[i].table = t /\ shown'[t] = calls[i].v
        BY <1>1, <2>0, <3>1
      <3>3. calls[i].older \in BOOLEAN /\ calls[i].v \in Nat
        BY <2>0, HandledLeaves DEF Calls
      <3>4. ~calls[i].older => shown[t] <= calls[i].v
        BY <1>1, <3>1, <3>2 DEF PageInv, AnswerInv
      <3> QED BY <1>1, <2>0, <3>1, <3>2, <3>3, <3>4
    <2>2. ASSUME NEW i \in DOMAIN calls, LoadFails(i) PROVE FALSE
      <3>1. shown' = [shown EXCEPT ![calls[i].table] = Blank]
        BY <2>2 DEF LoadFails
      <3> QED BY <1>1, <2>0, <3>1
    <2>3. CASE Arrive
      BY <1>1, <2>3 DEF Arrive
    <2>4. shown' # shown
      BY <1>1, <2>0
    <2> QED BY <1>1, <2>1, <2>2, <2>3, <2>4
         DEF Next, AppStep, LoginStep, LoadStep, vars, server, tables, messages,
             loginPage, places, DbChanges, SessionEnds, AnswerMe, Mounted, NotMounted,
             AnswerLoad, OpenTab, PollDone, SyncSays, SyncExpired, Import, AcceptImport,
             RefuseImport, Imported, ImportFails, MsgFires, Tick, Logout, AnswerLogout,
             LoggedOut, Submit, AnswerLogin, LoginOk, LoginFails, Load, Reload
  <1>2. PageInv /\ [Next]_vars =>
           [\A t \in Tables :
              (shown'[t] # Blank /\ shown'[t] < shown[t]) =>
                  \E i \in DOMAIN calls :
                      calls[i].table = t /\ calls[i].at = "ok" /\ calls[i].older]_vars
    BY <1>1
  <1> QED BY <1>2, PageInvariant, PTL DEF Spec, RegressOnlyIfConcurrent

\* A message stays its time, however many are shown.
THEOREM MessageStaysThm == Spec => MessageStays
  <1>1. ASSUME PageInv, [Next]_vars, message, ~message'
        PROVE  msgAge = MsgLife \/ (nav # NoNav /\ nav' = NoNav)
    <2>1. CASE MsgFires
      <3>1. msgTimer = 0 /\ msgTimer + msgAge = MsgLife
        BY <1>1, <2>1 DEF MsgFires, PageInv, MessageInv, NoTimer
      <3>2. msgAge \in 0..MsgLife
        BY <1>1 DEF PageInv, PageTypeOK
      <3> QED BY <3>1, <3>2, PageBoundsAssumption
    <2>2. CASE Arrive
      BY <2>2 DEF Arrive
    <2> QED BY <1>1, <2>1, <2>2
         DEF showMsg, Next, AppStep, LoginStep, LoadStep, vars, server, tables, messages,
             loginPage, places, DbChanges, SessionEnds, AnswerMe, Mounted, NotMounted,
             AnswerLoad, LoadOk, LoadFails, OpenTab, PollDone, SyncSays, SyncExpired,
             Import, AcceptImport, RefuseImport, Imported, ImportFails, Tick, Logout,
             AnswerLogout, LoggedOut, Submit, AnswerLogin, LoginOk, LoginFails, Reload
  <1>2. PageInv /\ [Next]_vars =>
           [(message /\ ~message') => (msgAge = MsgLife \/ (nav # NoNav /\ nav' = NoNav))]_vars
    BY <1>1
  <1> QED BY <1>2, PageInvariant, PTL DEF Spec, MessageStays

\* Whoever loses the session comes back to the page that was left, unless the
\* server turned the browser away from a dashboard in between.
THEOREM ReturnsWhereTheyWereThm == Spec => ReturnsWhereTheyWere
  <1>1. ASSUME PageInv, [Next]_vars, loc.at = "login", loc'.at = "app"
        PROVE  loc'.path = lastPath \/ ((signedOut \/ bounced) /\ loc'.path = Home)
    <2>1. CASE Arrive
      <3>1. loc' = nav
        BY <1>1, <2>1, AnsweredPage DEF PageInv
      <3> QED BY <1>1, <3>1 DEF PageInv, PlaceInv
    <2>2. loc' # loc
      BY <1>1
    <2> QED BY <1>1, <2>1, <2>2
         DEF Next, AppStep, LoginStep, LoadStep, vars, server, tables, messages,
             loginPage, places, DbChanges, SessionEnds, AnswerMe, Mounted, NotMounted,
             AnswerLoad, LoadOk, LoadFails, OpenTab, PollDone, SyncSays, SyncExpired,
             Import, AcceptImport, RefuseImport, Imported, ImportFails, MsgFires, Tick,
             Logout, AnswerLogout, LoggedOut, Submit, AnswerLogin, LoginOk, LoginFails,
             Reload
  <1>2. PageInv /\ [Next]_vars =>
           [(loc.at = "login" /\ loc'.at = "app") =>
               \/ loc'.path = lastPath
               \/ (signedOut \/ bounced) /\ loc'.path = Home]_vars
    BY <1>1
  <1> QED BY <1>2, PageInvariant, PTL DEF Spec, ReturnsWhereTheyWere

-----------------------------------------------------------------------------
(* What the dashboard shows.                                               *)

\* The lists that the page holds are lists of rows with distinct ids.
LEMMA HeldLists ==
    ASSUME ViewTypeOK
    PROVE  /\ reservations \in Seq(Rows) /\ DistinctIds(reservations)
           /\ gpuCoverage \in Seq(GPURows) /\ DistinctIds(gpuCoverage)
<1>1. <<>> \in Seq(Rows) /\ <<>> \in Seq(GPURows) /\ DistinctIds(<<>>)
  BY DEF DistinctIds
<1> QED
  BY <1>1, ListsAssumption DEF ViewTypeOK

\* The page only ever sorts by its columns and filters by what it offers, and the
\* order of the rows is never older than the cards nor newer than the cells
\* (loadReservations, sortBy, the filters and every rendering): ViewTypeOK is an
\* invariant, for any lists the server answers with.
THEOREM ViewTypeCorrect == ViewSpec => []ViewTypeOK
<1>1. ViewInit => ViewTypeOK
  BY ViewAssumption DEF ViewInit, ViewTypeOK, AllAccounts
<1>2. ViewTypeOK /\ [ViewNext]_viewVars => ViewTypeOK'
  <2> SUFFICES ASSUME ViewTypeOK, [ViewNext]_viewVars
               PROVE  ViewTypeOK'
    OBVIOUS
  <2>0. \A i \in DOMAIN reservations : reservations[i].account_id \in Nat
    <3>1. \A i \in DOMAIN reservations : reservations[i] \in Rows
      BY HeldLists
    <3> QED
      BY <3>1 DEF Rows
  <2> USE DEF ViewTypeOK
  <2>c. /\ now \in Int /\ Start \in Int /\ End \in Int
        /\ Start <= now /\ now <= End
    BY ViewAssumption
  <2>1. CASE Loaded
    BY <2>1, <2>c DEF Loaded, filters, gpuTable
  <2>2. CASE SetFilter
    BY <2>2, <2>c, <2>0 DEF SetFilter, Reordered, filters, gpuTable, uniqueAccounts, AllAccounts
  <2>3. CASE GPULoaded
    BY <2>3, <2>c DEF GPULoaded, dashboard, filters
  <2>4. CASE SetGPUFilter
    BY <2>4, <2>c, <2>0 DEF SetGPUFilter, dashboard, filters, uniqueAccounts, AllAccounts
  <2>5. CASE Render
    BY <2>5, <2>c DEF Render, dashboard, filters, gpuTable
  <2>6. CASE ClockTicks
    BY <2>6, <2>c DEF ClockTicks, dashboard, filters, gpuTable
  <2>7. ASSUME NEW key \in Keys, sortBy(key) PROVE ViewTypeOK'
    BY <2>7, <2>c DEF sortBy, Toggled, Reordered, filters, gpuTable
  <2>8. ASSUME NEW key \in GPUKeys, gpuSortBy(key) PROVE ViewTypeOK'
    BY <2>8, <2>c DEF gpuSortBy, Toggled, dashboard, filters
  <2>9. CASE UNCHANGED viewVars
    BY <2>9 DEF viewVars
  <2> QED
    BY <2>1, <2>2, <2>3, <2>4, <2>5, <2>6, <2>7, <2>8, <2>9 DEF ViewNext
<1> QED
  BY <1>1, <1>2, PTL DEF ViewSpec

\* In a strict total order of a finite set the places are 1, 2, ... without a gap,
\* and go up along the order.
LEMMA PlacesInOrder ==
    ASSUME NEW S, IsFiniteSet(S), NEW R,
           \A i \in S : <<i, i>> \notin R,
           \A i, j, k \in S : <<i, j>> \in R /\ <<j, k>> \in R => <<i, k>> \in R,
           \A i, j \in S : i # j => <<i, j>> \in R \/ <<j, i>> \in R
    PROVE  /\ Cardinality(S) \in Nat
           /\ \A i \in S : Place(i, S, R) \in 1..Cardinality(S)
           /\ \A i, j \in S : <<i, j>> \in R => Place(i, S, R) < Place(j, S, R)
           /\ \A k \in 1..Cardinality(S) : \E i \in S : Place(i, S, R) = k
<1> DEFINE Below(i) == {j \in S : <<j, i>> \in R}
           n == Cardinality(S)
           f == [i \in S |-> Place(i, S, R)]
<1>1. n \in Nat
  BY FS_CardinalityType
<1>2. \A i \in S : IsFiniteSet(Below(i)) /\ Cardinality(Below(i)) \in Nat
  <2> SUFFICES ASSUME NEW i \in S PROVE IsFiniteSet(Below(i)) /\ Cardinality(Below(i)) \in Nat
    OBVIOUS
  <2>1. Below(i) \in SUBSET S
    OBVIOUS
  <2> HIDE DEF Below
  <2>2. IsFiniteSet(Below(i))
    BY <2>1, FS_Subset
  <2> QED
    BY <2>2, FS_CardinalityType
<1>3. \A i \in S : Cardinality(Below(i)) < n
  <2> SUFFICES ASSUME NEW i \in S PROVE Cardinality(Below(i)) < n
    OBVIOUS
  <2>1. Below(i) \in SUBSET S /\ i \notin Below(i)
    OBVIOUS
  <2> HIDE DEF Below
  <2>2. Cardinality(Below(i)) <= n /\ (n = Cardinality(Below(i)) => S = Below(i))
    BY <2>1, FS_Subset
  <2> HIDE DEF n
  <2> QED
    BY <2>1, <2>2, <1>1, <1>2
<1>4. \A i, j \in S : <<i, j>> \in R => Cardinality(Below(i)) < Cardinality(Below(j))
  <2> SUFFICES ASSUME NEW i \in S, NEW j \in S, <<i, j>> \in R
               PROVE  Cardinality(Below(i)) < Cardinality(Below(j))
    OBVIOUS
  <2>1. Below(i) \in SUBSET Below(j) /\ i \notin Below(i) /\ i \in Below(j)
    OBVIOUS
  <2> HIDE DEF Below
  <2>2. /\ Cardinality(Below(i)) <= Cardinality(Below(j))
        /\ Cardinality(Below(j)) = Cardinality(Below(i)) => Below(j) = Below(i)
    BY <2>1, <1>2, FS_Subset
  <2> QED
    BY <2>1, <2>2, <1>2
<1>5. \A i \in S : Place(i, S, R) = Cardinality(Below(i)) + 1
  BY DEF Place
<1> HIDE DEF Below, n
<1>6. \A i \in S : Place(i, S, R) \in 1..n
  BY <1>1, <1>2, <1>3, <1>5
<1>7. \A i, j \in S : <<i, j>> \in R => Place(i, S, R) < Place(j, S, R)
  BY <1>2, <1>4, <1>5
<1>8. \A i, j \in S : Place(i, S, R) = Place(j, S, R) => i = j
  <2> SUFFICES ASSUME NEW i \in S, NEW j \in S, Place(i, S, R) = Place(j, S, R), i # j
               PROVE  FALSE
    OBVIOUS
  <2>1. <<i, j>> \in R \/ <<j, i>> \in R
    OBVIOUS
  <2>2. Place(i, S, R) \in 1..n /\ Place(j, S, R) \in 1..n
    BY <1>6
  <2> QED
    BY <2>1, <2>2, <1>7, <1>1
<1>9. f \in Injection(S, 1..n)
  BY <1>6, <1>8 DEF Injection, IsInjective
<1>10. IsFiniteSet(1..n) /\ Cardinality(1..n) = n
  BY <1>1, FS_Interval
<1>11. f \in Surjection(S, 1..n)
  <2>1. Cardinality(S) = Cardinality(1..n)
    BY <1>10 DEF n
  <2> HIDE DEF f
  <2> QED
    BY <2>1, <1>9, <1>10, FS_Injection
<1>12. \A k \in 1..n : \E i \in S : Place(i, S, R) = k
  BY <1>11 DEF Surjection
<1> QED
  BY <1>1, <1>6, <1>7, <1>12 DEF n

\* Division rounds down.
LEMMA DivBounds ==
    ASSUME NEW a \in Int, NEW D \in Nat \ {0}
    PROVE  a \div D \in Int /\ D * (a \div D) <= a /\ a < D * (a \div D) + D
OBVIOUS

\* A positive factor can be cancelled.
LEMMA TimesLess ==
    ASSUME NEW D \in Nat \ {0}, NEW m \in Int, NEW n \in Int, D * m < D * n
    PROVE  m < n
<1> SUFFICES ASSUME n <= m PROVE FALSE
  OBVIOUS
<1>1. PICK k \in Nat : m = n + k
  <2> WITNESS m - n \in Nat
  <2> QED OBVIOUS
<1>2. D * m = D * n + D * k
  BY <1>1
<1>3. D * k \in Nat /\ D * n \in Int
  BY <1>1
<1> QED
  BY <1>2, <1>3

\* Rounding the days left up, as the page does, and the days past down, as the
\* server does, is the same.
LEMMA CeilingOfDays ==
    ASSUME NEW x \in Int, NEW D \in Nat \ {0}
    PROVE  -((-x) \div D) = (x + D - 1) \div D
<1> DEFINE p == (-x) \div D
           q == (x + D - 1) \div D
<1>1. p \in Int /\ D * p <= -x /\ -x < D * p + D
  BY DivBounds
<1>2. q \in Int /\ D * q <= x + D - 1 /\ x + D - 1 < D * q + D
  BY DivBounds
<1> HIDE DEF p, q
<1>3. D * (p + q) < D * 1 /\ D * (-1) < D * (p + q)
  <2>1. /\ D * (p + q) = D * p + D * q /\ D * 1 = D /\ D * (-1) = -D
        /\ D * p \in Int /\ D * q \in Int
    BY <1>1, <1>2
  <2> QED
    BY <1>1, <1>2, <2>1
<1>4. p + q < 1 /\ -1 < p + q
  BY <1>1, <1>2, <1>3, TimesLess
<1> QED
  BY <1>1, <1>2, <1>4 DEF p, q

\* The day count of a row is a number of days, or Null.
LEMMA DayCounts ==
    ASSUME NEW d \in 0..(MaxDays * Day), NEW t \in Nat
    PROVE  /\ daysUntil(d, t) \in Int
           /\ daysUntil(d, t) = Null <=> isZeroTime(d)
           /\ daysUntil(d, t) <= Null
<1>0. Day \in Nat \ {0} /\ d \in Int /\ MaxDays * Day \in Int
  BY ViewAssumption DEF MaxDays
<1> DEFINE q == (t - d) \div Day
<1>1. q \in Int /\ t - d < Day * q + Day
  BY <1>0, DivBounds
<1> HIDE DEF q
<1>2. Day * (-MaxDays) < Day * (q + 1)
  <2>1. /\ Day * (-MaxDays) = -(MaxDays * Day) /\ Day * (q + 1) = Day * q + Day
        /\ Day * q \in Int
    BY <1>0, <1>1 DEF MaxDays
  <2> QED
    BY <1>0, <1>1, <2>1
<1>3. -MaxDays < q + 1
  <2>1. -MaxDays \in Int /\ q + 1 \in Int
    BY <1>1 DEF MaxDays
  <2> QED
    BY <2>1, <1>0, <1>2, TimesLess
<1> QED
  BY <1>1, <1>3 DEF daysUntil, Null, MaxDays, q

\* Two dates that were in order are at most one day out of order later.
LEMMA DayShift ==
    ASSUME NEW d \in 0..(MaxDays * Day), NEW e \in 0..(MaxDays * Day),
           NEW o \in Nat, NEW c \in Nat,
           daysUntil(d, o) <= daysUntil(e, o)
    PROVE  daysUntil(d, c) <= daysUntil(e, c) + 1
<1>0. Day \in Nat \ {0} /\ d \in Int /\ e \in Int
  BY ViewAssumption DEF MaxDays
<1>1. /\ daysUntil(d, o) \in Int /\ daysUntil(d, c) \in Int
      /\ daysUntil(e, o) \in Int /\ daysUntil(e, c) \in Int
      /\ daysUntil(d, o) = Null <=> isZeroTime(d)
      /\ daysUntil(e, o) <= Null
      /\ daysUntil(e, o) = Null <=> isZeroTime(e)
      /\ daysUntil(e, c) = Null <=> isZeroTime(e)
      /\ daysUntil(d, c) <= Null
  BY DayCounts
<1>2. CASE isZeroTime(d) \/ isZeroTime(e)
  <2>1. isZeroTime(e)
    BY <1>1, <1>2 DEF Null, MaxDays
  <2> QED
    BY <1>1, <2>1 DEF Null, MaxDays
<1>3. CASE ~isZeroTime(d) /\ ~isZeroTime(e)
  <2> DEFINE a == (o - d) \div Day
             b == (o - e) \div Day
             p == (c - d) \div Day
             q == (c - e) \div Day
  <2>1. a \in Int /\ Day * a <= o - d
    BY <1>0, DivBounds
  <2>2. b \in Int /\ o - e < Day * b + Day
    BY <1>0, DivBounds
  <2>3. p \in Int /\ c - d < Day * p + Day
    BY <1>0, DivBounds
  <2>4. q \in Int /\ Day * q <= c - e
    BY <1>0, DivBounds
  <2>5. -a <= -b
    BY <1>3 DEF daysUntil
  <2>6. daysUntil(d, c) = -p /\ daysUntil(e, c) = -q
    BY <1>3 DEF daysUntil
  <2> HIDE DEF a, b, p, q
  <2>7. Day * b <= Day * a
    <3>1. PICK k \in Nat : a = b + k
      <4>1. a - b \in Nat /\ a = b + (a - b)
        BY <2>1, <2>2, <2>5
      <4> QED
        BY <4>1
    <3>2. Day * a = Day * b + Day * k
      BY <3>1, <2>2, <1>0
    <3>3. Day * k \in Nat /\ Day * b \in Int
      BY <3>1, <2>2, <1>0
    <3> QED
      BY <3>2, <3>3
  <2>8. Day * q < Day * (p + 2)
    <3>1. /\ Day * (p + 2) = Day * p + Day + Day
          /\ Day * p \in Int /\ Day * q \in Int /\ Day * a \in Int /\ Day * b \in Int
      BY <1>0, <2>1, <2>2, <2>3, <2>4
    <3> QED
      BY <1>0, <2>1, <2>2, <2>3, <2>4, <2>7, <3>1
  <2>9. q < p + 2
    BY <2>3, <2>4, <2>8, <1>0, TimesLess
  <2> QED
    BY <2>3, <2>4, <2>6, <2>9
<1> QED
  BY <1>2, <1>3

\* A set is as large as two disjoint parts of it together.
LEMMA TwoParts ==
    ASSUME NEW A, NEW B, IsFiniteSet(A), IsFiniteSet(B), A \cap B = {}
    PROVE  IsFiniteSet(A \cup B) /\ Cardinality(A \cup B) = Cardinality(A) + Cardinality(B)
<1>1. /\ IsFiniteSet(A \cup B)
      /\ Cardinality(A \cup B) = Cardinality(A) + Cardinality(B) - Cardinality(A \cap B)
  BY FS_Union
<1>2. Cardinality(A \cap B) = 0
  BY FS_EmptySet
<1>3. Cardinality(A) \in Nat /\ Cardinality(B) \in Nat
  BY FS_CardinalityType
<1> QED
  BY <1>1, <1>2, <1>3

\* The same of four parts.
LEMMA FourParts ==
    ASSUME NEW S, IsFiniteSet(S), NEW A, NEW B, NEW C, NEW E,
           S = ((A \cup B) \cup C) \cup E,
           A \cap B = {}, (A \cup B) \cap C = {}, ((A \cup B) \cup C) \cap E = {}
    PROVE  Cardinality(S) = Cardinality(A) + Cardinality(B) + Cardinality(C) + Cardinality(E)
<1>1. IsFiniteSet(A) /\ IsFiniteSet(B) /\ IsFiniteSet(C) /\ IsFiniteSet(E)
  <2>1. A \in SUBSET S /\ B \in SUBSET S /\ C \in SUBSET S /\ E \in SUBSET S
    OBVIOUS
  <2> QED
    BY <2>1, FS_Subset
<1>2. /\ IsFiniteSet(A \cup B)
      /\ Cardinality(A \cup B) = Cardinality(A) + Cardinality(B)
  BY <1>1, TwoParts
<1>3. /\ IsFiniteSet((A \cup B) \cup C)
      /\ Cardinality((A \cup B) \cup C) = Cardinality(A \cup B) + Cardinality(C)
  BY <1>1, <1>2, TwoParts
<1>4. Cardinality(((A \cup B) \cup C) \cup E) = Cardinality((A \cup B) \cup C) + Cardinality(E)
  BY <1>1, <1>3, TwoParts
<1> QED
  BY <1>2, <1>3, <1>4

\* daysUntil of the page counts the days model.DaysUntil of the server counts, for
\* any length of a day and any date, and the cards of `stats' and `gpuStats' count
\* each row once, under what its cells say, while both are of one moment.
THEOREM DayCountsAlwaysAgree == ViewSpec => []DayCountsAgree
<1>1. ViewTypeOK => DayCountsAgree
  <2> SUFFICES ASSUME ViewTypeOK PROVE DayCountsAgree
    OBVIOUS
  <2>0. /\ Day \in Nat \ {0}
        /\ now \in Nat /\ cellsAt \in Nat /\ cardsAt \in Nat
    BY ViewAssumption DEF ViewTypeOK
  <2>1. \A i \in DOMAIN reservations : reservations[i] \in Rows
    BY HeldLists
  <2>2. \A i \in DOMAIN gpuCoverage : gpuCoverage[i] \in GPURows
    BY HeldLists
  <2>3. ASSUME NEW i \in DOMAIN reservations
        PROVE  LET end == reservations[i].end_time
               IN  ~isZeroTime(end) => daysUntil(end, now) = ServerDays!DaysUntil(end, now)
    <3> DEFINE end == reservations[i].end_time
    <3>0. end \in 0..(MaxDays * Day)
      BY <2>1 DEF Rows
    <3> HIDE DEF end
    <3>1. end \in Int
      BY <3>0, <2>0 DEF MaxDays
    <3>2. -((-(end - now)) \div Day) = ((end - now) + Day - 1) \div Day
      <4> DEFINE x == end - now
      <4>1. x \in Int
        BY <2>0, <3>1
      <4> HIDE DEF x
      <4>2. -((-x) \div Day) = (x + Day - 1) \div Day
        BY <4>1, <2>0, CeilingOfDays
      <4> QED
        BY <4>2 DEF x
    <3>3. -(end - now) = now - end
      BY <2>0, <3>1
    <3>4. -((now - end) \div Day) = (end - now + Day - 1) \div Day
      BY <3>2, <3>3
    <3>5. ~isZeroTime(end) => daysUntil(end, now) = ServerDays!DaysUntil(end, now)
      BY <3>4 DEF isZeroTime, daysUntil, ServerDays!DaysUntil, NoEnd, ServerDays!NoEnd
    <3> QED
      BY <3>5 DEF end
  <2>4. ASSUME cardsAt = cellsAt PROVE CardsEqualCells
    <3> DEFINE D == [i \in DOMAIN reservations |-> daysUntil(reservations[i].end_time, cellsAt)]
               N == DOMAIN reservations
               expired  == {i \in N : D[i] # Null /\ D[i] <= 0}
               critical == {i \in N : D[i] # Null /\ D[i] > 0 /\ D[i] <= 7}
               warning  == {i \in N : D[i] # Null /\ D[i] > 7 /\ D[i] <= 30}
               active   == {i \in N : D[i] = Null \/ D[i] > 30}
    <3>1. \A i \in N : D[i] \in Int
      BY <2>0, <2>1, DayCounts DEF Rows
    <3>2. Null \in Int /\ Null > 30
      BY DEF Null, MaxDays
    <3>3. /\ stats(reservations, cardsAt).expired = Cardinality(expired)
          /\ stats(reservations, cardsAt).critical = Cardinality(critical)
          /\ stats(reservations, cardsAt).warning = Cardinality(warning)
          /\ stats(reservations, cardsAt).active = Cardinality(active)
          /\ stats(reservations, cardsAt).total = Len(reservations)
      <4>1. /\ expired = {i \in N : LET d == daysUntil(reservations[i].end_time, cardsAt)
                                   IN  d # Null /\ d <= 0}
            /\ critical = {i \in N : LET d == daysUntil(reservations[i].end_time, cardsAt)
                                    IN  d # Null /\ d > 0 /\ d <= 7}
            /\ warning = {i \in N : LET d == daysUntil(reservations[i].end_time, cardsAt)
                                   IN  d # Null /\ d > 7 /\ d <= 30}
            /\ active = {i \in N : LET d == daysUntil(reservations[i].end_time, cardsAt)
                                  IN  d = Null \/ d > 30}
        BY <2>4
      <4> HIDE DEF expired, critical, warning, active
      <4> QED
        BY <4>1 DEF stats, CountOf
    <3>4. /\ InCells(LAMBDA class, text : text = "Expired") = Cardinality(expired)
          /\ InCells(LAMBDA class, text : class = "critical" /\ text # "Expired")
                = Cardinality(critical)
          /\ InCells(LAMBDA class, text : class = "warning") = Cardinality(warning)
          /\ InCells(LAMBDA class, text : class \in {"none", "normal"}) = Cardinality(active)
      <4>1. \A i \in N :
              /\ i \in expired <=> daysDisplay(D[i]) = "Expired"
              /\ i \in critical <=> daysClass(D[i]) = "critical" /\ daysDisplay(D[i]) # "Expired"
              /\ i \in warning <=> daysClass(D[i]) = "warning"
              /\ i \in active <=> daysClass(D[i]) \in {"none", "normal"}
        <5> SUFFICES ASSUME NEW i \in N
                     PROVE  /\ i \in expired <=> daysDisplay(D[i]) = "Expired"
                            /\ i \in critical <=>
                                 daysClass(D[i]) = "critical" /\ daysDisplay(D[i]) # "Expired"
                            /\ i \in warning <=> daysClass(D[i]) = "warning"
                            /\ i \in active <=> daysClass(D[i]) \in {"none", "normal"}
          OBVIOUS
        <5>1. D[i] \in Int
          BY <3>1
        <5> HIDE DEF D
        <5>2. /\ i \in expired <=> D[i] # Null /\ D[i] <= 0
              /\ i \in critical <=> D[i] # Null /\ D[i] > 0 /\ D[i] <= 7
              /\ i \in warning <=> D[i] # Null /\ D[i] > 7 /\ D[i] <= 30
              /\ i \in active <=> D[i] = Null \/ D[i] > 30
          OBVIOUS
        <5> HIDE DEF expired, critical, warning, active
        <5>3. CASE D[i] = Null
          BY <5>1, <5>2, <5>3, <3>2 DEF daysClass, daysDisplay
        <5>4. CASE D[i] # Null /\ D[i] <= 0
          BY <5>1, <5>2, <5>4, <3>2 DEF daysClass, daysDisplay
        <5>5. CASE D[i] # Null /\ D[i] > 0 /\ D[i] <= 7
          BY <5>1, <5>2, <5>5, <3>2 DEF daysClass, daysDisplay
        <5>6. CASE D[i] # Null /\ D[i] > 7 /\ D[i] <= 30
          BY <5>1, <5>2, <5>6, <3>2 DEF daysClass, daysDisplay
        <5>7. CASE D[i] # Null /\ D[i] > 30
          BY <5>1, <5>2, <5>7, <3>2 DEF daysClass, daysDisplay
        <5> QED
          BY <5>1, <5>3, <5>4, <5>5, <5>6, <5>7
      <4>2. \A i \in N : D[i] = daysUntil(reservations[i].end_time, cellsAt)
        OBVIOUS
      <4>3. expired \subseteq N /\ critical \subseteq N /\ warning \subseteq N /\ active \subseteq N
        OBVIOUS
      <4> HIDE DEF expired, critical, warning, active, D
      <4>4. /\ expired = {i \in N :
                  daysDisplay(daysUntil(reservations[i].end_time, cellsAt)) = "Expired"}
            /\ critical = {i \in N :
                  /\ daysClass(daysUntil(reservations[i].end_time, cellsAt)) = "critical"
                  /\ daysDisplay(daysUntil(reservations[i].end_time, cellsAt)) # "Expired"}
            /\ warning = {i \in N :
                  daysClass(daysUntil(reservations[i].end_time, cellsAt)) = "warning"}
            /\ active = {i \in N :
                  daysClass(daysUntil(reservations[i].end_time, cellsAt)) \in {"none", "normal"}}
        BY <4>1, <4>2, <4>3
      <4> QED
        BY <4>4 DEF InCells, CountOf
    <3>5. Len(reservations) = Cardinality(N) /\ IsFiniteSet(N)
      <4>1. N = 1..Len(reservations) /\ Len(reservations) \in Nat
        BY HeldLists
      <4> HIDE DEF N
      <4> QED
        BY <4>1, FS_Interval
    <3>6. Cardinality(N) = Cardinality(expired) + Cardinality(critical) + Cardinality(warning)
                           + Cardinality(active)
      <4> HIDE DEF N, D
      <4>1. N = ((expired \cup critical) \cup warning) \cup active
        BY <3>1, <3>2
      <4>2. /\ expired \cap critical = {}
            /\ (expired \cup critical) \cap warning = {}
            /\ ((expired \cup critical) \cup warning) \cap active = {}
        BY <3>1, <3>2
      <4> HIDE DEF expired, critical, warning, active
      <4> QED
        BY <4>1, <4>2, <3>5, FourParts
    <3>7. gpuStats.total = gpuStats.onDemand + gpuStats.sp + gpuStats.cb + gpuStats.ri
      <4> DEFINE M == DOMAIN gpuCoverage
                 G(c) == {i \in M : gpuCoverage[i].coverage = c}
      <4>1. /\ gpuStats.total = Len(gpuCoverage)
            /\ gpuStats.onDemand = Cardinality(G("on_demand"))
            /\ gpuStats.sp = Cardinality(G("savings_plan"))
            /\ gpuStats.cb = Cardinality(G("capacity_block"))
            /\ gpuStats.ri = Cardinality(G("reserved_instance"))
        BY DEF gpuStats, CountOf
      <4>2. M = 1..Len(gpuCoverage) /\ Len(gpuCoverage) \in Nat
        BY HeldLists
      <4> HIDE DEF M
      <4>3. Len(gpuCoverage) = Cardinality(M) /\ IsFiniteSet(M)
        BY <4>2, FS_Interval
      <4>4. \A i \in M : gpuCoverage[i].coverage \in
               {"on_demand", "savings_plan", "capacity_block", "reserved_instance"}
        BY <2>2 DEF GPURows, Coverages, M
      <4>5. M = ((G("on_demand") \cup G("savings_plan"))
                                  \cup G("capacity_block")) \cup G("reserved_instance")
        BY <4>4
      <4>6. /\ G("on_demand") \cap G("savings_plan") = {}
            /\ (G("on_demand") \cup G("savings_plan")) \cap G("capacity_block") = {}
            /\ ((G("on_demand") \cup G("savings_plan")) \cup G("capacity_block"))
                  \cap G("reserved_instance") = {}
        OBVIOUS
      <4> HIDE DEF G
      <4>7. Cardinality(M) = Cardinality(G("on_demand")) + Cardinality(G("savings_plan"))
                    + Cardinality(G("capacity_block")) + Cardinality(G("reserved_instance"))
        BY <4>3, <4>5, <4>6, FourParts
      <4> QED
        BY <4>1, <4>3, <4>7
    <3> HIDE DEF expired, critical, warning, active, N, D
    <3> QED
      BY <3>3, <3>4, <3>5, <3>6, <3>7 DEF CardsEqualCells
  <2> QED
    BY <2>3, <2>4 DEF DayCountsAgree
<1> QED
  BY <1>1, ViewTypeCorrect, PTL

\* The order of FilterAndSort, when values decide which row comes after which.
ByValue(S, V) ==
    {p \in S \X S : V[p[2]] > V[p[1]] \/ (~(V[p[1]] > V[p[2]]) /\ p[1] < p[2])}

\* The row at place k of `table' is the one at g[k] of `list': every place in S once,
\* values going up.
IsArrangement(table, list, S, V, g) ==
    /\ Cardinality(S) \in Nat
    /\ g \in [1..Cardinality(S) -> S]
    /\ \A i \in S : \E k \in 1..Cardinality(S) : g[k] = i
    /\ \A k, l \in 1..Cardinality(S) : g[k] = g[l] => k = l
    /\ table = [k \in 1..Cardinality(S) |-> list[g[k]]]
    /\ \A k, l \in 1..Cardinality(S) : k < l => V[g[k]] <= V[g[l]]

\* Rows arranged by their values are all there, each once, and their values go up.
LEMMA ArrangedByValue ==
    ASSUME NEW list, NEW S \in SUBSET Nat, IsFiniteSet(S), NEW V \in [S -> Int]
    PROVE  \E g : IsArrangement(Arrange(list, S, ByValue(S, V)), list, S, V, g)
<1> DEFINE R == ByValue(S, V)
           n == Cardinality(S)
           g == [k \in 1..n |-> CHOOSE i \in S : Place(i, S, R) = k]
<1>1. \A i, j \in S : <<i, j>> \in R <=> V[j] > V[i] \/ (~(V[i] > V[j]) /\ i < j)
  BY DEF ByValue
<1>2. \A i \in S : i \in Nat /\ V[i] \in Int
  OBVIOUS
<1> HIDE DEF R
<1>3. \A i \in S : <<i, i>> \notin R
  BY <1>1, <1>2
<1>4. \A i, j, k \in S : <<i, j>> \in R /\ <<j, k>> \in R => <<i, k>> \in R
  BY <1>1, <1>2
<1>5. \A i, j \in S : i # j => <<i, j>> \in R \/ <<j, i>> \in R
  BY <1>1, <1>2
<1>6. /\ n \in Nat
      /\ \A i \in S : Place(i, S, R) \in 1..n
      /\ \A i, j \in S : <<i, j>> \in R => Place(i, S, R) < Place(j, S, R)
      /\ \A k \in 1..n : \E i \in S : Place(i, S, R) = k
  BY <1>3, <1>4, <1>5, PlacesInOrder
<1> HIDE DEF n
<1>7. \A k \in 1..n : g[k] \in S /\ Place(g[k], S, R) = k
  <2> SUFFICES ASSUME NEW k \in 1..n PROVE g[k] \in S /\ Place(g[k], S, R) = k
    OBVIOUS
  <2>1. \E i \in S : Place(i, S, R) = k
    BY <1>6
  <2>2. g[k] = CHOOSE i \in S : Place(i, S, R) = k
    OBVIOUS
  <2> HIDE DEF g
  <2> QED
    BY <2>1, <2>2
<1>8. Arrange(list, S, R) = [k \in 1..n |-> list[g[k]]]
  BY DEF Arrange, n
<1>9. g \in [1..n -> S]
  BY <1>7
<1> HIDE DEF g
<1>10. \A i, j \in S : Place(i, S, R) = Place(j, S, R) => i = j
  <2> SUFFICES ASSUME NEW i \in S, NEW j \in S, Place(i, S, R) = Place(j, S, R), i # j
               PROVE  FALSE
    OBVIOUS
  <2>1. <<i, j>> \in R \/ <<j, i>> \in R
    BY <1>5
  <2>2. Place(i, S, R) \in Int /\ Place(j, S, R) \in Int
    BY <1>6
  <2> QED
    BY <2>1, <2>2, <1>6
<1>11. \A i \in S : \E k \in 1..n : g[k] = i
  <2> SUFFICES ASSUME NEW i \in S PROVE \E k \in 1..n : g[k] = i
    OBVIOUS
  <2>1. Place(i, S, R) \in 1..n
    BY <1>6
  <2>2. g[Place(i, S, R)] \in S /\ Place(g[Place(i, S, R)], S, R) = Place(i, S, R)
    BY <1>7, <2>1
  <2>3. g[Place(i, S, R)] = i
    BY <2>2, <1>10
  <2> QED
    BY <2>1, <2>3
<1>12. \A k, l \in 1..n : g[k] = g[l] => k = l
  BY <1>7
<1>13. \A k, l \in 1..n : k < l => V[g[k]] <= V[g[l]]
  <2> SUFFICES ASSUME NEW k \in 1..n, NEW l \in 1..n, k < l PROVE V[g[k]] <= V[g[l]]
    OBVIOUS
  <2>1. g[k] \in S /\ g[l] \in S /\ Place(g[k], S, R) = k /\ Place(g[l], S, R) = l
    BY <1>7
  <2>0. k \in Int /\ l \in Int
    OBVIOUS
  <2>2. <<g[l], g[k]>> \notin R
    <3>1. <<g[l], g[k]>> \in R => Place(g[l], S, R) < Place(g[k], S, R)
      BY <2>1, <1>6
    <3> QED
      BY <2>0, <2>1, <3>1
  <2>3. <<g[l], g[k]>> \in R <=>
          V[g[k]] > V[g[l]] \/ (~(V[g[l]] > V[g[k]]) /\ g[l] < g[k])
    BY <2>1, <1>1
  <2>4. V[g[k]] \in Int /\ V[g[l]] \in Int
    BY <2>1, <1>2
  <2> QED
    BY <2>2, <2>3, <2>4
<1> QED
  BY <1>6, <1>8, <1>9, <1>11, <1>12, <1>13 DEF n, R, IsArrangement

\* `table' shows the rows of `list' with the places in S, each once.
ShowsRows(table, list, S) ==
    /\ {table[k].id : k \in DOMAIN table} = {list[i].id : i \in S}
    /\ Len(table) = Cardinality({table[k].id : k \in DOMAIN table})

\* An arrangement shows its rows.
LEMMA ArrangedShows ==
    ASSUME NEW list, DistinctIds(list), NEW S, S \subseteq DOMAIN list,
           NEW table, NEW V, NEW g, IsArrangement(table, list, S, V, g)
    PROVE  ShowsRows(table, list, S)
<1> DEFINE n == Cardinality(S)
<1>0. /\ n \in Nat
      /\ g \in [1..n -> S]
      /\ \A i \in S : \E k \in 1..n : g[k] = i
      /\ \A k, l \in 1..n : g[k] = g[l] => k = l
      /\ table = [k \in 1..n |-> list[g[k]]]
  BY DEF IsArrangement
<1> HIDE DEF n
<1> DEFINE T == {table[k].id : k \in 1..n}
           h == [k \in 1..n |-> table[k].id]
<1>1. DOMAIN table = 1..n /\ \A k \in 1..n : table[k] = list[g[k]]
  BY <1>0
<1>2. T = {list[i].id : i \in S}
  <2>1. ASSUME NEW k \in 1..n PROVE \E i \in S : table[k].id = list[i].id
    BY <1>0, <1>1
  <2>2. ASSUME NEW i \in S PROVE list[i].id \in T
    <3>1. PICK k \in 1..n : g[k] = i
      BY <1>0
    <3>2. list[i].id = table[k].id
      BY <3>1, <1>1
    <3> QED
      BY <3>2
  <2>3. T \subseteq {list[i].id : i \in S}
    BY <2>1, Zenon
  <2> HIDE DEF T
  <2>4. {list[i].id : i \in S} \subseteq T
    BY <2>2
  <2> QED
    BY <2>3, <2>4, Zenon
<1>3. Len(table) = n
  BY <1>0
<1>4. h \in Bijection(1..n, T)
  <2>1. \A k, l \in 1..n : table[k].id = table[l].id => k = l
    <3> SUFFICES ASSUME NEW k \in 1..n, NEW l \in 1..n, table[k].id = table[l].id
                 PROVE  k = l
      OBVIOUS
    <3>1. g[k] \in DOMAIN list /\ g[l] \in DOMAIN list
      BY <1>0
    <3>2. list[g[k]].id = list[g[l]].id
      BY <1>1
    <3> QED
      BY <1>0, <3>1, <3>2 DEF DistinctIds
  <2> QED
    BY <2>1 DEF Bijection, Injection, IsInjective, Surjection
<1>5. Cardinality(T) = Cardinality(1..n)
  <2>1. IsFiniteSet(1..n)
    BY <1>0, FS_Interval
  <2>2. ExistsBijection(1..n, T)
    BY <1>4 DEF ExistsBijection
  <2> QED
    BY <2>1, <2>2, FS_Bijection
<1>6. Cardinality(1..n) = n
  BY <1>0, FS_Interval
<1>7. T = {table[k].id : k \in DOMAIN table}
  BY <1>1
<1> QED
  BY <1>2, <1>3, <1>5, <1>6, <1>7 DEF ShowsRows

\* What rows are compared by, with the sign of the direction.
SortValue(r, key, t) ==
    CASE key = "days_left" -> daysUntil(r.end_time, t)
      [] key = "usage" -> IF UsesCapacity(r) THEN r.used_count ELSE -1
      [] OTHER -> ColumnValue(r, key)
Signed(v, dir) == IF dir = "asc" THEN v ELSE -v

\* The columns of the GPU table hold numbers.
LEMMA GPUColumns ==
    ASSUME NEW g \in GPURows, NEW key \in GPUKeys
    PROVE  ColumnValue(g, key) \in Int
BY DEF GPURows, GPUKeys, ColumnValue

\* Rows are compared by numbers.
LEMMA SortValues ==
    ASSUME NEW r \in Rows, NEW key \in Keys, NEW t \in Nat
    PROVE  SortValue(r, key, t) \in Int
<1>0. /\ r.end_time \in 0..(MaxDays * Day) /\ r.used_count \in Int /\ r.quantity \in Int
      /\ r.account_id \in Nat
  BY DEF Rows
<1>1. r.end_time \in Int
  BY <1>0, ViewAssumption DEF MaxDays
<1>2. CASE key = "days_left"
  BY <1>0, <1>2, DayCounts DEF SortValue
<1>3. CASE key = "usage"
  BY <1>0, <1>3 DEF SortValue
<1>4. CASE key \in {"account_id", "quantity", "end_time"}
  BY <1>0, <1>1, <1>4 DEF SortValue, ColumnValue
<1> QED
  BY <1>2, <1>3, <1>4 DEF Keys

\* A comparison with its sign says which of two values is the larger.
LEMMA SignOfComparison ==
    ASSUME NEW v \in Int, NEW w \in Int, NEW c \in Int, NEW dir \in {"asc", "desc"},
           c > 0 <=> v > w, c < 0 <=> v < w
    PROVE  c * Sign(dir) > 0 <=> Signed(v, dir) > Signed(w, dir)
<1>1. CASE dir = "asc"
  BY <1>1 DEF Sign, Signed
<1>2. CASE dir = "desc"
  BY <1>2 DEF Sign, Signed
<1> QED
  BY <1>1, <1>2

\* Compare says which of two rows has the larger value.
LEMMA CompareBySortValue ==
    ASSUME NEW a \in Rows, NEW b \in Rows, NEW key \in Keys, NEW t \in Nat
    PROVE  /\ Compare(a, b, key, t) \in Int
           /\ Compare(a, b, key, t) > 0 <=> SortValue(a, key, t) > SortValue(b, key, t)
           /\ Compare(a, b, key, t) < 0 <=> SortValue(a, key, t) < SortValue(b, key, t)
<1>1. SortValue(a, key, t) \in Int /\ SortValue(b, key, t) \in Int
  BY SortValues
<1>2. CASE key \in {"days_left", "usage"}
  <2>1. Compare(a, b, key, t) = SortValue(a, key, t) - SortValue(b, key, t)
    BY <1>2 DEF Compare, SortValue
  <2> QED
    BY <1>1, <2>1
<1>3. CASE key \notin {"days_left", "usage"}
  <2>1. /\ Compare(a, b, key, t) = compareValues(a, b, key)
        /\ SortValue(a, key, t) = ColumnValue(a, key)
        /\ SortValue(b, key, t) = ColumnValue(b, key)
    BY <1>3 DEF Compare, SortValue
  <2> QED
    BY <1>1, <2>1 DEF compareValues
<1> QED
  BY <1>2, <1>3

\* The table of reservations shows the rows that pass, in order.
LEMMA ReservationsShown ==
    ASSUME ViewTypeOK
    PROVE  /\ Shows(filteredReservations, reservations, Passes)
           /\ sortKey # NoKey => InOrder(filteredReservations, sortDir, CellValue,
                                        IF sortKey = "days_left" THEN 1 ELSE 0)
<1> DEFINE S == {i \in DOMAIN reservations : Passes(reservations[i])}
           U == [i \in S |-> SortValue(reservations[i], sortKey, orderAt)]
           V == [i \in S |-> IF sortKey = NoKey THEN 0 ELSE Signed(U[i], sortDir)]
<1>0. /\ orderAt \in Nat /\ cellsAt \in Nat
      /\ sortKey \in Keys \cup {NoKey} /\ sortDir \in {"asc", "desc"}
  BY ViewAssumption DEF ViewTypeOK
<1>1. /\ \A i \in DOMAIN reservations : reservations[i] \in Rows
      /\ DistinctIds(reservations)
      /\ DOMAIN reservations = 1..Len(reservations) /\ Len(reservations) \in Nat
  BY HeldLists
<1>2. S \in SUBSET DOMAIN reservations /\ S \in SUBSET Nat /\ IsFiniteSet(S)
  <2>1. S \in SUBSET (1..Len(reservations))
    BY <1>1
  <2>2. IsFiniteSet(1..Len(reservations))
    BY <1>1, FS_Interval
  <2> HIDE DEF S
  <2>3. IsFiniteSet(S)
    BY <2>1, <2>2, FS_Subset
  <2> QED
    BY <1>1, <2>1, <2>3
<1>3. \A i \in S : reservations[i] \in Rows
  BY <1>1
<1>4. sortKey # NoKey => \A i \in S : U[i] \in Int
  BY <1>0, <1>3, SortValues
<1> HIDE DEF U
<1>5. V \in [S -> Int]
  BY <1>4 DEF Signed
<1>6. filteredReservations = Arrange(reservations, S, ByValue(S, V))
  <2> DEFINE After(i, j) ==
          sortKey # NoKey
          /\ Compare(reservations[i], reservations[j], sortKey, orderAt) * Sign(sortDir) > 0
  <2>1. \A i, j \in S : After(i, j) <=> V[i] > V[j]
    <3> SUFFICES ASSUME NEW i \in S, NEW j \in S PROVE After(i, j) <=> V[i] > V[j]
      OBVIOUS
    <3>1. CASE sortKey = NoKey
      BY <3>1
    <3>2. CASE sortKey # NoKey
      <4> DEFINE c == Compare(reservations[i], reservations[j], sortKey, orderAt)
      <4>1. c \in Int /\ (c > 0 <=> U[i] > U[j]) /\ (c < 0 <=> U[i] < U[j])
        BY <1>0, <1>3, <3>2, CompareBySortValue DEF U
      <4>2. V[i] = Signed(U[i], sortDir) /\ V[j] = Signed(U[j], sortDir)
        BY <3>2
      <4>3. U[i] \in Int /\ U[j] \in Int
        BY <1>4, <3>2
      <4> HIDE DEF c, V
      <4>4. c * Sign(sortDir) > 0 <=> Signed(U[i], sortDir) > Signed(U[j], sortDir)
        BY <1>0, <4>1, <4>3, SignOfComparison
      <4> QED
        BY <3>2, <4>2, <4>4 DEF c
    <3> QED
      BY <3>1, <3>2
  <2> HIDE DEF After, S, V
  <2> DEFINE R == {p \in S \X S : After(p[2], p[1]) \/ (~After(p[1], p[2]) /\ p[1] < p[2])}
  <2>2. ByValue(S, V) = R
    <3>1. \A p \in S \X S : p[1] \in S /\ p[2] \in S
      OBVIOUS
    <3>2. \A p \in S \X S : p \in ByValue(S, V) <=> p \in R
      <4> SUFFICES ASSUME NEW p \in S \X S PROVE p \in ByValue(S, V) <=> p \in R
        OBVIOUS
      <4>1. (After(p[2], p[1]) <=> V[p[2]] > V[p[1]]) /\ (After(p[1], p[2]) <=> V[p[1]] > V[p[2]])
        BY <2>1, <3>1
      <4> QED
        BY <4>1, Zenon DEF ByValue
    <3>3. ByValue(S, V) \subseteq S \X S /\ R \subseteq S \X S
      BY Zenon DEF ByValue
    <3> HIDE DEF R
    <3> QED
      BY <3>2, <3>3, Zenon
  <2>3. filteredReservations = Arrange(reservations, S, R)
    BY DEF filteredReservations, FilterAndSort, After, S
  <2> QED
    BY <2>2, <2>3
<1> HIDE DEF S, V
<1>7. PICK g : IsArrangement(filteredReservations, reservations, S, V, g)
  BY <1>2, <1>5, <1>6, ArrangedByValue
<1>8. /\ filteredReservations = [k \in 1..Cardinality(S) |-> reservations[g[k]]]
      /\ g \in [1..Cardinality(S) -> S]
      /\ \A k, l \in 1..Cardinality(S) : k < l => V[g[k]] <= V[g[l]]
  BY <1>7 DEF IsArrangement
<1>9. ShowsRows(filteredReservations, reservations, S)
  BY <1>1, <1>2, <1>7, ArrangedShows
<1>10. Shows(filteredReservations, reservations, Passes)
  BY <1>9 DEF Shows, ShowsRows, S
<1>11. ASSUME sortKey # NoKey
       PROVE  InOrder(filteredReservations, sortDir, CellValue,
                      IF sortKey = "days_left" THEN 1 ELSE 0)
  <2> DEFINE slack == IF sortKey = "days_left" THEN 1 ELSE 0
  <2>1. DOMAIN filteredReservations = 1..Cardinality(S)
    BY <1>8
  <2>2. ASSUME NEW i \in S, NEW j \in S, U[i] <= U[j]
        PROVE  CellValue(reservations[i]) <= CellValue(reservations[j]) + slack
    <3>1. CASE sortKey = "days_left"
      <4>1. /\ reservations[i].end_time \in 0..(MaxDays * Day)
            /\ reservations[j].end_time \in 0..(MaxDays * Day)
        BY <1>3 DEF Rows
      <4>2. daysUntil(reservations[i].end_time, orderAt)
              <= daysUntil(reservations[j].end_time, orderAt)
        BY <2>2, <3>1 DEF U, SortValue
      <4>3. daysUntil(reservations[i].end_time, cellsAt)
              <= daysUntil(reservations[j].end_time, cellsAt) + 1
        BY <1>0, <4>1, <4>2, DayShift
      <4> QED
        BY <3>1, <4>3 DEF CellValue
    <3>2. CASE sortKey # "days_left"
      <4>1. CellValue(reservations[i]) = U[i] /\ CellValue(reservations[j]) = U[j]
        BY <3>2 DEF CellValue, U, SortValue
      <4>2. U[i] \in Int /\ U[j] \in Int
        BY <1>4, <1>11
      <4> QED
        BY <2>2, <3>2, <4>1, <4>2
    <3> QED
      BY <3>1, <3>2
  <2>3. ASSUME NEW k \in 1..Cardinality(S), NEW l \in 1..Cardinality(S), k < l
        PROVE  IF sortDir = "asc"
               THEN CellValue(filteredReservations[k])
                      <= CellValue(filteredReservations[l]) + slack
               ELSE CellValue(filteredReservations[k]) + slack
                      >= CellValue(filteredReservations[l])
    <3>1. /\ filteredReservations[k] = reservations[g[k]]
          /\ filteredReservations[l] = reservations[g[l]]
      BY <1>8
    <3>2. g[k] \in S /\ g[l] \in S
      BY <1>8
    <3>3. Signed(U[g[k]], sortDir) <= Signed(U[g[l]], sortDir)
      <4>1. V[g[k]] <= V[g[l]]
        BY <1>8, <2>3
      <4> QED
        BY <3>2, <4>1, <1>11 DEF V
    <3>4. U[g[k]] \in Int /\ U[g[l]] \in Int
      BY <1>4, <1>11, <3>2
    <3>5. CASE sortDir = "asc"
      <4>1. U[g[k]] <= U[g[l]]
        BY <3>3, <3>5 DEF Signed
      <4>2. CellValue(reservations[g[k]]) <= CellValue(reservations[g[l]]) + slack
        BY <2>2, <3>2, <4>1
      <4> QED
        BY <3>1, <3>5, <4>2
    <3>6. CASE sortDir # "asc"
      <4>1. U[g[l]] <= U[g[k]]
        BY <3>3, <3>4, <3>6 DEF Signed
      <4>2. CellValue(reservations[g[l]]) <= CellValue(reservations[g[k]]) + slack
        BY <2>2, <3>2, <4>1
      <4> QED
        BY <3>1, <3>6, <4>2
    <3> QED
      BY <3>5, <3>6
  <2> QED
    BY <2>1, <2>3 DEF InOrder
<1> QED
  BY <1>10, <1>11
\* The same of the GPU table.
LEMMA GPUCoverageShown ==
    ASSUME ViewTypeOK
    PROVE  /\ Shows(filteredGPUCoverage, gpuCoverage, GPUPasses)
           /\ gpuSortKey # NoKey => InOrder(filteredGPUCoverage, gpuSortDir,
                                           LAMBDA g : ColumnValue(g, gpuSortKey), 0)
<1> DEFINE S == {i \in DOMAIN gpuCoverage : GPUPasses(gpuCoverage[i])}
           U == [i \in S |-> ColumnValue(gpuCoverage[i], gpuSortKey)]
           V == [i \in S |-> IF gpuSortKey = NoKey THEN 0 ELSE Signed(U[i], gpuSortDir)]
<1>0. /\ gpuSortKey \in GPUKeys \cup {NoKey} /\ gpuSortDir \in {"asc", "desc"}
  BY ViewAssumption DEF ViewTypeOK
<1>1. /\ \A i \in DOMAIN gpuCoverage : gpuCoverage[i] \in GPURows
      /\ DistinctIds(gpuCoverage)
      /\ DOMAIN gpuCoverage = 1..Len(gpuCoverage) /\ Len(gpuCoverage) \in Nat
  BY HeldLists
<1>2. S \in SUBSET DOMAIN gpuCoverage /\ S \in SUBSET Nat /\ IsFiniteSet(S)
  <2>1. S \in SUBSET (1..Len(gpuCoverage))
    BY <1>1
  <2>2. IsFiniteSet(1..Len(gpuCoverage))
    BY <1>1, FS_Interval
  <2> HIDE DEF S
  <2>3. IsFiniteSet(S)
    BY <2>1, <2>2, FS_Subset
  <2> QED
    BY <1>1, <2>1, <2>3
<1>3. \A i \in S : gpuCoverage[i] \in GPURows
  BY <1>1
<1>4. gpuSortKey # NoKey => \A i \in S : U[i] \in Int
  BY <1>0, <1>3, GPUColumns
<1> HIDE DEF U
<1>5. V \in [S -> Int]
  BY <1>4 DEF Signed
<1>6. filteredGPUCoverage = Arrange(gpuCoverage, S, ByValue(S, V))
  <2> DEFINE After(i, j) ==
          gpuSortKey # NoKey
          /\ compareValues(gpuCoverage[i], gpuCoverage[j], gpuSortKey) * Sign(gpuSortDir) > 0
  <2>1. \A i, j \in S : After(i, j) <=> V[i] > V[j]
    <3> SUFFICES ASSUME NEW i \in S, NEW j \in S PROVE After(i, j) <=> V[i] > V[j]
      OBVIOUS
    <3>1. CASE gpuSortKey = NoKey
      BY <3>1
    <3>2. CASE gpuSortKey # NoKey
      <4> DEFINE c == compareValues(gpuCoverage[i], gpuCoverage[j], gpuSortKey)
      <4>1. c \in Int /\ (c > 0 <=> U[i] > U[j]) /\ (c < 0 <=> U[i] < U[j])
        BY <1>4, <3>2 DEF U, compareValues
      <4>2. V[i] = Signed(U[i], gpuSortDir) /\ V[j] = Signed(U[j], gpuSortDir)
        BY <3>2
      <4>3. U[i] \in Int /\ U[j] \in Int
        BY <1>4, <3>2
      <4> HIDE DEF c, V
      <4>4. c * Sign(gpuSortDir) > 0 <=> Signed(U[i], gpuSortDir) > Signed(U[j], gpuSortDir)
        BY <1>0, <4>1, <4>3, SignOfComparison
      <4> QED
        BY <3>2, <4>2, <4>4 DEF c
    <3> QED
      BY <3>1, <3>2
  <2> HIDE DEF After, S, V
  <2> DEFINE R == {p \in S \X S : After(p[2], p[1]) \/ (~After(p[1], p[2]) /\ p[1] < p[2])}
  <2>2. ByValue(S, V) = R
    <3>1. \A p \in S \X S : p[1] \in S /\ p[2] \in S
      OBVIOUS
    <3>2. \A p \in S \X S : p \in ByValue(S, V) <=> p \in R
      <4> SUFFICES ASSUME NEW p \in S \X S PROVE p \in ByValue(S, V) <=> p \in R
        OBVIOUS
      <4>1. (After(p[2], p[1]) <=> V[p[2]] > V[p[1]]) /\ (After(p[1], p[2]) <=> V[p[1]] > V[p[2]])
        BY <2>1, <3>1
      <4> QED
        BY <4>1, Zenon DEF ByValue
    <3>3. ByValue(S, V) \subseteq S \X S /\ R \subseteq S \X S
      BY Zenon DEF ByValue
    <3> HIDE DEF R
    <3> QED
      BY <3>2, <3>3, Zenon
  <2>3. filteredGPUCoverage = Arrange(gpuCoverage, S, R)
    BY DEF filteredGPUCoverage, FilterAndSort, After, S
  <2> QED
    BY <2>2, <2>3
<1> HIDE DEF S, V
<1>7. PICK g : IsArrangement(filteredGPUCoverage, gpuCoverage, S, V, g)
  BY <1>2, <1>5, <1>6, ArrangedByValue
<1>8. /\ filteredGPUCoverage = [k \in 1..Cardinality(S) |-> gpuCoverage[g[k]]]
      /\ g \in [1..Cardinality(S) -> S]
      /\ \A k, l \in 1..Cardinality(S) : k < l => V[g[k]] <= V[g[l]]
  BY <1>7 DEF IsArrangement
<1>9. ShowsRows(filteredGPUCoverage, gpuCoverage, S)
  BY <1>1, <1>2, <1>7, ArrangedShows
<1>10. Shows(filteredGPUCoverage, gpuCoverage, GPUPasses)
  BY <1>9 DEF Shows, ShowsRows, S
<1>11. ASSUME gpuSortKey # NoKey
       PROVE  InOrder(filteredGPUCoverage, gpuSortDir, LAMBDA c : ColumnValue(c, gpuSortKey), 0)
  <2>1. DOMAIN filteredGPUCoverage = 1..Cardinality(S)
    BY <1>8
  <2>2. ASSUME NEW k \in 1..Cardinality(S), NEW l \in 1..Cardinality(S), k < l
        PROVE  IF gpuSortDir = "asc"
               THEN ColumnValue(filteredGPUCoverage[k], gpuSortKey)
                      <= ColumnValue(filteredGPUCoverage[l], gpuSortKey) + 0
               ELSE ColumnValue(filteredGPUCoverage[k], gpuSortKey) + 0
                      >= ColumnValue(filteredGPUCoverage[l], gpuSortKey)
    <3>1. g[k] \in S /\ g[l] \in S
      BY <1>8
    <3>2. /\ ColumnValue(filteredGPUCoverage[k], gpuSortKey) = U[g[k]]
          /\ ColumnValue(filteredGPUCoverage[l], gpuSortKey) = U[g[l]]
      BY <1>8, <3>1 DEF U
    <3>3. Signed(U[g[k]], gpuSortDir) <= Signed(U[g[l]], gpuSortDir)
      <4>1. V[g[k]] <= V[g[l]]
        BY <1>8, <2>2
      <4> QED
        BY <3>1, <4>1, <1>11 DEF V
    <3>4. U[g[k]] \in Int /\ U[g[l]] \in Int
      BY <1>4, <1>11, <3>1
    <3> QED
      BY <3>2, <3>3, <3>4 DEF Signed
  <2> QED
    BY <2>1, <2>2 DEF InOrder
<1> QED
  BY <1>10, <1>11

\* filteredReservations and filteredGPUCoverage show exactly the rows that pass the
\* filters, each once and in the order of the column heading, for lists of any
\* length; with days left shown later at most one day is out of order.
THEOREM OrderAlwaysShown == ViewSpec => []OrderShown
<1>1. ViewTypeOK => OrderShown
  BY ReservationsShown, GPUCoverageShown DEF OrderShown
<1> QED
  BY <1>1, ViewTypeCorrect, PTL
=============================================================================
