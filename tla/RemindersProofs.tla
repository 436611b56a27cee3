--------------------------- MODULE RemindersProofs ---------------------------
(***************************************************************************)
(* Proofs about Reminders for every set of reservations, instances, dates  *)
(* and instants, any number of notifiers and any remind_days.              *)
(***************************************************************************)
EXTENDS Reminders, FiniteSetTheorems, WellFoundedInduction, TLAPS

-----------------------------------------------------------------------------
(* The keys.                                                               *)

\* Min picks the least element of a set of naturals, as the loop of
\* CrossedThreshold does.
LEMMA MinOfNats ==
    ASSUME NEW S \in SUBSET Nat, S # {}
    PROVE  /\ Min(S) \in S
           /\ \A y \in S : Min(S) <= y
<1> DEFINE R == {p \in Nat \X Nat : p[1] < p[2]}
<1>0. IsWellFoundedOn(R, Nat)
  BY NatLessThanWellFounded, Zenon DEF OpToRel
<1> HIDE DEF R
<1>1. PICK x \in S : \A y \in S : ~(<<y, x>> \in R)
  BY <1>0, WFMin
<1>2. \A y \in S : x <= y
  <2>1. SUFFICES ASSUME NEW y \in S, ~(<<y, x>> \in R) PROVE x <= y
    BY <1>1
  <2>2. x \in Nat /\ y \in Nat
    OBVIOUS
  <2>3. QED
    BY <2>1, <2>2 DEF R
<1>3. QED
  BY <1>2 DEF Min

\* A key is always a configured threshold or one of the four levels.
LEMMA NotifyKeyType ==
    ASSUME NEW e \in Int, NEW t \in Int
    PROVE  NotifyKey(e, t) \in Keys
<1> DEFINE d == DaysUntil(e, t)
<1>1. d \in Int
  BY DayAssumption DEF DaysUntil
<1>2. CrossedThreshold(d) \in RemindDays \cup {0}
  <2>1. CASE {n \in RemindDays : n >= d} # {}
    BY <2>1, MinOfNats, RemindDaysAssumption DEF CrossedThreshold
  <2>2. CASE {n \in RemindDays : n >= d} = {} /\ RemindDays # {}
    BY <2>2, MinOfNats, RemindDaysAssumption DEF CrossedThreshold
  <2>3. CASE {n \in RemindDays : n >= d} = {} /\ RemindDays = {}
    BY <2>3 DEF CrossedThreshold
  <2>4. QED
    BY <2>1, <2>2, <2>3
<1>3. CalcAlertLevel(d) \in Levels
  BY <1>1 DEF CalcAlertLevel, Levels
<1>4. QED
  BY <1>2, <1>3, RemindDaysAssumption DEF NotifyKey, Keys

-----------------------------------------------------------------------------
(* Type correctness.                                                       *)

\* Returning from a check keeps the goroutine's state in its types.
LEMMA EndCheckType ==
    ASSUME TypeOK, EndCheck
    PROVE  /\ pc' \in Steps
           /\ check' \in Checks
           /\ rowsRead' \subseteq Snapshots
           /\ batch' \subseteq Reminder
           /\ turn' \in 1..(NumNotifiers + 1)
           /\ anySent' \in BOOLEAN
<1>1. rowsRead' \subseteq Snapshots /\ batch' \subseteq Reminder /\ anySent' \in BOOLEAN
  BY DEF EndCheck
<1>2. pc' \in Steps /\ check' \in Checks
  BY DEF EndCheck, Steps, Checks
<1>3. turn' \in 1..(NumNotifiers + 1)
  BY NotifiersAssumption DEF EndCheck
<1>4. QED
  BY <1>1, <1>2, <1>3

\* What a check reads, and the reminders made of it, are of their types.
LEMMA QueryType ==
    ASSUME TypeOK, Query
    PROVE  rowsRead' \subseteq Snapshots
<1>1. CASE check = "expiry"
  <2>1. \A r \in Resources : row[r].end \in Ends \cup {NoEnd}
    BY DEF TypeOK, Rows, NoRow
  <2>2. QED
    BY <1>1, <2>1 DEF Query, Snapshots
<1>2. CASE check # "expiry"
  BY <1>2 DEF Query, Snapshots
<1>3. QED
  BY <1>1, <1>2

\* The reminder NewAlert makes of a row read is of its type.
LEMMA ReminderType ==
    ASSUME TypeOK, NEW x \in rowsRead
    PROVE  ReminderFor(x) \in Reminder
<1>1. x \in Snapshots
  BY DEF TypeOK
<1>2. x.end \in Int /\ clock \in Int
  <2>1. x.end \in Ends \cup {NoEnd}
    BY <1>1 DEF Snapshots
  <2>2. clock \in Nat
    BY DEF TypeOK
  <2>3. \A e \in Ends \cup {NoEnd} : e \in Int
    BY EndsAssumption DEF NoEnd
  <2>4. QED
    BY <2>1, <2>2, <2>3
<1>3. NotifyKey(x.end, clock) \in Keys
  BY <1>2, NotifyKeyType
<1>4. QED
  BY <1>1, <1>3 DEF ReminderFor, Reminder, Snapshots

\* Dropping what is already in notify_log leaves the state in its types.
LEMMA FilterType ==
    ASSUME TypeOK, NEW failed, FilterRows(failed)
    PROVE  TypeOK'
<1> DEFINE pending == {a \in {ReminderFor(x) : x \in rowsRead \ failed} :
                          ~HasNotified(a)}
<1>1. pending \subseteq Reminder
  BY ReminderType
<1>2. UNCHANGED <<clock, row, gpu, notifyLog, booting, crashes, posted,
                  accepted, owed>>
  BY DEF FilterRows, tables, history
<1>3. CASE pending = {}
  <2>1. EndCheck
    BY <1>3 DEF FilterRows
  <2>2. QED
    BY <1>2, <2>1, EndCheckType DEF TypeOK
<1>4. CASE pending # {}
  <2>1. batch' = pending /\ pc' = "send" /\ UNCHANGED <<rowsRead, check, turn, anySent>>
    BY <1>4 DEF FilterRows
  <2> HIDE DEF pending
  <2>2. QED
    BY <1>1, <1>2, <2>1 DEF TypeOK, Steps
<1>5. QED
  BY <1>3, <1>4

\* Every step of the goroutine and of its surroundings keeps every variable
\* in its type; in particular the notifier loop never runs past its end and
\* only what reached a channel is ever accepted or owed.
LEMMA TypeStep ==
    ASSUME TypeOK, [Next]_vars
    PROVE  TypeOK'
<1> USE DEF tables, check_vars, history
<1>1. CASE Tick
  BY <1>1, TimesAssumption DEF Tick, TypeOK
<1>2. ASSUME NEW r \in Resources, WriteRow(r) PROVE TypeOK'
  BY <1>2 DEF WriteRow, TypeOK
<1>3. ASSUME NEW i \in Instances, WriteCoverage(i) PROVE TypeOK'
  BY <1>3 DEF WriteCoverage, TypeOK
<1>4. CASE SyncTick \/ AlertTick \/ SyncDone
  BY <1>4 DEF SyncTick, AlertTick, SyncDone, TypeOK, Steps
<1>5. CASE PruneNotifyLog \/ PruneFails
  BY <1>5 DEF PruneNotifyLog, PruneFails, Prune, TypeOK, Steps
<1>6. CASE SkipCheck
  BY <1>6, EndCheckType DEF SkipCheck, TypeOK
<1>7. CASE Query
  BY <1>7, QueryType DEF Query, TypeOK, Steps
<1>8. CASE Filter \/ FilterWithErrors
  BY <1>8, FilterType DEF Filter, FilterWithErrors
<1>9. CASE SendAccepted
  BY <1>9, NotifiersAssumption DEF SendAccepted, TypeOK
<1>10. CASE SendFails
  BY <1>10, NotifiersAssumption DEF SendFails, TypeOK
<1>11. CASE AllTried
  <2>1. CASE anySent
    BY <1>11, <2>1 DEF AllTried, TypeOK, Steps
  <2>2. CASE ~anySent
    BY <1>11, <2>2, EndCheckType DEF AllTried, TypeOK
  <2>3. QED
    BY <2>1, <2>2
<1>12. CASE MarkNotifiedBatch
  BY <1>12, EndCheckType DEF MarkNotifiedBatch, TypeOK
<1>13. CASE MarkFails
  BY <1>13, EndCheckType DEF MarkFails, TypeOK
<1>14. CASE Crash
  <2>1. /\ UNCHANGED <<clock, row, gpu, notifyLog, posted, accepted>>
        /\ pc' \in Steps /\ check' \in Checks
        /\ rowsRead' \subseteq Snapshots /\ batch' \subseteq Reminder
        /\ booting' \in BOOLEAN /\ anySent' \in BOOLEAN
    BY <1>14 DEF Crash, Steps, Checks
  <2>2. turn' \in 1..(NumNotifiers + 1) /\ crashes' \in 0..MaxCrashes
    BY <1>14, CrashesAssumption, NotifiersAssumption DEF Crash, TypeOK
  <2>3. owed' \subseteq posted'
    BY <1>14 DEF Crash, TypeOK
  <2>4. QED
    BY <2>1, <2>2, <2>3 DEF TypeOK
<1>15. CASE UNCHANGED vars
  BY <1>15 DEF vars, TypeOK
<1>16. QED
  BY <1>1, <1>2, <1>3, <1>4, <1>5, <1>6, <1>7, <1>8, <1>9, <1>10, <1>11,
     <1>12, <1>13, <1>14, <1>15 DEF Next, Cron, CronWork

\* The process starts in its types.
LEMMA TypeInit == Init => TypeOK
<1> SUFFICES ASSUME Init PROVE TypeOK
  OBVIOUS
<1>1. row \in [Resources -> Rows] /\ gpu \in [Instances -> Coverages]
  BY DEF Init, Rows, Coverages
<1>2. pc \in Steps /\ check \in Checks /\ booting \in BOOLEAN /\ anySent \in BOOLEAN
  BY DEF Init, Steps, Checks
<1>3. turn \in 1..(NumNotifiers + 1) /\ crashes \in 0..MaxCrashes
  BY NotifiersAssumption, CrashesAssumption DEF Init
<1>4. clock \in Nat
  BY DEF Init
<1>5. QED
  BY <1>1, <1>2, <1>3, <1>4 DEF Init, TypeOK

\* Every variable of the cron goroutine and of the tables it uses keeps its
\* type, for every configuration.
THEOREM TypeCorrect == Spec => []TypeOK
<1>1. Init => TypeOK
  BY TypeInit
<1>2. TypeOK /\ [Next]_vars => TypeOK'
  BY TypeStep
<1>3. QED
  BY <1>1, <1>2, PTL DEF Spec

-----------------------------------------------------------------------------
(* The safety invariants.                                                  *)

\* A step that abandons the goroutine's state (a check returns, the process
\* restarts) preserves the invariant when whatever the batch had already
\* posted is recorded or owed.
LEMMA ForgetStep ==
    ASSUME IInv,
           rowsRead' = {}, batch' = {}, anySent' = FALSE,
           pc' \notin {"filter", "send", "mark"},
           clock' = clock, posted' = posted, accepted' = accepted,
           notifyLog \subseteq notifyLog', notifyLog' \subseteq accepted,
           owed \subseteq owed',
           batch \cap posted \subseteq notifyLog' \cup owed'
    PROVE  /\ MarkedWasAccepted'
           /\ RepeatOnlyIfOwed'
           /\ HoldsByStep'
           /\ SentWasAccepted'
           /\ PostedIsAccountedFor'
<1>1. MarkedWasAccepted'
  BY DEF MarkedWasAccepted
<1>2. RepeatOnlyIfOwed'
  BY DEF RepeatOnlyIfOwed
<1>3. HoldsByStep'
  BY DEF HoldsByStep
<1>4. SentWasAccepted'
  BY DEF SentWasAccepted
<1>5. PostedIsAccountedFor'
  <2>1. SUFFICES ASSUME NEW a \in posted
                 PROVE  a \in notifyLog' \/ a \in owed' \/ Lapsed(a)'
    BY DEF PostedIsAccountedFor
  <2>2. a \in notifyLog \/ a \in owed \/ a \in batch \/ Lapsed(a)
    BY DEF IInv, PostedIsAccountedFor
  <2>3. Lapsed(a) => Lapsed(a)'
    BY DEF Lapsed
  <2>4. QED
    BY <2>2, <2>3
<1>6. QED
  BY <1>1, <1>2, <1>3, <1>4, <1>5

\* The facts of EndCheck that ForgetStep needs.
LEMMA EndCheckForgets ==
    ASSUME EndCheck
    PROVE  /\ rowsRead' = {} /\ batch' = {} /\ anySent' = FALSE
           /\ pc' \notin {"filter", "send", "mark"}
BY DEF EndCheck

\* Reading the table: a date read is still to come, so it is not lapsed.
LEMMA QueryStep ==
    ASSUME IInv, Query
    PROVE  IInv'
<1> USE DEF tables, check_vars, history
<1>1. TypeOK'
  BY TypeStep DEF IInv, Next, Cron, CronWork
<1>2. batch = {} /\ batch' = {} /\ pc' = "filter" /\ ~anySent
  BY DEF IInv, HoldsByStep, Query
<1>3. UNCHANGED <<clock, notifyLog, posted, accepted, owed, anySent>>
  BY DEF Query
<1>4. \A x \in rowsRead' : x.end = NoEnd \/ x.end > clock
  <2>1. CASE check = "expiry"
    BY <2>1 DEF Query, InWindow
  <2>2. CASE check # "expiry"
    BY <2>2 DEF Query
  <2>3. QED
    BY <2>1, <2>2
<1>5. PostedIsAccountedFor'
  <2>1. SUFFICES ASSUME NEW a \in posted, Lapsed(a)
                 PROVE  Lapsed(a)'
    BY <1>2, <1>3 DEF IInv, PostedIsAccountedFor
  <2>2. a.end \in Int /\ clock \in Int
    <3>1. a \in Reminder /\ clock \in Nat
      BY DEF IInv, TypeOK
    <3>2. \A e \in Ends \cup {NoEnd} : e \in Int
      BY EndsAssumption DEF NoEnd
    <3>3. QED
      BY <3>1, <3>2 DEF Reminder
  <2>3. ASSUME NEW x \in rowsRead', x.id = a.id, x.end = a.end PROVE FALSE
    BY <1>4, <2>1, <2>2, <2>3 DEF Lapsed
  <2>4. QED
    BY <1>3, <2>1, <2>3 DEF Lapsed
<1>6. QED
  BY <1>1, <1>2, <1>3, <1>5
     DEF IInv, MarkedWasAccepted, RepeatOnlyIfOwed, HoldsByStep,
         SentWasAccepted

\* Filtering: what remains is not recorded, and a reminder already posted but
\* not recorded is owed, because a lapsed one is not among the rows read.
LEMMA FilterStep ==
    ASSUME IInv, NEW failed, FilterRows(failed)
    PROVE  IInv'
<1> DEFINE pending == {a \in {ReminderFor(x) : x \in rowsRead \ failed} :
                          ~HasNotified(a)}
<1>1. TypeOK'
  BY FilterType DEF IInv
<1>2. UNCHANGED <<clock, row, gpu, notifyLog, booting, crashes, posted,
                  accepted, owed>>
  BY DEF FilterRows, tables, history
<1>3. batch = {} /\ pc = "filter" /\ ~anySent
  BY DEF IInv, HoldsByStep, FilterRows
<1>4. CASE pending = {}
  <2>1. EndCheck
    BY <1>4 DEF FilterRows
  <2>2. notifyLog \subseteq accepted
    BY DEF IInv, MarkedWasAccepted
  <2>3. QED
    BY <1>1, <1>2, <1>3, <2>1, <2>2, EndCheckForgets, ForgetStep DEF IInv
<1>5. CASE pending # {}
  <2>1. batch' = pending /\ pc' = "send" /\ UNCHANGED <<rowsRead, check, turn, anySent>>
    BY <1>5 DEF FilterRows
  <2>2. \A a \in pending : /\ a \notin notifyLog
                           /\ \E x \in rowsRead : x.id = a.id /\ x.end = a.end
    BY DEF HasNotified, ReminderFor
  <2> HIDE DEF pending
  <2>3. pending \cap posted \subseteq owed
    BY <1>3, <2>2 DEF IInv, PostedIsAccountedFor, Lapsed
  <2>4. RepeatOnlyIfOwed' /\ MarkedWasAccepted'
    BY <1>2, <2>1, <2>3 DEF IInv, RepeatOnlyIfOwed, MarkedWasAccepted
  <2>5. HoldsByStep'
    BY <2>1, <2>2 DEF HoldsByStep
  <2>6. SentWasAccepted'
    BY <1>3, <2>1 DEF SentWasAccepted
  <2>7. PostedIsAccountedFor'
    BY <1>2, <1>3, <2>1 DEF IInv, PostedIsAccountedFor, Lapsed
  <2>8. QED
    BY <1>1, <2>4, <2>5, <2>6, <2>7 DEF IInv
<1>6. QED
  BY <1>4, <1>5

\* Every step preserves the invariant.
LEMMA InvStep ==
    ASSUME IInv, [Next]_vars
    PROVE  IInv'
<1> USE DEF tables, check_vars, history
<1>0. TypeOK' /\ notifyLog \subseteq accepted
  BY TypeStep DEF IInv, MarkedWasAccepted
<1>1. CASE Tick
  <2>1. clock' >= clock /\ clock \in Nat /\ clock' \in Nat
    BY <1>1, TimesAssumption DEF Tick, IInv, TypeOK
  <2>2. \A a \in posted : Lapsed(a) => Lapsed(a)'
    <3>1. SUFFICES ASSUME NEW a \in posted, Lapsed(a) PROVE Lapsed(a)'
      OBVIOUS
    <3>2. a \in Reminder
      BY DEF IInv, TypeOK
    <3>3. \A e \in Ends \cup {NoEnd} : e \in Int
      BY EndsAssumption DEF NoEnd
    <3>4. a.end \in Int
      BY <3>2, <3>3 DEF Reminder
    <3>5. rowsRead' = rowsRead
      BY <1>1 DEF Tick
    <3>6. QED
      BY <2>1, <3>1, <3>4, <3>5 DEF Lapsed
  <2>3. PostedIsAccountedFor'
    BY <1>1, <2>2 DEF Tick, IInv, PostedIsAccountedFor
  <2>4. QED
    BY <1>0, <1>1, <2>3 DEF Tick, IInv, MarkedWasAccepted, RepeatOnlyIfOwed,
       HoldsByStep, SentWasAccepted
<1>2. CASE (\E r \in Resources : WriteRow(r)) \/ (\E i \in Instances : WriteCoverage(i))
  BY <1>0, <1>2 DEF WriteRow, WriteCoverage, IInv, MarkedWasAccepted,
     RepeatOnlyIfOwed, HoldsByStep, SentWasAccepted, PostedIsAccountedFor, Lapsed
<1>3. CASE SyncTick \/ AlertTick \/ SyncDone
  BY <1>0, <1>3 DEF SyncTick, AlertTick, SyncDone, IInv, MarkedWasAccepted,
     RepeatOnlyIfOwed, HoldsByStep, SentWasAccepted, PostedIsAccountedFor, Lapsed
<1>4. CASE PruneFails
  BY <1>0, <1>4 DEF PruneFails, Prune, IInv, MarkedWasAccepted,
     RepeatOnlyIfOwed, HoldsByStep, SentWasAccepted, PostedIsAccountedFor, Lapsed
<1>5. CASE PruneNotifyLog
  <2>1. /\ pc = "prune" /\ pc' = "idle" /\ rowsRead = {} /\ batch = {}
        /\ UNCHANGED <<clock, rowsRead, batch, turn, anySent, posted, accepted, owed>>
        /\ notifyLog' = {e \in notifyLog : ~Stale(e)}
    BY <1>5 DEF PruneNotifyLog, Prune, IInv, HoldsByStep
  <2>2. ASSUME NEW a \in notifyLog, Stale(a) PROVE Lapsed(a)
    <3>1. RetainDays * Day \in Nat
      BY RetainAssumption, DayAssumption
    <3>2. a \in Reminder /\ clock \in Nat
      BY DEF IInv, TypeOK
    <3>3. \A e \in Ends \cup {NoEnd} : e \in Int
      BY EndsAssumption DEF NoEnd
    <3>4. a.end \in Int
      BY <3>2, <3>3 DEF Reminder
    <3>5. a.end # NoEnd /\ a.end <= clock
      BY <2>2, <3>1, <3>2, <3>4 DEF Stale
    <3>6. QED
      BY <2>1, <3>5 DEF Lapsed
  <2>3. PostedIsAccountedFor'
    BY <2>1, <2>2 DEF IInv, PostedIsAccountedFor, Lapsed
  <2>4. QED
    BY <1>0, <2>1, <2>3 DEF IInv, MarkedWasAccepted, RepeatOnlyIfOwed,
       HoldsByStep, SentWasAccepted
<1>6. CASE SkipCheck
  <2>1. batch = {} /\ EndCheck /\ UNCHANGED <<clock, notifyLog, posted, accepted, owed>>
    BY <1>6 DEF SkipCheck, IInv, HoldsByStep
  <2>2. QED
    BY <1>0, <2>1, EndCheckForgets, ForgetStep DEF IInv
<1>7. CASE Query
  BY <1>7, QueryStep
<1>8. CASE Filter \/ FilterWithErrors
  BY <1>8, FilterStep DEF Filter, FilterWithErrors
<1>9. CASE SendAccepted
  <2>1. /\ turn' # 1 /\ pc = "send" /\ pc' = "send"
        /\ posted' = posted \cup batch /\ accepted' = accepted \cup batch
        /\ UNCHANGED <<clock, notifyLog, rowsRead, batch, owed>>
    BY <1>9 DEF SendAccepted, IInv, TypeOK
  <2>2. PostedIsAccountedFor'
    BY <2>1 DEF IInv, PostedIsAccountedFor, Lapsed
  <2>3. QED
    BY <1>0, <2>1, <2>2 DEF IInv, MarkedWasAccepted, RepeatOnlyIfOwed,
       HoldsByStep, SentWasAccepted
<1>10. CASE SendFails
  <2>1. /\ turn' # 1 /\ pc = "send" /\ pc' = "send"
        /\ posted' \subseteq posted \cup batch
        /\ UNCHANGED <<clock, notifyLog, rowsRead, batch, accepted, owed, anySent>>
    BY <1>10 DEF SendFails, IInv, TypeOK
  <2>2. PostedIsAccountedFor'
    BY <2>1 DEF IInv, PostedIsAccountedFor, Lapsed
  <2>3. QED
    BY <1>0, <2>1, <2>2 DEF IInv, MarkedWasAccepted, RepeatOnlyIfOwed,
       HoldsByStep, SentWasAccepted
<1>11. CASE AllTried
  <2>1. CASE anySent
    BY <1>0, <1>11, <2>1 DEF AllTried, IInv, MarkedWasAccepted,
       RepeatOnlyIfOwed, HoldsByStep, SentWasAccepted, PostedIsAccountedFor,
       Lapsed
  <2>2. CASE ~anySent
    <3>1. /\ EndCheck /\ owed' = owed \cup (batch \cap posted)
          /\ UNCHANGED <<clock, notifyLog, posted, accepted>>
      BY <1>11, <2>2 DEF AllTried
    <3>2. QED
      BY <1>0, <3>1, EndCheckForgets, ForgetStep DEF IInv
  <2>3. QED
    BY <2>1, <2>2
<1>12. CASE MarkNotifiedBatch
  <2>1. /\ EndCheck /\ notifyLog' = notifyLog \cup batch
        /\ UNCHANGED <<clock, posted, accepted, owed>>
        /\ batch \subseteq accepted
    BY <1>12 DEF MarkNotifiedBatch, IInv, SentWasAccepted
  <2>2. QED
    BY <1>0, <2>1, EndCheckForgets, ForgetStep DEF IInv
<1>13. CASE MarkFails
  <2>1. /\ EndCheck /\ owed' = owed \cup (batch \cap posted)
        /\ UNCHANGED <<clock, notifyLog, posted, accepted>>
    BY <1>13 DEF MarkFails
  <2>2. QED
    BY <1>0, <2>1, EndCheckForgets, ForgetStep DEF IInv
<1>14. CASE Crash
  <2>1. /\ rowsRead' = {} /\ batch' = {} /\ anySent' = FALSE /\ pc' = "sync"
        /\ owed' = owed \cup (batch \cap posted)
        /\ UNCHANGED <<clock, notifyLog, posted, accepted>>
    BY <1>14 DEF Crash
  <2>2. QED
    BY <1>0, <2>1, ForgetStep DEF IInv
<1>15. CASE UNCHANGED vars
  BY <1>0, <1>15 DEF vars, IInv, MarkedWasAccepted, RepeatOnlyIfOwed,
     HoldsByStep, SentWasAccepted, PostedIsAccountedFor, Lapsed
<1>16. QED
  BY <1>1, <1>2, <1>3, <1>4, <1>5, <1>6, <1>7, <1>8, <1>9, <1>10, <1>11,
     <1>12, <1>13, <1>14, <1>15 DEF Next, Cron, CronWork

\* The invariant holds of every behaviour.
LEMMA Invariance == Spec => []IInv
<1>1. Init => IInv
  BY TypeInit DEF Init, IInv, MarkedWasAccepted, RepeatOnlyIfOwed,
     HoldsByStep, SentWasAccepted, PostedIsAccountedFor
<1>2. IInv /\ [Next]_vars => IInv'
  BY InvStep
<1>3. QED
  BY <1>1, <1>2, PTL DEF Spec

\* CheckAndNotify and CheckGPUODAndNotify record a reminder only after a
\* notifier accepted exactly that reminder, whatever is renewed, imported,
\* pruned or restarted meanwhile.
THEOREM MarkedWasAcceptedThm == Spec => []MarkedWasAccepted
<1>1. IInv => MarkedWasAccepted
  BY DEF IInv
<1>2. QED
  BY <1>1, Invariance, PTL

\* A reminder that reached a channel is posted again only if an earlier
\* round ended without recording it; pruning notify_log never causes it.
THEOREM RepeatOnlyIfOwedThm == Spec => []RepeatOnlyIfOwed
<1>1. IInv => RepeatOnlyIfOwed
  BY DEF IInv
<1>2. QED
  BY <1>1, Invariance, PTL

-----------------------------------------------------------------------------
(* The urgency of what is announced.                                       *)

\* A finite set of naturals has an upper bound.
LEMMA FiniteIsBounded ==
    ASSUME NEW S \in SUBSET Nat, IsFiniteSet(S)
    PROVE  \E m \in Nat : \A s \in S : s <= m
<1> DEFINE n == Cardinality(S)
<1>1. n \in Nat /\ ExistsBijection(1..n, S)
  BY FS_CardinalityType
<1>2. PICK f : f \in Bijection(1..n, S)
  BY <1>1 DEF ExistsBijection
<1>3. f \in [1..n -> S] /\ \A s \in S : \E j \in 1..n : f[j] = s
  BY <1>2 DEF Bijection, Surjection
<1> HIDE DEF n
<1> DEFINE Bounded(k) == \E m \in Nat : \A j \in 1..k : f[j] <= m
           Bad == {k \in 0..n : ~Bounded(k)}
           k == Min(Bad)
<1>4. Bad = {}
  <2>1. SUFFICES ASSUME Bad # {} PROVE FALSE
    OBVIOUS
  <2>2. k \in Bad /\ \A l \in Bad : k <= l
    <3>1. Bad \in SUBSET Nat
      BY <1>1
    <3> HIDE DEF Bad
    <3> QED
      BY <2>1, <3>1, MinOfNats
  <2> HIDE DEF k
  <2>3. k \in 0..n /\ ~Bounded(k) /\ k \in Nat /\ n \in Nat
    BY <1>1, <2>2
  <2>4. Bounded(0)
    <3>1. \A j \in 1..0 : f[j] <= 0
      OBVIOUS
    <3> QED
      BY <3>1
  <2>5. k - 1 \in 0..n /\ k - 1 \notin Bad
    <3> HIDE DEF Bounded
    <3>1. k # 0
      BY <2>3, <2>4
    <3>2. k - 1 \in 0..n /\ ~(k <= k - 1)
      BY <2>3, <3>1
    <3> HIDE DEF Bad
    <3> QED
      BY <2>2, <3>2
  <2>6. PICK m \in Nat : \A j \in 1..(k - 1) : f[j] <= m
    BY <2>5
  <2>7. \A j \in 1..k : f[j] \in Nat
    <3>1. \A j \in 1..k : j \in 1..n
      BY <2>3
    <3>2. \A j \in 1..n : f[j] \in S
      BY <1>3
    <3> QED
      BY <3>1, <3>2
  <2>8. k \in 1..k
    BY <2>3, <2>5
  <2>9. \A j \in 1..k : f[j] <= IF f[k] <= m THEN m ELSE f[k]
    <3> SUFFICES ASSUME NEW j \in 1..k PROVE f[j] <= IF f[k] <= m THEN m ELSE f[k]
      OBVIOUS
    <3>1. f[j] \in Nat /\ f[k] \in Nat
      BY <2>7, <2>8
    <3>2. j = k \/ j \in 1..(k - 1)
      BY <2>3
    <3> QED
      BY <2>6, <3>1, <3>2
  <2>10. (IF f[k] <= m THEN m ELSE f[k]) \in Nat
    BY <2>7, <2>8
  <2> QED
    BY <2>3, <2>9, <2>10
<1>5. Bounded(n)
  <2>1. n \in 0..n
    BY <1>1
  <2> HIDE DEF Bounded
  <2> QED
    BY <1>4, <2>1
<1> QED
  BY <1>3, <1>5

\* Max picks the greatest element of a finite set of naturals.
LEMMA MaxOfNats ==
    ASSUME NEW S \in SUBSET Nat, IsFiniteSet(S), S # {}
    PROVE  /\ Max(S) \in S
           /\ \A y \in S : y <= Max(S)
<1> DEFINE B == {m \in Nat : \A s \in S : s <= m}
           b == Min(B)
<1>1. B # {}
  BY FiniteIsBounded
<1>2. b \in B /\ \A m \in B : b <= m
  <2>1. B \in SUBSET Nat
    OBVIOUS
  <2> HIDE DEF B
  <2> QED
    BY <1>1, <2>1, MinOfNats
<1>3. b \in Nat /\ \A s \in S : s <= b
  BY <1>2
<1> HIDE DEF b
<1>4. b \in S
  <2>1. SUFFICES ASSUME b \notin S PROVE FALSE
    OBVIOUS
  <2>2. \A s \in S : s \in Nat /\ s <= b - 1
    BY <1>3, <2>1
  <2>3. b - 1 \in Nat
    <3>1. PICK s \in S : s \in Nat /\ s <= b - 1
      BY <2>2
    <3> QED
      BY <1>3, <3>1
  <2>4. b - 1 \in B
    BY <2>2, <2>3
  <2> QED
    BY <1>2, <1>3, <2>4
<1> QED
  BY <1>3, <1>4 DEF Max

\* MaxRemindDays is the greatest configured value or its floor of 30.
LEMMA MaxRemindDaysIs ==
    /\ MaxRemindDays \in Nat
    /\ \A d \in RemindDays : d <= MaxRemindDays
<1>1. RemindDays \cup {30} \in SUBSET Nat /\ RemindDays \cup {30} # {}
  BY RemindDaysAssumption
<1>2. IsFiniteSet(RemindDays \cup {30})
  BY RemindDaysAssumption, FS_AddElement
<1> DEFINE S == RemindDays \cup {30}
<1> HIDE DEF S
<1>3. Max(S) \in S /\ \A y \in S : y <= Max(S)
  BY <1>1, <1>2, MaxOfNats DEF S
<1> QED
  BY <1>1, <1>3 DEF S, MaxRemindDays

\* What a key says of the urgency, for a number of days left.
DaysUrgency(days) ==
    IF CrossedThreshold(days) > 0 THEN CrossedThreshold(days) ELSE MaxRemindDays + 1

\* A crossed threshold is configured; there is none only when the days left are
\* beyond all of them.
LEMMA CrossedThresholdIs ==
    ASSUME NEW d \in Int
    PROVE  \/ /\ CrossedThreshold(d) \in RemindDays
              /\ CrossedThreshold(d) >= d
              /\ \A x \in RemindDays : x >= d => CrossedThreshold(d) <= x
           \/ /\ CrossedThreshold(d) = 0
              /\ \A x \in RemindDays : x < d
<1> DEFINE reached == {x \in RemindDays : x >= d}
<1>1. CASE reached # {}
  <2>1. reached \in SUBSET Nat
    BY RemindDaysAssumption
  <2>2. CrossedThreshold(d) = Min(reached)
    BY <1>1 DEF CrossedThreshold
  <2>3. Min(reached) \in reached /\ \A y \in reached : Min(reached) <= y
    <3> HIDE DEF reached
    <3> QED
      BY <1>1, <2>1, MinOfNats
  <2> QED
    BY <2>2, <2>3
<1>2. CASE reached = {}
  <2>1. \A x \in RemindDays : x \in Nat /\ x # 0 /\ x < d
    BY <1>2, RemindDaysAssumption
  <2>2. CASE RemindDays = {}
    BY <1>2, <2>2 DEF CrossedThreshold
  <2>3. CASE RemindDays # {}
    <3>1. ~(d <= 0)
      BY <2>1, <2>3
    <3>2. CrossedThreshold(d) = 0
      BY <1>2, <3>1 DEF CrossedThreshold
    <3> QED
      BY <2>1, <3>2
  <2> QED
    BY <2>2, <2>3
<1> QED
  BY <1>1, <1>2

\* Fewer days left are never less urgent.
LEMMA FewerDaysMoreUrgent ==
    ASSUME NEW c \in Int, NEW d \in Int, c <= d
    PROVE  /\ DaysUrgency(c) \in Nat /\ DaysUrgency(d) \in Nat
           /\ DaysUrgency(c) <= DaysUrgency(d)
<1>0. \A x \in RemindDays : x \in Nat /\ x > 0 /\ x <= MaxRemindDays
  BY RemindDaysAssumption, MaxRemindDaysIs
<1>1. ASSUME NEW e \in Int
      PROVE  /\ DaysUrgency(e) \in Nat /\ DaysUrgency(e) <= MaxRemindDays + 1
             /\ \/ /\ DaysUrgency(e) \in RemindDays /\ DaysUrgency(e) >= e
                   /\ \A x \in RemindDays : x >= e => DaysUrgency(e) <= x
                \/ /\ DaysUrgency(e) = MaxRemindDays + 1
                   /\ \A x \in RemindDays : x < e
  BY <1>0, CrossedThresholdIs, MaxRemindDaysIs DEF DaysUrgency
<1>2. CASE DaysUrgency(d) = MaxRemindDays + 1
  BY <1>1, <1>2
<1>3. CASE DaysUrgency(d) # MaxRemindDays + 1
  <2>1. DaysUrgency(d) \in RemindDays
    BY <1>1, <1>3
  <2>2. DaysUrgency(d) >= c
    BY <1>0, <1>1, <1>3
  <2> QED
    BY <1>0, <1>1, <2>1, <2>2
<1> QED
  BY <1>2, <1>3

\* Division by a day keeps the order.
LEMMA DivMonotone ==
    ASSUME NEW a \in Nat, NEW b \in Nat, a <= b
    PROVE  a \div Day \in Nat /\ b \div Day \in Nat /\ a \div Day <= b \div Day
<1> DEFINE p == a \div Day
           q == b \div Day
<1>1. Day \in Nat /\ Day > 0
  BY DayAssumption
<1>2. p \in Nat /\ p * Day <= a
  BY <1>1
<1>3. q \in Nat /\ b < q * Day + Day
  BY <1>1
<1> HIDE DEF p, q
<1>4. p * Day < (q + 1) * Day
  BY <1>1, <1>2, <1>3
<1>5. p < q + 1
  BY <1>1, <1>2, <1>3, <1>4
<1>6. p <= q
  BY <1>2, <1>3, <1>5
<1> QED
  BY <1>2, <1>3, <1>6 DEF p, q

\* As time passes, the days until a date only become fewer.
LEMMA DaysOnlyFall ==
    ASSUME NEW e \in Nat, e # NoEnd, NEW s \in Nat, NEW t \in Nat, s <= t
    PROVE  /\ DaysUntil(e, s) \in Int /\ DaysUntil(e, t) \in Int
           /\ DaysUntil(e, t) <= DaysUntil(e, s)
<1>1. Day \in Nat /\ Day > 0
  BY DayAssumption
<1>2. CASE e > t
  <2>1. e - t + Day - 1 \in Nat /\ e - s + Day - 1 \in Nat /\ e - t + Day - 1 <= e - s + Day - 1
    BY <1>1, <1>2
  <2>2. /\ DaysUntil(e, t) = (e - t + Day - 1) \div Day
        /\ DaysUntil(e, s) = (e - s + Day - 1) \div Day
    BY <1>2 DEF DaysUntil
  <2> QED
    BY <2>1, <2>2, DivMonotone
<1>3. CASE e <= t /\ e > s
  <2>1. e - s + Day - 1 \in Nat /\ t - e \in Nat
    BY <1>1, <1>3
  <2>2. (e - s + Day - 1) \div Day \in Nat /\ (t - e) \div Day \in Nat
    BY <2>1, DivMonotone
  <2>3. /\ DaysUntil(e, t) = -((t - e) \div Day)
        /\ DaysUntil(e, s) = (e - s + Day - 1) \div Day
    BY <1>3 DEF DaysUntil
  <2> QED
    BY <2>2, <2>3
<1>4. CASE e <= s
  <2>1. s - e \in Nat /\ t - e \in Nat /\ s - e <= t - e
    BY <1>4
  <2>2. /\ (s - e) \div Day \in Nat /\ (t - e) \div Day \in Nat
        /\ (s - e) \div Day <= (t - e) \div Day
    BY <2>1, DivMonotone
  <2>3. DaysUntil(e, t) = -((t - e) \div Day) /\ DaysUntil(e, s) = -((s - e) \div Day)
    BY <1>4 DEF DaysUntil
  <2> QED
    BY <2>2, <2>3
<1> QED
  BY <1>2, <1>3, <1>4

\* How urgent a reminder of a date would be at a time.
Due(end, time) == DaysUrgency(DaysUntil(end, time))

\* What is recorded or about to be is at most as urgent as its date is now: that
\* is what makes UrgencyNeverDrops inductive, together with which dates the rows
\* of the two checks have.
UrgencyInv ==
    /\ UrgencyNeverDrops
    /\ \A e \in notifyLog \cup batch : e.end # NoEnd => Due(e.end, clock) <= Urgency(e)
    /\ \A x \in rowsRead : (check = "expiry" => x.end # NoEnd) /\ (check = "gpu" => x.end = NoEnd)

LEMMA EndsAreNat == \A e \in Ends \cup {NoEnd} : e \in Nat
BY EndsAssumption DEF NoEnd

\* Dates and urgencies are numbers.
LEMMA ReminderTypes ==
    ASSUME NEW a \in Reminder
    PROVE  a.end \in Nat /\ Urgency(a) \in Nat
<1>1. a.end \in Nat
  BY EndsAreNat DEF Reminder
<1>2. a.key \in Keys \cup {GPUKey}
  BY DEF Reminder
<1>3. a.key[1] = "t" => a.key[2] \in RemindDays
  BY <1>2 DEF Keys, GPUKey, Levels
<1>4. Urgency(a) \in Nat
  <2>1. CASE a.key[1] = "t"
    <3>1. Urgency(a) = a.key[2]
      BY <2>1 DEF Urgency
    <3> QED
      BY <1>3, <2>1, <3>1, RemindDaysAssumption
  <2>2. CASE a.key[1] # "t"
    <3>1. Urgency(a) = MaxRemindDays + 1
      BY <2>2 DEF Urgency
    <3> QED
      BY <3>1, MaxRemindDaysIs
  <2> QED
    BY <2>1, <2>2
<1> QED
  BY <1>1, <1>4

\* NewAlert gives a row the urgency of its date.
LEMMA UrgencyOfNew ==
    ASSUME NEW x, x.end \in Nat, check = "expiry", clock \in Nat
    PROVE  Urgency(ReminderFor(x)) = Due(x.end, clock)
<1> DEFINE d == DaysUntil(x.end, clock)
<1>1. d \in Int
  BY DayAssumption DEF DaysUntil
<1>2. CalcAlertLevel(d) # "t"
  BY <1>1 DEF CalcAlertLevel
<1>3. ReminderFor(x).key = NotifyKey(x.end, clock)
  BY DEF ReminderFor
<1>4. CASE CrossedThreshold(d) > 0
  BY <1>3, <1>4 DEF NotifyKey, Urgency, Due, DaysUrgency
<1>5. CASE ~(CrossedThreshold(d) > 0)
  BY <1>2, <1>3, <1>5 DEF NotifyKey, Urgency, Due, DaysUrgency
<1> QED
  BY <1>4, <1>5

\* A step that starts no batch.
LEMMA QuietStep ==
    ASSUME UrgencyInv, clock' = clock, notifyLog' \subseteq notifyLog \cup batch,
           batch' \subseteq batch, rowsRead' \subseteq rowsRead,
           rowsRead' = {} \/ check' = check, ~(pc' = "send" /\ turn' = 1)
    PROVE  UrgencyInv'
<1>1. UrgencyNeverDrops'
  BY DEF UrgencyNeverDrops
<1>2. \A e \in notifyLog' \cup batch' : e.end # NoEnd => Due(e.end, clock) <= Urgency(e)
  BY DEF UrgencyInv
<1>3. \A x \in rowsRead' : (check' = "expiry" => x.end # NoEnd) /\ (check' = "gpu" => x.end = NoEnd)
  BY DEF UrgencyInv
<1> QED
  BY <1>1, <1>2, <1>3 DEF UrgencyInv, Due, Urgency

\* The filter makes its batch with the clock of this moment.
LEMMA FilterUrgency ==
    ASSUME IInv, UrgencyInv, NEW failed, FilterRows(failed)
    PROVE  UrgencyInv'
<1> DEFINE pending == {a \in {ReminderFor(x) : x \in rowsRead \ failed} :
                          ~HasNotified(a)}
<1>1. UNCHANGED <<clock, notifyLog>> /\ batch = {} /\ clock \in Nat
  BY DEF FilterRows, IInv, HoldsByStep, TypeOK
<1>2. CASE pending = {}
  <2>1. EndCheck
    BY <1>2 DEF FilterRows
  <2> QED
    BY <1>1, <2>1, EndCheckForgets, QuietStep
<1>3. CASE pending # {}
  <2>1. batch' = pending /\ UNCHANGED <<rowsRead, check, turn>>
    BY <1>3 DEF FilterRows
  <2>2. ASSUME NEW a \in pending
        PROVE  /\ a.end # NoEnd => Urgency(a) = Due(a.end, clock) /\ Urgency(a) \in Nat
               /\ check = "expiry" => a.end # NoEnd
    <3>1. PICK x \in rowsRead : a = ReminderFor(x)
      OBVIOUS
    <3>2. x.end \in Nat /\ a.end = x.end
      <4>1. x \in Snapshots
        BY DEF IInv, TypeOK
      <4> QED
        BY <3>1, <4>1, EndsAreNat DEF Snapshots, ReminderFor
    <3>3. check \in {"expiry", "gpu"}
      BY DEF IInv, TypeOK, Checks
    <3>4. DaysUrgency(DaysUntil(x.end, clock)) \in Nat
      <4>1. DaysUntil(x.end, clock) \in Int
        BY <1>1, <3>2, DayAssumption DEF DaysUntil
      <4> QED
        BY <4>1, FewerDaysMoreUrgent
    <3> QED
      BY <1>1, <3>1, <3>2, <3>3, <3>4, UrgencyOfNew DEF UrgencyInv, Due
  <2> HIDE DEF pending
  <2>3. UrgencyNeverDrops'
    <3> SUFFICES ASSUME check = "expiry", NEW a \in pending, NEW e \in notifyLog, a.end = e.end
                 PROVE  Urgency(a) <= Urgency(e)
      BY <1>1, <2>1 DEF UrgencyNeverDrops, Urgency
    <3>1. e.end # NoEnd /\ Urgency(a) = Due(e.end, clock)
      BY <2>2
    <3> QED
      BY <3>1 DEF UrgencyInv
  <2>4. \A e \in notifyLog \cup pending : e.end # NoEnd => Due(e.end, clock) <= Urgency(e)
    BY <2>2 DEF UrgencyInv
  <2>5. \A x \in rowsRead' : (check' = "expiry" => x.end # NoEnd) /\ (check' = "gpu" => x.end = NoEnd)
    BY <2>1 DEF UrgencyInv
  <2> QED
    BY <1>1, <2>1, <2>3, <2>4, <2>5 DEF UrgencyInv, Due, Urgency
<1> QED
  BY <1>2, <1>3

\* Every step keeps recorded reminders and the batch in order of urgency.
LEMMA UrgencyStep ==
    ASSUME IInv, UrgencyInv, [Next]_vars
    PROVE  UrgencyInv'
<1> USE DEF tables, check_vars, history
<1>1. CASE Tick
  <2>1. clock' >= clock /\ clock \in Nat /\ clock' \in Nat
        /\ UNCHANGED <<notifyLog, pc, check, rowsRead, batch, turn>>
    BY <1>1, TimesAssumption DEF Tick, IInv, TypeOK
  <2>2. ASSUME NEW e \in notifyLog \cup batch, e.end # NoEnd
        PROVE  Due(e.end, clock') <= Urgency(e)
    <3>1. e.end \in Nat /\ Urgency(e) \in Nat
      BY ReminderTypes DEF IInv, TypeOK
    <3>2. /\ DaysUntil(e.end, clock) \in Int /\ DaysUntil(e.end, clock') \in Int
          /\ DaysUntil(e.end, clock') <= DaysUntil(e.end, clock)
      BY <2>1, <2>2, <3>1, DaysOnlyFall
    <3>3. /\ Due(e.end, clock') \in Nat /\ Due(e.end, clock) \in Nat
          /\ Due(e.end, clock') <= Due(e.end, clock)
      BY <3>2, FewerDaysMoreUrgent DEF Due
    <3>4. Due(e.end, clock) <= Urgency(e)
      BY <2>2 DEF UrgencyInv
    <3> QED
      BY <3>1, <3>3, <3>4
  <2>3. UrgencyNeverDrops'
    BY <2>1 DEF UrgencyInv, UrgencyNeverDrops, Urgency
  <2> QED
    BY <2>1, <2>2, <2>3 DEF UrgencyInv, Due, Urgency
<1>2. CASE UNCHANGED <<clock, notifyLog, pc, check, rowsRead, batch, turn>>
  BY <1>2 DEF UrgencyInv, UrgencyNeverDrops, Urgency, Due
<1>3. CASE SyncTick \/ AlertTick \/ SyncDone \/ PruneNotifyLog \/ PruneFails
  <2>1. /\ UNCHANGED <<clock, check, rowsRead, batch>> /\ notifyLog' \subseteq notifyLog
        /\ pc' # "send"
    BY <1>3 DEF SyncTick, AlertTick, SyncDone, PruneNotifyLog, PruneFails, Prune
  <2> QED
    BY <2>1, QuietStep
<1>4. CASE Query
  <2>1. UNCHANGED <<clock, notifyLog, check, batch>> /\ pc' = "filter"
    BY <1>4 DEF Query
  <2>2. \A x \in rowsRead' : (check' = "expiry" => x.end # NoEnd) /\ (check' = "gpu" => x.end = NoEnd)
    <3>1. CASE check = "expiry"
      BY <1>4, <2>1, <3>1 DEF Query, InWindow
    <3>2. CASE check # "expiry"
      BY <1>4, <2>1, <3>2 DEF Query
    <3> QED
      BY <3>1, <3>2
  <2>3. UrgencyNeverDrops'
    BY <2>1 DEF UrgencyNeverDrops
  <2> QED
    BY <2>1, <2>2, <2>3 DEF UrgencyInv, Due, Urgency
<1>5. CASE Filter \/ FilterWithErrors
  BY <1>5, FilterUrgency DEF Filter, FilterWithErrors
<1>6. CASE SendAccepted \/ SendFails
  <2>1. UNCHANGED <<clock, notifyLog, check, rowsRead, batch>> /\ turn' # 1
    BY <1>6 DEF SendAccepted, SendFails, IInv, TypeOK
  <2> QED
    BY <2>1, QuietStep
<1>7. CASE SkipCheck \/ AllTried \/ MarkNotifiedBatch \/ MarkFails \/ Crash
  <2>1. /\ clock' = clock /\ notifyLog' \subseteq notifyLog \cup batch /\ pc' # "send"
        /\ \/ rowsRead' = {} /\ batch' = {}
           \/ UNCHANGED <<rowsRead, batch, check>>
    BY <1>7, EndCheckForgets DEF SkipCheck, AllTried, MarkNotifiedBatch, MarkFails, Crash
  <2> QED
    BY <2>1, QuietStep
<1> QED
  BY <1>1, <1>2, <1>3, <1>4, <1>5, <1>6, <1>7
     DEF Next, Cron, CronWork, WriteRow, WriteCoverage, vars

\* The reminders of one expiry never become less urgent, however the clock, the
\* syncs and the restarts fall between the steps of a check.
THEOREM UrgencyNeverDropsThm == Spec => []UrgencyNeverDrops
<1>1. Init => UrgencyInv
  BY DEF Init, UrgencyInv, UrgencyNeverDrops
<1>2. IInv /\ UrgencyInv /\ [Next]_vars => UrgencyInv'
  BY UrgencyStep
<1>3. UrgencyInv => UrgencyNeverDrops
  BY DEF UrgencyInv
<1> QED
  BY <1>1, <1>2, <1>3, Invariance, PTL DEF Spec

-----------------------------------------------------------------------------
(* The log that the store promises.                                        *)

\* A reminder as the row it leaves in notify_log.
MarkOf(e) == [id |-> e.id, level |-> e.key, end |-> e.end]

\* MarkLog of the reminders; the cutoff of a pruning is any instant.
ReminderLog ==
    INSTANCE MarkLog WITH Ids <- Resources \cup Instances, Levels <- Keys \cup {GPUKey},
                          Cutoffs <- Int, log <- {MarkOf(e) : e \in notifyLog}

\* PruneNotifyLog drops the rows of the stale reminders.
LEMMA PruneIsOfLog ==
    ASSUME TypeOK, PruneNotifyLog
    PROVE  ReminderLog!Prune(clock - RetainDays * Day)
<1> DEFINE cutoff == clock - RetainDays * Day
<1>1. cutoff \in Int
  BY RetainAssumption, DayAssumption DEF TypeOK
<1>2. notifyLog' = {e \in notifyLog : ~Stale(e)}
  BY DEF PruneNotifyLog, Prune
<1>3. ASSUME NEW e \in notifyLog
      PROVE  ~Stale(e) <=> MarkOf(e).end = NoEnd \/ MarkOf(e).end >= cutoff
  <2>1. e.end \in Nat
    BY ReminderTypes, EndsAreNat DEF TypeOK, Reminder
  <2>2. MarkOf(e).end = e.end
    BY DEF MarkOf
  <2> HIDE DEF cutoff
  <2>3. Stale(e) <=> e.end # NoEnd /\ e.end < cutoff
    BY DEF Stale, cutoff
  <2> QED
    BY <1>1, <2>1, <2>2, <2>3
<1> HIDE DEF cutoff
<1>4. {MarkOf(e) : e \in notifyLog'}
        = {m \in {MarkOf(e) : e \in notifyLog} : m.end = NoEnd \/ m.end >= cutoff}
  BY <1>2, <1>3
<1> QED
  BY <1>4 DEF ReminderLog!Prune, cutoff

\* MarkNotifiedBatch adds the rows of the batch.
LEMMA MarkIsOfLog ==
    ASSUME TypeOK, MarkNotifiedBatch
    PROVE  \E ms \in SUBSET ReminderLog!Marks : ReminderLog!Mark(ms)
<1> DEFINE ms == {MarkOf(e) : e \in batch}
<1>1. ms \in SUBSET ReminderLog!Marks
  BY DEF TypeOK, Reminder, MarkOf, ReminderLog!Marks
<1>2. {MarkOf(e) : e \in notifyLog'} = {MarkOf(e) : e \in notifyLog} \cup ms
  BY DEF MarkNotifiedBatch
<1> QED
  BY <1>1, <1>2 DEF ReminderLog!Mark

\* The cron goroutine keeps notify_log as the store promises, through its failures
\* and restarts: batches are added whole, and only marks that are dated before a
\* cutoff are taken.  Migration implements the same promise below it, so both agree
\* on the log between them.
THEOREM RemindersKeepLog == Spec => ReminderLog!Spec
<1>1. Init => ReminderLog!Init
  BY DEF Init, ReminderLog!Init
<1>2. TypeOK /\ [Next]_vars => [ReminderLog!Next]_({MarkOf(e) : e \in notifyLog})
  <2> SUFFICES ASSUME TypeOK, [Next]_vars
               PROVE  [ReminderLog!Next]_({MarkOf(e) : e \in notifyLog})
    OBVIOUS
  <2>1. CASE PruneNotifyLog
    <3>1. clock - RetainDays * Day \in Int
      BY RetainAssumption, DayAssumption DEF TypeOK
    <3> QED
      BY <2>1, <3>1, PruneIsOfLog DEF ReminderLog!Next
  <2>2. CASE MarkNotifiedBatch
    BY <2>2, MarkIsOfLog DEF ReminderLog!Next
  <2>3. CASE UNCHANGED notifyLog
    BY <2>3
  <2> QED
    BY <2>1, <2>2, <2>3
       DEF Next, Cron, CronWork, vars, Tick, WriteRow, WriteCoverage, SyncTick, AlertTick, SyncDone,
           PruneFails, Prune, SkipCheck, Query, Filter, FilterWithErrors, FilterRows,
           SendAccepted, SendFails, AllTried, MarkFails, Crash
<1> QED
  BY <1>1, <1>2, TypeCorrect, PTL DEF Spec, ReminderLog!Spec
=============================================================================
