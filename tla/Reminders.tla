------------------------------ MODULE Reminders ------------------------------
(***************************************************************************)
(* The cron goroutine of scheduler/scheduler.go and the two tables it      *)
(* reads: how a reservation close to its end, or a GPU instance running    *)
(* on demand, becomes one reminder in the team's channels.                 *)
(*                                                                         *)
(* One goroutine runs both checks, so notify_log has a single writer.  The *)
(* tables it reads have others: a sync started from the UI and a CSV       *)
(* import change rows between any two of its steps, the clock advances     *)
(* while it waits for a webhook, and the process may die at any point.     *)
(*                                                                         *)
(* Implementation state is separated from the history variables, which no  *)
(* action reads and only the properties mention.                           *)
(***************************************************************************)
EXTENDS Alerts

CONSTANTS
    Resources,      \* ids of reservations
    Instances,      \* ids of GPU instances
    Ends,           \* the expiry dates AWS or a CSV file can report
    Times,          \* the instants at which the clock is sampled
    NumNotifiers,   \* configured notifiers, tried in order 1..NumNotifiers
    RetainDays,     \* notifyLogRetention, in days
    MaxCrashes      \* bound on process restarts

ASSUME EndsAssumption == Ends \subseteq Nat \ {NoEnd}
ASSUME TimesAssumption == Times \subseteq Nat
ASSUME NotifiersAssumption == NumNotifiers \in Nat
ASSUME RetainAssumption == RetainDays \in Nat
ASSUME CrashesAssumption == MaxCrashes \in Nat

VARIABLES
    clock,      \* wall clock
    row,        \* reservations: id -> end_time and status
    gpu,        \* gpu_coverage: id -> coverage
    notifyLog,  \* notify_log: the (reservation_id, level, end_time) triples
    pc,         \* where the cron goroutine stands
    booting,    \* it has not yet finished its first round
    check,      \* CheckAndNotify ("expiry") or CheckGPUODAndNotify ("gpu")
    rowsRead,   \* the rows the running check has read
    batch,      \* its `pending` / `odItems`
    turn,       \* index of the next notifier to try
    anySent,    \* at least one notifier accepted the batch
    crashes,    \* restarts so far
    posted,     \* history: reminders that reached some channel
    accepted,   \* history: reminders some notifier reported as sent
    owed        \* history: posted, but the check ended without its mark

tables  == <<row, gpu>>
check_vars == <<rowsRead, batch, turn, anySent>>
history == <<posted, accepted, owed>>
vars == <<clock, row, gpu, notifyLog, pc, booting, check, rowsRead, batch,
          turn, anySent, crashes, posted, accepted, owed>>

-----------------------------------------------------------------------------

NoRow == [end |-> NoEnd, status |-> "none"]
Rows == [end : Ends \cup {NoEnd}, status : Statuses \ {"none"}] \cup {NoRow}
Coverages == {"on_demand", "covered", "none"}
Snapshots == [id : Resources \cup Instances, end : Ends \cup {NoEnd}]
Reminder == [id  : Resources \cup Instances,
             key : Keys \cup {GPUKey},
             end : Ends \cup {NoEnd}]
Steps == {"sync", "query", "filter", "send", "mark", "prune", "idle"}
Checks == {"expiry", "gpu"}

TypeOK ==
    /\ clock \in Nat
    /\ row \in [Resources -> Rows]
    /\ gpu \in [Instances -> Coverages]
    /\ notifyLog \subseteq Reminder
    /\ pc \in Steps
    /\ booting \in BOOLEAN
    /\ check \in Checks
    /\ rowsRead \subseteq Snapshots
    /\ batch \subseteq Reminder
    /\ turn \in 1..(NumNotifiers + 1)
    /\ anySent \in BOOLEAN
    /\ crashes \in 0..MaxCrashes
    /\ posted \subseteq Reminder
    /\ accepted \subseteq posted
    /\ owed \subseteq posted

Init ==
    /\ clock = 0
    /\ row = [r \in Resources |-> NoRow]
    /\ gpu = [i \in Instances |-> "none"]
    /\ notifyLog = {}
    /\ pc = "sync"
    /\ booting = TRUE
    /\ check = "expiry"
    /\ rowsRead = {}
    /\ batch = {}
    /\ turn = 1
    /\ anySent = FALSE
    /\ crashes = 0
    /\ posted = {}
    /\ accepted = {}
    /\ owed = {}

-----------------------------------------------------------------------------
(* The world around the goroutine.                                         *)

Tick ==
    /\ \E t \in Times : t > clock /\ clock' = t
    /\ UNCHANGED <<tables, notifyLog, pc, booting, check, check_vars, crashes,
                   history>>

\* A sync or an import inserts, renews, ends or drops one reservation.
WriteRow(r) ==
    /\ \E v \in Rows : v # row[r] /\ row' = [row EXCEPT ![r] = v]
    /\ UNCHANGED <<clock, gpu, notifyLog, pc, booting, check, check_vars,
                   crashes, history>>

\* A sync stores or drops the coverage of one GPU instance.
WriteCoverage(i) ==
    /\ \E c \in Coverages :
          /\ c # gpu[i]
          /\ gpu' = [gpu EXCEPT ![i] = c]
    /\ UNCHANGED <<clock, row, notifyLog, pc, booting, check, check_vars,
                   crashes, history>>

-----------------------------------------------------------------------------
(* The select loop of StartCron.                                           *)

SyncTick ==
    /\ pc = "idle"
    /\ pc' = "sync"
    /\ UNCHANGED <<clock, tables, notifyLog, booting, check, check_vars,
                   crashes, history>>

AlertTick ==
    /\ pc = "idle"
    /\ pc' = "query"
    /\ UNCHANGED <<clock, tables, notifyLog, booting, check, check_vars,
                   crashes, history>>

\* SyncAll returns; what it wrote are WriteRow and WriteCoverage steps.
SyncDone ==
    /\ pc = "sync"
    /\ pc' = IF booting THEN "query" ELSE "prune"
    /\ UNCHANGED <<clock, tables, notifyLog, booting, check, check_vars,
                   crashes, history>>

\* Mutant: the retention is added to the clock instead of subtracted.
MutantStale(e) == e.end # NoEnd /\ e.end < clock + RetainDays * Day

\* Entries whose expiry lies further back than the retention are deleted;
\* entries without an expiry are left alone.
Stale(e) == e.end # NoEnd /\ e.end < clock - RetainDays * Day

Prune(ok) ==
    /\ pc = "prune"
    /\ notifyLog' = IF ok THEN {e \in notifyLog : ~Stale(e)} ELSE notifyLog
    /\ pc' = "idle"
    /\ booting' = FALSE
    /\ UNCHANGED <<clock, tables, check, check_vars, crashes, history>>

PruneNotifyLog == Prune(TRUE)
PruneFails == Prune(FALSE)

-----------------------------------------------------------------------------
(* One check: read the table, drop what was already announced, post the    *)
(* rest to every notifier, mark it if one of them accepted it.             *)

\* Mutant: the round is over when the expiry check returns.
MutantEndCheck ==
    /\ rowsRead' = {}
    /\ batch' = {}
    /\ turn' = 1
    /\ anySent' = FALSE
    /\ check' = "expiry"
    /\ pc' = IF booting THEN "prune" ELSE "idle"

\* The check returns: the GPU check follows the expiry check.
EndCheck ==
    /\ rowsRead' = {}
    /\ batch' = {}
    /\ turn' = 1
    /\ anySent' = FALSE
    /\ check' = IF check = "expiry" THEN "gpu" ELSE "expiry"
    /\ pc' = IF check = "expiry" THEN "query"
             ELSE IF booting THEN "prune" ELSE "idle"

\* Early return: no notifier is configured, or the read failed.
SkipCheck ==
    /\ pc = "query"
    /\ EndCheck
    /\ UNCHANGED <<clock, tables, notifyLog, booting, crashes, history>>

\* GetAlerts reads the rows in the window; ListGPUCoverage the uncovered ones.
Query ==
    /\ pc = "query"
    /\ NumNotifiers > 0
    /\ rowsRead' =
         IF check = "expiry"
         THEN {[id |-> r, end |-> row[r].end] :
                  r \in {q \in Resources : InWindow(row[q], clock)}}
         ELSE {[id |-> i, end |-> NoEnd] :
                  i \in {j \in Instances : gpu[j] = "on_demand"}}
    /\ pc' = "filter"
    /\ UNCHANGED <<clock, tables, notifyLog, booting, check, batch, turn,
                   anySent, crashes, history>>

\* NewAlert tags a row with the clock after the read; a GPU alert has a fixed
\* key and no expiry.
ReminderFor(x) ==
    [id  |-> x.id,
     key |-> IF check = "expiry" THEN NotifyKey(x.end, clock) ELSE GPUKey,
     end |-> x.end]

HasNotified(a) == a \in notifyLog

\* A failed lookup leaves its row out of this round.
FilterRows(failed) ==
    LET pending == {a \in {ReminderFor(x) : x \in rowsRead \ failed} :
                       ~HasNotified(a)}
    IN  /\ pc = "filter"
        /\ IF pending = {}
           THEN EndCheck
           ELSE /\ batch' = pending
                /\ pc' = "send"
                /\ UNCHANGED <<rowsRead, check, turn, anySent>>
        /\ UNCHANGED <<clock, tables, notifyLog, booting, crashes, history>>

Filter == FilterRows({})
FilterWithErrors == \E failed \in (SUBSET rowsRead) \ {{}} : FilterRows(failed)

\* Notifier `turn` reports success.
SendAccepted ==
    /\ pc = "send"
    /\ turn <= NumNotifiers
    /\ turn' = turn + 1
    /\ anySent' = TRUE
    /\ posted' = posted \cup batch
    /\ accepted' = accepted \cup batch
    /\ UNCHANGED <<clock, tables, notifyLog, pc, booting, check, rowsRead,
                   batch, crashes, owed>>

\* Mutant: the loop runs one notifier too far.
MutantSendFails ==
    /\ pc = "send"
    /\ turn' = turn + 1
    /\ posted' \in {posted, posted \cup batch}
    /\ UNCHANGED <<clock, tables, notifyLog, pc, booting, check, rowsRead,
                   batch, anySent, crashes, accepted, owed>>

\* Notifier `turn` reports an error.  After a timeout, or an answer that does
\* not decode, the message may have been posted all the same.
SendFails ==
    /\ pc = "send"
    /\ turn <= NumNotifiers
    /\ turn' = turn + 1
    /\ posted' \in {posted, posted \cup batch}
    /\ UNCHANGED <<clock, tables, notifyLog, pc, booting, check, rowsRead,
                   batch, anySent, crashes, accepted, owed>>

\* All notifiers tried: without one success the batch is retried next cycle.
AllTried ==
    /\ pc = "send"
    /\ turn > NumNotifiers
    /\ IF anySent
       THEN /\ pc' = "mark"
            /\ UNCHANGED <<check, check_vars, owed>>
       ELSE /\ EndCheck
            /\ owed' = owed \cup (batch \cap posted)
    /\ UNCHANGED <<clock, tables, notifyLog, booting, crashes, posted,
                   accepted>>

\* Mutant: the mark takes the expiry now in the table, not the announced one.
MutantMarkNotifiedBatch ==
    /\ pc = "mark"
    /\ notifyLog' = notifyLog \cup
         {IF a.id \in Resources THEN [a EXCEPT !.end = row[a.id].end] ELSE a :
             a \in batch}
    /\ EndCheck
    /\ UNCHANGED <<clock, tables, booting, crashes, history>>

MarkNotifiedBatch ==
    /\ pc = "mark"
    /\ notifyLog' = notifyLog \cup batch
    /\ EndCheck
    /\ UNCHANGED <<clock, tables, booting, crashes, history>>

\* The transaction fails: logged, and the batch stays unmarked.
MarkFails ==
    /\ pc = "mark"
    /\ owed' = owed \cup (batch \cap posted)
    /\ EndCheck
    /\ UNCHANGED <<clock, tables, notifyLog, booting, crashes, posted,
                   accepted>>

\* The process dies and is started again: the tables survive.
Crash ==
    /\ crashes < MaxCrashes
    /\ crashes' = crashes + 1
    /\ pc' = "sync"
    /\ booting' = TRUE
    /\ check' = "expiry"
    /\ rowsRead' = {}
    /\ batch' = {}
    /\ turn' = 1
    /\ anySent' = FALSE
    /\ owed' = owed \cup (batch \cap posted)
    /\ UNCHANGED <<clock, tables, notifyLog, posted, accepted>>

-----------------------------------------------------------------------------

\* What the goroutine does between two syncs.
CronWork ==
    \/ SyncTick \/ AlertTick
    \/ PruneNotifyLog \/ PruneFails
    \/ SkipCheck \/ Query
    \/ Filter \/ FilterWithErrors
    \/ SendAccepted \/ SendFails \/ AllTried
    \/ MarkNotifiedBatch \/ MarkFails

Cron == SyncDone \/ CronWork

Next ==
    \/ Tick
    \/ \E r \in Resources : WriteRow(r)
    \/ \E i \in Instances : WriteCoverage(i)
    \/ Cron
    \/ Crash

Spec == Init /\ [][Next]_vars

\* The goroutine is scheduled and its tickers keep firing; the database and
\* the channels, whose calls have deadlines (10 s Lark, 15 s SNS), may fail any
\* number of times, but not for ever.  SyncDone is left out: the context of
\* cron's SyncAll has no deadline, so nothing makes it return.
Fairness ==
    /\ WF_vars(CronWork)
    /\ SF_vars(AlertTick)
    /\ \A c \in Checks :
          /\ SF_vars(check = c /\ Query)
          /\ SF_vars(check = c /\ Filter)
          /\ SF_vars(check = c /\ SendAccepted)
          /\ SF_vars(check = c /\ MarkNotifiedBatch)

FairSpec == Spec /\ Fairness

-----------------------------------------------------------------------------
(* Properties.                                                             *)

\* A reminder is suppressed only after a notifier accepted it.  The row may
\* have been renewed while the webhook was slow (CheckAndNotify holds a
\* snapshot from GetAlerts to MarkNotifiedBatch), in which case the mark must
\* go to the expiry that was announced and not to the one now in the table.
MarkedWasAccepted == notifyLog \subseteq accepted

\* A reminder that already reached a channel is posted again only when an
\* earlier round could not record it (all notifiers reported errors, the mark
\* failed, or the process died first): neither HasNotified, nor the pruning
\* of notify_log, nor a renewal there and back may cause a repetition.
RepeatOnlyIfOwed ==
    (pc = "send" /\ turn = 1) => batch \cap posted \subseteq owed

\* How urgent a reminder is: level-keyed ones announce dates beyond every
\* configured threshold, so they come first.
Urgency(a) == IF a.key[1] = "t" THEN a.key[2] ELSE MaxRemindDays + 1

\* Reminders of one expiry never become less urgent: once the 1-day reminder
\* of a date is recorded, no 7-day reminder of the same date is started.
UrgencyNeverDrops ==
    (pc = "send" /\ turn = 1 /\ check = "expiry") =>
        \A a \in batch : \A e \in notifyLog :
            (a.id = e.id /\ a.end = e.end) => Urgency(a) <= Urgency(e)

\* No reminder stays outstanding: a reservation in its window, or an instance
\* on demand, is announced and recorded, however often the notifiers, the
\* database or the process fail on the way, however its row changes and the
\* clock moves on.  The one exception is a SyncAll of the cron goroutine that
\* never returns, after which nobody is reminded of anything.
OutstandingExpiry(r) ==
    /\ InWindow(row[r], clock)
    /\ [id |-> r, key |-> NotifyKey(row[r].end, clock), end |-> row[r].end]
           \notin notifyLog
OutstandingGPU(i) ==
    /\ gpu[i] = "on_demand"
    /\ [id |-> i, key |-> GPUKey, end |-> NoEnd] \notin notifyLog
SyncHangs == <>[](pc = "sync")
NothingOutstandingForever ==
    \/ SyncHangs
    \/ /\ \A r \in Resources : []<>~OutstandingExpiry(r)
       /\ \A i \in Instances : []<>~OutstandingGPU(i)

-----------------------------------------------------------------------------
(* The strengthening under which the first two safety properties are       *)
(* inductive.                                                              *)

\* What the goroutine holds matches where it stands, and its batch was made
\* of the rows it read.
HoldsByStep ==
    /\ pc \notin {"filter", "send", "mark"} => rowsRead = {}
    /\ pc \notin {"send", "mark"} => (batch = {} /\ ~anySent)
    /\ \A a \in batch : \E x \in rowsRead : x.id = a.id /\ x.end = a.end

\* A batch about to be marked, or reported as sent, was accepted.
SentWasAccepted == (pc = "mark" \/ anySent) => batch \subseteq accepted

\* No row of the running check carries this reminder's date, which has passed.
Lapsed(a) ==
    /\ a.end # NoEnd
    /\ a.end <= clock
    /\ \A x \in rowsRead : ~(x.id = a.id /\ x.end = a.end)

\* What was posted is recorded, owed, in flight, or was pruned as lapsed.
PostedIsAccountedFor ==
    \A a \in posted : a \in notifyLog \/ a \in owed \/ a \in batch \/ Lapsed(a)

IInv ==
    /\ TypeOK
    /\ MarkedWasAccepted
    /\ RepeatOnlyIfOwed
    /\ HoldsByStep
    /\ SentWasAccepted
    /\ PostedIsAccountedFor

=============================================================================
