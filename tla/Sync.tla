-------------------------------- MODULE Sync --------------------------------
(***************************************************************************)
(* SyncAll of scheduler/scheduler.go over the two tables of                *)
(* store/sqlite.go, as run by the cron goroutine and, with nothing between *)
(* them but the database, by the goroutine that POST /api/sync starts      *)
(* (handler/api.go).  CSV imports write the same tables.                   *)
(*                                                                         *)
(* AWS changes while an account is being read: every API call (a "source": *)
(* the savings plans, one region's reserved instances, ...) sees the       *)
(* account at its own moment.  What a row says is abstracted to the        *)
(* version of the resource it was read from; version 0 is "does not        *)
(* exist", for a resource in AWS and for a row alike.  Identifiers are not *)
(* reused, so a resource that is gone stays gone.                          *)
(***************************************************************************)
EXTENDS Integers, Sequences, FiniteSets

CONSTANTS
    Accounts,    \* the configured accounts in order
    SNSOnly,     \* those that only hold credentials for a notifier
    AccountID,   \* configured account -> its account id; two may share one
    Sees,        \* configured account -> what AWS reports of its regions
    Resources,   \* reservations and GPU instances, as the keys of their rows
    IdOf,        \* resource -> the account id in its key
    TableOf,     \* resource -> "reservations" or "gpu_coverage"
    SourceOf,    \* resource -> the API call that reports it
    CallOrder,   \* the API calls, in the order the code makes them
    Changing,    \* bound: the resources that change while we watch
    MaxVersion,  \* bound on the changes of a resource
    MaxFaults,   \* bound on failed API calls, failed writes and restarts
    MaxImports   \* bound on imported rows

Tables == {"reservations", "gpu_coverage"}
Sources == {CallOrder[i] : i \in DOMAIN CallOrder}
Versions == 0..MaxVersion

ASSUME BoundsAssumption ==
    /\ MaxVersion \in Nat \ {0}
    /\ MaxFaults \in Nat /\ MaxImports \in Nat
ASSUME ResourcesAssumption ==
    /\ \A i \in DOMAIN Accounts :
          Sees[Accounts[i]] \subseteq {r \in Resources : IdOf[r] = AccountID[Accounts[i]]}
    /\ TableOf \in [Resources -> Tables]
    /\ SourceOf \in [Resources -> Sources]

VARIABLES
    cloud,     \* AWS: resource -> version
    row,       \* the database: resource -> version
    pc,        \* syncer -> its step in SyncAll
    unit,      \* syncer -> position in Work
    todo,      \* syncer -> API calls of this unit still to make
    items,     \* syncer -> what this unit's calls returned
    failed,    \* syncer -> one of them failed (len(errs) > 0)
    running,   \* syncState.running
    faults, imports,
    stale,     \* history: syncer -> held items whose row others wrote since
    misread    \* history: syncer -> held items that do not say what AWS said

syncer == <<pc, unit, todo, items, failed, misread>>
bounds == <<faults, imports>>
vars == <<cloud, row, pc, unit, todo, items, failed, running, faults, imports,
          stale, misread>>

-----------------------------------------------------------------------------

Syncers == {"cron", "api"}

\* The accounts SyncAll visits, and the ids whose rows pruning keeps.  They
\* are the same accounts: startup fails when the id of a synced one is
\* neither configured nor found out.
Synced == SelectSeq(Accounts, LAMBDA a : a \notin SNSOnly)
KeepIDs == {AccountID[Synced[i]] : i \in DOMAIN Synced}

\* Each account's reservations, then its GPU coverage.
WorkLength == 2 * Len(Synced)
AccountAt(n) == Synced[(n + 1) \div 2]
TableAt(n) == IF n % 2 = 1 THEN "reservations" ELSE "gpu_coverage"

\* What the calls of a unit report, and what its Replace deletes by account id.
Reported(n) == {r \in Resources : r \in Sees[AccountAt(n)] /\ TableOf[r] = TableAt(n)}
Swapped(n) == {r \in Resources : IdOf[r] = AccountID[AccountAt(n)] /\ TableOf[r] = TableAt(n)}
From(n, c) == {r \in Reported(n) : SourceOf[r] = c}
CallsOf(n) == {c \in Sources : From(n, c) # {}}

Nothing == [r \in Resources |-> 0]

SyncTypeOK ==
    /\ cloud \in [Resources -> Versions]
    /\ row \in [Resources -> Versions]
    /\ pc \in [Syncers -> {"idle", "prune", "prune_gpu", "fetch", "apply", "merge"}]
    /\ unit \in [Syncers -> 1..(WorkLength + 1)]
    /\ todo \in [Syncers -> SUBSET Sources]
    /\ items \in [Syncers -> [Resources -> Versions]]
    /\ failed \in [Syncers -> BOOLEAN]
    /\ running \in BOOLEAN
    /\ running <=> pc["api"] # "idle"
    /\ faults \in 0..MaxFaults
    /\ imports \in 0..MaxImports
    /\ stale \in [Syncers -> SUBSET Resources]
    /\ misread \in [Syncers -> SUBSET Resources]

\* A database left by an earlier configuration; the cron goroutine starts
\* with a sync.
Init ==
    /\ cloud = [r \in Resources |-> 1]
    /\ row \in {Nothing, cloud}
    /\ pc = [s \in Syncers |-> IF s = "cron" THEN "prune" ELSE "idle"]
    /\ unit = [s \in Syncers |-> 1]
    /\ todo = [s \in Syncers |-> {}]
    /\ items = [s \in Syncers |-> Nothing]
    /\ failed = [s \in Syncers |-> FALSE]
    /\ running = FALSE
    /\ faults = 0
    /\ imports = 0
    /\ stale = [s \in Syncers |-> {}]
    /\ misread = [s \in Syncers |-> {}]

-----------------------------------------------------------------------------
(* AWS and the users.                                                      *)

Found(s) == {r \in Resources : items[s][r] # 0}

\* The rows W were written, by syncer s or by an import: another syncer that
\* holds one of them holds it stale, and s has let go of them.
WrittenBy(s, W) ==
    [t \in Syncers |-> IF t = s THEN stale[t] \ W ELSE stale[t] \cup (W \cap Found(t))]

\* A resource is renewed or resized, or it ends.  Accounts that are not
\* configured change too, but nothing reads them.
CloudChange(r) ==
    /\ r \in Changing
    /\ IdOf[r] \in KeepIDs
    /\ cloud[r] # 0
    /\ \E v \in {0, cloud[r] + 1} \cap Versions : cloud' = [cloud EXCEPT ![r] = v]
    /\ UNCHANGED <<row, syncer, running, bounds, stale>>

\* importCSV upserts each row of the file; a file holds what was once true.
ImportRow(r) ==
    /\ TableOf[r] = "reservations"
    /\ imports < MaxImports
    /\ imports' = imports + 1
    /\ \E v \in 1..MaxVersion :
          /\ v <= cloud[r] \/ cloud[r] = 0
          /\ row' = [row EXCEPT ![r] = v]
    /\ stale' = WrittenBy("import", {r})
    /\ UNCHANGED <<cloud, syncer, running, faults>>

\* POST /api/sync; while one is running the answer is 409 and nothing changes.
StartApiSync ==
    /\ ~running
    /\ running' = TRUE
    /\ pc' = [pc EXCEPT !["api"] = "prune"]
    /\ UNCHANGED <<cloud, row, unit, todo, items, failed, misread, bounds, stale>>

\* The sync ticker.
StartCronSync ==
    /\ pc["cron"] = "idle"
    /\ pc' = [pc EXCEPT !["cron"] = "prune"]
    /\ UNCHANGED <<cloud, row, unit, todo, items, failed, misread, running, bounds, stale>>

Fault == faults < MaxFaults /\ faults' = faults + 1
NoFault == UNCHANGED faults

\* A restart: the goroutines are gone, the cron goroutine syncs at once.
Crash ==
    /\ Fault
    /\ pc' = [s \in Syncers |-> IF s = "cron" THEN "prune" ELSE "idle"]
    /\ unit' = [s \in Syncers |-> 1]
    /\ todo' = [s \in Syncers |-> {}]
    /\ items' = [s \in Syncers |-> Nothing]
    /\ failed' = [s \in Syncers |-> FALSE]
    /\ running' = FALSE
    /\ stale' = [s \in Syncers |-> {}]
    /\ misread' = [s \in Syncers |-> {}]
    /\ UNCHANGED <<cloud, row, imports>>

-----------------------------------------------------------------------------
(* SyncAll.                                                                *)

\* Mutant: the goroutine returns without resetting syncState.running.
MutantEnter(s, n) ==
    /\ failed' = [failed EXCEPT ![s] = FALSE]
    /\ items' = [items EXCEPT ![s] = Nothing]
    /\ misread' = [misread EXCEPT ![s] = {}]
    /\ pc' = [pc EXCEPT ![s] = IF n <= WorkLength THEN "fetch" ELSE "idle"]
    /\ unit' = [unit EXCEPT ![s] = IF n <= WorkLength THEN n ELSE 1]
    /\ todo' = [todo EXCEPT ![s] = IF n <= WorkLength THEN CallsOf(n) ELSE {}]
    /\ UNCHANGED running

\* Begin unit n, or return when there is none: the API goroutine then reports
\* its result in syncState.
Enter(s, n) ==
    /\ failed' = [failed EXCEPT ![s] = FALSE]
    /\ items' = [items EXCEPT ![s] = Nothing]
    /\ misread' = [misread EXCEPT ![s] = {}]
    /\ IF n <= WorkLength
       THEN /\ pc' = [pc EXCEPT ![s] = "fetch"]
            /\ unit' = [unit EXCEPT ![s] = n]
            /\ todo' = [todo EXCEPT ![s] = CallsOf(n)]
            /\ UNCHANGED running
       ELSE /\ pc' = [pc EXCEPT ![s] = "idle"]
            /\ unit' = [unit EXCEPT ![s] = 1]
            /\ todo' = [todo EXCEPT ![s] = {}]
            /\ running' = IF s = "api" THEN FALSE ELSE running

\* The rows of one table that PruneAccounts deletes; none when no account is
\* to be kept.
Pruned(t) ==
    IF KeepIDs = {} THEN {}
    ELSE {r \in Resources : TableOf[r] = t /\ IdOf[r] \notin KeepIDs}

\* The first DELETE of PruneAccounts.
PruneReservations(s) ==
    /\ pc[s] = "prune"
    /\ row' = [r \in Resources |-> IF r \in Pruned("reservations") THEN 0 ELSE row[r]]
    /\ pc' = [pc EXCEPT ![s] = "prune_gpu"]
    /\ UNCHANGED <<cloud, unit, todo, items, failed, misread, running, bounds, stale>>

\* The second, a statement of its own.
PruneCoverage(s) ==
    /\ pc[s] = "prune_gpu"
    /\ row' = [r \in Resources |-> IF r \in Pruned("gpu_coverage") THEN 0 ELSE row[r]]
    /\ Enter(s, 1)
    /\ UNCHANGED <<cloud, bounds, stale>>

\* Either fails: PruneAccounts returns and SyncAll goes on.
PruneFails(s) ==
    /\ pc[s] \in {"prune", "prune_gpu"}
    /\ Fault
    /\ Enter(s, 1)
    /\ UNCHANGED <<cloud, row, imports, stale>>

\* Mutant: the first description of a resource is cached for good.
MutantAnswer(s, c, lost) ==
    [r \in Resources |->
        IF r \notin From(unit[s], c) THEN items[s][r]
        ELSE IF r \in lost \/ cloud[r] = 0 THEN 0 ELSE 1]

\* What has been read of the account once call c has answered, without the
\* resources in `lost'.
Answer(s, c, lost) ==
    [r \in Resources |->
        IF r \notin From(unit[s], c) THEN items[s][r]
        ELSE IF r \in lost THEN 0 ELSE cloud[r]]

\* The calls are made one after the other, in the order of CallOrder.
Position == [c \in Sources |-> CHOOSE i \in DOMAIN CallOrder : CallOrder[i] = c]
IsNextCall(s, c) == \A d \in todo[s] : Position[c] <= Position[d]

Called(s, c, lost) ==
    /\ pc[s] = "fetch"
    /\ IsNextCall(s, c)
    /\ items' = [items EXCEPT ![s] = Answer(s, c, lost)]
    /\ todo' = [todo EXCEPT ![s] = @ \ {c}]

\* What an error leaves out.  The savings plans keep the pages already read;
\* the GPU instances are listed although the call for the reserved instances,
\* capacity blocks or savings plans that cover them failed; any other call
\* returns nothing.
Losses(n, c) ==
    CASE c = "sp" -> SUBSET From(n, c)
      [] TableAt(n) = "gpu_coverage" -> {{}, From(n, c)}
      [] OTHER -> {From(n, c)}

\* An API call of the unit returns everything it should.
FetchOk(s) ==
    /\ \E c \in todo[s] : Called(s, c, {})
    /\ UNCHANGED <<cloud, row, pc, unit, failed, misread, running, bounds, stale>>

\* It fails, or times out.
FetchFails(s) ==
    /\ \E c \in todo[s] : \E lost \in Losses(unit[s], c) : Called(s, c, lost)
    /\ Fault
    /\ failed' = [failed EXCEPT ![s] = TRUE]
    /\ UNCHANGED <<cloud, row, pc, unit, misread, running, imports, stale>>

\* Mutant: a partial answer replaces the account too.
MutantIsComplete(s) == Found(s) # {}

\* Mutant: what was fetched is only ever merged.
MutantNeverComplete(s) == FALSE

\* len(errs) == 0 && len(items) > 0
IsComplete(s) == ~failed[s] /\ Found(s) # {}

\* All calls made: swap the account, or merge what came.
AllCallsMade(s) ==
    /\ pc[s] = "fetch"
    /\ todo[s] = {}
    /\ pc' = [pc EXCEPT ![s] = IF IsComplete(s) THEN "apply" ELSE "merge"]
    /\ UNCHANGED <<cloud, row, unit, todo, failed, running, imports, stale>>

FetchDone(s) ==
    /\ AllCallsMade(s)
    /\ UNCHANGED <<items, misread, faults>>

\* analyzeCoverage works on what came: instances whose reservations, capacity
\* blocks or plans could not be read count as on demand, which is what version
\* 1 of an instance says.  A plan whose rates fail is skipped without an error.
FetchMisjudged(s) ==
    /\ AllCallsMade(s)
    /\ TableAt(unit[s]) = "gpu_coverage"
    /\ (failed[s] /\ NoFault) \/ Fault
    /\ \E M \in (SUBSET Found(s)) \ {{}} :
          /\ items' = [items EXCEPT ![s] = [r \in Resources |-> IF r \in M THEN 1 ELSE @[r]]]
          /\ misread' = [misread EXCEPT ![s] = @ \cup M]

\* ReplaceAccount, ReplaceGPUCoverage: delete and insert in one transaction.
Replace(s) ==
    /\ pc[s] = "apply"
    /\ row' = [r \in Resources |->
                  IF items[s][r] # 0 THEN items[s][r]
                  ELSE IF r \in Swapped(unit[s]) THEN 0 ELSE row[r]]
    /\ stale' = WrittenBy(s, Swapped(unit[s]) \cup Found(s))
    /\ Enter(s, unit[s] + 1)
    /\ UNCHANGED <<cloud, bounds>>

\* The transaction is rolled back.
ReplaceFails(s) ==
    /\ pc[s] = "apply"
    /\ Fault
    /\ Enter(s, unit[s] + 1)
    /\ stale' = [stale EXCEPT ![s] = {}]
    /\ UNCHANGED <<cloud, row, imports>>

\* Upsert, UpsertGPUCoverage: one statement per item, which may fail.
UpsertItem(s) ==
    /\ pc[s] = "merge"
    /\ \E r \in Found(s) :
          /\ \/ NoFault /\ row' = [row EXCEPT ![r] = items[s][r]]
             \/ Fault /\ UNCHANGED row
          /\ items' = [items EXCEPT ![s][r] = 0]
          /\ stale' = WrittenBy(s, {r})
    /\ UNCHANGED <<cloud, pc, unit, todo, failed, misread, running, imports>>

MergeDone(s) ==
    /\ pc[s] = "merge"
    /\ Found(s) = {}
    /\ Enter(s, unit[s] + 1)
    /\ UNCHANGED <<cloud, row, bounds, stale>>

-----------------------------------------------------------------------------

\* An API call returns.
Call(s) == FetchOk(s) \/ FetchFails(s)

\* What a syncer does without AWS.
Work(s) ==
    \/ PruneReservations(s) \/ PruneCoverage(s) \/ PruneFails(s)
    \/ FetchDone(s) \/ FetchMisjudged(s)
    \/ Replace(s) \/ ReplaceFails(s)
    \/ UpsertItem(s) \/ MergeDone(s)

Next ==
    \/ \E r \in Resources : CloudChange(r)
    \/ \E r \in Resources : ImportRow(r)
    \/ StartApiSync
    \/ StartCronSync
    \/ \E s \in Syncers : Call(s) \/ Work(s)
    \/ Crash

Spec == Init /\ [][Next]_vars

\* Goroutines are scheduled and the ticker fires; failures, changes, imports
\* and restarts are bounded, that is, they cease.  The calls of the API sync
\* return, if only because its context ends after 15 minutes; the context of
\* the cron goroutine has no deadline, so its calls need not.
Fairness ==
    /\ WF_vars(StartCronSync)
    /\ \A s \in Syncers : WF_vars(Work(s))
    /\ WF_vars(Call("api"))

FairSpec == Spec /\ Fairness

-----------------------------------------------------------------------------
(* Properties.                                                             *)

\* A row of a configured account disappears only when its resource no longer
\* exists in AWS: no failed call, rolled back transaction, restart, prune or
\* concurrent sync loses it ("partial failure ... existing rows are
\* preserved").  Replace deletes by account id, so this is said of the resources
\* that every configured account with that id reports.
Watched(r) ==
    \A n \in 1..WorkLength : r \in Swapped(n) => r \in Reported(n)
RowsDropOnlyWhenGone ==
    [][\A r \in Resources :
          (row[r] # 0 /\ row'[r] = 0 /\ IdOf[r] \in KeepIDs /\ Watched(r)) =>
              cloud[r] = 0]_vars

\* A row goes back to an older state of its resource only through an import, or
\* when the syncer that writes it read it before someone else last wrote it, or
\* judged an instance without knowing all that covers it; a sync on its own
\* whose calls succeed never undoes what is stored.
RegressOnlyByOverlap ==
    [][\A r \in Resources :
          (row'[r] # 0 /\ row'[r] < row[r]) =>
              \/ imports' # imports
              \/ \E s \in Syncers :
                    /\ items[s][r] = row'[r] /\ items'[s][r] = 0
                    /\ r \in stale[s] \cup misread[s]]_vars

\* Once changes and failures cease, the table of an account that still has
\* resources shows exactly what AWS has, whatever stale answers, imports and
\* half-finished syncs went before; and the rows of an account taken out of the
\* configuration are gone from both tables, although PruneAccounts deletes from
\* them one after the other.  Unless a call of the cron goroutine hangs: it has
\* no deadline, and then no further sync starts by itself.
CronHangs == <>[](pc["cron"] = "fetch" /\ todo["cron"] # {})
Mirrors(n) == \A r \in Swapped(n) : Watched(r) => row[r] = cloud[r]
IsEmpty(n) == \A r \in Reported(n) : cloud[r] = 0
Converges ==
    \/ CronHangs
    \/ /\ \A n \in 1..WorkLength : <>[](IsEmpty(n) \/ Mirrors(n))
       /\ \A r \in Resources : IdOf[r] \notin KeepIDs => <>[](row[r] = 0)

\* A sync started from the UI always comes to report that it has finished.
ApiSyncEnds == []<>~running


=============================================================================
