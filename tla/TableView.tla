------------------------------ MODULE TableView ------------------------------
(***************************************************************************)
(* What the dashboard shows of the data it holds                           *)
(* (frontend/static/js/app.js): filters, sorting, day counts, badges and   *)
(* the cards above the table of reservations, and the GPU table.           *)
(*                                                                         *)
(* `filteredReservations' and `stats' are computed values: Vue keeps them  *)
(* until something they read changes, and the clock is not such a thing.   *)
(* The day counts in the cells are function calls of the template, made    *)
(* anew at every rendering, whatever caused it.  So each of the three has  *)
(* its own moment, and the page can show them side by side.                *)
(*                                                                         *)
(* Texts are numbers in the order of their lower-case forms; a search text *)
(* is one of the words that a row contains.  The search box of the GPU     *)
(* table works like the other and is left out.                             *)
(***************************************************************************)
EXTENDS Integers, Sequences, FiniteSets

CONSTANTS
    Day,        \* ticks per day
    Lists,      \* the lists of reservations the server may answer with
    GPULists,   \* the lists of GPU instances
    Types,      \* the types of resources the filter offers
    Words,      \* search texts a user may type
    Start, End  \* first and last reading of the clock

ASSUME ViewAssumption ==
    Day \in Nat \ {0} /\ Start \in Nat /\ End \in Nat /\ Start <= End

\* A Date of JavaScript ends 100,000,000 days after the epoch.
MaxDays == 100000000
CardTypes == {"sp", "cb", "odcr", "ri"}
Coverages == {"on_demand", "savings_plan", "capacity_block", "reserved_instance"}

\* Type and status, and the sign of the numbers, are not checked when a CSV is
\* imported.
Rows == [id : Nat, account_id : Nat, type : STRING, end_time : 0..(MaxDays * Day),
         used_count : Int, quantity : Int, status : STRING, words : SUBSET Words]
GPURows == [id : Nat, account_id : Nat, coverage : Coverages, sp_rate : Nat]

\* The primary keys of the server's tables.
DistinctIds(list) ==
    \A i, j \in DOMAIN list : list[i].id = list[j].id => i = j

ASSUME ListsAssumption ==
    /\ \A list \in Lists : list \in Seq(Rows) /\ DistinctIds(list)
    /\ \A list \in GPULists : list \in Seq(GPURows) /\ DistinctIds(list)

VARIABLES
    reservations, sortKey, sortDir, filterType, filterAccount, searchText,
    gpuCoverage, gpuSortKey, gpuSortDir, gpuFilterAccount,
    now,      \* the clock of the browser
    cardsAt,  \* when stats was computed
    orderAt,  \* when filteredReservations was computed
    cellsAt   \* when the table was rendered

filters == <<filterType, filterAccount, searchText>>
dashboard == <<reservations, sortKey, sortDir, filters>>
gpuTable == <<gpuCoverage, gpuSortKey, gpuSortDir, gpuFilterAccount>>
viewVars == <<reservations, sortKey, sortDir, filterType, filterAccount, searchText,
              gpuCoverage, gpuSortKey, gpuSortDir, gpuFilterAccount, now,
              cardsAt, orderAt, cellsAt>>

-----------------------------------------------------------------------------

\* The empty choice of the type filter and the search box, of the accounts.
All == "all"
AllAccounts == 0
NoKey == "none"
GPUKeys == {"account_id", "sp_rate"}
Keys == {"account_id", "quantity", "usage", "end_time", "days_left"}

\* The row of an absent or zero end_time has end NoEnd; isZeroTime.
NoEnd == 0
isZeroTime(d) == d = NoEnd

\* `null', shown as "-"; no day count of a date is as large.
Null == MaxDays + 1

\* Math.ceil((d - now) / 86400000)
daysUntil(d, t) == IF isZeroTime(d) THEN Null ELSE -((t - d) \div Day)

\* model.DaysUntil of the server, as in the module Alerts.
ServerDays == INSTANCE Alerts WITH RemindDays <- {}

daysClass(days) ==
    CASE days = Null -> "none"
      [] days <= 7 -> "critical"
      [] days > 7 /\ days <= 30 -> "warning"
      [] OTHER -> "normal"

\* "7d" and the like are all "d".
daysDisplay(days) ==
    IF days = Null THEN "-" ELSE IF days <= 0 THEN "Expired" ELSE "d"

-----------------------------------------------------------------------------
(* Filtering and sorting.                                                  *)

Passes(r) ==
    /\ filterType \in {All, r.type}
    /\ filterAccount \in {AllAccounts, r.account_id}
    /\ searchText \in {All} \cup r.words

UsesCapacity(r) == r.type \in {"odcr", "cb"}

\* -Infinity for a missing date, and numbers and texts as they are; dates are
\* positive, and an open one sorts first.
ColumnValue(r, key) ==
    CASE key = "end_time" -> IF isZeroTime(r.end_time) THEN -1 ELSE r.end_time
      [] key = "quantity" -> r.quantity
      [] key = "sp_rate" -> r.sp_rate
      [] OTHER -> r.account_id

compareValues(a, b, key) ==
    LET va == ColumnValue(a, key)
        vb == ColumnValue(b, key)
    IN  IF va < vb THEN -1 ELSE IF va > vb THEN 1 ELSE 0

\* Mutant: `null' is left to JavaScript, which subtracts it as 0.
MutantCompare(a, b, key, t) ==
    LET D(r) == IF isZeroTime(r.end_time) THEN 0 ELSE daysUntil(r.end_time, t)
    IN  IF key = "days_left" THEN D(a) - D(b) ELSE compareValues(a, b, key)

\* The comparison of filteredReservations before the sign.  An open date counts
\* as Infinity; Infinity - Infinity is NaN, which sort takes for 0.
Compare(a, b, key, t) ==
    LET Usage(r) == IF UsesCapacity(r) THEN r.used_count ELSE -1
    IN  CASE key = "days_left" -> daysUntil(a.end_time, t) - daysUntil(b.end_time, t)
          [] key = "usage" -> Usage(a) - Usage(b)
          [] OTHER -> compareValues(a, b, key)

\* The rows of `list' at the places in S, in the order R.
Place(i, S, R) == Cardinality({j \in S : <<j, i>> \in R}) + 1
Arrange(list, S, R) ==
    [k \in 1..Cardinality(S) |-> list[CHOOSE i \in S : Place(i, S, R) = k]]

\* Array.prototype.filter keeps the order, and Array.prototype.sort is stable:
\* rows of which neither comes after the other stay as they are.
FilterAndSort(list, Test(_), After(_, _)) ==
    LET S == {i \in DOMAIN list : Test(list[i])}
    IN  Arrange(list, S, {p \in S \X S :
            \/ After(list[p[2]], list[p[1]])
            \/ ~After(list[p[1]], list[p[2]]) /\ p[1] < p[2]})

Sign(dir) == IF dir = "asc" THEN 1 ELSE -1

\* Without a key the filtered list is returned as it is.
filteredReservations ==
    FilterAndSort(reservations, Passes, LAMBDA a, b :
        sortKey # NoKey /\ Compare(a, b, sortKey, orderAt) * Sign(sortDir) > 0)

GPUPasses(g) == gpuFilterAccount \in {AllAccounts, g.account_id}

filteredGPUCoverage ==
    FilterAndSort(gpuCoverage, GPUPasses, LAMBDA a, b :
        gpuSortKey # NoKey /\ compareValues(a, b, gpuSortKey) * Sign(gpuSortDir) > 0)

\* The options of both account filters: the first row of each account.
uniqueAccounts ==
    {i \in DOMAIN reservations :
        \A j \in 1..(i - 1) : reservations[j].account_id # reservations[i].account_id}

-----------------------------------------------------------------------------
(* The cards.                                                              *)

CountOf(list, Test(_)) == Cardinality({i \in DOMAIN list : Test(list[i])})

\* Mutant: a resource with a week left is no longer urgent.
MutantStats(list, t) ==
    LET D(r) == daysUntil(r.end_time, t)
    IN  [total    |-> Len(list),
         expired  |-> CountOf(list, LAMBDA r : D(r) <= 0),
         critical |-> CountOf(list, LAMBDA r : D(r) > 0 /\ D(r) < 7),
         warning  |-> CountOf(list, LAMBDA r : D(r) >= 7 /\ D(r) <= 30),
         active   |-> CountOf(list, LAMBDA r : D(r) > 30),
         byType   |-> <<>>,
         idle     |-> 0]

stats(list, t) ==
    LET D(r) == daysUntil(r.end_time, t)
    IN  [total    |-> Len(list),
         expired  |-> CountOf(list, LAMBDA r : D(r) # Null /\ D(r) <= 0),
         critical |-> CountOf(list, LAMBDA r : D(r) # Null /\ D(r) > 0 /\ D(r) <= 7),
         warning  |-> CountOf(list, LAMBDA r : D(r) # Null /\ D(r) > 7 /\ D(r) <= 30),
         active   |-> CountOf(list, LAMBDA r : D(r) = Null \/ D(r) > 30),
         byType   |-> [y \in CardTypes |-> CountOf(list, LAMBDA r : r.type = y)],
         idle     |-> CountOf(list, LAMBDA r : /\ UsesCapacity(r)
                                              /\ r.used_count < r.quantity
                                              /\ r.status = "active")]

gpuStats ==
    LET N(c) == CountOf(gpuCoverage, LAMBDA g : g.coverage = c)
    IN  [total |-> Len(gpuCoverage), onDemand |-> N("on_demand"),
         sp |-> N("savings_plan"), cb |-> N("capacity_block"),
         ri |-> N("reserved_instance")]

-----------------------------------------------------------------------------

ViewTypeOK ==
    /\ reservations \in Lists \cup {<<>>}
    /\ sortKey \in Keys \cup {NoKey}
    /\ sortDir \in {"asc", "desc"}
    /\ filterType \in {All} \cup Types
    /\ filterAccount \in Nat
    /\ searchText \in {All} \cup Words
    /\ gpuCoverage \in GPULists \cup {<<>>}
    /\ gpuSortKey \in GPUKeys \cup {NoKey}
    /\ gpuSortDir \in {"asc", "desc"}
    /\ gpuFilterAccount \in Nat
    /\ now \in Start..End
    /\ cellsAt \in Start..now
    /\ orderAt \in Start..cellsAt
    /\ cardsAt \in Start..orderAt

ViewInit ==
    /\ reservations = <<>>
    /\ sortKey = NoKey
    /\ sortDir = "asc"
    /\ filterType = All
    /\ filterAccount = AllAccounts
    /\ searchText = All
    /\ gpuCoverage = <<>>
    /\ gpuSortKey = NoKey
    /\ gpuSortDir = "asc"
    /\ gpuFilterAccount = AllAccounts
    /\ now = Start
    /\ cardsAt = Start
    /\ orderAt = Start
    /\ cellsAt = Start

\* Mutant: the array is changed in place, which Vue does not notice.
MutantLoaded ==
    /\ reservations' \in Lists \cup {<<>>}
    /\ cardsAt' = now
    /\ orderAt' = now
    /\ UNCHANGED <<sortKey, sortDir, filters, gpuTable, now, cellsAt>>

\* loadReservations assigns an answer, or nothing if it fails: everything is
\* computed anew.
Loaded ==
    /\ reservations' \in Lists \cup {<<>>}
    /\ cardsAt' = now
    /\ orderAt' = now
    /\ cellsAt' = now
    /\ UNCHANGED <<sortKey, sortDir, filters, gpuTable, now>>

\* The list is computed anew, the cards are not.
Reordered ==
    /\ orderAt' = now
    /\ cellsAt' = now
    /\ UNCHANGED <<reservations, gpuTable, now, cardsAt>>

\* The next key and direction after a click on the heading of `key'.
Toggled(old, dir, key) ==
    IF old = key THEN <<old, IF dir = "asc" THEN "desc" ELSE "asc">> ELSE <<key, "asc">>

sortBy(key) ==
    /\ sortKey' = Toggled(sortKey, sortDir, key)[1]
    /\ sortDir' = Toggled(sortKey, sortDir, key)[2]
    /\ Reordered
    /\ UNCHANGED filters

\* The user picks a type or an account, or types into the search box.
SetFilter ==
    /\ \/ /\ filterType' \in {All} \cup Types
          /\ UNCHANGED <<filterAccount, searchText>>
       \/ /\ filterAccount' \in {AllAccounts} \cup
                 {reservations[i].account_id : i \in uniqueAccounts}
          /\ UNCHANGED <<filterType, searchText>>
       \/ /\ searchText' \in {All} \cup Words
          /\ UNCHANGED <<filterType, filterAccount>>
    /\ filters' # filters
    /\ Reordered
    /\ UNCHANGED <<sortKey, sortDir>>

\* The same of the GPU table, in which nothing depends on the clock; the page
\* is rendered.
GPULoaded ==
    /\ gpuCoverage' \in GPULists \cup {<<>>}
    /\ cellsAt' = now
    /\ UNCHANGED <<dashboard, gpuSortKey, gpuSortDir, gpuFilterAccount, now, cardsAt,
                   orderAt>>

gpuSortBy(key) ==
    /\ gpuSortKey' = Toggled(gpuSortKey, gpuSortDir, key)[1]
    /\ gpuSortDir' = Toggled(gpuSortKey, gpuSortDir, key)[2]
    /\ cellsAt' = now
    /\ UNCHANGED <<dashboard, gpuCoverage, gpuFilterAccount, now, cardsAt, orderAt>>

\* Its options are the accounts of the reservations.
SetGPUFilter ==
    /\ gpuFilterAccount' \in {AllAccounts} \cup
           {reservations[i].account_id : i \in uniqueAccounts}
    /\ gpuFilterAccount' # gpuFilterAccount
    /\ cellsAt' = now
    /\ UNCHANGED <<dashboard, gpuCoverage, gpuSortKey, gpuSortDir, now, cardsAt, orderAt>>

\* Anything else the template reads changes: a message, the tab, the spinner.
Render ==
    /\ cellsAt' = now
    /\ UNCHANGED <<dashboard, gpuTable, now, cardsAt, orderAt>>

ClockTicks ==
    /\ now < End
    /\ now' = now + 1
    /\ UNCHANGED <<dashboard, gpuTable, cardsAt, orderAt, cellsAt>>

ViewNext ==
    \/ Loaded \/ SetFilter \/ GPULoaded \/ SetGPUFilter \/ Render \/ ClockTicks
    \/ \E key \in Keys : sortBy(key)
    \/ \E key \in GPUKeys : gpuSortBy(key)

ViewSpec == ViewInit /\ [][ViewNext]_viewVars

-----------------------------------------------------------------------------
(* Properties.                                                             *)

\* A table shows exactly the rows its filters let through, each once, and in
\* the order its column heading announces, open dates included.  Days left are
\* only ever one day out of order: rows that were due on the same day when they
\* were sorted may be shown with different counts later.
Shows(table, list, Test(_)) ==
    /\ {table[i].id : i \in DOMAIN table} =
           {list[i].id : i \in {j \in DOMAIN list : Test(list[j])}}
    /\ Len(table) = Cardinality({table[i].id : i \in DOMAIN table})
InOrder(table, dir, Value(_), slack) ==
    \A i, j \in DOMAIN table : i < j =>
        IF dir = "asc" THEN Value(table[i]) <= Value(table[j]) + slack
                       ELSE Value(table[i]) + slack >= Value(table[j])
CellValue(r) ==
    CASE sortKey = "days_left" -> daysUntil(r.end_time, cellsAt)
      [] sortKey = "usage" -> IF UsesCapacity(r) THEN r.used_count ELSE -1
      [] OTHER -> ColumnValue(r, sortKey)
OrderShown ==
    /\ Shows(filteredReservations, reservations, Passes)
    /\ sortKey # NoKey => InOrder(filteredReservations, sortDir, CellValue,
                               IF sortKey = "days_left" THEN 1 ELSE 0)
    /\ Shows(filteredGPUCoverage, gpuCoverage, GPUPasses)
    /\ gpuSortKey # NoKey => InOrder(filteredGPUCoverage, gpuSortDir,
                                  LAMBDA g : ColumnValue(g, gpuSortKey), 0)

\* How a card names the rows of the table: by what their cells show.
InCells(Test(_, _)) ==
    CountOf(reservations, LAMBDA r :
        LET days == daysUntil(r.end_time, cellsAt)
        IN  Test(daysClass(days), daysDisplay(days)))
CardsEqualCells ==
    LET cards == stats(reservations, cardsAt)
    IN  /\ cards.expired = InCells(LAMBDA class, text : text = "Expired")
        /\ cards.critical = InCells(LAMBDA class, text :
                                     class = "critical" /\ text # "Expired")
        /\ cards.warning = InCells(LAMBDA class, text : class = "warning")
        /\ cards.active = InCells(LAMBDA class, text : class \in {"none", "normal"})
        /\ cards.total = cards.expired + cards.critical + cards.warning + cards.active
        /\ gpuStats.total = gpuStats.onDemand + gpuStats.sp + gpuStats.cb + gpuStats.ri

\* "mirrors model.DaysUntil on the server so the table, the stat cards and the
\* API all report the same number": at any moment and for any date, past ones
\* included, although one rounds up in floating point and the other truncates;
\* and a row is counted by exactly one card, the one that its badge in the
\* table says, as long as cards and cells are of the same moment.
DayCountsAgree ==
    /\ \A i \in DOMAIN reservations :
          LET end == reservations[i].end_time
          IN  ~isZeroTime(end) => daysUntil(end, now) = ServerDays!DaysUntil(end, now)
    /\ cardsAt = cellsAt => CardsEqualCells
=============================================================================
