------------------------------ MODULE Migration ------------------------------
(***************************************************************************)
(* Opening the database (store/sqlite.go, New and migrate).  Each SQL      *)
(* statement commits by itself, and the process can die between any two of *)
(* them; main ends when a statement fails, so that a failure is a crash as *)
(* well, but for ADD COLUMN, whose failure is ignored.  The next start     *)
(* runs the same statements against whatever was left.  Only a start that  *)
(* gets to the end serves.                                                 *)
(*                                                                         *)
(* notify_log is rebuilt, to get a key that covers end_time, through a     *)
(* second table notify_log_new.  Of the other tables only the form of      *)
(* their timestamps matters, and of each column one value stands for all.  *)
(***************************************************************************)
EXTENDS Integers, Sequences

CONSTANTS
    Ids,        \* reservation ids
    Levels,     \* what notify_log holds in its column level
    Ends,       \* expiry dates
    MaxCrashes  \* bound on the crashes and the failures that are ignored

\* The end_time of an on-demand alert, and of rows from before the column.
NoEnd == 0

ASSUME MigrationAssumption == Ends \subseteq Nat \ {NoEnd} /\ MaxCrashes \in Nat

VARIABLES
    pc,         \* the next statement, "down" or "serving"
    col,        \* the next column to normalise
    notify_log, notify_log_new,
    stamps,     \* column -> the form of its timestamps
    crashes

vars == <<pc, col, notify_log, notify_log_new, stamps, crashes>>

-----------------------------------------------------------------------------

Marks == [id : Ids, level : Levels, end : Ends \cup {NoEnd}]

\* A table: its UNIQUE key, whether it has the column end_time, its rows.
Absent == [key |-> "absent", dated |-> FALSE, rows |-> {}]
OldTable == [key |-> "level", dated |-> FALSE, rows |-> {}]

NewTable == [key |-> "end_time", dated |-> TRUE, rows |-> {}]

Tables ==
    [key : {"absent", "level", "end_time"}, dated : BOOLEAN, rows : SUBSET Marks]

Exists(t) == t.key # "absent"
Conflicts(t, m) ==
    \E r \in t.rows : /\ r.id = m.id /\ r.level = m.level
                      /\ t.key = "end_time" => r.end = m.end

\* INSERT OR IGNORE of one row.
Insert(t, m) == IF Conflicts(t, m) THEN t ELSE [t EXCEPT !.rows = @ \cup {m}]

\* targets of normaliseStoredTimestamps.
Columns == <<"start_time", "end_time", "updated_at", "gpu_coverage.updated_at">>

\* sqlTimeLayout, the layout of older versions, one with a `T' that SQLite
\* cannot read, and none.  NULL must never get in: Scan would fail for the
\* whole table.
Forms == {"sql", "rfc3339", "unreadable", ""}

MigrationTypeOK ==
    /\ pc \in {"down", "create", "addColumn", "rebuild", "copy", "drop", "rename",
               "normalise", "serving"}
    /\ col \in 1..Len(Columns)
    /\ notify_log \in Tables
    /\ notify_log_new \in Tables
    /\ stamps \in [1..Len(Columns) -> Forms]
    /\ crashes \in 0..MaxCrashes

\* No database, or one that an older version left.
Init ==
    /\ pc = "down"
    /\ col = 1
    /\ \/ notify_log = Absent
       \/ \E levels \in [Ids -> SUBSET Levels] :
            notify_log = [OldTable EXCEPT !.rows =
                {m \in Marks : m.end = NoEnd /\ m.level \in levels[m.id]}]
    /\ notify_log_new = Absent
    /\ stamps \in [1..Len(Columns) -> Forms]
    /\ crashes = 0

-----------------------------------------------------------------------------

Start ==
    /\ pc = "down"
    /\ pc' = "create"
    /\ col' = 1
    /\ UNCHANGED <<notify_log, notify_log_new, stamps, crashes>>

Crash ==
    /\ pc # "down"
    /\ crashes < MaxCrashes
    /\ pc' = "down"
    /\ crashes' = crashes + 1
    /\ UNCHANGED <<col, notify_log, notify_log_new, stamps>>

\* CREATE TABLE IF NOT EXISTS, still with the old key.
CreateTables ==
    /\ pc = "create"
    /\ notify_log' = IF Exists(notify_log) THEN notify_log ELSE OldTable
    /\ pc' = "addColumn"
    /\ UNCHANGED <<col, notify_log_new, stamps, crashes>>

\* ALTER TABLE ... ADD COLUMN; the error when it is there is ignored.
AddEndTime ==
    /\ pc = "addColumn"
    /\ notify_log' = [notify_log EXCEPT !.dated = TRUE]
    /\ pc' = "rebuild"
    /\ UNCHANGED <<col, notify_log_new, stamps, crashes>>

\* It fails for another reason, which is ignored too: the table stays as it is.
AddEndTimeFails ==
    /\ pc = "addColumn"
    /\ crashes < MaxCrashes
    /\ crashes' = crashes + 1
    /\ pc' = "rebuild"
    /\ UNCHANGED <<col, notify_log, notify_log_new, stamps>>

\* The indexes that the code looks for "end_time" in.  A UNIQUE() within a
\* CREATE TABLE makes one whose sql is NULL, which the query leaves out, and
\* there are no others.
indexSQL == {}

\* Mutant: what an earlier start left is thrown away first.
MutantCreateNew ==
    /\ pc = "rebuild"
    /\ pc' = "copy"
    /\ notify_log_new' = NewTable
    /\ UNCHANGED <<col, notify_log, stamps, crashes>>

\* migrateNotifyLogKey: the look at the key, and the second table, which may
\* be there from an earlier start.
CreateNew ==
    /\ pc = "rebuild"
    /\ IF "end_time" \in indexSQL
       THEN pc' = "normalise" /\ UNCHANGED notify_log_new
       ELSE /\ pc' = "copy"
            /\ notify_log_new' =
                   IF Exists(notify_log_new) THEN notify_log_new ELSE NewTable
    /\ UNCHANGED <<col, notify_log, stamps, crashes>>

\* INSERT OR IGNORE ... SELECT, which fails without the column end_time.
CopyRows ==
    /\ pc = "copy"
    /\ IF notify_log.dated
       THEN /\ notify_log_new' = [notify_log_new EXCEPT !.rows = @ \cup
                    {m \in notify_log.rows : ~Conflicts(notify_log_new, m)}]
            /\ pc' = "drop"
       ELSE pc' = "down" /\ UNCHANGED notify_log_new
    /\ UNCHANGED <<col, notify_log, stamps, crashes>>

\* Mutant: the old table is emptied and not dropped.
MutantDropOld ==
    /\ pc = "drop"
    /\ notify_log' = [notify_log EXCEPT !.rows = {}]
    /\ pc' = "rename"
    /\ UNCHANGED <<col, notify_log_new, stamps, crashes>>

DropOld ==
    /\ pc = "drop"
    /\ notify_log' = Absent
    /\ pc' = "rename"
    /\ UNCHANGED <<col, notify_log_new, stamps, crashes>>

\* RENAME fails if there is a table of that name.
RenameNew ==
    /\ pc = "rename"
    /\ IF Exists(notify_log)
       THEN pc' = "down" /\ UNCHANGED <<notify_log, notify_log_new>>
       ELSE /\ notify_log' = notify_log_new
            /\ notify_log_new' = Absent
            /\ pc' = "normalise"
    /\ UNCHANGED <<col, stamps, crashes>>

\* Mutant: without the test of strftime.
MutantNormalised(form) ==
    CASE form = "rfc3339" -> "sql"
      [] form = "unreadable" -> "NULL"
      [] OTHER -> form

\* UPDATE ... WHERE LIKE '%T%' AND strftime(...) IS NOT NULL
Normalised(form) == IF form = "rfc3339" THEN "sql" ELSE form

\* Mutant: one column too few.
MutantNormalise ==
    /\ pc = "normalise"
    /\ stamps' = [stamps EXCEPT ![col] = Normalised(@)]
    /\ IF col < Len(Columns) - 1
       THEN col' = col + 1 /\ UNCHANGED pc
       ELSE pc' = "serving" /\ UNCHANGED col
    /\ UNCHANGED <<notify_log, notify_log_new, crashes>>

\* One statement per column; after the last, New returns.
Normalise ==
    /\ pc = "normalise"
    /\ stamps' = [stamps EXCEPT ![col] = Normalised(@)]
    /\ IF col < Len(Columns)
       THEN col' = col + 1 /\ UNCHANGED pc
       ELSE pc' = "serving" /\ UNCHANGED col
    /\ UNCHANGED <<notify_log, notify_log_new, crashes>>

Migrate ==
    \/ CreateTables \/ AddEndTime \/ CreateNew \/ CopyRows \/ DropOld \/ RenameNew
    \/ Normalise

-----------------------------------------------------------------------------
(* What the program does to the tables once they are open.                 *)

MarkNotified(m) ==
    /\ pc = "serving"
    /\ notify_log' = Insert(notify_log, m)
    /\ UNCHANGED <<pc, col, notify_log_new, stamps, crashes>>

\* Rows with no end_time stay.
Current(rows, cutoff) == {m \in rows : m.end = NoEnd \/ m.end >= cutoff}

PruneNotifyLog(cutoff) ==
    /\ pc = "serving"
    /\ notify_log' = [notify_log EXCEPT !.rows = Current(@, cutoff)]
    /\ UNCHANGED <<pc, col, notify_log_new, stamps, crashes>>

\* formatTime: the canonical layout, or "" for a zero time.
WriteTime(c) ==
    /\ pc = "serving"
    /\ \E form \in {"sql", ""} : stamps' = [stamps EXCEPT ![c] = form]
    /\ UNCHANGED <<pc, col, notify_log, notify_log_new, crashes>>

Next ==
    \/ Start \/ Crash \/ AddEndTimeFails \/ Migrate
    \/ \E m \in Marks : MarkNotified(m)
    \/ \E cutoff \in Ends : PruneNotifyLog(cutoff)
    \/ \E c \in 1..Len(Columns) : WriteTime(c)

Spec == Init /\ [][Next]_vars

\* A process that has ended is started again, and its statements are executed.
FairSpec == Spec /\ WF_vars(Start) /\ WF_vars(Migrate)

-----------------------------------------------------------------------------
(* Properties.                                                             *)

\* Whatever is left at whatever moment, the two tables together are the log
\* that MarkLog describes: each MarkNotified and PruneNotifyLog is one step of
\* it, and the statements of a migration and the crashes between them are none.
\* No crash loses a mark, whose reminder would go out again, and no later
\* rebuild brings a pruned one back.
Log ==
    INSTANCE MarkLog WITH log <- notify_log.rows \cup notify_log_new.rows,
                          Cutoffs <- Ends
ImplementsLog == Log!Spec

\* The program only ever works on a migrated database, after any number of
\* starts that were cut short: one notify_log, with the key that keeps a mark
\* of the renewed date apart from that of the old one, and no column that is
\* still in the layout whose `T' breaks the order of dates.
ServesMigrated ==
    pc = "serving" =>
        /\ notify_log.key = "end_time" /\ notify_log.dated
        /\ ~Exists(notify_log_new)
        /\ \A c \in DOMAIN stamps : stamps[c] # "rfc3339"

\* Neither a crash nor an ADD COLUMN that failed leaves a database that the next
\* start stumbles over: the program gets to serve, however it was interrupted.
ServesAgain == []<>(pc = "serving")
=============================================================================
