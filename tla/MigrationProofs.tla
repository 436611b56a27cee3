--------------------------- MODULE MigrationProofs ---------------------------
(***************************************************************************)
(* Proofs about opening the database, for any reservations, levels and     *)
(* dates, and any number of crashes between its statements.                *)
(***************************************************************************)
EXTENDS Migration, TLAPS

\* What every stage of the rebuild finds and leaves, a start after a crash
\* included: notify_log_new is absent or has the new key, an absent table has
\* no rows, and rows are dropped only when notify_log_new has them too.
Stages ==
    /\ notify_log_new.key \in {"absent", "end_time"}
    /\ Exists(notify_log_new) => notify_log_new.dated
    /\ ~Exists(notify_log) => notify_log = Absent
    /\ ~Exists(notify_log_new) => notify_log_new = Absent
    /\ pc \in {"addColumn", "rebuild", "copy", "drop"} => Exists(notify_log)
    /\ pc \in {"copy", "drop", "rename"} => Exists(notify_log_new)
    /\ pc = "drop" => notify_log.rows \subseteq notify_log_new.rows
    /\ pc = "rename" => notify_log = Absent
    /\ pc \in {"normalise", "serving"} =>
          /\ notify_log.key = "end_time" /\ notify_log.dated
          /\ notify_log_new = Absent

\* The columns that normaliseStoredTimestamps has dealt with.
Progress ==
    /\ pc \in {"create", "addColumn", "rebuild", "copy", "drop", "rename"} => col = 1
    /\ pc = "normalise" => \A c \in 1..(col - 1) : stamps[c] # "rfc3339"
    /\ pc = "serving" => \A c \in 1..Len(Columns) : stamps[c] # "rfc3339"

MInv == MigrationTypeOK /\ Stages /\ Progress

LEMMA NumColumns == Len(Columns) = 4
  BY DEF Columns

\* A mark that conflicts with a row under the new key is that row.
LEMMA ConflictIsEqual ==
  ASSUME NEW t \in Tables, t.key = "end_time", NEW m \in Marks, Conflicts(t, m)
  PROVE  m \in t.rows
  <1>1. PICK r \in t.rows : r.id = m.id /\ r.level = m.level /\ r.end = m.end
    BY DEF Conflicts
  <1>2. r \in Marks
    BY DEF Tables
  <1>3. r = m
    BY <1>1, <1>2 DEF Marks
  <1> QED BY <1>3

\* INSERT OR IGNORE under the new key leaves the row in the table.
LEMMA InsertAdds ==
  ASSUME NEW t \in Tables, t.key = "end_time", NEW m \in Marks
  PROVE  /\ Insert(t, m) \in Tables
         /\ Insert(t, m).rows = t.rows \cup {m}
         /\ Insert(t, m).key = t.key
         /\ Insert(t, m).dated = t.dated
  <1>1. CASE Conflicts(t, m)
    <2>1. m \in t.rows
      BY <1>1, ConflictIsEqual
    <2> QED BY <1>1, <2>1 DEF Insert
  <1>2. CASE ~Conflicts(t, m)
    BY <1>2 DEF Insert, Tables
  <1> QED BY <1>1, <1>2

\* The copy under the new key leaves out only what is there already.
LEMMA CopyComplete ==
  ASSUME NEW t \in Tables, t.key = "end_time", NEW rows \in SUBSET Marks
  PROVE  t.rows \cup {m \in rows : ~Conflicts(t, m)} = t.rows \cup rows
  BY ConflictIsEqual

LEMMA MigrationInit == Init => MInv
  <1> SUFFICES ASSUME Init PROVE MInv
    OBVIOUS
  <1>1. notify_log \in Tables
    <2>1. CASE notify_log = Absent
      BY <2>1 DEF Absent, Tables
    <2>2. CASE notify_log # Absent
      <3>1. PICK levels \in [Ids -> SUBSET Levels] :
              notify_log = [OldTable EXCEPT !.rows =
                  {m \in Marks : m.end = NoEnd /\ m.level \in levels[m.id]}]
        BY <2>2 DEF Init
      <3> QED BY <3>1 DEF OldTable, Tables
    <2> QED BY <2>1, <2>2
  <1>2. notify_log_new \in Tables
    BY DEF Init, Absent, Tables
  <1>3. MigrationTypeOK
    BY <1>1, <1>2, MigrationAssumption, NumColumns DEF Init, MigrationTypeOK, Tables
  <1>4. ~Exists(notify_log) => notify_log = Absent
    BY DEF Init, Exists, OldTable
  <1>5. Stages
    BY <1>4 DEF Init, Stages, Exists, Absent
  <1>6. Progress
    BY DEF Init, Progress, Absent
  <1> QED BY <1>3, <1>5, <1>6 DEF MInv

LEMMA MigrationStep == MInv /\ [Next]_vars => MInv'
  <1> SUFFICES ASSUME MInv, [Next]_vars PROVE MInv'
    OBVIOUS
  <1> USE NumColumns, MigrationAssumption
  <1>1. CASE Start
    BY <1>1 DEF MInv, MigrationTypeOK, Stages, Progress, Start, Exists
  <1>2. CASE Crash
    BY <1>2 DEF MInv, MigrationTypeOK, Stages, Progress, Crash, Exists
  <1>3. CASE CreateTables
    <2>1. notify_log' \in Tables /\ Exists(notify_log')
      BY <1>3 DEF MInv, MigrationTypeOK, CreateTables, Exists, OldTable, Tables
    <2>2. notify_log'.rows = notify_log.rows
      BY <1>3 DEF MInv, Stages, CreateTables, Exists, OldTable, Absent
    <2> QED BY <1>3, <2>1, <2>2
        DEF MInv, MigrationTypeOK, Stages, Progress, CreateTables, Exists
  <1>4. CASE AddEndTime
    <2>1. /\ notify_log' \in Tables /\ notify_log'.rows = notify_log.rows
          /\ notify_log'.dated /\ notify_log'.key = notify_log.key
      BY <1>4 DEF MInv, MigrationTypeOK, AddEndTime, Tables
    <2> QED BY <1>4, <2>1
        DEF MInv, MigrationTypeOK, Stages, Progress, AddEndTime, Exists
  <1>5. CASE CreateNew
    <2>1. /\ pc' = "copy"
          /\ notify_log_new' = IF Exists(notify_log_new) THEN notify_log_new ELSE NewTable
      BY <1>5 DEF CreateNew, indexSQL
    <2>2. /\ notify_log_new' \in Tables /\ notify_log_new'.key = "end_time"
          /\ notify_log_new'.dated
      BY <2>1 DEF MInv, MigrationTypeOK, Stages, Exists, NewTable, Tables
    <2>3. notify_log_new'.rows = notify_log_new.rows
      BY <2>1 DEF MInv, Stages, NewTable, Absent
    <2> QED BY <1>5, <2>1, <2>2, <2>3
        DEF MInv, MigrationTypeOK, Stages, Progress, CreateNew, Exists
  <1>6. CASE CopyRows /\ ~notify_log.dated
    BY <1>6 DEF MInv, MigrationTypeOK, Stages, Progress, CopyRows, Exists
  <1>7. CASE CopyRows /\ notify_log.dated
    <2>1. notify_log_new \in Tables /\ notify_log_new.key = "end_time"
      BY <1>7 DEF MInv, MigrationTypeOK, Stages, CopyRows, Exists
    <2>2. /\ pc' = "drop"
          /\ notify_log_new' = [notify_log_new EXCEPT !.rows = @ \cup
                 {m \in notify_log.rows : ~Conflicts(notify_log_new, m)}]
      BY <1>7 DEF MInv, Stages, CopyRows
    <2>3. notify_log.rows \in SUBSET Marks
      BY DEF MInv, MigrationTypeOK, Tables
    <2>4. notify_log_new'.rows = notify_log_new.rows \cup notify_log.rows
      BY <2>1, <2>2, <2>3, CopyComplete DEF Tables
    <2>5. /\ notify_log_new' \in Tables
          /\ notify_log_new'.key = notify_log_new.key
          /\ notify_log_new'.dated = notify_log_new.dated
      BY <2>1, <2>2, <2>3 DEF Tables
    <2> QED BY <1>7, <2>1, <2>2, <2>4, <2>5
        DEF MInv, MigrationTypeOK, Stages, Progress, CopyRows, Exists
  <1>8. CASE DropOld
    <2>1. notify_log' \in Tables /\ notify_log'.rows = {} /\ notify_log'.key = "absent"
      BY <1>8 DEF DropOld, Absent, Tables
    <2> QED BY <1>8, <2>1
        DEF MInv, MigrationTypeOK, Stages, Progress, DropOld, Exists
  <1>9. CASE RenameNew
    <2>1. notify_log = Absent /\ notify_log_new.key = "end_time" /\ notify_log_new.dated
      BY <1>9 DEF MInv, Stages, RenameNew, Exists
    <2>2. /\ pc' = "normalise" /\ notify_log' = notify_log_new
          /\ notify_log_new' = Absent
      BY <1>9, <2>1 DEF RenameNew, Exists, Absent
    <2>3. MigrationTypeOK'
      BY <1>9, <2>2 DEF MInv, MigrationTypeOK, RenameNew, Absent, Tables
    <2>4. Stages'
      BY <2>1, <2>2, <1>9 DEF MInv, Stages, RenameNew, Exists, Absent
    <2>5. Progress'
      <3>1. col' = 1
        BY <1>9 DEF MInv, Progress, RenameNew
      <3> QED BY <2>2, <3>1 DEF Progress
    <2> QED BY <2>3, <2>4, <2>5 DEF MInv
  <1>10. CASE Normalise
    <2>1. stamps' \in [1..Len(Columns) -> Forms]
      BY <1>10 DEF MInv, MigrationTypeOK, Normalise, Normalised, Forms
    <2>2. MigrationTypeOK'
      BY <1>10, <2>1 DEF MInv, MigrationTypeOK, Normalise
    <2>3. Stages'
      BY <1>10 DEF MInv, Stages, Normalise, Exists
    <2>4. /\ stamps'[col] # "rfc3339"
          /\ \A c \in 1..(col - 1) : stamps'[c] = stamps[c]
      BY <1>10 DEF MInv, MigrationTypeOK, Normalise, Normalised
    <2>5. Progress'
      BY <1>10, <2>4 DEF MInv, MigrationTypeOK, Progress, Normalise
    <2> QED BY <2>2, <2>3, <2>5 DEF MInv
  <1>11. ASSUME NEW m \in Marks, MarkNotified(m) PROVE MInv'
    <2>1. notify_log \in Tables /\ notify_log.key = "end_time" /\ notify_log.dated
      BY <1>11 DEF MInv, MigrationTypeOK, Stages, MarkNotified
    <2>2. /\ notify_log' \in Tables /\ notify_log'.rows = notify_log.rows \cup {m}
          /\ notify_log'.key = "end_time" /\ notify_log'.dated
      BY <1>11, <2>1, InsertAdds DEF MarkNotified
    <2> QED BY <1>11, <2>2
        DEF MInv, MigrationTypeOK, Stages, Progress, MarkNotified, Exists, Absent
  <1>12. ASSUME NEW cutoff \in Ends, PruneNotifyLog(cutoff) PROVE MInv'
    <2>1. /\ notify_log' \in Tables /\ notify_log'.rows = Current(notify_log.rows, cutoff)
          /\ notify_log'.key = notify_log.key /\ notify_log'.dated = notify_log.dated
      BY <1>12 DEF MInv, MigrationTypeOK, PruneNotifyLog, Current, Tables
    <2> QED BY <1>12, <2>1
        DEF MInv, MigrationTypeOK, Stages, Progress, PruneNotifyLog, Exists
  <1>13. ASSUME NEW c \in 1..Len(Columns), WriteTime(c) PROVE MInv'
    <2>1. PICK form \in {"sql", ""} : stamps' = [stamps EXCEPT ![c] = form]
      BY <1>13 DEF WriteTime
    <2> QED BY <1>13, <2>1
        DEF MInv, MigrationTypeOK, Stages, Progress, WriteTime, Exists, Forms
  <1>14. CASE AddEndTimeFails
    BY <1>14 DEF MInv, MigrationTypeOK, Stages, Progress, AddEndTimeFails, Exists
  <1>15. CASE UNCHANGED vars
    BY <1>15 DEF MInv, MigrationTypeOK, Stages, Progress, vars, Exists
  <1> QED
    BY <1>1, <1>2, <1>3, <1>4, <1>5, <1>6, <1>7, <1>8, <1>9, <1>10, <1>11, <1>12, <1>13, <1>14,
       <1>15
    DEF Next, Migrate

LEMMA MInvHolds == Spec => []MInv
  BY MigrationInit, MigrationStep, PTL DEF Spec

\* The program serves only with the new key, without notify_log_new and with
\* every timestamp column in the canonical layout.
THEOREM ServesMigratedThm == Spec => []ServesMigrated
  <1>1. MInv => ServesMigrated
    BY NumColumns
    DEF MInv, MigrationTypeOK, Stages, Progress, ServesMigrated, Exists, Absent
  <1> QED BY <1>1, MInvHolds, PTL

\* The statements of a migration change nothing in the two tables together:
\* the copy is complete before the old table goes.
LEMMA MigrateKeepsRows ==
  ASSUME MInv, Migrate
  PROVE  (notify_log.rows \cup notify_log_new.rows)' =
             notify_log.rows \cup notify_log_new.rows
  <1>1. CASE CreateTables
    BY <1>1 DEF MInv, Stages, CreateTables, Exists, OldTable, Absent
  <1>2. CASE AddEndTime
    BY <1>2 DEF MInv, MigrationTypeOK, AddEndTime, Tables
  <1>3. CASE CreateNew
    <2>1. notify_log_new'.rows = notify_log_new.rows
      BY <1>3 DEF MInv, Stages, CreateNew, indexSQL, Exists, NewTable, Absent
    <2> QED BY <1>3, <2>1 DEF CreateNew
  <1>4. CASE CopyRows /\ notify_log.dated
    <2>1. /\ notify_log_new \in Tables /\ notify_log_new.key = "end_time"
          /\ notify_log.rows \in SUBSET Marks
      BY <1>4 DEF MInv, MigrationTypeOK, Stages, CopyRows, Exists, Tables
    <2>2. notify_log_new' = [notify_log_new EXCEPT !.rows = @ \cup
                {m \in notify_log.rows : ~Conflicts(notify_log_new, m)}]
      BY <1>4 DEF MInv, Stages, CopyRows
    <2>3. notify_log_new'.rows = notify_log_new.rows \cup notify_log.rows
      BY <2>1, <2>2, CopyComplete DEF Tables
    <2> QED BY <1>4, <2>3 DEF CopyRows
  <1>5. CASE DropOld
    BY <1>5 DEF MInv, Stages, DropOld, Absent
  <1>6. CASE RenameNew
    BY <1>6 DEF MInv, Stages, RenameNew, Exists, Absent
  <1>7. CASE Normalise
    BY <1>7 DEF Normalise
  <1>8. CASE CopyRows /\ ~notify_log.dated
    BY <1>8 DEF CopyRows
  <1> QED BY <1>1, <1>2, <1>3, <1>4, <1>5, <1>6, <1>7, <1>8 DEF Migrate

\* A step of the program is a step of the log, or leaves it as it was.
LEMMA LogStep ==
  ASSUME MInv, [Next]_vars
  PROVE  [Log!Next]_(notify_log.rows \cup notify_log_new.rows)
  <1>1. CASE Migrate
    BY <1>1, MigrateKeepsRows
  <1>2. ASSUME NEW m \in Marks, MarkNotified(m) PROVE Log!Next
    <2>1. notify_log \in Tables /\ notify_log.key = "end_time"
      BY <1>2 DEF MInv, MigrationTypeOK, Stages, MarkNotified
    <2>2. notify_log'.rows = notify_log.rows \cup {m}
      BY <1>2, <2>1, InsertAdds DEF MarkNotified
    <2>3. Log!Mark({m})
      BY <1>2, <2>2 DEF MarkNotified, Log!Mark
    <2>4. {m} \in SUBSET Log!Marks
      BY DEF Marks, Log!Marks
    <2> QED BY <2>3, <2>4 DEF Log!Next
  <1>3. ASSUME NEW cutoff \in Ends, PruneNotifyLog(cutoff) PROVE Log!Next
    <2>1. notify_log_new.rows = {} /\ UNCHANGED notify_log_new
      BY <1>3 DEF MInv, Stages, PruneNotifyLog, Absent
    <2>2. notify_log'.rows = Current(notify_log.rows, cutoff)
      BY <1>3 DEF MInv, MigrationTypeOK, PruneNotifyLog, Tables
    <2>3. Log!Prune(cutoff)
      BY <2>1, <2>2 DEF Current, Log!Prune
    <2> QED BY <2>3 DEF Log!Next
  <1>4. CASE Start \/ Crash \/ AddEndTimeFails \/ UNCHANGED vars
             \/ \E c \in 1..Len(Columns) : WriteTime(c)
    BY <1>4 DEF Start, Crash, AddEndTimeFails, WriteTime, vars
  <1> QED BY <1>1, <1>2, <1>3, <1>4 DEF Next

\* Behind all its statements, crashes and restarts the store implements the
\* log that MarkLog promises.
THEOREM ImplementsLogThm == Spec => ImplementsLog
  <1>1. Init => Log!Init
    <2> SUFFICES ASSUME Init PROVE notify_log.rows \cup notify_log_new.rows
                                     \subseteq {m \in Log!Marks : m.end = NoEnd}
      BY DEF Log!Init
    <2>1. notify_log_new.rows = {}
      BY DEF Init, Absent
    <2>2. CASE notify_log = Absent
      BY <2>1, <2>2 DEF Absent
    <2>3. CASE notify_log # Absent
      <3>1. PICK levels \in [Ids -> SUBSET Levels] :
              notify_log = [OldTable EXCEPT !.rows =
                  {m \in Marks : m.end = NoEnd /\ m.level \in levels[m.id]}]
        BY <2>3 DEF Init
      <3>2. notify_log.rows \subseteq {m \in Marks : m.end = NoEnd}
        BY <3>1 DEF OldTable
      <3> QED BY <2>1, <3>2 DEF Marks, Log!Marks
    <2> QED BY <2>2, <2>3
  <1> QED BY <1>1, LogStep, MInvHolds, PTL DEF Spec, ImplementsLog, Log!Spec

\* migrate and the program leave no NULL and no table of another shape.
THEOREM MigrationTypeCorrect == Spec => []MigrationTypeOK
  <1>1. MInv => MigrationTypeOK
    BY DEF MInv
  <1> QED BY <1>1, MInvHolds, PTL
=============================================================================
