------------------------------- MODULE Alerts -------------------------------
(***************************************************************************)
(* The arithmetic of a reminder (model/reservation.go, config.go,          *)
(* store/sqlite.go): how many days are left, which configured threshold    *)
(* has just been crossed, under which key the reminder is deduplicated and *)
(* which rows are in the alert window.                                     *)
(*                                                                         *)
(* Time is counted in ticks, Day of them to a day.  The zero time.Time,    *)
(* which formatTime stores as the empty string, is NoEnd.                  *)
(***************************************************************************)
EXTENDS Integers, FiniteSetsExt

CONSTANTS
    Day,         \* ticks per day
    RemindDays   \* the remind_days of the configuration

ASSUME DayAssumption == Day \in Nat \ {0}

\* A list of the configuration; validate refuses a value that is not positive.
ASSUME RemindDaysAssumption == RemindDays \subseteq Nat \ {0} /\ IsFiniteSet(RemindDays)

NoEnd == 0

-----------------------------------------------------------------------------

\* Go's integer division truncates toward zero; a started day counts whole.
DaysUntil(end, now) ==
    IF end = NoEnd THEN 0
    ELSE IF end > now THEN (end - now + Day - 1) \div Day
         ELSE -((now - end) \div Day)

Levels == {"critical", "warning", "attention", "normal"}

CalcAlertLevel(daysLeft) ==
    CASE daysLeft <= 3 -> "critical"
      [] daysLeft > 3 /\ daysLeft <= 7 -> "warning"
      [] daysLeft > 7 /\ daysLeft <= 14 -> "attention"
      [] OTHER -> "normal"

\* Mutant: the largest value already passed.
MutantCrossedThreshold(daysLeft) ==
    LET passed == {d \in RemindDays : d <= daysLeft}
    IN  IF passed # {} THEN Max(passed) ELSE 0

\* The smallest configured value still >= daysLeft; 0 when there is none.
CrossedThreshold(daysLeft) ==
    LET reached == {d \in RemindDays : d >= daysLeft}
    IN  IF reached # {} THEN Min(reached)
        ELSE IF daysLeft <= 0 /\ RemindDays # {} THEN Min(RemindDays)
        ELSE 0

\* "t<n>" for a crossed threshold, otherwise the coarse level.
NotifyKey(end, now) ==
    LET days == DaysUntil(end, now)
        t    == CrossedThreshold(days)
    IN  IF t > 0 THEN <<"t", t>> ELSE <<CalcAlertLevel(days), 0>>

Keys == ({"t"} \X RemindDays) \cup (Levels \X {0})

GPUKey == <<"gpu_od", 0>>

\* The floor of 30 days is the code's, whatever remind_days says.
MaxRemindDays == Max(RemindDays \cup {30})

\* The statuses GetAlerts leaves out (cancelled, expired, failed, deleted,
\* retired) are "ended"; "none" stands for a row that is not in the table.
Statuses == {"active", "ended", "none"}

\* The WHERE clause of GetAlerts.
InWindow(row, now) ==
    /\ row.status = "active"
    /\ row.end # NoEnd
    /\ row.end > now
    /\ row.end <= now + MaxRemindDays * Day

=============================================================================
