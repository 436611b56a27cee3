---------------------------- MODULE MCReminders ----------------------------
(***************************************************************************)
(* Instances of Reminders for TLC.  A tick is half a day, so that a        *)
(* started day and a whole one differ.  The remind_days are {7, 1}; the    *)
(* sampled instants put the first date beyond the 30-day window, at        *)
(* "attention", at the 7-day and at the 1-day reminder, exactly at its     *)
(* end, and past its retention; the second date, a renewal, enters its     *)
(* window at exactly 30 days while the first is still being announced.     *)
(***************************************************************************)
EXTENDS Reminders

MCEnds == {66, 100}
MCTimes == {40, 53, 65, 66, 80}

\* For the temporal property: a date due within 7 days and its renewal.  When
\* the clock moves the first comes within one day and the second does not.
LiveEnds == {10, 12}
LiveTimes == {8}

\* What its actions and the property read: all but the history variables.
\* States that differ only in those have the same futures.
LiveView == <<clock, row, gpu, notifyLog, pc, booting, check, rowsRead, batch,
              turn, anySent, crashes>>
=============================================================================
