----------------------------- MODULE MCTableView -----------------------------
(***************************************************************************)
(* An instance of TableView for TLC.  Two ticks make a day; the clock      *)
(* goes from 10 to 12.  The dates are one past, two that are due on the    *)
(* same day at first and on different days later, two around a week, two   *)
(* around thirty days, and none.                                           *)
(***************************************************************************)
EXTENDS TableView

Row(id, account, type, end, used) ==
    [id |-> id, account_id |-> account, type |-> type, end_time |-> end,
     used_count |-> used, quantity |-> id % 3, status |-> "active",
     words |-> IF id % 2 = 0 THEN {"p5"} ELSE {}]

Past     == Row(1, 2, "sp", 5, 0)
Soon     == Row(2, 1, "odcr", 14, 1)
Sooner   == Row(3, 2, "cb", 13, 0)
Week     == Row(4, 1, "rds_ri", 24, 0)
PastWeek == Row(5, 2, "odcr", 25, 2)
Month    == Row(6, 1, "sp", 70, 0)
Later    == Row(7, 2, "rds_ri", 71, 0)
Open     == Row(8, 1, "odcr", NoEnd, 0)

MCLists ==
    {<<Open, Past, Soon, Sooner>>, <<PastWeek, Open, Week>>, <<Month, Later>>}
MCTypes == {"sp", "cb", "odcr", "rds_ri"}
MCWords == {"p5"}

Instance(id, account, coverage, rate) ==
    [id |-> id, account_id |-> account, coverage |-> coverage, sp_rate |-> rate]
MCGPULists ==
    {<<Instance(1, 2, "on_demand", 0), Instance(2, 1, "savings_plan", 3),
       Instance(3, 2, "capacity_block", 0), Instance(4, 1, "reserved_instance", 0)>>}
=============================================================================
