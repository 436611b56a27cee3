------------------------------- MODULE MCSync -------------------------------
(***************************************************************************)
(* Instances of Sync for TLC.                                              *)
(***************************************************************************)
EXTENDS Sync, TLC

\* Two calls for the reservations of one account, which can see it at
\* different moments, one of its GPU instances, and a GPU row of "999", which
\* was configured once; "sns" only holds a notifier's credentials.
MCAccounts == <<"a", "sns">>
MCAccountID == "a" :> "111" @@ "sns" :> "222"
MCSees == "a" :> {"sp1", "ri1", "i1"} @@ "sns" :> {}
MCResources == {"sp1", "ri1", "i1", "oldgpu"}
MCIdOf == [r \in MCResources |-> IF r = "oldgpu" THEN "999" ELSE "111"]
MCTableOf ==
    "sp1" :> "reservations" @@ "ri1" :> "reservations" @@
    "i1" :> "gpu_coverage" @@ "oldgpu" :> "gpu_coverage"

\* SyncAccount asks for the savings plans first, then region by region.
MCCallOrder == <<"sp", "ri", "ec2">>
MCSourceOf == "sp1" :> "sp" @@ "ri1" :> "ri" @@ "i1" :> "ec2" @@ "oldgpu" :> "ec2"
=============================================================================
