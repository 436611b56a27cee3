--------------------------- MODULE MCGPUCoverage ---------------------------
(***************************************************************************)
(* An instance of GPUCoverage for TLC.  Two regions; two large and one     *)
(* small GPU instance in the first, of one family, of which one targets a  *)
(* capacity block; an ordinary instance in the second, which is configured *)
(* twice, that competes for the Compute plan.  A plan of 199 covers a rate *)
(* of 200 within the tolerance and nothing more; 300 covers the large and  *)
(* the small rate.                                                         *)
(***************************************************************************)
EXTENDS GPUCoverage, TLC

MCInstances == {"g1", "g2", "g3", "m1"}
MCTypeOf == "g1" :> "large" @@ "g2" :> "large" @@ "g3" :> "small" @@ "m1" :> "cpu"
MCFamilyOf == "large" :> "p4d" @@ "small" :> "p4d" @@ "cpu" :> "m5"
MCRegionOf == [i \in MCInstances |-> IF i = "m1" THEN "west" ELSE "east"]
MCBlockOf == [i \in MCInstances |-> IF i = "g1" THEN "cb1" ELSE ""]
MCRegions == <<"east", "west", "west">>
MCPlans == {"c1", "e1"}
MCKind == "c1" :> "Compute" @@ "e1" :> "EC2Instance"
MCPlanFamily == "c1" :> "" @@ "e1" :> "p4d"
MCPlanRegion == "c1" :> "" @@ "e1" :> "east"
MCRate ==
    "c1" :> ("large" :> 220 @@ "small" :> 110 @@ "cpu" :> 110) @@
    "e1" :> ("large" :> 200 @@ "small" :> 100 @@ "cpu" :> 0)
MCFleets == {MCInstances, {"g2", "g3", "m1"}}
=============================================================================
