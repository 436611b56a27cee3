------------------------- MODULE GPUCoverageProofs -------------------------
(***************************************************************************)
(* Proofs about GPUCoverage: its types, that no reservation and no plan is *)
(* spent twice, and that no cheaper source is left with room, for every    *)
(* fleet, every set of plans with any rates, and every list of regions.    *)
(***************************************************************************)
EXTENDS GPUCoverage, FiniteSetTheorems, TLAPS

-----------------------------------------------------------------------------
(* The operators.                                                          *)

\* The rate of an instance under a plan is a natural number, 0 for none.
LEMMA RateIsNat ==
    ASSUME NEW p \in Plans, NEW i \in Instances
    PROVE  RateOf(p, i) \in Nat
<1>1. TypeOf[i] \in Range(TypeOf)
    BY FleetAssumption DEF Range
<1>2. QED
    BY <1>1, MoneyAssumption DEF RateOf

\* An instance's type and region are a key of riMap.
LEMMA KeyIsKey ==
    ASSUME NEW i \in Instances
    PROVE  RIKey(i) \in RIKeys
BY DEF RIKey, RIKeys

\* What a source looks like.
LEMMA SourceIs ==
    ASSUME NEW s \in Sources
    PROVE  /\ s.kind \in Coverages
           /\ s.kind = "on_demand" <=> s = Nobody
           /\ s.kind = "savings_plan" => s.ref \in Plans
           /\ s = [kind |-> s.kind, ref |-> s.ref]
BY DEF Sources, Coverages, Nobody

\* What is a source.
LEMMA SourcesAre ==
    /\ Nobody \in Sources
    /\ \A b \in Blocks : [kind |-> "capacity_block", ref |-> b] \in Sources
    /\ \A k \in RIKeys : [kind |-> "reserved_instance", ref |-> k] \in Sources
    /\ \A p \in Plans : [kind |-> "savings_plan", ref |-> p] \in Sources
BY DEF Sources

-----------------------------------------------------------------------------
(* The inductive invariant.                                                *)

Plan(p) == [kind |-> "savings_plan", ref |-> p]

\* Nothing is assigned before its step, and no plan is spent before or after
\* its turn.
PhaseInv ==
    /\ pc = "plans" => visited = 0
    /\ pc = "regions" => visited < Len(Regions)
    /\ pc \in {"plans", "regions", "blocks"} => \A i \in Instances : assigned[i] = Nobody
    /\ pc = "reserved" => \A i \in Instances : assigned[i].kind # "savings_plan"
    /\ pc \notin {"spend", "store"} =>
          /\ unspent = {} /\ queue = {} /\ plan = NoPlan
          /\ \A p \in Plans : left[p] = commitment[p] /\ charged[p] = 0
    /\ queue # {} => pc = "spend" /\ plan \in Spendable \ unspent
    /\ \A e \in queue : assigned[e[1]] \in {Nobody, Plan(plan)}
    /\ unspent \subseteq Spendable
    /\ pc = "store" => queue = {} /\ unspent = {}

\* What is left of a reservation and what is billed to it are no more than it
\* holds, once for each visit of its region.
VisitsOf(region) == {n \in 1..visited : Regions[n] = region}
ReservedInv ==
    \A k \in RIKeys :
        riLeft[k] + Cardinality(CoveredBy("reserved_instance", k))
            <= Cardinality(VisitsOf(k[2])) * reserved[k]

\* A plan's commitment is split between what is charged and what is left,
\* until one instance takes the rest on tolerance.
PlanInv ==
    \A p \in Plans :
        \/ charged[p] + left[p] = commitment[p]
        \/ /\ left[p] = 0
           /\ \E i \in CoveredBy("savings_plan", p) :
                 1000 * (charged[p] - commitment[p]) <= 5 * RateOf(p, i)

\* A source that has had its turn has no room for what a later one covers, or
\* may still cover: blocks, reservations, and the plans taken so far.
BlockRoom ==
    pc \in {"reserved", "spend", "store"} =>
        \A i \in Seen : assigned[i].kind # "capacity_block" => BlockOf[i] \notin cbIDs
ReservedRoom ==
    pc \in {"spend", "store"} =>
        \A i \in Seen : assigned[i].kind \notin {"capacity_block", "reserved_instance"}
                            => riLeft[RIKey(i)] = 0
PlanRoom ==
    pc \in {"spend", "store"} =>
        \A p \in Spendable \ unspent, i \in Seen :
            ((p = plan => \A e \in queue : e[1] # i) /\ Applies(p, i) /\ Rank(Plan(p)) < Rank(assigned[i]))
                => ~Affords(left[p], RateOf(p, i))

\* Once a Compute plan is spent, no plan bound to a family is left unspent.
TurnInv ==
    \A p \in Plans : (p = plan \/ CoveredBy("savings_plan", p) # {}) =>
        /\ p \in Spendable
        /\ Kind[p] = "Compute" => \A q \in unspent : Kind[q] = "Compute"

GPUInv ==
    /\ GPUTypeOK /\ PhaseInv /\ ReservedInv /\ PlanInv
    /\ BlockRoom /\ ReservedRoom /\ PlanRoom /\ TurnInv

-----------------------------------------------------------------------------
(* The first state.                                                        *)

\* Nothing is fetched, assigned or charged when a check begins.
LEMMA InitInv == Init => GPUInv
<1> SUFFICES ASSUME Init PROVE GPUInv
    OBVIOUS
<1>1. GPUTypeOK
  <2>1. Len(Regions) \in Nat
      BY RegionsAssumption
  <2>2. commitment \in [Plans -> Nat]
      BY MoneyAssumption DEF Init
  <2>3. errs \in BOOLEAN
      BY DEF Init
  <2>4. visited \in 0..Len(Regions)
      BY <2>1 DEF Init
  <2>5. charged \in [Plans -> Nat] /\ riLeft \in [RIKeys -> Nat]
      BY DEF Init
  <2>6. assigned \in [Instances -> Sources]
      BY SourcesAre DEF Init
  <2>7. listed \in [Instances -> Nat] /\ Seen = {}
      BY DEF Init, Seen
  <2>8. QED
      BY <2>2, <2>3, <2>4, <2>5, <2>6, <2>7, Zenon DEF Init, GPUTypeOK
<1>2. PhaseInv
    BY DEF Init, PhaseInv, Free
<1>3. \A kind \in Coverages \ {"on_demand"} : \A ref : CoveredBy(kind, ref) = {}
    BY DEF Init, CoveredBy, Nobody, Coverages
<1>4. ReservedInv
  <2>1. \A k \in RIKeys : reserved[k] \in Nat
      BY MoneyAssumption DEF Init
  <2>2. \A k : Cardinality(CoveredBy("reserved_instance", k)) = 0
      BY <1>3, FS_EmptySet DEF Coverages
  <2>3. \A k \in RIKeys : Cardinality(VisitsOf(k[2])) = 0
    <3>1. \A k \in RIKeys : VisitsOf(k[2]) = {}
        BY DEF Init, VisitsOf
    <3>2. QED
        BY <3>1, FS_EmptySet
  <2>4. \A k \in RIKeys : riLeft[k] = 0
      BY DEF Init
  <2>5. QED
      BY <2>1, <2>2, <2>3, <2>4 DEF ReservedInv
<1>5. PlanInv
  <2>1. \A p \in Plans : commitment[p] \in Nat /\ charged[p] = 0 /\ left[p] = commitment[p]
      BY MoneyAssumption DEF Init
  <2>2. QED
      BY <2>1 DEF PlanInv
<1>6. TurnInv
  <2>1. \A p : CoveredBy("savings_plan", p) = {}
      BY <1>3 DEF Coverages
  <2>2. QED
      BY <2>1, PlansAssumption DEF Init, TurnInv
<1>7. BlockRoom /\ ReservedRoom /\ PlanRoom
    BY DEF Init, BlockRoom, ReservedRoom, PlanRoom
<1>8. QED
    BY <1>1, <1>2, <1>4, <1>5, <1>6, <1>7 DEF GPUInv

-----------------------------------------------------------------------------
(* The steps, one part of the invariant at a time.                         *)

\* Covering an instance changes no other.
LEMMA CoverAdds ==
    ASSUME GPUTypeOK, NEW i \in Instances, NEW kind, NEW ref,
           assigned' = Cover(i, kind, ref)
    PROVE  /\ assigned'[i] = [kind |-> kind, ref |-> ref]
           /\ \A j \in Instances \ {i} : assigned'[j] = assigned[j]
BY DEF GPUTypeOK, Cover

\* What is free is listed, and nothing covers it.
LEMMA FreeIs ==
    ASSUME NEW i \in Free
    PROVE  i \in Instances /\ i \in Seen /\ assigned[i] = Nobody
BY DEF Free, Seen

\* What is spent stays a natural number: the tolerance makes no debt.
LEMMA SpendIsNat ==
    ASSUME NEW remaining \in Nat, NEW rate \in Nat
    PROVE  Spend(remaining, rate) \in Nat /\ Spend(remaining, rate) <= remaining
BY DEF Spend

\* What the visit of a candidate does: it is covered and paid for, or nothing
\* changes because the plan cannot pay for it.
LEMMA ConsiderIs ==
    ASSUME GPUTypeOK, PhaseInv, NEW e \in queue, Consider(e)
    PROVE  /\ plan \in Plans /\ plan \in Spendable \ unspent
           /\ e[1] \in Instances /\ assigned[e[1]] \in {Nobody, Plan(plan)}
           /\ \A j \in Instances \ {e[1]} : assigned'[j] = assigned[j]
           /\ \A p \in Plans \ {plan} : left'[p] = left[p] /\ charged'[p] = charged[p]
           /\ left[plan] \in Nat /\ RateOf(plan, e[1]) \in Nat
           /\ \/ /\ Affords(left[plan], RateOf(plan, e[1]))
                 /\ assigned'[e[1]] = Plan(plan)
                 /\ left'[plan] = Spend(left[plan], RateOf(plan, e[1]))
                 /\ charged'[plan] = charged[plan] + RateOf(plan, e[1])
              \/ /\ ~Affords(left[plan], RateOf(plan, e[1]))
                 /\ UNCHANGED <<assigned, left, charged>>
<1> DEFINE i == e[1]
<1>1. i \in Instances /\ assigned[i] \in {Nobody, Plan(plan)} /\ plan \in Spendable \ unspent
    BY DEF PhaseInv, GPUTypeOK, Seen
<1>2. plan \in Plans
    BY <1>1 DEF Spendable, GPUTypeOK
<1>3. left[plan] \in Nat /\ RateOf(plan, i) \in Nat
    BY <1>1, <1>2, RateIsNat DEF GPUTypeOK
<1>4. CASE Affords(left[plan], RateOf(plan, i))
  <2>1. /\ assigned' = Cover(i, "savings_plan", plan)
        /\ left' = [left EXCEPT ![plan] = Spend(@, RateOf(plan, i))]
        /\ charged' = [charged EXCEPT ![plan] = @ + RateOf(plan, i)]
      BY <1>4 DEF Consider
  <2> HIDE DEF i
  <2>2. /\ assigned'[i] = Plan(plan)
        /\ \A j \in Instances \ {i} : assigned'[j] = assigned[j]
      BY <1>1, <2>1, CoverAdds DEF Plan
  <2>3. QED
      BY <1>1, <1>2, <1>3, <1>4, <2>1, <2>2 DEF GPUTypeOK, i
<1>5. CASE ~Affords(left[plan], RateOf(plan, i))
  <2>1. UNCHANGED <<assigned, left, charged>>
      BY <1>5 DEF Consider
  <2>2. QED
      BY <1>1, <1>2, <1>3, <1>5, <2>1
<1>6. QED
    BY <1>4, <1>5

\* Every step keeps the types.
LEMMA TypeStep == GPUInv /\ Next => GPUTypeOK'
<1> SUFFICES ASSUME GPUInv, Next PROVE GPUTypeOK'
    OBVIOUS
<1> USE DEF GPUInv
<1>1. Len(Regions) \in Nat
    BY RegionsAssumption
<1>s. ASSUME UNCHANGED listed PROVE Seen' = Seen
    BY <1>s DEF Seen
<1>2. CASE FetchPlans
    BY <1>2, <1>s, Zenon DEF FetchPlans, GPUTypeOK, PhaseInv, holdings, spending
<1>3. CASE FetchPlansFails
    BY <1>3, <1>s DEF FetchPlansFails, GPUTypeOK, PhaseInv, holdings, spending
<1>4. CASE FetchRegion
  <2>1. visited' \in 0..Len(Regions) /\ pc' \in {"blocks", "regions"}
      BY <1>1, <1>4 DEF FetchRegion, Visit, GPUTypeOK, PhaseInv
  <2>2. /\ listed' \in [Instances -> Nat] /\ Seen' \subseteq running
        /\ queue \subseteq Seen' \X Nat
    <3>1. \A i \in Instances :
             listed'[i] = IF i \in RunningInstances THEN listed[i] + 1 ELSE listed[i]
        BY <1>4 DEF FetchRegion
    <3>2. listed' \in [Instances -> Nat]
        BY <1>4 DEF FetchRegion, GPUTypeOK
    <3>3. Seen' = Seen \cup (RunningInstances \cap Instances)
        BY <3>1 DEF Seen, GPUTypeOK
    <3>4. QED
        BY <3>2, <3>3 DEF RunningInstances, GPUTypeOK
  <2>3. \A k \in RIKeys : ActiveRIs(k) \in Nat
      BY MoneyAssumption DEF ActiveRIs, GPUTypeOK
  <2>4. PICK riOk \in BOOLEAN, cbOk \in BOOLEAN :
          /\ riLeft' = [k \in RIKeys |->
                          IF riOk THEN riLeft[k] + ActiveRIs(k) ELSE riLeft[k]]
          /\ cbIDs' = IF cbOk THEN cbIDs \cup ActiveCBIDs ELSE cbIDs
          /\ errs' = (errs \/ ~riOk \/ ~cbOk)
      BY <1>4 DEF FetchRegion
  <2>5. riLeft' \in [RIKeys -> Nat]
      BY <2>3, <2>4 DEF GPUTypeOK
  <2>6. cbIDs' \subseteq blocks
      BY <2>4 DEF ActiveCBIDs, GPUTypeOK
  <2>7. errs' \in BOOLEAN
      BY <2>4
  <2>8. QED
      BY <1>4, <2>1, <2>2, <2>5, <2>6, <2>7, Zenon
         DEF FetchRegion, GPUTypeOK, holdings, spending
<1>5. CASE FetchRegionFails
  <2>1. visited' \in 0..Len(Regions) /\ pc' \in {"blocks", "regions"}
      BY <1>1, <1>5 DEF FetchRegionFails, Visit, GPUTypeOK, PhaseInv
  <2>2. QED
      BY <1>5, <1>s, <2>1, Zenon DEF FetchRegionFails, GPUTypeOK, holdings, spending
<1>6. CASE AssignBlocks
  <2>1. assigned' \in [Instances -> Sources]
      BY <1>6, SourcesAre DEF AssignBlocks, GPUTypeOK
  <2>2. QED
      BY <1>6, <1>s, <2>1, Zenon DEF AssignBlocks, GPUTypeOK, holdings, spending
<1>7. ASSUME NEW i \in Instances, AssignRI(i)
      PROVE  GPUTypeOK'
  <2>1. assigned' \in [Instances -> Sources]
      BY <1>7, SourcesAre, KeyIsKey DEF AssignRI, Cover, GPUTypeOK
  <2>2. riLeft' \in [RIKeys -> Nat]
      BY <1>7, KeyIsKey DEF AssignRI, GPUTypeOK
  <2>3. QED
      BY <1>7, <1>s, <2>1, <2>2, Zenon DEF AssignRI, GPUTypeOK, holdings, spending
<1>8. CASE ReservedDone
    BY <1>8, <1>s DEF ReservedDone, Spendable, GPUTypeOK, holdings
<1>9. ASSUME NEW p \in Plans, NextPlan(p)
      PROVE  GPUTypeOK'
  <2>1. queue' \subseteq Seen \X Nat
      BY <1>1, <1>9 DEF NextPlan, Free, Visits
  <2>2. QED
      BY <1>9, <1>s, <2>1, Zenon DEF NextPlan, GPUTypeOK, holdings
<1>10. ASSUME NEW e \in queue, Consider(e)
       PROVE  GPUTypeOK'
  <2>1. plan \in Plans /\ e[1] \in Instances
      BY <1>10, ConsiderIs
  <2>2. /\ assigned' \in [Instances -> Sources]
        /\ left' \in [Plans -> Nat] /\ charged' \in [Plans -> Nat]
    <3>1. CASE Affords(left[plan], RateOf(plan, e[1]))
      <4>1. assigned' \in [Instances -> Sources]
          BY <1>10, <2>1, <3>1, SourcesAre DEF Consider, Cover, GPUTypeOK
      <4>2. Spend(left[plan], RateOf(plan, e[1])) \in Nat /\ RateOf(plan, e[1]) \in Nat
          BY <2>1, RateIsNat, SpendIsNat DEF GPUTypeOK
      <4>3. /\ left' = [left EXCEPT ![plan] = Spend(@, RateOf(plan, e[1]))]
            /\ charged' = [charged EXCEPT ![plan] = @ + RateOf(plan, e[1])]
          BY <1>10, <3>1 DEF Consider
      <4>4. left \in [Plans -> Nat] /\ charged \in [Plans -> Nat]
          BY DEF GPUTypeOK
      <4>5. QED
          BY <2>1, <4>1, <4>2, <4>3, <4>4
    <3>2. CASE ~Affords(left[plan], RateOf(plan, e[1]))
        BY <1>10, <3>2 DEF Consider, GPUTypeOK
    <3>3. QED
        BY <3>1, <3>2
  <2>3. queue' \subseteq Seen \X Nat
      BY <1>10 DEF Consider, GPUTypeOK
  <2>4. QED
      BY <1>10, <1>s, <2>2, <2>3, Zenon DEF Consider, GPUTypeOK, holdings
<1>11. CASE PlansDone
    BY <1>11, <1>s DEF PlansDone, GPUTypeOK, holdings, spending
<1>12. CASE Store
  <2>1. table' \in [Instances -> Coverages \cup {"none"}]
      BY <1>12, SourceIs DEF Store, GPUTypeOK
  <2>2. commitment \in [Plans -> Nat]
      BY MoneyAssumption DEF GPUTypeOK
  <2>3. /\ visited' \in 0..Len(Regions) /\ riLeft' \in [RIKeys -> Nat]
        /\ charged' \in [Plans -> Nat]
      BY <1>1, <1>12 DEF Store
  <2>4. assigned' \in [Instances -> Sources] /\ errs' \in BOOLEAN
      BY <1>12, SourcesAre DEF Store
  <2>5. listed' \in [Instances -> Nat] /\ Seen' = {}
      BY <1>12 DEF Store, Seen
  <2>6. QED
      BY <1>12, <2>1, <2>2, <2>3, <2>4, <2>5, Zenon DEF Store, GPUTypeOK, holdings
<1>13. QED
    BY <1>2, <1>3, <1>4, <1>5, <1>6, <1>7, <1>8, <1>9, <1>10, <1>11, <1>12 DEF Next

\* Every step leaves and enters its phase as the loops of the code do.
LEMMA PhaseStep == GPUInv /\ Next => PhaseInv'
<1> SUFFICES ASSUME GPUInv, Next PROVE PhaseInv'
    OBVIOUS
<1> USE DEF GPUInv
<1>1. Len(Regions) \in Nat \ {0}
    BY RegionsAssumption
<1>2. CASE FetchPlans
  <2>1. unspent' = {} /\ queue' = {}
      BY <1>2 DEF FetchPlans, PhaseInv, spending
  <2>2. QED
      BY <1>1, <1>2, <2>1 DEF FetchPlans, PhaseInv, Free, holdings, spending
<1>3. CASE FetchPlansFails
    BY <1>1, <1>3 DEF FetchPlansFails, PhaseInv, Free, Spendable, holdings, spending
<1>4. CASE FetchRegion \/ FetchRegionFails
  <2>1. /\ pc = "regions"
        /\ pc' = "blocks" \/ (pc' = "regions" /\ visited' < Len(Regions))
      BY <1>1, <1>4 DEF FetchRegion, FetchRegionFails, Visit, GPUTypeOK, PhaseInv
  <2>2. UNCHANGED <<assigned, unspent, plan, queue, left, charged, commitment>>
      BY <1>4 DEF FetchRegion, FetchRegionFails, holdings, spending
  <2>3. QED
      BY <2>1, <2>2 DEF PhaseInv
<1>5. CASE AssignBlocks
  <2>1. \A i \in Instances : assigned'[i].kind # "savings_plan"
      BY <1>5 DEF AssignBlocks, PhaseInv, Nobody
  <2>2. QED
      BY <1>5, <2>1 DEF AssignBlocks, PhaseInv, holdings, spending
<1>6. ASSUME NEW i \in Instances, AssignRI(i)
      PROVE  PhaseInv'
  <2>1. \A j \in Instances : assigned'[j].kind # "savings_plan"
    <3>1. assigned' = Cover(i, "reserved_instance", RIKey(i))
        BY <1>6 DEF AssignRI
    <3>2. /\ assigned'[i] = [kind |-> "reserved_instance", ref |-> RIKey(i)]
          /\ \A j \in Instances \ {i} : assigned'[j] = assigned[j]
        BY <3>1, CoverAdds
    <3>3. QED
        BY <1>6, <3>2 DEF AssignRI, PhaseInv
  <2>2. QED
      BY <1>6, <2>1 DEF AssignRI, PhaseInv, holdings, spending
<1>7. CASE ReservedDone
    BY <1>7 DEF ReservedDone, PhaseInv, Free, Spendable
<1>8. ASSUME NEW p \in Plans, NextPlan(p)
      PROVE  PhaseInv'
    BY <1>8 DEF NextPlan, PhaseInv, Free, Spendable
<1>9. ASSUME NEW e \in queue, Consider(e)
      PROVE  PhaseInv'
  <2>1. queue' = queue \ {e} /\ plan' = plan
      BY <1>9 DEF Consider
  <2>2. /\ \A j \in Instances \ {e[1]} : assigned'[j] = assigned[j]
        /\ assigned[e[1]] \in {Nobody, Plan(plan)}
        /\ assigned'[e[1]] \in {assigned[e[1]], Plan(plan)}
      BY <1>9, ConsiderIs
  <2>3. \A f \in queue' : assigned'[f[1]] \in {Nobody, Plan(plan)'}
    <3>1. \A f \in queue : f[1] \in Instances /\ assigned[f[1]] \in {Nobody, Plan(plan)}
        BY DEF PhaseInv, GPUTypeOK, Seen
    <3>2. QED
        BY <2>1, <2>2, <3>1 DEF Plan
  <2>4. QED
      BY <1>9, <2>1, <2>3 DEF Consider, PhaseInv, Spendable
<1>10. CASE PlansDone
    BY <1>10 DEF PlansDone, PhaseInv, spending
<1>11. CASE Store
  <2>1. visited' = 0 /\ pc' = "plans" /\ \A i \in Instances : assigned'[i] = Nobody
      BY <1>11 DEF Store
  <2>2. /\ unspent' = {} /\ queue' = {} /\ plan' = NoPlan
        /\ \A p \in Plans : left'[p] = commitment'[p] /\ charged'[p] = 0
      BY <1>11 DEF Store, holdings
  <2>3. QED
      BY <2>1, <2>2 DEF PhaseInv
<1>12. QED
    BY <1>2, <1>3, <1>4, <1>5, <1>6, <1>7, <1>8, <1>9, <1>10, <1>11 DEF Next

\* Arithmetic the provers need to be told of.
LEMMA TimesMonotone ==
    ASSUME NEW a \in Nat, NEW b \in Nat, NEW c \in Nat, a <= b
    PROVE  a * c <= b * c
OBVIOUS

LEMMA TimesStep ==
    ASSUME NEW a \in Nat, NEW c \in Nat
    PROVE  (a + 1) * c = a * c + c /\ a * c \in Nat
OBVIOUS

\* The visits of a region so far are finitely many.
LEMMA VisitsFinite ==
    ASSUME GPUTypeOK, NEW region
    PROVE  IsFiniteSet(VisitsOf(region)) /\ Cardinality(VisitsOf(region)) \in Nat
<1>1. visited \in Nat
    BY RegionsAssumption DEF GPUTypeOK
<1>2. IsFiniteSet(1..visited)
    BY <1>1, FS_Interval
<1>3. QED
    BY <1>2, FS_Subset, FS_CardinalityType DEF VisitsOf

\* Reservations: each visit of a region adds what it holds, and each instance
\* billed to one takes one off what is left.
LEMMA ReservedStep == GPUInv /\ Next => ReservedInv'
<1> SUFFICES ASSUME GPUInv, Next PROVE ReservedInv'
    OBVIOUS
<1> USE DEF GPUInv
<1>a. /\ Len(Regions) \in Nat \ {0} /\ DOMAIN Regions = 1..Len(Regions)
      /\ visited \in Nat
    BY RegionsAssumption DEF GPUTypeOK
<1>b. \A k \in RIKeys : riLeft[k] \in Nat /\ reserved[k] \in Nat
    BY MoneyAssumption DEF GPUTypeOK
<1>c. \A kind, ref : IsFiniteSet(CoveredBy(kind, ref))
    BY FleetAssumption, FS_Subset DEF CoveredBy
<1>d. \A kind, ref : Cardinality(CoveredBy(kind, ref)) \in Nat
    BY <1>c, FS_CardinalityType
<1>1. CASE FetchPlans \/ FetchPlansFails \/ ReservedDone \/ PlansDone
           \/ \E p \in Plans : NextPlan(p)
  <2>1. UNCHANGED <<riLeft, reserved, visited, assigned>>
      BY <1>1 DEF FetchPlans, FetchPlansFails, ReservedDone, PlansDone, NextPlan, holdings
  <2>2. QED
      BY <2>1 DEF ReservedInv, CoveredBy, VisitsOf
<1>2. CASE FetchRegion \/ FetchRegionFails
  <2>1. /\ pc = "regions" /\ visited' = visited + 1 /\ visited + 1 \in 1..Len(Regions)
        /\ UNCHANGED <<assigned, reserved>>
      BY <1>a, <1>2 DEF FetchRegion, FetchRegionFails, Visit, PhaseInv, holdings
  <2>2. \A k \in RIKeys : CoveredBy("reserved_instance", k)' = CoveredBy("reserved_instance", k)
      BY <2>1 DEF CoveredBy
  <2>3. \A k \in RIKeys : Cardinality(CoveredBy("reserved_instance", k)) = 0
    <3>1. \A k \in RIKeys : CoveredBy("reserved_instance", k) = {}
        BY <2>1 DEF CoveredBy, PhaseInv, Nobody
    <3>2. QED
        BY <3>1, FS_EmptySet
  <2>4. \A k \in RIKeys : riLeft'[k] = riLeft[k] \/ riLeft'[k] = riLeft[k] + ActiveRIs(k)
      BY <1>2 DEF FetchRegion, FetchRegionFails
  <2>5. ASSUME NEW k \in RIKeys
        PROVE  riLeft'[k] <= Cardinality(VisitsOf(k[2])') * reserved[k]
    <3> DEFINE V == Cardinality(VisitsOf(k[2]))
    <3>0. V \in Nat /\ riLeft[k] <= V * reserved[k]
        BY <1>b, <2>3, VisitsFinite DEF ReservedInv
    <3>1. CASE k[2] = Here
      <4>1. VisitsOf(k[2])' = VisitsOf(k[2]) \cup {visited + 1} /\ visited + 1 \notin VisitsOf(k[2])
          BY <1>a, <2>1, <3>1 DEF Here, VisitsOf
      <4>2. Cardinality(VisitsOf(k[2])') = V + 1
          BY <4>1, VisitsFinite, FS_AddElement
      <4>3. riLeft'[k] = riLeft[k] \/ riLeft'[k] = riLeft[k] + reserved[k]
          BY <2>4, <3>1 DEF ActiveRIs
      <4> HIDE DEF V
      <4>4. (V + 1) * reserved[k] = V * reserved[k] + reserved[k] /\ V * reserved[k] \in Nat
          BY <1>b, <3>0, TimesStep
      <4>5. QED
          BY <1>b, <3>0, <4>2, <4>3, <4>4
    <3>2. CASE k[2] # Here
      <4>1. riLeft'[k] = riLeft[k]
          BY <1>b, <2>4, <3>2 DEF ActiveRIs
      <4>2. VisitsOf(k[2])' = VisitsOf(k[2])
          BY <1>a, <2>1, <3>2 DEF Here, VisitsOf
      <4>3. QED
          BY <3>0, <4>1, <4>2
    <3>3. QED
        BY <3>1, <3>2
  <2>6. \A k \in RIKeys : riLeft'[k] \in Nat
      BY TypeStep DEF GPUTypeOK
  <2>7. QED
      BY <1>b, <2>1, <2>2, <2>3, <2>5, <2>6 DEF ReservedInv
<1>3. CASE AssignBlocks
  <2>1. \A k \in RIKeys : CoveredBy("reserved_instance", k)' = CoveredBy("reserved_instance", k)
      BY <1>3 DEF AssignBlocks, CoveredBy, PhaseInv, Nobody
  <2>2. QED
      BY <1>3, <2>1 DEF AssignBlocks, ReservedInv, VisitsOf, holdings
<1>4. ASSUME NEW i \in Instances, AssignRI(i)
      PROVE  ReservedInv'
  <2> DEFINE K == RIKey(i)
  <2>1. /\ K \in RIKeys /\ riLeft[K] > 0 /\ riLeft' = [riLeft EXCEPT ![K] = @ - 1]
        /\ UNCHANGED <<visited, reserved>>
      BY <1>4, KeyIsKey DEF AssignRI, holdings
  <2>2. /\ i \notin CoveredBy("reserved_instance", K)
        /\ CoveredBy("reserved_instance", K)' = CoveredBy("reserved_instance", K) \cup {i}
        /\ \A k \in RIKeys \ {K} :
              CoveredBy("reserved_instance", k)' = CoveredBy("reserved_instance", k)
    <3>1. assigned[i] = Nobody /\ assigned' = Cover(i, "reserved_instance", K)
        BY <1>4, FreeIs DEF AssignRI
    <3>2. /\ assigned[i] = Nobody
          /\ assigned'[i] = [kind |-> "reserved_instance", ref |-> K]
          /\ \A j \in Instances \ {i} : assigned'[j] = assigned[j]
        BY <3>1, CoverAdds
    <3> HIDE DEF K
    <3>3. QED
        BY <3>2 DEF CoveredBy, Nobody
  <2>3. Cardinality(CoveredBy("reserved_instance", K)')
           = Cardinality(CoveredBy("reserved_instance", K)) + 1
      BY <1>c, <2>2, FS_AddElement
  <2>4. riLeft'[K] = riLeft[K] - 1 /\ \A k \in RIKeys \ {K} : riLeft'[k] = riLeft[k]
      BY <2>1 DEF GPUTypeOK
  <2> HIDE DEF K
  <2>5. ASSUME NEW k \in RIKeys
        PROVE  riLeft'[k] + Cardinality(CoveredBy("reserved_instance", k)')
                   <= Cardinality(VisitsOf(k[2])) * reserved[k]
    <3>1. CASE k = K
      <4>1. riLeft'[k] + Cardinality(CoveredBy("reserved_instance", k)')
               = riLeft[k] + Cardinality(CoveredBy("reserved_instance", k))
          BY <1>b, <1>d, <2>1, <2>3, <2>4, <3>1
      <4>2. QED
          BY <4>1 DEF ReservedInv
    <3>2. CASE k # K
        BY <2>2, <2>4, <3>2 DEF ReservedInv
    <3>3. QED
        BY <3>1, <3>2
  <2>6. QED
      BY <2>1, <2>5 DEF ReservedInv, VisitsOf
<1>5. ASSUME NEW e \in queue, Consider(e)
      PROVE  ReservedInv'
  <2>1. \A k \in RIKeys : CoveredBy("reserved_instance", k)' = CoveredBy("reserved_instance", k)
    <3>1. /\ assigned[e[1]] \in {Nobody, Plan(plan)} /\ assigned'[e[1]] \in {Nobody, Plan(plan)}
          /\ \A j \in Instances \ {e[1]} : assigned'[j] = assigned[j]
        BY <1>5, ConsiderIs
    <3>2. QED
        BY <3>1 DEF CoveredBy, Nobody, Plan
  <2>2. QED
      BY <1>5, <2>1 DEF Consider, ReservedInv, VisitsOf, holdings
<1>6. CASE Store
  <2>1. \A k \in RIKeys : CoveredBy("reserved_instance", k)' = {}
      BY <1>6 DEF Store, CoveredBy, Nobody
  <2>2. \A k \in RIKeys : Cardinality(CoveredBy("reserved_instance", k)') = 0
      BY <2>1, FS_EmptySet
  <2>3. \A k \in RIKeys : Cardinality(VisitsOf(k[2])') = 0
    <3>1. \A k \in RIKeys : VisitsOf(k[2])' = {}
        BY <1>6 DEF Store, VisitsOf
    <3>2. QED
        BY <3>1, FS_EmptySet
  <2>4. \A k \in RIKeys : riLeft'[k] = 0 /\ reserved'[k] = reserved[k]
      BY <1>6 DEF Store, holdings
  <2>5. QED
      BY <1>b, <2>2, <2>3, <2>4 DEF ReservedInv
<1>7. QED
    BY <1>1, <1>2, <1>3, <1>4, <1>5, <1>6 DEF Next

\* Plans: an instance is paid for out of what is left, and only the last one
\* on tolerance.
LEMMA PlanStep == GPUInv /\ Next => PlanInv'
<1> SUFFICES ASSUME GPUInv, Next PROVE PlanInv'
    OBVIOUS
<1> USE DEF GPUInv
<1>a. \A p \in Plans : commitment[p] \in Nat /\ left[p] \in Nat /\ charged[p] \in Nat
    BY MoneyAssumption DEF GPUTypeOK
<1>b. ASSUME UNCHANGED <<left, charged, commitment>>,
             \A p \in Plans : CoveredBy("savings_plan", p) \subseteq CoveredBy("savings_plan", p)'
      PROVE  PlanInv'
    BY <1>b DEF PlanInv
<1>1. CASE FetchPlans \/ FetchPlansFails \/ FetchRegion \/ FetchRegionFails \/ ReservedDone
           \/ PlansDone \/ \E p \in Plans : NextPlan(p)
  <2>1. UNCHANGED <<left, charged, commitment, assigned>>
      BY <1>1 DEF FetchPlans, FetchPlansFails, FetchRegion, FetchRegionFails, ReservedDone,
                  PlansDone, NextPlan, holdings, spending
  <2>2. QED
      BY <1>b, <2>1 DEF CoveredBy
<1>2. CASE AssignBlocks \/ \E i \in Instances : AssignRI(i)
  <2>1. UNCHANGED <<left, charged, commitment>> /\ pc \in {"blocks", "reserved"}
      BY <1>2 DEF AssignBlocks, AssignRI, holdings, spending
  <2>2. \A p \in Plans : CoveredBy("savings_plan", p) = {}
      BY <2>1 DEF CoveredBy, PhaseInv, Nobody
  <2>3. QED
      BY <1>b, <2>1, <2>2
<1>3. ASSUME NEW e \in queue, Consider(e)
      PROVE  PlanInv'
  <2>1. CASE UNCHANGED <<assigned, left, charged>>
      BY <1>3, <1>b, <2>1 DEF Consider, CoveredBy, holdings
  <2>2. CASE ~UNCHANGED <<assigned, left, charged>>
    <3> DEFINE i == e[1]
    <3>1. /\ plan \in Plans /\ i \in Instances /\ assigned[i] \in {Nobody, Plan(plan)}
          /\ Affords(left[plan], RateOf(plan, i))
          /\ assigned'[i] = Plan(plan)
          /\ \A j \in Instances \ {i} : assigned'[j] = assigned[j]
          /\ left'[plan] = Spend(left[plan], RateOf(plan, i))
          /\ charged'[plan] = charged[plan] + RateOf(plan, i)
          /\ \A p \in Plans \ {plan} : left'[p] = left[p] /\ charged'[p] = charged[p]
          /\ RateOf(plan, i) \in Nat
        BY <1>3, <2>2, ConsiderIs
    <3> HIDE DEF i
    <3>2. \A p \in Plans : CoveredBy("savings_plan", p) \subseteq CoveredBy("savings_plan", p)'
      <4>1. \A p \in Plans : assigned[i] = [kind |-> "savings_plan", ref |-> p]
                              => assigned'[i] = [kind |-> "savings_plan", ref |-> p]
          BY <3>1 DEF Nobody
      <4>2. QED
          BY <3>1, <4>1 DEF CoveredBy
    <3>3. \A p \in Plans : p = plan => i \in CoveredBy("savings_plan", p)'
        BY <3>1 DEF CoveredBy, Plan
    <3>4. commitment' = commitment
        BY <1>3 DEF Consider, holdings
    <3>5. ASSUME NEW p \in Plans
          PROVE  \/ charged'[p] + left'[p] = commitment[p]
                 \/ /\ left'[p] = 0
                    /\ \E j \in CoveredBy("savings_plan", p)' :
                          1000 * (charged'[p] - commitment[p]) <= 5 * RateOf(p, j)
      <4>1. CASE p = plan
        <5>1. charged[p] + left[p] = commitment[p]
            BY <1>a, <3>1, <4>1 DEF PlanInv, Affords
        <5>2. CASE left[p] < RateOf(p, i)
          <6>1. left'[p] = 0
              BY <3>1, <4>1, <5>2 DEF Spend
          <6>2. 1000 * (charged'[p] - commitment[p]) <= 5 * RateOf(p, i)
            <7> DEFINE L == left[p]  C == charged[p]  R == RateOf(p, i)
            <7>1. /\ L \in Nat /\ C \in Nat /\ R \in Nat
                  /\ charged'[p] = C + R /\ commitment[p] = C + L
                  /\ 1000 * L >= 995 * R
                BY <1>a, <3>1, <4>1, <5>1 DEF Affords
            <7>2. charged'[p] - commitment[p] = R - L
              <8> HIDE DEF L, C, R
              <8> QED
                  BY <7>1
            <7> HIDE DEF L, R
            <7>3. QED
                BY <7>1, <7>2 DEF R
          <6>3. QED
              BY <3>3, <4>1, <6>1, <6>2
        <5>3. CASE ~(left[p] < RateOf(p, i))
            BY <1>a, <3>1, <4>1, <5>1, <5>3 DEF Spend
        <5>4. QED
            BY <5>2, <5>3
      <4>2. CASE p # plan
          BY <3>1, <3>2, <4>2 DEF PlanInv
      <4>3. QED
          BY <4>1, <4>2
    <3>6. QED
        BY <3>4, <3>5 DEF PlanInv, RateOf
  <2>3. QED
      BY <2>1, <2>2
<1>4. CASE Store
  <2>1. \A p \in Plans : /\ charged'[p] = 0 /\ left'[p] = commitment[p]
                         /\ commitment'[p] = commitment[p]
      BY <1>4 DEF Store, holdings
  <2>2. QED
      BY <1>a, <2>1 DEF PlanInv
<1>5. QED
    BY <1>1, <1>2, <1>3, <1>4 DEF Next

\* The order of the sources, as Rank gives it.
LEMMA Ranks ==
    /\ Rank(Nobody) = 5
    /\ \A p \in Plans : Rank(Plan(p)) = IF Kind[p] = "EC2Instance" THEN 3 ELSE 4
    /\ \A s \in Sources : s.kind = "capacity_block" => Rank(s) = 1
    /\ \A s \in Sources : s.kind = "reserved_instance" => Rank(s) = 2
<1>1. Rank(Nobody) = 5
    BY DEF Rank, Nobody
<1>2. \A p \in Plans : Rank(Plan(p)) = IF Kind[p] = "EC2Instance" THEN 3 ELSE 4
    BY DEF Rank, Plan
<1>3. \A s \in Sources : s.kind = "capacity_block" => Rank(s) = 1
    BY DEF Rank
<1>4. \A s \in Sources : s.kind = "reserved_instance" => Rank(s) = 2
    BY DEF Rank
<1>5. QED
    BY <1>1, <1>2, <1>3, <1>4

\* What a plan may not cover ahead of an instance's source: something that
\* nothing covers, or, for a plan bound to a family, what a Compute plan does.
LEMMA EarlierPlan ==
    ASSUME NEW s \in Sources, NEW p \in Plans, Rank(Plan(p)) < Rank(s)
    PROVE  \/ s = Nobody
           \/ \E q \in Plans : /\ s = Plan(q) /\ Kind[q] # "EC2Instance"
                               /\ Kind[p] = "EC2Instance"
<1>1. Rank(Plan(p)) = IF Kind[p] = "EC2Instance" THEN 3 ELSE 4
    BY Ranks
<1>2. CASE s.kind \in {"capacity_block", "reserved_instance"}
  <2>1. Rank(s) = 1 \/ Rank(s) = 2
      BY <1>2, Ranks
  <2>2. QED
      BY <1>1, <2>1
<1>3. CASE s.kind = "savings_plan"
  <2>1. s.ref \in Plans /\ s = Plan(s.ref)
      BY <1>3, SourceIs DEF Plan
  <2>2. Rank(s) = IF Kind[s.ref] = "EC2Instance" THEN 3 ELSE 4
      BY <2>1, Ranks
  <2>3. QED
      BY <1>1, <2>1, <2>2
<1>4. CASE s.kind = "on_demand"
    BY <1>4, SourceIs
<1>5. QED
    BY <1>2, <1>3, <1>4, SourceIs DEF Coverages

\* Plans are taken in turn: once a Compute plan is spent, only such are left.
LEMMA TurnStep == GPUInv /\ Next => TurnInv'
<1> SUFFICES ASSUME GPUInv, Next PROVE TurnInv'
    OBVIOUS
<1> USE DEF GPUInv
<1>1. ASSUME pc' \in {"plans", "regions", "blocks", "reserved"}
      PROVE  TurnInv'
  <2>1. /\ plan' = NoPlan
        /\ \A i \in Instances : assigned'[i].kind # "savings_plan"
      BY <1>1, PhaseStep DEF PhaseInv, Nobody
  <2>2. \A p \in Plans : CoveredBy("savings_plan", p)' = {}
      BY <2>1 DEF CoveredBy
  <2>3. QED
      BY <2>1, <2>2, PlansAssumption DEF TurnInv
<1>2. CASE FetchPlans \/ FetchPlansFails \/ FetchRegion \/ FetchRegionFails \/ AssignBlocks
           \/ (\E i \in Instances : AssignRI(i)) \/ Store
  <2>1. pc' \in {"plans", "regions", "blocks", "reserved"}
      BY <1>2 DEF FetchPlans, FetchPlansFails, FetchRegion, FetchRegionFails, Visit, AssignBlocks,
                  AssignRI, Store
  <2>2. QED
      BY <1>1, <2>1
<1>3. CASE ReservedDone
  <2>1. plan' = NoPlan /\ \A p \in Plans : CoveredBy("savings_plan", p)' = {}
      BY <1>3 DEF ReservedDone, PhaseInv, CoveredBy
  <2>2. QED
      BY <2>1, PlansAssumption DEF TurnInv
<1>4. ASSUME NEW p \in Plans, NextPlan(p)
      PROVE  TurnInv'
  <2>1. /\ p \in unspent /\ unspent' = unspent \ {p} /\ plan' = p
        /\ UNCHANGED <<assigned, sps>>
        /\ Kind[p] = "Compute" => \A q \in unspent : Kind[q] = "Compute"
      BY <1>4 DEF NextPlan, InTurn
  <2>2. p \in Spendable
      BY <2>1 DEF PhaseInv
  <2>3. \A q \in Plans : CoveredBy("savings_plan", q)' = CoveredBy("savings_plan", q)
      BY <2>1 DEF CoveredBy
  <2>4. Spendable' = Spendable
      BY <2>1 DEF Spendable
  <2>5. QED
      BY <2>1, <2>2, <2>3, <2>4 DEF TurnInv
<1>5. ASSUME NEW e \in queue, Consider(e)
      PROVE  TurnInv'
  <2>1. UNCHANGED <<unspent, plan, sps>>
      BY <1>5 DEF Consider
  <2>2. /\ plan \in Plans /\ assigned'[e[1]] \in {Nobody, Plan(plan)}
        /\ \A j \in Instances \ {e[1]} : assigned'[j] = assigned[j]
      BY <1>5, ConsiderIs
  <2>3. \A p \in Plans : p # plan =>
           CoveredBy("savings_plan", p)' \subseteq CoveredBy("savings_plan", p)
    <3>1. \A p \in Plans : p # plan => assigned'[e[1]] # [kind |-> "savings_plan", ref |-> p]
        BY <2>2 DEF Nobody, Plan
    <3>2. QED
        BY <2>2, <3>1 DEF CoveredBy
  <2>4. Spendable' = Spendable
      BY <2>1 DEF Spendable
  <2>5. QED
      BY <2>1, <2>3, <2>4 DEF TurnInv
<1>6. CASE PlansDone
  <2>1. UNCHANGED <<unspent, plan, sps, assigned>>
      BY <1>6 DEF PlansDone, spending
  <2>2. QED
      BY <2>1 DEF TurnInv, CoveredBy, Spendable
<1>7. QED
    BY <1>2, <1>3, <1>4, <1>5, <1>6 DEF Next

\* Blocks and reservations are used up before anything later is.
LEMMA BlockStep == GPUInv /\ Next => BlockRoom' /\ ReservedRoom'
<1> SUFFICES ASSUME GPUInv, Next PROVE BlockRoom' /\ ReservedRoom'
    OBVIOUS
<1> USE DEF GPUInv
<1>a. /\ Seen \subseteq Instances /\ Seen' \subseteq Instances
      /\ UNCHANGED listed => Seen' = Seen
    BY DEF Seen
<1>1. CASE FetchPlans \/ FetchPlansFails \/ FetchRegion \/ FetchRegionFails \/ Store
  <2>1. pc' \in {"plans", "regions", "blocks"}
      BY <1>1 DEF FetchPlans, FetchPlansFails, FetchRegion, FetchRegionFails, Visit, Store
  <2>2. QED
      BY <2>1 DEF BlockRoom, ReservedRoom
<1>2. CASE AssignBlocks
    BY <1>a, <1>2 DEF AssignBlocks, BlockRoom, ReservedRoom
<1>3. ASSUME NEW i \in Instances, AssignRI(i)
      PROVE  BlockRoom' /\ ReservedRoom'
  <2>1. /\ assigned[i] = Nobody /\ assigned' = Cover(i, "reserved_instance", RIKey(i))
        /\ pc = "reserved" /\ UNCHANGED <<pc, listed, cbIDs>>
      BY <1>3, FreeIs DEF AssignRI
  <2>2. /\ assigned[i] = Nobody
        /\ \A j \in Instances \ {i} : assigned'[j] = assigned[j]
      BY <2>1, CoverAdds
  <2>3. QED
      BY <1>a, <2>1, <2>2 DEF BlockRoom, ReservedRoom, Nobody
<1>4. CASE ReservedDone
  <2>1. /\ pc = "reserved" /\ UNCHANGED <<listed, cbIDs, riLeft, assigned>>
        /\ \A i \in Free : riLeft[RIKey(i)] = 0
      BY <1>4 DEF ReservedDone
  <2>2. ASSUME NEW i \in Seen,
               assigned[i].kind \notin {"capacity_block", "reserved_instance"}
        PROVE  riLeft[RIKey(i)] = 0
    <3>1. assigned[i] \in Sources /\ assigned[i].kind # "savings_plan"
        BY <1>a, <2>1 DEF PhaseInv, GPUTypeOK
    <3>2. assigned[i] = Nobody
        BY <2>2, <3>1, SourceIs DEF Coverages
    <3>3. QED
        BY <2>1, <3>2 DEF Free
  <2>3. QED
      BY <1>a, <2>1, <2>2 DEF BlockRoom, ReservedRoom
<1>5. CASE PlansDone \/ \E p \in Plans : NextPlan(p)
  <2>1. pc = "spend" /\ UNCHANGED <<listed, cbIDs, riLeft, assigned>>
      BY <1>5 DEF PlansDone, NextPlan
  <2>2. QED
      BY <1>a, <2>1 DEF BlockRoom, ReservedRoom
<1>6. ASSUME NEW e \in queue, Consider(e)
      PROVE  BlockRoom' /\ ReservedRoom'
  <2>1. pc = "spend" /\ UNCHANGED <<pc, listed, cbIDs, riLeft>>
      BY <1>6 DEF Consider
  <2>2. /\ assigned[e[1]] \in {Nobody, Plan(plan)}
        /\ \A j \in Instances \ {e[1]} : assigned'[j] = assigned[j]
      BY <1>6, ConsiderIs
  <2>3. QED
      BY <1>a, <2>1, <2>2 DEF BlockRoom, ReservedRoom, Nobody, Plan
<1>7. QED
    BY <1>1, <1>2, <1>3, <1>4, <1>5, <1>6 DEF Next

\* Plans that had their turn cannot pay for what a later source covers.
LEMMA PlanRoomStep == GPUInv /\ Next => PlanRoom'
<1> SUFFICES ASSUME GPUInv, Next PROVE PlanRoom'
    OBVIOUS
<1> USE DEF GPUInv
<1>a. /\ Seen \subseteq Instances
      /\ UNCHANGED listed => Seen' = Seen
      /\ \A i \in Instances : assigned[i] \in Sources
      /\ sps \subseteq Plans
    BY DEF GPUTypeOK, Seen
<1>1. CASE FetchPlans \/ FetchPlansFails \/ FetchRegion \/ FetchRegionFails \/ AssignBlocks
           \/ (\E i \in Instances : AssignRI(i)) \/ Store
  <2>1. pc' \in {"plans", "regions", "blocks", "reserved"}
      BY <1>1 DEF FetchPlans, FetchPlansFails, FetchRegion, FetchRegionFails, Visit, AssignBlocks,
                  AssignRI, Store
  <2>2. QED
      BY <2>1 DEF PlanRoom
<1>2. CASE ReservedDone
  <2>1. Spendable' \ unspent' = {}
      BY <1>2 DEF ReservedDone, Spendable
  <2>2. QED
      BY <2>1 DEF PlanRoom
<1>3. ASSUME NEW p \in Plans, NextPlan(p)
      PROVE  PlanRoom'
  <2>1. /\ pc = "spend" /\ queue = {} /\ p \in unspent /\ unspent' = unspent \ {p} /\ plan' = p
        /\ queue' = {e \in Free \X Visits : Applies(p, e[1]) /\ e[2] <= listed[e[1]]}
        /\ UNCHANGED <<listed, assigned, left, sps>>
      BY <1>3 DEF NextPlan
  <2>2. Spendable' = Spendable
      BY <2>1 DEF Spendable
  <2>3. ASSUME NEW q \in Spendable \ unspent', NEW i \in Seen,
               q = p => \A e \in queue' : e[1] # i, Applies(q, i), Rank(Plan(q)) < Rank(assigned[i])
        PROVE  ~Affords(left[q], RateOf(q, i))
    <3>1. CASE q = p
      <4>1. assigned[i] # Nobody
        <5> SUFFICES ASSUME assigned[i] = Nobody PROVE FALSE
            OBVIOUS
        <5>1. 1 \in Visits /\ 1 <= listed[i]
            BY <1>a, RegionsAssumption DEF Visits, Seen, GPUTypeOK
        <5>2. i \in Free
            BY DEF Free
        <5>3. <<i, 1>> \in queue'
            BY <2>1, <2>3, <3>1, <5>1, <5>2
        <5>4. QED
            BY <2>3, <3>1, <5>3
      <4>2. PICK r \in Plans : /\ assigned[i] = Plan(r) /\ Kind[r] # "EC2Instance"
                               /\ Kind[p] = "EC2Instance"
          BY <1>a, <2>3, <3>1, <4>1, EarlierPlan
      <4>3. CoveredBy("savings_plan", r) # {}
          BY <1>a, <4>2 DEF CoveredBy, Plan
      <4>4. Kind[r] = "Compute"
          BY <4>2, <4>3 DEF TurnInv, Spendable
      <4>5. QED
          BY <2>1, <4>2, <4>3, <4>4 DEF TurnInv
    <3>2. CASE q # p
        BY <2>1, <2>3, <3>2 DEF PlanRoom
    <3>3. QED
        BY <3>1, <3>2
  <2>4. QED
      BY <1>a, <2>1, <2>2, <2>3 DEF PlanRoom, Applies, RateOf
<1>4. ASSUME NEW e \in queue, Consider(e)
      PROVE  PlanRoom'
  <2> DEFINE i == e[1]
  <2>1. pc = "spend" /\ queue' = queue \ {e} /\ UNCHANGED <<pc, listed, unspent, plan, sps>>
      BY <1>4 DEF Consider
  <2>2. Spendable' = Spendable /\ Spendable \subseteq Plans
      BY <1>a, <2>1 DEF Spendable
  <2>3. /\ plan \in Plans /\ i \in Instances /\ assigned[i] \in {Nobody, Plan(plan)}
        /\ \A j \in Instances \ {i} : assigned'[j] = assigned[j]
        /\ \A p \in Plans \ {plan} : left'[p] = left[p]
        /\ left[plan] \in Nat /\ RateOf(plan, i) \in Nat
        /\ \/ /\ Affords(left[plan], RateOf(plan, i))
              /\ assigned'[i] = Plan(plan)
              /\ left'[plan] = Spend(left[plan], RateOf(plan, i))
           \/ /\ ~Affords(left[plan], RateOf(plan, i))
              /\ UNCHANGED <<assigned, left>>
      BY <1>4, ConsiderIs
  <2>4. ASSUME NEW p \in Spendable \ unspent, NEW j \in Seen,
               p = plan => \A f \in queue' : f[1] # j,
               Applies(p, j), Rank(Plan(p)) < Rank(assigned'[j])
        PROVE  ~Affords(left'[p], RateOf(p, j))
    <3>1. CASE p # plan
      <4>1. Rank(Plan(p)) < Rank(assigned[j])
        <5>1. CASE j = i
          <6>1. assigned[i] = Nobody \/ assigned'[i] = assigned[i]
              BY <2>3
          <6>2. Rank(Plan(p)) < 5
              BY <2>2, Ranks
          <6>3. QED
              BY <2>4, <5>1, <6>1, <6>2, Ranks
        <5>2. CASE j # i
            BY <1>a, <2>3, <2>4, <5>2
        <5>3. QED
            BY <5>1, <5>2
      <4>2. ~Affords(left[p], RateOf(p, j))
          BY <2>1, <2>4, <3>1, <4>1 DEF PlanRoom
      <4>3. QED
          BY <2>2, <2>3, <3>1, <4>2
    <3>2. CASE p = plan /\ j = i
      <4>1. assigned'[i] # Plan(plan)
          BY <2>2, <2>4, <3>2, Ranks
      <4>2. QED
          BY <2>3, <3>2, <4>1
    <3>3. CASE p = plan /\ j # i
      <4>1. ~Affords(left[plan], RateOf(plan, j))
        <5>1. \A f \in queue : f[1] # j
            BY <2>1, <2>4, <3>3
        <5>2. QED
            BY <1>a, <2>1, <2>3, <2>4, <3>3, <5>1 DEF PlanRoom
      <4>2. left'[plan] \in Nat /\ left'[plan] <= left[plan]
        <5>1. left'[plan] = left[plan] \/ left'[plan] = Spend(left[plan], RateOf(plan, i))
            BY <2>3
        <5>2. /\ Spend(left[plan], RateOf(plan, i)) \in Nat
              /\ Spend(left[plan], RateOf(plan, i)) <= left[plan]
            BY <2>3, SpendIsNat
        <5>3. left[plan] \in Nat
            BY <2>3
        <5>4. QED
            BY <5>1, <5>2, <5>3
      <4>3. RateOf(plan, j) \in Nat
          BY <1>a, <2>3, RateIsNat
      <4>4. QED
          BY <2>3, <3>3, <4>1, <4>2, <4>3 DEF Affords
    <3>4. QED
        BY <3>1, <3>2, <3>3
  <2>5. QED
      BY <1>a, <2>1, <2>2, <2>4 DEF PlanRoom, Applies, RateOf
<1>5. CASE PlansDone
  <2>1. pc = "spend" /\ UNCHANGED <<listed, unspent, plan, queue, sps, assigned, left>>
      BY <1>5 DEF PlansDone, spending
  <2>2. Spendable' = Spendable
      BY <2>1 DEF Spendable
  <2>3. QED
      BY <1>a, <2>1, <2>2 DEF PlanRoom, Applies, RateOf
<1>6. QED
    BY <1>1, <1>2, <1>3, <1>4, <1>5 DEF Next

-----------------------------------------------------------------------------
(* The theorems.                                                           *)

\* Nothing changes: the invariant stands.
LEMMA InvStutter == GPUInv /\ UNCHANGED vars => GPUInv'
<1> SUFFICES ASSUME GPUInv, UNCHANGED vars PROVE GPUInv'
    OBVIOUS
<1>1. Spendable' = Spendable /\ Seen' = Seen
    BY DEF vars, Spendable, Seen
<1>2. \A kind, ref : CoveredBy(kind, ref)' = CoveredBy(kind, ref)
    BY DEF vars, CoveredBy
<1>3. GPUTypeOK' /\ BlockRoom' /\ ReservedRoom'
    BY <1>1 DEF GPUInv, vars, GPUTypeOK, BlockRoom, ReservedRoom
<1>4. PhaseInv' /\ PlanRoom'
    BY <1>1 DEF GPUInv, vars, PhaseInv, PlanRoom
<1>5. ReservedInv' /\ PlanInv' /\ TurnInv'
    BY <1>1, <1>2 DEF GPUInv, vars, ReservedInv, VisitsOf, PlanInv, TurnInv
<1>6. QED
    BY <1>3, <1>4, <1>5 DEF GPUInv

\* The invariant holds throughout.
LEMMA GPUInvariant == Spec => []GPUInv
<1>1. GPUInv /\ [Next]_vars => GPUInv'
  <2>1. GPUInv /\ Next => GPUInv'
      BY TypeStep, PhaseStep, ReservedStep, PlanStep, BlockStep, PlanRoomStep, TurnStep DEF GPUInv
  <2>2. QED
      BY <2>1, InvStutter
<1>2. QED
    BY <1>1, InitInv, PTL DEF Spec

\* The state of a check is well typed at every step: in particular what is
\* left of reservations and plans is never negative.
THEOREM GPUTypeCorrect == Spec => []GPUTypeOK
<1>1. GPUInv => GPUTypeOK
    BY DEF GPUInv
<1>2. QED
    BY <1>1, GPUInvariant, PTL

\* No reservation is billed more instances than AWS has, once for each time
\* its region is configured, and no plan is charged more than its commitment
\* and the tolerance on one instance.
THEOREM NothingSpentTwiceThm == Spec => []NothingSpentTwice
<1>1. ASSUME GPUInv PROVE NothingSpentTwice
  <2>1. ASSUME NEW k \in RIKeys
        PROVE  Cardinality(CoveredBy("reserved_instance", k)) <= TimesNamed(k[2]) * reserved[k]
    <3> DEFINE V == Cardinality(VisitsOf(k[2]))
               T == TimesNamed(k[2])
    <3>0. V \in Nat /\ T \in Nat /\ V <= T
      <4>1. Len(Regions) \in Nat /\ DOMAIN Regions = 1..Len(Regions)
          BY RegionsAssumption
      <4>2. VisitsOf(k[2]) \subseteq {n \in DOMAIN Regions : Regions[n] = k[2]}
          BY <1>1, <4>1 DEF VisitsOf, GPUInv, GPUTypeOK
      <4>3. IsFiniteSet({n \in DOMAIN Regions : Regions[n] = k[2]})
        <5>1. IsFiniteSet(DOMAIN Regions)
            BY <4>1, FS_Interval
        <5>2. {n \in DOMAIN Regions : Regions[n] = k[2]} \subseteq DOMAIN Regions
            OBVIOUS
        <5>3. QED
            BY <5>1, <5>2, FS_Subset
      <4>4. QED
          BY <4>2, <4>3, FS_Subset, FS_CardinalityType DEF TimesNamed
    <3>1. IsFiniteSet(CoveredBy("reserved_instance", k))
        BY FleetAssumption, FS_Subset DEF CoveredBy
    <3>2. Cardinality(CoveredBy("reserved_instance", k)) \in Nat
        BY <3>1, FS_CardinalityType
    <3>3. riLeft[k] \in Nat /\ reserved[k] \in Nat
        BY <1>1, MoneyAssumption DEF GPUInv, GPUTypeOK
    <3>4. riLeft[k] + Cardinality(CoveredBy("reserved_instance", k)) <= V * reserved[k]
        BY <1>1 DEF GPUInv, ReservedInv
    <3> HIDE DEF V, T
    <3>5. V * reserved[k] <= T * reserved[k] /\ V * reserved[k] \in Nat /\ T * reserved[k] \in Nat
        BY <3>0, <3>3, TimesMonotone, TimesStep
    <3>6. Cardinality(CoveredBy("reserved_instance", k)) <= T * reserved[k]
        BY <3>2, <3>3, <3>4, <3>5
    <3>7. QED
        BY <3>6 DEF T
  <2>2. ASSUME NEW p \in Plans, charged[p] - commitment[p] > 0
        PROVE  \E i \in CoveredBy("savings_plan", p) :
                  1000 * (charged[p] - commitment[p]) <= 5 * RateOf(p, i)
    <3>1. charged[p] \in Nat /\ commitment[p] \in Nat /\ left[p] \in Nat
        BY <1>1, MoneyAssumption DEF GPUInv, GPUTypeOK
    <3>2. charged[p] + left[p] # commitment[p]
        BY <2>2, <3>1
    <3>3. QED
        BY <1>1, <3>2 DEF GPUInv, PlanInv
  <2>3. QED
      BY <2>1, <2>2 DEF NothingSpentTwice
<1>2. QED
    BY <1>1, GPUInvariant, PTL

\* When a check ends, no instance is left to a later source while an earlier
\* one that applies to it has room.
THEOREM NoCheaperRoomThm == Spec => []NoCheaperRoom
<1>1. ASSUME GPUInv, pc = "store", NEW i \in Seen
      PROVE  /\ Rank(assigned[i]) > 1 => BlockOf[i] \notin cbIDs
             /\ Rank(assigned[i]) > 2 => riLeft[RIKey(i)] = 0
             /\ \A p \in Spendable :
                   (Applies(p, i) /\ Rank(Plan(p)) < Rank(assigned[i]))
                       => ~Affords(left[p], RateOf(p, i))
  <2>1. assigned[i] \in Sources
      BY <1>1, FleetAssumption DEF GPUInv, GPUTypeOK
  <2>2. Rank(assigned[i]) > 1 => assigned[i].kind # "capacity_block"
      BY <2>1, Ranks
  <2>3. Rank(assigned[i]) > 2 => assigned[i].kind \notin {"capacity_block", "reserved_instance"}
      BY <2>1, Ranks
  <2>4. queue = {} /\ unspent = {}
      BY <1>1 DEF GPUInv, PhaseInv
  <2>5. Rank(assigned[i]) > 1 => BlockOf[i] \notin cbIDs
      BY <1>1, <2>2 DEF GPUInv, BlockRoom
  <2>6. Rank(assigned[i]) > 2 => riLeft[RIKey(i)] = 0
      BY <1>1, <2>3 DEF GPUInv, ReservedRoom
  <2>7. QED
      BY <1>1, <2>4, <2>5, <2>6 DEF GPUInv, PlanRoom
<1>2. GPUInv => NoCheaperRoom
    BY <1>1 DEF NoCheaperRoom, Plan
<1>3. QED
    BY <1>2, GPUInvariant, PTL

=============================================================================
