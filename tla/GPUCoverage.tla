----------------------------- MODULE GPUCoverage -----------------------------
(***************************************************************************)
(* CheckGPUCoverage and analyzeCoverage of provider/gpu_coverage.go, with  *)
(* the write of SyncAll that follows: which running instances does AWS     *)
(* bill to a capacity block, a reserved instance or a savings plan, and    *)
(* which run on demand.                                                    *)
(*                                                                         *)
(* What the account holds is chosen once; checks then follow one another.  *)
(* AWS lists instances and plans in no particular order and sort.Slice is  *)
(* not stable, so every loop visits them in any order its comparison       *)
(* allows.  Rates and commitments are integers (thousandths of a dollar an *)
(* hour); the floating point rounding of the code is left out.             *)
(***************************************************************************)
EXTENDS Integers, Sequences, FiniteSets, Functions

CONSTANTS
    Instances,    \* EC2 instances of the account
    TypeOf,       \* instance -> instance type
    FamilyOf,     \* instance type -> family
    RegionOf,     \* instance -> region
    Linux,        \* instances whose platform is Linux/UNIX
    BlockOf,      \* instance -> capacity reservation it targets, or NoBlock
    GPUTypes,     \* instance types of a GPU family
    Regions,      \* acct.Regions, in order
    Plans,        \* active savings plans
    Kind,         \* plan -> SPType, of which two are spent on instances
    PlanFamily,   \* plan -> Ec2InstanceFamily
    PlanRegion,   \* plan -> Region
    Rate,         \* plan -> instance type -> hourly rate, 0 when it has none
    Fleets,       \* sets of instances that may be running
    Counts,       \* numbers of instances that reservations may add up to
    Commitments   \* hourly commitments of a plan

NoBlock == ""
Blocks == Range(BlockOf) \ {NoBlock}
RIKeys == {<<TypeOf[i], RegionOf[i]>> : i \in Instances}
NoPlan == "none"

ASSUME MoneyAssumption ==
    /\ Commitments \subseteq Nat
    /\ Counts \subseteq Nat
    /\ \A p \in Plans : Rate[p] \in [Range(TypeOf) -> Nat]
ASSUME FleetAssumption ==
    /\ IsFiniteSet(Instances)
    /\ Fleets \subseteq SUBSET Instances
    /\ DOMAIN TypeOf = Instances /\ DOMAIN BlockOf = Instances
    /\ RegionOf \in [Instances -> Range(Regions)]
ASSUME PlansAssumption == NoPlan \notin Plans

\* validate asks for a region, but not that each is listed once.
ASSUME RegionsAssumption == Regions \in Seq(Range(Regions)) /\ Regions # <<>>

VARIABLES
    running, blocks, reserved, commitment,   \* AWS: what runs, what is held
    pc,         \* the step of the check
    sps,        \* plans fetched with their rates
    visited,    \* regions visited so far
    listed,     \* allInstances: how often each instance is in the list
    riLeft,     \* riMap: what is left of the reservations
    cbIDs,      \* allCBIDs
    errs,       \* an error will be returned
    assigned,   \* instance -> what covers it
    unspent,    \* plans the loops of steps 3 and 4 have not reached
    plan,       \* the savings plan being spent
    queue,      \* its candidates not yet considered: which entry of which one
    left,       \* plan -> remaining
    table,      \* gpu_coverage: instance -> coverage, or "none"
    charged     \* history: plan -> the rates of the instances it covers

holdings == <<running, blocks, reserved, commitment>>
vars == <<running, blocks, reserved, commitment, pc, sps, visited, listed,
          riLeft, cbIDs, errs, assigned, unspent, plan, queue, left, table, charged>>
spending == <<unspent, plan, queue, left, charged>>

-----------------------------------------------------------------------------

Nobody == [kind |-> "on_demand", ref |-> NoBlock]
Sources ==
    [kind : {"capacity_block"}, ref : Blocks]
    \cup [kind : {"reserved_instance"}, ref : RIKeys]
    \cup [kind : {"savings_plan"}, ref : Plans]
    \cup {Nobody}
Coverages == {"capacity_block", "reserved_instance", "savings_plan", "on_demand"}

Seen == {i \in Instances : listed[i] > 0}

GPUTypeOK ==
    /\ running \in Fleets
    /\ blocks \subseteq Blocks
    /\ reserved \in [RIKeys -> Counts]
    /\ commitment \in [Plans -> Commitments]
    /\ pc \in {"plans", "regions", "blocks", "reserved", "spend", "store"}
    /\ sps \subseteq Plans
    /\ visited \in 0..Len(Regions)
    /\ listed \in [Instances -> Nat]
    /\ Seen \subseteq running
    /\ riLeft \in [RIKeys -> Nat]
    /\ cbIDs \subseteq blocks
    /\ errs \in BOOLEAN
    /\ assigned \in [Instances -> Sources]
    /\ unspent \subseteq sps
    /\ plan \in Plans \cup {NoPlan}
    /\ queue \subseteq Seen \X Nat
    /\ left \in [Plans -> Nat]
    /\ table \in [Instances -> Coverages \cup {"none"}]
    /\ charged \in [Plans -> Nat]

Init ==
    /\ running \in Fleets
    /\ blocks \in SUBSET Blocks
    /\ reserved \in [RIKeys -> Counts]
    /\ commitment \in [Plans -> Commitments]
    /\ table = [i \in Instances |-> "none"]
    /\ pc = "plans"
    /\ sps = {}
    /\ visited = 0
    /\ listed = [i \in Instances |-> 0]
    /\ riLeft = [k \in RIKeys |-> 0]
    /\ cbIDs = {}
    /\ errs = FALSE
    /\ assigned = [i \in Instances |-> Nobody]
    /\ unspent = {}
    /\ plan = NoPlan
    /\ queue = {}
    /\ left = commitment
    /\ charged = [p \in Plans |-> 0]

-----------------------------------------------------------------------------
(* CheckGPUCoverage: the API calls.                                        *)

\* fetchActiveSPsWithRates.  A plan whose rates cannot be read is left out,
\* with a warning and no error.
FetchPlans ==
    /\ pc = "plans"
    /\ pc' = "regions"
    /\ \E noRates \in SUBSET Plans : sps' = Plans \ noRates
    /\ UNCHANGED <<holdings, visited, listed, riLeft, cbIDs, errs, assigned, spending, table>>

FetchPlansFails ==
    /\ pc = "plans"
    /\ pc' = "regions"
    /\ errs' = TRUE
    /\ UNCHANGED <<holdings, sps, visited, listed, riLeft, cbIDs, assigned, spending, table>>

\* The next region; analyzeCoverage begins after the last.
Visit ==
    /\ pc = "regions"
    /\ visited' = visited + 1
    /\ pc' = IF visited' = Len(Regions) THEN "blocks" ELSE "regions"

Here == Regions[visited + 1]

\* What the three calls of a region report.
RunningInstances == {i \in running : RegionOf[i] = Here}
ActiveRIs(k) == IF k[2] = Here THEN reserved[k] ELSE 0
ActiveCBIDs == {b \in blocks : \E i \in Instances : BlockOf[i] = b /\ RegionOf[i] = Here}

\* Its instances, then its reserved instances and capacity blocks, each of
\* which may fail on its own.  Those of a region that acct.Regions names twice
\* are appended twice.
FetchRegion ==
    /\ Visit
    /\ listed' = [i \in Instances |->
                     IF i \in RunningInstances THEN listed[i] + 1 ELSE listed[i]]
    /\ \E riOk, cbOk \in BOOLEAN :
          /\ riLeft' = [k \in RIKeys |->
                          IF riOk THEN riLeft[k] + ActiveRIs(k) ELSE riLeft[k]]
          /\ cbIDs' = IF cbOk THEN cbIDs \cup ActiveCBIDs ELSE cbIDs
          /\ errs' = (errs \/ ~riOk \/ ~cbOk)
    /\ UNCHANGED <<holdings, sps, assigned, spending, table>>

\* The instances of the region cannot be listed: it is skipped.
FetchRegionFails ==
    /\ Visit
    /\ errs' = TRUE
    /\ UNCHANGED <<holdings, sps, listed, riLeft, cbIDs, assigned, spending, table>>

-----------------------------------------------------------------------------
(* analyzeCoverage.                                                        *)

Free == {i \in Seen : assigned[i] = Nobody}
Cover(i, kind, ref) == [assigned EXCEPT ![i] = [kind |-> kind, ref |-> ref]]

\* Step 1.
AssignBlocks ==
    /\ pc = "blocks"
    /\ pc' = "reserved"
    /\ assigned' = [i \in Instances |->
                       IF i \in Seen /\ BlockOf[i] \in cbIDs
                       THEN [kind |-> "capacity_block", ref |-> BlockOf[i]]
                       ELSE assigned[i]]
    /\ UNCHANGED <<holdings, sps, visited, listed, riLeft, cbIDs, errs, spending, table>>

RIKey(i) == <<TypeOf[i], RegionOf[i]>>

\* Step 2.
AssignRI(i) ==
    /\ pc = "reserved"
    /\ i \in Free
    /\ riLeft[RIKey(i)] > 0
    /\ assigned' = Cover(i, "reserved_instance", RIKey(i))
    /\ riLeft' = [riLeft EXCEPT ![RIKey(i)] = @ - 1]
    /\ UNCHANGED <<holdings, pc, sps, visited, listed, cbIDs, errs, spending, table>>

\* Plans of other types are passed over.
Spendable == {p \in sps : Kind[p] \in {"EC2Instance", "Compute"}}

ReservedDone ==
    /\ pc = "reserved"
    /\ \A i \in Free : riLeft[RIKey(i)] = 0
    /\ pc' = "spend"
    /\ unspent' = Spendable
    /\ UNCHANGED <<holdings, sps, visited, listed, riLeft, cbIDs, errs, assigned, plan,
                   queue, left, table, charged>>

\* Mutant: Compute plans are spent first.
MutantInTurn(p) == Kind[p] = "EC2Instance" => \A q \in unspent : Kind[q] = "EC2Instance"

\* Steps 3 and 4: first the plans bound to a family, then the Compute plans.
InTurn(p) == Kind[p] = "Compute" => \A q \in unspent : Kind[q] = "Compute"

Applies(p, i) ==
    /\ i \in Linux
    /\ Kind[p] = "EC2Instance" => /\ FamilyOf[TypeOf[i]] = PlanFamily[p]
                                  /\ RegionOf[i] = PlanRegion[p]

Visits == 1..Len(Regions)

\* The next plan collects its candidates, an instance that is listed twice
\* twice.
NextPlan(p) ==
    /\ pc = "spend"
    /\ queue = {}
    /\ p \in unspent
    /\ InTurn(p)
    /\ unspent' = unspent \ {p}
    /\ plan' = p
    /\ queue' = {e \in Free \X Visits : Applies(p, e[1]) /\ e[2] <= listed[e[1]]}
    /\ UNCHANGED <<holdings, pc, sps, visited, listed, riLeft, cbIDs, errs, assigned, left,
                   table, charged>>

RateOf(p, i) == Rate[p][TypeOf[i]]
Dearest == {e \in queue : \A f \in queue : RateOf(plan, f[1]) <= RateOf(plan, e[1])}

\* A positive rate, and spCoverageTolerance of it is there: 995 thousandths.
Affords(remaining, rate) == rate > 0 /\ 1000 * remaining >= 995 * rate

\* Mutants: the remainder is not taken down; the tolerance makes a debt.
MutantSpend(remaining, rate) == remaining
MutantSpendDebt(remaining, rate) == remaining - rate

Spend(remaining, rate) == IF remaining < rate THEN 0 ELSE remaining - rate

\* The candidate with the highest rate is covered, or passed over.  Whether the
\* plan covers it already is not looked at again: the second entry of an
\* instance is paid for a second time.
Consider(e) ==
    /\ pc = "spend"
    /\ e \in Dearest
    /\ queue' = queue \ {e}
    /\ IF Affords(left[plan], RateOf(plan, e[1]))
       THEN /\ assigned' = Cover(e[1], "savings_plan", plan)
            /\ left' = [left EXCEPT ![plan] = Spend(@, RateOf(plan, e[1]))]
            /\ charged' = [charged EXCEPT ![plan] = @ + RateOf(plan, e[1])]
       ELSE UNCHANGED <<assigned, left, charged>>
    /\ UNCHANGED <<holdings, pc, sps, visited, listed, riLeft, cbIDs, errs, unspent, plan,
                   table>>

PlansDone ==
    /\ pc = "spend"
    /\ queue = {}
    /\ unspent = {}
    /\ pc' = "store"
    /\ UNCHANGED <<holdings, sps, visited, listed, riLeft, cbIDs, errs, assigned, spending,
                   table>>

\* Step 5.
Results == {i \in Seen : TypeOf[i] \in GPUTypes}

\* SyncAll replaces the account's rows, or merges after an error; the next
\* check starts afresh.
Store ==
    /\ pc = "store"
    /\ table' = [i \in Instances |->
                    IF i \in Results THEN assigned[i].kind
                    ELSE IF ~errs /\ Results # {} THEN "none" ELSE table[i]]
    /\ pc' = "plans"
    /\ sps' = {}
    /\ visited' = 0
    /\ listed' = [i \in Instances |-> 0]
    /\ riLeft' = [k \in RIKeys |-> 0]
    /\ cbIDs' = {}
    /\ errs' = FALSE
    /\ assigned' = [i \in Instances |-> Nobody]
    /\ unspent' = {}
    /\ plan' = NoPlan
    /\ queue' = {}
    /\ left' = commitment
    /\ charged' = [p \in Plans |-> 0]
    /\ UNCHANGED holdings

-----------------------------------------------------------------------------

Next ==
    \/ FetchPlans \/ FetchPlansFails
    \/ FetchRegion \/ FetchRegionFails
    \/ AssignBlocks
    \/ \E i \in Instances : AssignRI(i)
    \/ ReservedDone
    \/ \E p \in Plans : NextPlan(p)
    \/ \E e \in queue : Consider(e)
    \/ PlansDone
    \/ Store

Spec == Init /\ [][Next]_vars

-----------------------------------------------------------------------------
(* Properties.                                                             *)

CoveredBy(kind, ref) == {i \in Instances : assigned[i] = [kind |-> kind, ref |-> ref]}

\* No more instances are billed to reservations of a type and region than AWS
\* has, counting several reservations of the same kind together; a region that
\* the configuration names several times counts as often.  And what is taken
\* from a plan exceeds its commitment by no more than the tolerance granted to
\* the one instance that used up the rest.
TimesNamed(region) == Cardinality({n \in DOMAIN Regions : Regions[n] = region})
NothingSpentTwice ==
    /\ \A k \in RIKeys :
          Cardinality(CoveredBy("reserved_instance", k)) <= TimesNamed(k[2]) * reserved[k]
    /\ \A p \in Plans :
          LET over == charged[p] - commitment[p]
          IN  over > 0 => \E i \in CoveredBy("savings_plan", p) :
                              1000 * over <= 5 * RateOf(p, i)

\* In which order the sources are spent; none of the account's is last.
Rank(src) ==
    CASE src.kind = "capacity_block" -> 1
      [] src.kind = "reserved_instance" -> 2
      [] src.kind = "savings_plan" -> IF Kind[src.ref] = "EC2Instance" THEN 3 ELSE 4
      [] src.kind = "on_demand" -> 5

\* When the check is over no instance is left to a later source, or reported
\* on demand, while an earlier one that applies to it still has room: the
\* greedy passes, each over what the one before left, miss nothing.
NoCheaperRoom ==
    pc = "store" =>
        \A i \in Seen :
            /\ Rank(assigned[i]) > 1 => BlockOf[i] \notin cbIDs
            /\ Rank(assigned[i]) > 2 => riLeft[RIKey(i)] = 0
            /\ \A p \in Spendable :
                  (Applies(p, i) /\ Rank([kind |-> "savings_plan", ref |-> p]) < Rank(assigned[i]))
                      => ~Affords(left[p], RateOf(p, i))

-----------------------------------------------------------------------------
(* A statement of the documentation that the code does not meet.           *)

\* "on partial failure (any region/type error), skips the per-account purge
\* step" (scheduler.go:27-28), "same preservation rule" for the GPU coverage
\* (scheduler.go:85): what is written without an error was made from every
\* plan of the account.
NoErrorMeansComplete ==
    (pc = "store" /\ ~errs) => sps = Plans

=============================================================================
