----------------------------- MODULE SyncProofs -----------------------------
(***************************************************************************)
(* Proofs about the two concurrent syncs, for any accounts, resources, API *)
(* calls, failures, restarts and imports.                                  *)
(***************************************************************************)
EXTENDS Sync, TLAPS

Pcs == {"idle", "prune", "prune_gpu", "fetch", "apply", "merge"}

\* A syncer inside a unit of work is inside one that exists.
InWork(s) == pc[s] \in {"fetch", "apply", "merge"} => unit[s] \in 1..WorkLength

\* The account is only replaced after every call of the unit succeeded.
AllCalled(s) == pc[s] = "apply" => ~failed[s] /\ todo[s] = {}

\* As long as no call has failed, a resource that its call did not report no
\* longer exists.
Honest(s) ==
    (pc[s] \in {"fetch", "apply"} /\ ~failed[s]) =>
        \A r \in Reported(unit[s]) :
            (SourceOf[r] \notin todo[s] /\ items[s][r] = 0) => cloud[r] = 0

\* What a syncer holds is as recent as the stored row, unless another wrote the
\* row meanwhile or the instance was misjudged.
Recent(s) ==
    \A r \in Resources :
        (items[s][r] # 0 /\ r \notin stale[s] /\ r \notin misread[s]) => row[r] <= items[s][r]

\* Nothing stored or held is ahead of AWS.
NotAhead ==
    \A r \in Resources :
        cloud[r] # 0 => row[r] <= cloud[r] /\ \A s \in Syncers : items[s][r] <= cloud[r]

\* The inductive invariant.
SyncerInv(s) == InWork(s) /\ AllCalled(s) /\ Honest(s) /\ Recent(s)
SyncInv == SyncTypeOK /\ NotAhead /\ \A s \in Syncers : SyncerInv(s)

-----------------------------------------------------------------------------
(* The work.                                                               *)

LEMMA WorkLengthType == WorkLength \in Nat
  <1>1. Len(Synced) \in Nat
    BY DEF Synced
  <1> QED BY <1>1 DEF WorkLength

\* A unit makes every call that reports one of its resources.
LEMMA CallsComplete ==
  ASSUME NEW n, NEW r \in Reported(n)
  PROVE  SourceOf[r] \in CallsOf(n)
  BY ResourcesAssumption DEF Reported, CallsOf, From

LEMMA NothingType == Nothing \in [Resources -> Versions] /\ \A r \in Resources : Nothing[r] = 0
  BY BoundsAssumption DEF Nothing, Versions

\* Entering a unit, or leaving the last.
LEMMA EnterKeeps ==
  ASSUME SyncTypeOK, NEW s \in Syncers, NEW n \in 1..(WorkLength + 1), pc[s] # "idle",
         Enter(s, n)
  PROVE  /\ pc' \in [Syncers -> Pcs]
         /\ unit' \in [Syncers -> 1..(WorkLength + 1)]
         /\ todo' \in [Syncers -> SUBSET Sources]
         /\ items' \in [Syncers -> [Resources -> Versions]]
         /\ failed' \in [Syncers -> BOOLEAN]
         /\ misread' \in [Syncers -> SUBSET Resources]
         /\ running' \in BOOLEAN
         /\ running' <=> pc'["api"] # "idle"
         /\ pc'[s] \in {"fetch", "idle"}
         /\ pc'[s] = "fetch" => /\ unit'[s] = n /\ n \in 1..WorkLength
                                /\ todo'[s] = CallsOf(n)
         /\ items'[s] = Nothing
         /\ \A t \in Syncers : t # s =>
               /\ pc'[t] = pc[t] /\ unit'[t] = unit[t] /\ todo'[t] = todo[t]
               /\ items'[t] = items[t] /\ failed'[t] = failed[t]
               /\ misread'[t] = misread[t]
  <1>1. /\ pc \in [Syncers -> Pcs] /\ unit \in [Syncers -> 1..(WorkLength + 1)]
        /\ todo \in [Syncers -> SUBSET Sources] /\ failed \in [Syncers -> BOOLEAN]
        /\ items \in [Syncers -> [Resources -> Versions]]
        /\ misread \in [Syncers -> SUBSET Resources]
        /\ running \in BOOLEAN /\ (running <=> pc["api"] # "idle")
    BY DEF SyncTypeOK, Pcs
  <1>2. /\ items' \in [Syncers -> [Resources -> Versions]] /\ items'[s] = Nothing
        /\ failed' \in [Syncers -> BOOLEAN]
        /\ misread' \in [Syncers -> SUBSET Resources]
        /\ \A t \in Syncers : t # s => /\ items'[t] = items[t] /\ failed'[t] = failed[t]
                                       /\ misread'[t] = misread[t]
    BY <1>1, NothingType DEF Enter
  <1>3. CASE n <= WorkLength
    <2>1. /\ pc' = [pc EXCEPT ![s] = "fetch"] /\ unit' = [unit EXCEPT ![s] = n]
          /\ todo' = [todo EXCEPT ![s] = CallsOf(n)] /\ running' = running
      BY <1>3 DEF Enter
    <2>2. CallsOf(n) \in SUBSET Sources
      BY DEF CallsOf
    <2>3. n \in 1..WorkLength
      BY <1>3, WorkLengthType
    <2> QED BY <1>1, <1>2, <2>1, <2>2, <2>3 DEF Pcs, Syncers
  <1>4. CASE ~(n <= WorkLength)
    <2>1. /\ pc' = [pc EXCEPT ![s] = "idle"] /\ unit' = [unit EXCEPT ![s] = 1]
          /\ todo' = [todo EXCEPT ![s] = {}]
          /\ running' = IF s = "api" THEN FALSE ELSE running
      BY <1>4 DEF Enter
    <2>2. 1 \in 1..(WorkLength + 1)
      BY WorkLengthType
    <2> QED BY <1>1, <1>2, <2>1, <2>2 DEF Pcs, Syncers
  <1> QED BY <1>3, <1>4

\* A syncer that enters a unit satisfies the invariant there.
LEMMA EnterInv ==
  ASSUME SyncTypeOK, NEW s \in Syncers, NEW n \in 1..(WorkLength + 1), pc[s] # "idle",
         Enter(s, n)
  PROVE  SyncerInv(s)'
  <1>1. InWork(s)' /\ AllCalled(s)'
    BY EnterKeeps DEF InWork, AllCalled
  <1>2. Honest(s)'
    <2> SUFFICES ASSUME pc'[s] = "fetch", NEW r \in Reported(unit[s])',
                        SourceOf[r] \notin todo'[s]
                 PROVE  FALSE
      BY EnterKeeps DEF Honest
    <2>1. r \in Reported(n) /\ todo'[s] = CallsOf(n)
      BY EnterKeeps DEF Reported, AccountAt, TableAt
    <2> QED BY <2>1, CallsComplete
  <1>3. Recent(s)'
    BY EnterKeeps, NothingType DEF Recent
  <1> QED BY <1>1, <1>2, <1>3 DEF SyncerInv

\* A syncer that does not move keeps its part of the invariant when rows change,
\* provided that rows do not grow behind its back and nothing comes back to life
\* in AWS.
LEMMA OthersKeep ==
  ASSUME SyncTypeOK, NEW s \in Syncers, SyncerInv(s),
         pc'[s] = pc[s], unit'[s] = unit[s], todo'[s] = todo[s], items'[s] = items[s],
         failed'[s] = failed[s], misread'[s] = misread[s],
         \A r \in Resources : cloud[r] = 0 => cloud'[r] = 0,
         stale[s] \subseteq stale'[s],
         \A r \in Resources : row'[r] \in {0, row[r]} \/ items[s][r] = 0 \/ r \in stale'[s]
  PROVE  SyncerInv(s)'
  <1>0. Reported(unit[s])' = Reported(unit[s])
    BY DEF Reported, AccountAt, TableAt
  <1>1. InWork(s)' /\ AllCalled(s)'
    BY DEF SyncerInv, InWork, AllCalled
  <1>2. Honest(s)'
    BY <1>0 DEF SyncerInv, Honest, Reported
  <1>3. Recent(s)'
    <2> SUFFICES ASSUME NEW r \in Resources, items[s][r] # 0, r \notin stale'[s],
                        r \notin misread[s]
                 PROVE  row'[r] <= items[s][r]
      BY DEF Recent
    <2>1. row'[r] \in {0, row[r]} /\ row[r] <= items[s][r] /\ items[s][r] \in Nat
      BY BoundsAssumption DEF SyncerInv, Recent, SyncTypeOK, Versions
    <2> QED BY <2>1
  <1> QED BY <1>1, <1>2, <1>3 DEF SyncerInv

\* The types, variable by variable.
LEMMA SyncTypesApart ==
  ASSUME SyncTypeOK
  PROVE  /\ cloud \in [Resources -> Versions] /\ row \in [Resources -> Versions]
         /\ pc \in [Syncers -> Pcs] /\ unit \in [Syncers -> 1..(WorkLength + 1)]
         /\ todo \in [Syncers -> SUBSET Sources] /\ failed \in [Syncers -> BOOLEAN]
         /\ items \in [Syncers -> [Resources -> Versions]]
         /\ stale \in [Syncers -> SUBSET Resources]
         /\ misread \in [Syncers -> SUBSET Resources]
         /\ faults \in 0..MaxFaults /\ imports \in 0..MaxImports
  BY DEF SyncTypeOK, Pcs

LEMMA VersionsAreNat == Versions \subseteq Nat /\ 0 \in Versions
  BY BoundsAssumption DEF Versions

LEMMA HeldIsNat ==
  ASSUME SyncTypeOK, NEW s \in Syncers, NEW r \in Resources
  PROVE  items[s][r] \in Nat
  <1>1. items[s][r] \in Versions
    BY DEF SyncTypeOK
  <1> QED BY <1>1, VersionsAreNat

LEMMA FaultType ==
  ASSUME SyncTypeOK, Fault
  PROVE  faults' \in 0..MaxFaults
  BY BoundsAssumption DEF SyncTypeOK, Fault

LEMMA WrittenByType ==
  ASSUME SyncTypeOK, NEW s, NEW W \in SUBSET Resources
  PROVE  /\ WrittenBy(s, W) \in [Syncers -> SUBSET Resources]
         /\ \A t \in Syncers : t # s =>
               /\ stale[t] \subseteq WrittenBy(s, W)[t]
               /\ \A r \in W : items[t][r] # 0 => r \in WrittenBy(s, W)[t]
         /\ \A t \in Syncers : t = s => WrittenBy(s, W)[t] = stale[t] \ W
  BY DEF SyncTypeOK, WrittenBy, Found

\* The next unit, or the end.
LEMMA NextUnit ==
  ASSUME SyncInv, NEW s \in Syncers, pc[s] \in {"apply", "merge"}
  PROVE  unit[s] \in 1..WorkLength /\ unit[s] + 1 \in 1..(WorkLength + 1)
  <1>1. unit[s] \in 1..WorkLength
    BY DEF SyncInv, SyncerInv, InWork
  <1> QED BY <1>1, WorkLengthType

-----------------------------------------------------------------------------
(* The steps.                                                              *)

LEMMA SyncInit == Init => SyncInv
  <1> SUFFICES ASSUME Init PROVE SyncInv
    OBVIOUS
  <1>1. /\ cloud \in [Resources -> Versions] /\ \A r \in Resources : cloud[r] = 1
        /\ row \in [Resources -> Versions] /\ \A r \in Resources : row[r] \in {0, 1}
    <2>1. cloud = [r \in Resources |-> 1] /\ 1 \in Versions /\ 0 \in Versions
      BY BoundsAssumption DEF Init, Versions
    <2>2. row = Nothing \/ row = cloud
      BY DEF Init
    <2> QED BY <2>1, <2>2, NothingType
  <1>2. /\ items \in [Syncers -> [Resources -> Versions]]
        /\ \A s \in Syncers, r \in Resources : items[s][r] = 0
    BY NothingType DEF Init
  <1>3. unit \in [Syncers -> 1..(WorkLength + 1)]
    BY WorkLengthType DEF Init
  <1>4. /\ pc \in [Syncers -> {"idle", "prune"}] /\ pc["api"] = "idle"
        /\ running = FALSE
    BY DEF Init, Syncers
  <1>5. SyncTypeOK
    <2>1. /\ todo \in [Syncers -> SUBSET Sources] /\ failed \in [Syncers -> BOOLEAN]
          /\ stale \in [Syncers -> SUBSET Resources]
          /\ misread \in [Syncers -> SUBSET Resources]
      BY DEF Init
    <2>2. faults \in 0..MaxFaults /\ imports \in 0..MaxImports
      BY BoundsAssumption DEF Init
    <2>3. running \in BOOLEAN /\ (running <=> pc["api"] # "idle")
      BY <1>4
    <2>4. pc \in [Syncers -> Pcs]
      BY <1>4 DEF Pcs
    <2> QED BY <1>1, <1>2, <1>3, <2>1, <2>2, <2>3, <2>4 DEF SyncTypeOK, Pcs
  <1>6. NotAhead
    BY <1>1, <1>2 DEF NotAhead
  <1>7. ASSUME NEW s \in Syncers PROVE SyncerInv(s)
    BY <1>2, <1>4 DEF SyncerInv, InWork, AllCalled, Honest, Recent
  <1> QED BY <1>5, <1>6, <1>7 DEF SyncInv

\* A change in AWS: what is gone stays gone, and the others only move on.
LEMMA CloudKeeps ==
  ASSUME SyncInv, NEW r \in Resources, CloudChange(r)
  PROVE  SyncInv'
  <1>0. SyncTypeOK
    BY DEF SyncInv
  <1>1. UNCHANGED <<row, pc, unit, todo, items, failed, running, faults, imports, stale, misread>>
    BY DEF CloudChange, syncer, bounds
  <1>2. PICK v \in {0, cloud[r] + 1} \cap Versions : cloud' = [cloud EXCEPT ![r] = v]
    BY DEF CloudChange
  <1>3. cloud' \in [Resources -> Versions]
    BY <1>0, <1>2 DEF SyncTypeOK
  <1>4. SyncTypeOK'
    BY <1>0, <1>1, <1>3 DEF SyncTypeOK
  <1>5. \A q \in Resources : cloud[q] = 0 => cloud'[q] = 0
    BY <1>0, <1>2, SyncTypesApart DEF CloudChange
  <1>6. NotAhead'
    <2> SUFFICES ASSUME NEW q \in Resources, cloud'[q] # 0
                 PROVE  row[q] <= cloud'[q] /\ \A s \in Syncers : items[s][q] <= cloud'[q]
      BY <1>1 DEF NotAhead
    <2>1. cloud[q] # 0 /\ cloud'[q] >= cloud[q] /\ cloud[q] \in Nat /\ cloud'[q] \in Nat
      <3>1. cloud[q] # 0 /\ cloud[q] \in Nat /\ cloud'[q] \in Nat
        BY <1>0, <1>3, <1>5, SyncTypesApart, VersionsAreNat
      <3>2. cloud'[q] = IF q = r THEN v ELSE cloud[q]
        BY <1>0, <1>2, SyncTypesApart
      <3>3. v = 0 \/ v = cloud[r] + 1
        BY <1>2
      <3> QED BY <3>1, <3>2, <3>3
    <2>2. row[q] \in Nat /\ \A s \in Syncers : items[s][q] \in Nat
      BY <1>0, SyncTypesApart, VersionsAreNat
    <2>3. row[q] <= cloud[q] /\ \A s \in Syncers : items[s][q] <= cloud[q]
      BY <2>1 DEF SyncInv, NotAhead
    <2> QED BY <2>1, <2>2, <2>3
  <1>7. ASSUME NEW s \in Syncers PROVE SyncerInv(s)'
    BY <1>0, <1>1, <1>5, OthersKeep DEF SyncInv
  <1> QED BY <1>4, <1>6, <1>7 DEF SyncInv

\* An import: whoever holds the row is told.
LEMMA ImportKeeps ==
  ASSUME SyncInv, NEW r \in Resources, ImportRow(r)
  PROVE  SyncInv'
  <1>0. SyncTypeOK
    BY DEF SyncInv
  <1>1. UNCHANGED <<cloud, pc, unit, todo, items, failed, running, faults, misread>>
    BY DEF ImportRow, syncer
  <1>2. PICK v \in 1..MaxVersion : /\ v <= cloud[r] \/ cloud[r] = 0
                                   /\ row' = [row EXCEPT ![r] = v]
    BY DEF ImportRow
  <1>3. row' \in [Resources -> Versions] /\ imports' \in 0..MaxImports
    BY <1>0, <1>2, BoundsAssumption DEF SyncTypeOK, Versions, ImportRow
  <1>4. /\ stale' \in [Syncers -> SUBSET Resources]
        /\ \A s \in Syncers : /\ stale[s] \subseteq stale'[s]
                              /\ items[s][r] # 0 => r \in stale'[s]
    <2>1. stale' = WrittenBy("import", {r}) /\ "import" \notin Syncers
      BY DEF ImportRow, Syncers
    <2> QED BY <1>0, <2>1, WrittenByType
  <1>5. SyncTypeOK'
    BY <1>0, <1>1, <1>3, <1>4 DEF SyncTypeOK
  <1>6. NotAhead'
    BY <1>0, <1>1, <1>2, SyncTypesApart DEF SyncInv, NotAhead
  <1>7. ASSUME NEW s \in Syncers PROVE SyncerInv(s)'
    <2>1. \A q \in Resources : row'[q] = row[q] \/ items[s][q] = 0 \/ q \in stale'[s]
      BY <1>0, <1>2, <1>4, SyncTypesApart
    <2> QED BY <1>0, <1>1, <1>4, <2>1, OthersKeep DEF SyncInv
  <1> QED BY <1>5, <1>6, <1>7 DEF SyncInv

\* A sync begins.
LEMMA StartKeeps ==
  ASSUME SyncInv, StartApiSync \/ StartCronSync
  PROVE  SyncInv'
  <1>0. SyncTypeOK
    BY DEF SyncInv
  <1>1. UNCHANGED <<cloud, row, unit, todo, items, failed, faults, imports, stale, misread>>
    BY DEF StartApiSync, StartCronSync, bounds
  <1>2. PICK s \in Syncers : pc' = [pc EXCEPT ![s] = "prune"]
    BY DEF StartApiSync, StartCronSync, Syncers
  <1>3. /\ pc' \in [Syncers -> Pcs] /\ running' \in BOOLEAN
        /\ running' <=> pc'["api"] # "idle"
    <2>1. /\ pc \in [Syncers -> Pcs] /\ running \in BOOLEAN
          /\ running <=> pc["api"] # "idle"
      BY <1>0 DEF SyncTypeOK, Pcs
    <2>2. CASE StartApiSync
      BY <2>1, <2>2 DEF StartApiSync, Pcs, Syncers
    <2>3. CASE StartCronSync
      BY <2>1, <2>3 DEF StartCronSync, Pcs, Syncers
    <2> QED BY <2>2, <2>3
  <1>4. SyncTypeOK'
    BY <1>0, <1>1, <1>3 DEF SyncTypeOK, Pcs
  <1>5. NotAhead'
    BY <1>1 DEF SyncInv, NotAhead
  <1>6. ASSUME NEW t \in Syncers PROVE SyncerInv(t)'
    <2>1. SyncerInv(t)
      BY DEF SyncInv
    <2>2. CASE t = s
      <3>1. pc'[t] = "prune"
        BY <1>0, <1>2, <2>2, SyncTypesApart
      <3>3. Recent(t)'
        BY <1>1, <2>1 DEF SyncerInv, Recent
      <3> QED BY <3>1, <3>3 DEF SyncerInv, InWork, AllCalled, Honest
    <2>3. CASE t # s
      BY <1>0, <1>1, <1>2, <2>1, <2>3, OthersKeep, SyncTypesApart
    <2> QED BY <2>2, <2>3
  <1> QED BY <1>4, <1>5, <1>6 DEF SyncInv

\* A restart forgets everything but the tables.
LEMMA CrashKeeps ==
  ASSUME SyncInv, Crash
  PROVE  SyncInv'
  <1>0. SyncTypeOK
    BY DEF SyncInv
  <1>1. /\ items' \in [Syncers -> [Resources -> Versions]]
        /\ \A s \in Syncers, r \in Resources : items'[s][r] = 0
    BY NothingType DEF Crash
  <1>2. unit' \in [Syncers -> 1..(WorkLength + 1)]
    BY WorkLengthType DEF Crash
  <1>3. /\ pc' \in [Syncers -> {"idle", "prune"}] /\ pc'["api"] = "idle"
        /\ running' = FALSE
    BY DEF Crash, Syncers
  <1>4. faults' \in 0..MaxFaults
    BY <1>0, FaultType DEF Crash
  <1>5. SyncTypeOK'
    BY <1>0, <1>1, <1>2, <1>3, <1>4 DEF Crash, SyncTypeOK
  <1>6. NotAhead'
    <2>1. UNCHANGED <<cloud, row>> /\ \A r \in Resources : cloud[r] \in Nat
      BY <1>0, SyncTypesApart, VersionsAreNat DEF Crash
    <2>2. \A r \in Resources : cloud[r] # 0 => row[r] <= cloud[r]
      BY DEF SyncInv, NotAhead
    <2> QED BY <1>1, <2>1, <2>2 DEF NotAhead
  <1>7. ASSUME NEW s \in Syncers PROVE SyncerInv(s)'
    BY <1>1, <1>3 DEF SyncerInv, InWork, AllCalled, Honest, Recent
  <1> QED BY <1>5, <1>6, <1>7 DEF SyncInv

\* A write, or a failed one, after which the syncer goes to its next unit: the
\* other syncer is told of every row that was written.
LEMMA WriteAndEnter ==
  ASSUME SyncInv, NEW s \in Syncers, NEW n \in 1..(WorkLength + 1), pc[s] # "idle",
         Enter(s, n), UNCHANGED <<cloud, imports>>, faults' \in 0..MaxFaults,
         row' \in [Resources -> Versions], stale' \in [Syncers -> SUBSET Resources],
         \A t \in Syncers : t # s =>
             /\ stale[t] \subseteq stale'[t]
             /\ \A r \in Resources :
                   row'[r] \in {0, row[r]} \/ items[t][r] = 0 \/ r \in stale'[t],
         \A r \in Resources : cloud[r] # 0 => row'[r] <= cloud[r]
  PROVE  SyncInv'
  <1>0. SyncTypeOK
    BY DEF SyncInv
  <1>1. SyncTypeOK'
    <2>1. /\ pc' \in [Syncers -> Pcs] /\ unit' \in [Syncers -> 1..(WorkLength + 1)]
          /\ todo' \in [Syncers -> SUBSET Sources]
          /\ items' \in [Syncers -> [Resources -> Versions]]
          /\ failed' \in [Syncers -> BOOLEAN] /\ running' \in BOOLEAN
          /\ misread' \in [Syncers -> SUBSET Resources]
          /\ (running' <=> pc'["api"] # "idle")
      BY <1>0, EnterKeeps
    <2> QED BY <1>0, <2>1 DEF SyncTypeOK, Pcs
  <1>2. NotAhead'
    <2> SUFFICES ASSUME NEW r \in Resources, cloud[r] # 0, NEW t \in Syncers
                 PROVE  row'[r] <= cloud[r] /\ items'[t][r] <= cloud[r]
      BY DEF NotAhead
    <2>1. cloud[r] \in Nat
      BY <1>0, SyncTypesApart, VersionsAreNat
    <2>2. CASE t = s
      BY <1>0, <2>1, <2>2, EnterKeeps, NothingType
    <2>3. CASE t # s
      BY <1>0, <2>3, EnterKeeps DEF SyncInv, NotAhead
    <2> QED BY <2>2, <2>3
  <1>3. ASSUME NEW t \in Syncers PROVE SyncerInv(t)'
    <2>1. CASE t = s
      BY <1>0, <2>1, EnterInv
    <2>2. CASE t # s
      <3>1. /\ pc'[t] = pc[t] /\ unit'[t] = unit[t] /\ todo'[t] = todo[t]
            /\ items'[t] = items[t] /\ failed'[t] = failed[t] /\ misread'[t] = misread[t]
        BY <1>0, <2>2, EnterKeeps
      <3> QED BY <1>0, <2>2, <3>1, OthersKeep DEF SyncInv
    <2> QED BY <2>1, <2>2
  <1> QED BY <1>1, <1>2, <1>3 DEF SyncInv

\* What pruning leaves of a table.
LEMMA PrunedRows ==
  ASSUME SyncInv, NEW P,
         row' = [r \in Resources |-> IF r \in P THEN 0 ELSE row[r]]
  PROVE  /\ row' \in [Resources -> Versions]
         /\ \A r \in Resources : row'[r] \in {0, row[r]}
         /\ \A r \in Resources : cloud[r] # 0 => row'[r] <= cloud[r]
  <1>1. /\ row' \in [Resources -> Versions]
        /\ \A r \in Resources : row'[r] \in {0, row[r]}
    BY SyncTypesApart, VersionsAreNat DEF SyncInv
  <1>2. \A r \in Resources : cloud[r] \in Nat
    BY SyncTypesApart, VersionsAreNat DEF SyncInv
  <1> QED BY <1>1, <1>2 DEF SyncInv, NotAhead

LEMMA PruneKeeps ==
  ASSUME SyncInv, NEW s \in Syncers,
         PruneReservations(s) \/ PruneCoverage(s) \/ PruneFails(s)
  PROVE  SyncInv'
  <1>0. SyncTypeOK /\ 1 \in 1..(WorkLength + 1) /\ faults \in 0..MaxFaults
    BY WorkLengthType, SyncTypesApart DEF SyncInv
  <1>1. CASE PruneReservations(s)
    <2>1. /\ row' = [r \in Resources |-> IF r \in Pruned("reservations") THEN 0 ELSE row[r]]
          /\ pc[s] = "prune" /\ pc' = [pc EXCEPT ![s] = "prune_gpu"]
          /\ UNCHANGED <<cloud, unit, todo, items, failed, running, faults, imports, stale, misread>>
      BY <1>1 DEF PruneReservations, bounds
    <2>2. /\ pc' \in [Syncers -> Pcs] /\ (running' <=> pc'["api"] # "idle")
          /\ running' \in BOOLEAN
      <3>1. /\ pc \in [Syncers -> Pcs] /\ running \in BOOLEAN
            /\ running <=> pc["api"] # "idle"
        BY <1>0 DEF SyncTypeOK, Pcs
      <3> QED BY <2>1, <3>1 DEF Pcs, Syncers
    <2>3. /\ row' \in [Resources -> Versions]
          /\ \A r \in Resources : row'[r] \in {0, row[r]}
          /\ \A r \in Resources : cloud[r] # 0 => row'[r] <= cloud[r]
      BY <2>1, PrunedRows
    <2>4. SyncTypeOK'
      BY <1>0, <2>1, <2>2, <2>3 DEF SyncTypeOK, Pcs
    <2>5. NotAhead'
      BY <2>1, <2>3 DEF SyncInv, NotAhead
    <2>6. ASSUME NEW t \in Syncers PROVE SyncerInv(t)'
      <3>0. SyncerInv(t)
        BY DEF SyncInv
      <3>1. CASE t = s
        <4>1. pc'[t] = "prune_gpu"
          BY <1>0, <2>1, <3>1, SyncTypesApart
        <4>3. Recent(t)'
          <5> SUFFICES ASSUME NEW r \in Resources, items[t][r] # 0, r \notin stale[t],
                              r \notin misread[t]
                       PROVE  row'[r] <= items[t][r]
            BY <2>1 DEF Recent
          <5>1. row[r] <= items[t][r]
            BY <3>0 DEF SyncerInv, Recent
          <5>2. items[t][r] \in Nat
            BY <1>0, HeldIsNat
          <5> QED BY <2>3, <5>1, <5>2
        <4> QED BY <4>1, <4>3 DEF SyncerInv, InWork, AllCalled, Honest
      <3>2. CASE t # s
        BY <1>0, <2>1, <2>3, <3>0, <3>2, OthersKeep, SyncTypesApart
      <3> QED BY <3>1, <3>2
    <2> QED BY <2>4, <2>5, <2>6 DEF SyncInv
  <1>2. CASE PruneCoverage(s)
    <2>1. /\ row' = [r \in Resources |-> IF r \in Pruned("gpu_coverage") THEN 0 ELSE row[r]]
          /\ pc[s] # "idle" /\ Enter(s, 1)
          /\ UNCHANGED <<cloud, faults, imports, stale>>
      BY <1>2 DEF PruneCoverage, bounds
    <2>2. /\ row' \in [Resources -> Versions]
          /\ \A r \in Resources : row'[r] \in {0, row[r]}
          /\ \A r \in Resources : cloud[r] # 0 => row'[r] <= cloud[r]
      BY <2>1, PrunedRows
    <2> QED BY <1>0, <2>1, <2>2, WriteAndEnter, SyncTypesApart
  <1>3. CASE PruneFails(s)
    <2>1. /\ pc[s] # "idle" /\ Enter(s, 1) /\ faults' \in 0..MaxFaults
          /\ UNCHANGED <<cloud, row, imports, stale>>
      BY <1>0, <1>3, FaultType DEF PruneFails
    <2>2. \A r \in Resources : cloud[r] # 0 => row'[r] <= cloud[r]
      BY <2>1 DEF SyncInv, NotAhead
    <2> QED BY <1>0, <2>1, <2>2, WriteAndEnter, SyncTypesApart
  <1> QED BY <1>1, <1>2, <1>3

\* An API call was answered, in full or not.
LEMMA CalledKeeps ==
  ASSUME SyncInv, NEW s \in Syncers, NEW c \in todo[s], NEW lost, Called(s, c, lost),
         UNCHANGED <<cloud, row, pc, unit, running, imports, stale, misread>>,
         faults' \in 0..MaxFaults,
         \/ lost = {} /\ UNCHANGED failed
         \/ failed' = [failed EXCEPT ![s] = TRUE]
  PROVE  SyncInv'
  <1>0. SyncTypeOK /\ SyncerInv(s)
    BY DEF SyncInv
  <1>1. /\ cloud \in [Resources -> Versions] /\ row \in [Resources -> Versions]
        /\ items \in [Syncers -> [Resources -> Versions]]
        /\ todo \in [Syncers -> SUBSET Sources] /\ failed \in [Syncers -> BOOLEAN]
        /\ stale \in [Syncers -> SUBSET Resources]
        /\ pc[s] = "fetch"
    BY <1>0, SyncTypesApart DEF Called
  <1>2. /\ Answer(s, c, lost) \in [Resources -> Versions]
        /\ \A r \in Resources :
              Answer(s, c, lost)[r] = IF r \notin From(unit[s], c) THEN items[s][r]
                                      ELSE IF r \in lost THEN 0 ELSE cloud[r]
    BY <1>1, VersionsAreNat DEF Answer
  <1>3. /\ items' \in [Syncers -> [Resources -> Versions]]
        /\ items'[s] = Answer(s, c, lost)
        /\ \A t \in Syncers : t # s => items'[t] = items[t]
    BY <1>1, <1>2 DEF Called
  <1>4. /\ todo' \in [Syncers -> SUBSET Sources] /\ todo'[s] = todo[s] \ {c}
        /\ \A t \in Syncers : t # s => todo'[t] = todo[t]
    BY <1>1 DEF Called
  <1>5. /\ failed' \in [Syncers -> BOOLEAN]
        /\ \A t \in Syncers : t # s => failed'[t] = failed[t]
        /\ ~failed'[s] => lost = {} /\ ~failed[s]
    BY <1>1
  <1>6. SyncTypeOK'
    BY <1>0, <1>3, <1>4, <1>5 DEF SyncTypeOK
  <1>7. NotAhead'
    <2> SUFFICES ASSUME NEW r \in Resources, cloud[r] # 0, NEW t \in Syncers
                 PROVE  row[r] <= cloud[r] /\ items'[t][r] <= cloud[r]
      BY DEF NotAhead
    <2>1. row[r] <= cloud[r] /\ items[t][r] <= cloud[r] /\ cloud[r] \in Nat
      BY <1>1, VersionsAreNat DEF SyncInv, NotAhead
    <2>2. CASE t = s
      BY <1>2, <1>3, <2>1, <2>2
    <2>3. CASE t # s
      BY <1>3, <2>1, <2>3
    <2> QED BY <2>2, <2>3
  <1>8. SyncerInv(s)'
    <2>0. Reported(unit[s])' = Reported(unit[s])
      BY DEF Reported, AccountAt, TableAt
    <2>1. InWork(s)' /\ AllCalled(s)'
      BY <1>0, <1>1 DEF SyncerInv, InWork, AllCalled
    <2>2. Honest(s)'
      <3> SUFFICES ASSUME ~failed'[s], NEW r \in Reported(unit[s]),
                          SourceOf[r] \notin todo'[s], items'[s][r] = 0
                   PROVE  cloud[r] = 0
        BY <2>0 DEF Honest
      <3>1. r \in Resources /\ lost = {} /\ ~failed[s]
        BY <1>5 DEF Reported
      <3>2. CASE SourceOf[r] = c
        BY <1>2, <1>3, <3>1, <3>2 DEF From
      <3>3. CASE SourceOf[r] # c
        <4>1. SourceOf[r] \notin todo[s] /\ items[s][r] = 0
          BY <1>2, <1>3, <1>4, <3>1, <3>3 DEF From
        <4> QED BY <1>0, <1>1, <3>1, <4>1 DEF SyncerInv, Honest
      <3> QED BY <3>2, <3>3
    <2>4. Recent(s)'
      <3> SUFFICES ASSUME NEW r \in Resources, items'[s][r] # 0, r \notin stale[s],
                          r \notin misread[s]
                   PROVE  row[r] <= items'[s][r]
        BY DEF Recent
      <3>1. CASE r \in From(unit[s], c)
        BY <1>2, <1>3, <3>1 DEF SyncInv, NotAhead
      <3>2. CASE r \notin From(unit[s], c)
        BY <1>0, <1>2, <1>3, <3>2 DEF SyncerInv, Recent
      <3> QED BY <3>1, <3>2
    <2> QED BY <2>1, <2>2, <2>4 DEF SyncerInv
  <1>9. ASSUME NEW t \in Syncers PROVE SyncerInv(t)'
    <2>1. CASE t # s
      BY <1>0, <1>3, <1>4, <1>5, <2>1, OthersKeep DEF SyncInv
    <2> QED BY <1>8, <2>1
  <1> QED BY <1>6, <1>7, <1>9 DEF SyncInv

LEMMA FetchKeeps ==
  ASSUME SyncInv, NEW s \in Syncers, FetchOk(s) \/ FetchFails(s)
  PROVE  SyncInv'
  <1>0. SyncTypeOK /\ faults \in 0..MaxFaults
    BY SyncTypesApart DEF SyncInv
  <1>1. CASE FetchOk(s)
    BY <1>0, <1>1, CalledKeeps DEF FetchOk, bounds
  <1>2. CASE FetchFails(s)
    BY <1>0, <1>2, CalledKeeps, FaultType DEF FetchFails
  <1> QED BY <1>1, <1>2

\* The calls are made; instances may have been misjudged.
LEMMA FetchDoneKeeps ==
  ASSUME SyncInv, NEW s \in Syncers, FetchDone(s) \/ FetchMisjudged(s)
  PROVE  SyncInv'
  <1>0. SyncTypeOK /\ SyncerInv(s)
    BY DEF SyncInv
  <1>1. /\ pc[s] = "fetch" /\ todo[s] = {}
        /\ pc' = [pc EXCEPT ![s] = IF IsComplete(s) THEN "apply" ELSE "merge"]
        /\ UNCHANGED <<cloud, row, unit, todo, failed, running, imports, stale>>
    BY DEF FetchDone, FetchMisjudged, AllCallsMade
  <1>2. /\ pc \in [Syncers -> Pcs] /\ running \in BOOLEAN
        /\ running <=> pc["api"] # "idle"
    BY <1>0 DEF SyncTypeOK, Pcs
  <1>3. /\ pc' \in [Syncers -> Pcs] /\ (running' <=> pc'["api"] # "idle")
        /\ pc'[s] \in {"apply", "merge"} /\ (pc'[s] = "apply" => ~failed[s])
        /\ \A t \in Syncers : t # s => pc'[t] = pc[t]
    BY <1>1, <1>2 DEF Pcs, Syncers, IsComplete
  <1>4. /\ items' \in [Syncers -> [Resources -> Versions]]
        /\ misread' \in [Syncers -> SUBSET Resources]
        /\ faults' \in 0..MaxFaults
        /\ \A t \in Syncers : t # s => items'[t] = items[t] /\ misread'[t] = misread[t]
        /\ \A r \in Resources :
              \/ items'[s][r] = items[s][r] /\ (r \in misread[s] => r \in misread'[s])
              \/ items'[s][r] = 1 /\ items[s][r] # 0 /\ r \in misread'[s]
    <2>1. /\ items \in [Syncers -> [Resources -> Versions]]
          /\ misread \in [Syncers -> SUBSET Resources] /\ faults \in 0..MaxFaults
      BY <1>0, SyncTypesApart
    <2>2. CASE FetchDone(s)
      BY <2>1, <2>2 DEF FetchDone
    <2>3. CASE FetchMisjudged(s)
      <3>1. faults' \in 0..MaxFaults
        BY <1>0, <2>1, <2>3, FaultType DEF FetchMisjudged, NoFault
      <3>2. PICK M \in SUBSET Found(s) :
              /\ items' = [items EXCEPT ![s] = [r \in Resources |-> IF r \in M THEN 1 ELSE @[r]]]
              /\ misread' = [misread EXCEPT ![s] = @ \cup M]
        BY <2>3 DEF FetchMisjudged
      <3>3. M \subseteq Resources /\ \A r \in M : items[s][r] # 0
        BY DEF Found
      <3>4. 1 \in Versions
        BY BoundsAssumption DEF Versions
      <3> QED BY <1>1, <2>1, <3>1, <3>2, <3>3, <3>4
    <2> QED BY <2>2, <2>3
  <1>5. SyncTypeOK'
    BY <1>0, <1>1, <1>3, <1>4 DEF SyncTypeOK, Pcs
  <1>6. NotAhead'
    <2> SUFFICES ASSUME NEW r \in Resources, cloud[r] # 0, NEW t \in Syncers
                 PROVE  row[r] <= cloud[r] /\ items'[t][r] <= cloud[r]
      BY <1>1 DEF NotAhead
    <2>1. row[r] <= cloud[r] /\ items[t][r] <= cloud[r] /\ cloud[r] \in Nat
      BY <1>0, SyncTypesApart, VersionsAreNat DEF SyncInv, NotAhead
    <2>2. items'[t][r] = items[t][r] \/ items'[t][r] = 1
      BY <1>4
    <2> QED BY <2>1, <2>2
  <1>7. ASSUME NEW t \in Syncers PROVE SyncerInv(t)'
    <2>0. SyncerInv(t)
      BY DEF SyncInv
    <2>1. CASE t = s
      <3>0. Reported(unit[s])' = Reported(unit[s])
        BY <1>1 DEF Reported, AccountAt, TableAt
      <3>1. InWork(s)' /\ AllCalled(s)'
        BY <1>0, <1>1, <1>3 DEF SyncerInv, InWork, AllCalled
      <3>2. Honest(s)'
        <4> SUFFICES ASSUME ~failed[s], NEW r \in Reported(unit[s]), items'[s][r] = 0
                     PROVE  cloud[r] = 0
          BY <1>1, <3>0 DEF Honest
        <4>1. items[s][r] = 0
          BY <1>4 DEF Reported
        <4> QED BY <1>0, <1>1, <4>1 DEF SyncerInv, Honest
      <3>3. Recent(s)'
        BY <1>0, <1>1, <1>4 DEF SyncerInv, Recent
      <3> QED BY <2>1, <3>1, <3>2, <3>3 DEF SyncerInv
    <2>2. CASE t # s
      BY <1>0, <1>1, <1>3, <1>4, <2>0, <2>2, OthersKeep
    <2> QED BY <2>1, <2>2
  <1> QED BY <1>5, <1>6, <1>7 DEF SyncInv

\* ReplaceAccount, rolled back or not.
LEMMA ReplaceKeeps ==
  ASSUME SyncInv, NEW s \in Syncers, Replace(s) \/ ReplaceFails(s)
  PROVE  SyncInv'
  <1>0. /\ SyncTypeOK /\ SyncerInv(s) /\ faults \in 0..MaxFaults
        /\ pc[s] = "apply" /\ pc[s] # "idle"
    BY SyncTypesApart DEF SyncInv, Replace, ReplaceFails
  <1>1. unit[s] \in 1..WorkLength /\ unit[s] + 1 \in 1..(WorkLength + 1)
    BY <1>0, NextUnit
  <1>2. CASE ReplaceFails(s)
    <2>1. /\ Enter(s, unit[s] + 1) /\ faults' \in 0..MaxFaults
          /\ stale' = [stale EXCEPT ![s] = {}] /\ UNCHANGED <<cloud, row, imports>>
      BY <1>0, <1>2, FaultType DEF ReplaceFails
    <2>2. \A r \in Resources : cloud[r] # 0 => row'[r] <= cloud[r]
      BY <2>1 DEF SyncInv, NotAhead
    <2> QED BY <1>0, <1>1, <2>1, <2>2, WriteAndEnter, SyncTypesApart
  <1>3. CASE Replace(s)
    <2> DEFINE W == Swapped(unit[s]) \cup Found(s)
    <2>1. /\ Enter(s, unit[s] + 1) /\ UNCHANGED <<cloud, imports, faults>>
          /\ stale' = WrittenBy(s, W)
      BY <1>3 DEF Replace, bounds
    <2>2. /\ row' \in [Resources -> Versions]
          /\ \A r \in Resources :
                row'[r] = IF items[s][r] # 0 THEN items[s][r]
                          ELSE IF r \in Swapped(unit[s]) THEN 0 ELSE row[r]
      BY <1>0, <1>3, SyncTypesApart, VersionsAreNat DEF Replace
    <2>3. W \in SUBSET Resources
      BY DEF Swapped, Found
    <2>4. \A r \in Resources : row'[r] \in {0, row[r]} \/ r \in W
      BY <2>2 DEF Found
    <2> HIDE DEF W
    <2>5. /\ stale' \in [Syncers -> SUBSET Resources]
          /\ \A t \in Syncers : t # s => /\ stale[t] \subseteq stale'[t]
                                         /\ \A r \in W : items[t][r] # 0 => r \in stale'[t]
      BY <1>0, <2>1, <2>3, WrittenByType
    <2>6. ASSUME NEW r \in Resources, cloud[r] # 0 PROVE row'[r] <= cloud[r]
      <3>1. cloud[r] \in Nat /\ row[r] <= cloud[r] /\ items[s][r] <= cloud[r]
        BY <1>0, <2>6, SyncTypesApart, VersionsAreNat DEF SyncInv, NotAhead
      <3> QED BY <2>2, <3>1
    <2> QED BY <1>0, <1>1, <2>1, <2>2, <2>4, <2>5, <2>6, WriteAndEnter
  <1> QED BY <1>2, <1>3

LEMMA MergeDoneKeeps ==
  ASSUME SyncInv, NEW s \in Syncers, MergeDone(s)
  PROVE  SyncInv'
  <1>1. /\ pc[s] # "idle" /\ pc[s] = "merge" /\ Enter(s, unit[s] + 1)
        /\ UNCHANGED <<cloud, row, imports, faults, stale>>
    BY DEF MergeDone, bounds
  <1>2. unit[s] + 1 \in 1..(WorkLength + 1)
    BY <1>1, NextUnit
  <1>3. /\ faults' \in 0..MaxFaults /\ row' \in [Resources -> Versions]
        /\ stale' \in [Syncers -> SUBSET Resources]
    BY <1>1, SyncTypesApart DEF SyncInv
  <1>4. \A r \in Resources : cloud[r] # 0 => row'[r] <= cloud[r]
    BY <1>1 DEF SyncInv, NotAhead
  <1> QED BY <1>1, <1>2, <1>3, <1>4, WriteAndEnter

\* One upsert, which may fail.
LEMMA UpsertKeeps ==
  ASSUME SyncInv, NEW s \in Syncers, UpsertItem(s)
  PROVE  SyncInv'
  <1>0. SyncTypeOK /\ SyncerInv(s) /\ pc[s] = "merge"
    BY DEF SyncInv, UpsertItem
  <1>1. PICK r \in Found(s) :
          /\ \/ NoFault /\ row' = [row EXCEPT ![r] = items[s][r]]
             \/ Fault /\ UNCHANGED row
          /\ items' = [items EXCEPT ![s][r] = 0]
          /\ stale' = WrittenBy(s, {r})
    BY DEF UpsertItem
  <1>2. UNCHANGED <<cloud, pc, unit, todo, failed, misread, running, imports>>
    BY DEF UpsertItem
  <1>3. r \in Resources /\ items[s][r] # 0
    BY <1>1 DEF Found
  <1>4. /\ faults' \in 0..MaxFaults /\ row' \in [Resources -> Versions]
        /\ \A q \in Resources : q # r => row'[q] = row[q]
        /\ row'[r] \in {row[r], items[s][r]}
    BY <1>0, <1>1, <1>3, SyncTypesApart, FaultType DEF NoFault
  <1>5. /\ items' \in [Syncers -> [Resources -> Versions]]
        /\ \A t \in Syncers : t # s => items'[t] = items[t]
        /\ \A q \in Resources : items'[s][q] = IF q = r THEN 0 ELSE items[s][q]
    BY <1>0, <1>1, <1>3, SyncTypesApart, VersionsAreNat
  <1>6. /\ stale' \in [Syncers -> SUBSET Resources]
        /\ \A t \in Syncers : t # s => /\ stale[t] \subseteq stale'[t]
                                       /\ items[t][r] # 0 => r \in stale'[t]
        /\ stale'[s] = stale[s] \ {r}
    BY <1>0, <1>1, <1>3, WrittenByType
  <1>7. SyncTypeOK'
    BY <1>0, <1>2, <1>4, <1>5, <1>6 DEF SyncTypeOK
  <1>8. NotAhead'
    <2> SUFFICES ASSUME NEW q \in Resources, cloud[q] # 0, NEW t \in Syncers
                 PROVE  row'[q] <= cloud[q] /\ items'[t][q] <= cloud[q]
      BY <1>2 DEF NotAhead
    <2>1. /\ row[q] <= cloud[q] /\ items[t][q] <= cloud[q] /\ items[s][q] <= cloud[q]
          /\ cloud[q] \in Nat
      BY <1>0, SyncTypesApart, VersionsAreNat DEF SyncInv, NotAhead
    <2>2. row'[q] <= cloud[q]
      BY <1>4, <2>1
    <2>3. items'[t][q] <= cloud[q]
      BY <1>5, <2>1
    <2> QED BY <2>2, <2>3
  <1>9. ASSUME NEW t \in Syncers PROVE SyncerInv(t)'
    <2>1. CASE t # s
      <3>1. \A q \in Resources : row'[q] \in {0, row[q]} \/ items[t][q] = 0 \/ q \in stale'[t]
        BY <1>4, <1>6, <2>1
      <3> QED BY <1>0, <1>2, <1>5, <1>6, <2>1, <3>1, OthersKeep DEF SyncInv
    <2>2. CASE t = s
      <3>1. InWork(s)' /\ AllCalled(s)' /\ Honest(s)'
        BY <1>0, <1>2 DEF SyncerInv, InWork, AllCalled, Honest
      <3>2. Recent(s)'
        BY <1>0, <1>2, <1>4, <1>5, <1>6 DEF SyncerInv, Recent
      <3> QED BY <2>2, <3>1, <3>2 DEF SyncerInv
    <2> QED BY <2>1, <2>2
  <1> QED BY <1>7, <1>8, <1>9 DEF SyncInv

LEMMA SyncStutter ==
  ASSUME SyncInv, UNCHANGED vars
  PROVE  SyncInv'
  <1>1. SyncTypeOK'
    BY DEF vars, SyncInv, SyncTypeOK
  <1>2. NotAhead'
    BY DEF vars, SyncInv, NotAhead
  <1>3. ASSUME NEW s \in Syncers PROVE SyncerInv(s)'
    BY OthersKeep DEF vars, SyncInv
  <1> QED BY <1>1, <1>2, <1>3 DEF SyncInv

LEMMA SyncInvariant == Spec => []SyncInv
  <1>1. Init => SyncInv
    BY SyncInit
  <1>2. SyncInv /\ [Next]_vars => SyncInv'
    BY CloudKeeps, ImportKeeps, StartKeeps, CrashKeeps, PruneKeeps, FetchKeeps,
       FetchDoneKeeps, ReplaceKeeps, UpsertKeeps, MergeDoneKeeps, SyncStutter
       DEF Next, Call, Work
  <1> QED BY <1>1, <1>2, PTL DEF Spec

-----------------------------------------------------------------------------

\* Rows, items and steps of both syncs stay well formed, and syncState.running
\* says exactly whether the goroutine of POST /api/sync is at work.
THEOREM SyncTypeCorrect == Spec => []SyncTypeOK
  <1>1. SyncInv => SyncTypeOK
    BY DEF SyncInv
  <1> QED BY <1>1, SyncInvariant, PTL

\* How the rows can change: by pruning, by an import, by a swap, by an upsert.
LEMMA RowChanges ==
  ASSUME SyncInv, Next, NEW r \in Resources, row'[r] # row[r]
  PROVE  \/ \E t \in Tables : r \in Pruned(t) /\ row'[r] = 0
         \/ row'[r] # 0 /\ imports' # imports
         \/ \E s \in Syncers : /\ items[s][r] # 0 /\ items'[s][r] = 0
                               /\ row'[r] = items[s][r]
         \/ \E s \in Syncers : /\ Replace(s)
                               /\ items[s][r] = 0 /\ r \in Swapped(unit[s])
                               /\ row'[r] = 0
  <1>0. SyncTypeOK /\ row \in [Resources -> Versions]
    BY SyncTypesApart DEF SyncInv
  <1>1. ASSUME NEW q \in Resources, ImportRow(q) PROVE row'[r] # 0 /\ imports' # imports
    <2>1. imports \in Nat /\ imports' = imports + 1
      BY <1>0, <1>1, BoundsAssumption DEF ImportRow, SyncTypeOK
    <2> QED BY <1>0, <1>1, <2>1 DEF ImportRow
  <1>2. ASSUME NEW s \in Syncers, PruneReservations(s)
        PROVE  r \in Pruned("reservations") /\ row'[r] = 0
    BY <1>2 DEF PruneReservations
  <1>3. ASSUME NEW s \in Syncers, PruneCoverage(s)
        PROVE  r \in Pruned("gpu_coverage") /\ row'[r] = 0
    BY <1>3 DEF PruneCoverage
  <1>4. ASSUME NEW s \in Syncers, Replace(s)
        PROVE  \/ items[s][r] # 0 /\ items'[s][r] = 0 /\ row'[r] = items[s][r]
               \/ items[s][r] = 0 /\ r \in Swapped(unit[s]) /\ row'[r] = 0
    <2>1. items'[s][r] = 0
      BY <1>0, <1>4, SyncTypesApart DEF Replace, Enter, Nothing
    <2> QED BY <1>4, <2>1 DEF Replace
  <1>5. ASSUME NEW s \in Syncers, UpsertItem(s)
        PROVE  items[s][r] # 0 /\ items'[s][r] = 0 /\ row'[r] = items[s][r]
    <2>1. items \in [Syncers -> [Resources -> Versions]]
      BY <1>0, SyncTypesApart
    <2>2. PICK q \in Found(s) : /\ row' \in {row, [row EXCEPT ![q] = items[s][q]]}
                               /\ items' = [items EXCEPT ![s][q] = 0]
      BY <1>5 DEF UpsertItem
    <2>3. q = r
      BY <1>0, <2>2
    <2> QED BY <1>0, <2>1, <2>2, <2>3 DEF Found
  <1>6. CASE UNCHANGED row
    BY <1>6
  <1> QED BY <1>1, <1>2, <1>3, <1>4, <1>5, <1>6
          DEF Next, Call, Work, CloudChange, StartApiSync, StartCronSync, Crash, PruneFails,
              FetchOk, FetchFails, FetchDone, FetchMisjudged, AllCallsMade, ReplaceFails, MergeDone, Tables

\* No failed call, rolled back transaction, restart, prune or concurrent sync
\* loses a row of a configured account whose resource still exists and is
\* reported by every configured account with that id, however many there are.
THEOREM RowsDropOnlyWhenGoneThm == Spec => RowsDropOnlyWhenGone
  <1> DEFINE Drops(r) == row[r] # 0 /\ row'[r] = 0 /\ IdOf[r] \in KeepIDs /\ Watched(r)
  <1>1. ASSUME SyncInv, Next, NEW r \in Resources, Drops(r) PROVE cloud[r] = 0
    <2>1. row'[r] # row[r] /\ row'[r] = 0 /\ \A t : r \notin Pruned(t)
      BY <1>1 DEF Pruned
    <2>2. PICK s \in Syncers : /\ pc[s] = "apply"
                               /\ items[s][r] = 0 /\ r \in Swapped(unit[s])
      BY <1>1, <2>1, RowChanges DEF Replace
    <2>3. SyncerInv(s) /\ unit[s] \in 1..WorkLength
      BY <1>1, <2>2, NextUnit DEF SyncInv
    <2>4. r \in Reported(unit[s])
      BY <1>1, <2>2, <2>3 DEF Watched
    <2> QED BY <2>2, <2>3, <2>4 DEF SyncerInv, Honest, AllCalled
  <1>2. SyncInv /\ [Next]_vars => [\A r \in Resources : Drops(r) => cloud[r] = 0]_vars
    BY <1>1
  <1> QED BY <1>2, SyncInvariant, PTL DEF Spec, RowsDropOnlyWhenGone

\* Only an import, a syncer that writes what it read before another's last
\* write, or one that misjudged an instance, takes a row back to an older state.
THEOREM RegressOnlyByOverlapThm == Spec => RegressOnlyByOverlap
  <1> DEFINE Regresses(r) == row'[r] # 0 /\ row'[r] < row[r]
             Excused(r) == \/ imports' # imports
                           \/ \E s \in Syncers :
                                 /\ items[s][r] = row'[r] /\ items'[s][r] = 0
                                 /\ r \in stale[s] \cup misread[s]
  <1>1. ASSUME SyncInv, Next, NEW r \in Resources, Regresses(r) PROVE Excused(r)
    <2>1. row[r] \in Nat
      BY <1>1, SyncTypesApart, VersionsAreNat DEF SyncInv
    <2>2. CASE imports' # imports
      BY <2>2
    <2>3. CASE \E s \in Syncers : items[s][r] # 0 /\ items'[s][r] = 0 /\ row'[r] = items[s][r]
      <3>1. PICK s \in Syncers : items[s][r] # 0 /\ items'[s][r] = 0 /\ row'[r] = items[s][r]
        BY <2>3
      <3>2. items[s][r] \in Nat
        BY <1>1, SyncTypesApart, VersionsAreNat DEF SyncInv
      <3>3. ~(row[r] <= items[s][r])
        BY <1>1, <2>1, <3>1, <3>2
      <3>4. r \in stale[s] \cup misread[s]
        BY <1>1, <3>1, <3>3 DEF SyncInv, SyncerInv, Recent
      <3> QED BY <3>1, <3>4
    <2>4. row'[r] # row[r]
      BY <1>1, <2>1
    <2> QED BY <1>1, <2>2, <2>3, <2>4, RowChanges
  <1>2. SyncInv /\ [Next]_vars => [\A r \in Resources : Regresses(r) => Excused(r)]_vars
    BY <1>1
  <1> QED BY <1>2, SyncInvariant, PTL DEF Spec, RegressOnlyByOverlap
=============================================================================
