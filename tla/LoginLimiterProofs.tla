------------------------- MODULE LoginLimiterProofs -------------------------
(***************************************************************************)
(* Proofs about LoginLimiter for every set of keys, every limit and every  *)
(* window.                                                                 *)
(***************************************************************************)
EXTENDS LimiterWindow, FiniteSetTheorems, TLAPS

\* A record stored by Reserve or Succeed is well formed.
LEMMA StoreType ==
    ASSUME LimiterTypeOK, NEW k \in LimiterKeys, NEW E, NEW rec \in Records,
           Store(k, E, rec)
    PROVE  attempts' \in [LimiterKeys -> Records]
<1>1. NoRecord \in Records
  BY AttemptsAssumption DEF NoRecord, Records
<1>2. QED
  BY <1>1 DEF Store, LimiterTypeOK

\* The count never exceeds the maximum.
LEMMA CountedType ==
    ASSUME LimiterTypeOK, NEW k \in LimiterKeys
    PROVE  Counted(k) \in 0..MaxAttempts
<1>1. attempts[k] \in Records
  BY DEF LimiterTypeOK
<1>2. attempts[k].count \in 0..MaxAttempts
  BY <1>1 DEF Records
<1>3. QED
  BY <1>2, AttemptsAssumption DEF Counted

\* Reserve, Succeed and the clock keep the types.
LEMMA LimiterTypeStep ==
    ASSUME LimiterTypeOK, [LimiterNext]_limiterVars
    PROVE  LimiterTypeOK'
<1>1. CASE clock' = clock + 1 /\ UNCHANGED attempts
  BY <1>1 DEF LimiterTypeOK
<1>2. ASSUME NEW k \in LimiterKeys, NEW E \in Evictions, UNCHANGED clock,
             Allow(k, E)
      PROVE  LimiterTypeOK'
  <2> DEFINE n == IF k \in Kept(E) THEN Counted(k) + 1 ELSE 1
  <2>1. n \in 0..MaxAttempts
    BY <1>2, CountedType, AttemptsAssumption DEF Allow
  <2>2. clock \in Nat
    BY DEF LimiterTypeOK
  <2>3. Store(k, E, [count |-> n, lockedUntil |-> 0, lastSeen |-> clock])
    BY <1>2 DEF Allow
  <2> HIDE DEF n
  <2>4. [count |-> n, lockedUntil |-> 0, lastSeen |-> clock] \in Records
    BY <2>1, <2>2 DEF Records
  <2>5. QED
    BY <1>2, <2>3, <2>4, StoreType DEF LimiterTypeOK
<1>3. ASSUME NEW k \in LimiterKeys, NEW E \in Evictions, UNCHANGED clock,
             LockOut(k, E)
      PROVE  LimiterTypeOK'
  <2>1. clock \in Nat /\ clock + Window \in Nat /\ 0 \in 0..MaxAttempts
    BY WindowAssumption, AttemptsAssumption DEF LimiterTypeOK
  <2>2. [count |-> 0, lockedUntil |-> clock + Window, lastSeen |-> clock] \in Records
    BY <2>1 DEF Records
  <2>3. QED
    BY <1>3, <2>2, StoreType DEF LockOut, LimiterTypeOK
<1>4. ASSUME NEW k \in LimiterKeys, NEW E \in Evictions, UNCHANGED clock,
             Refuse(k, E)
      PROVE  LimiterTypeOK'
  BY <1>4, StoreType DEF Refuse, LimiterTypeOK
<1>5. ASSUME NEW k \in LimiterKeys, UNCHANGED clock, Succeed(k)
      PROVE  LimiterTypeOK'
  <2>1. NoRecord \in Records
    BY AttemptsAssumption DEF NoRecord, Records
  <2>2. QED
    BY <1>5, <2>1 DEF Succeed, LimiterTypeOK
<1>6. CASE UNCHANGED limiterVars
  BY <1>6 DEF limiterVars, LimiterTypeOK
<1>7. QED
  BY <1>1, <1>2, <1>3, <1>4, <1>5, <1>6
     DEF LimiterNext, ReserveAllowed, ReserveLocks, ReserveRefused

\* Counters stay within the maximum and every record is well formed.
THEOREM LimiterTypeCorrect == LimiterSpec => []LimiterTypeOK
<1>1. LimiterInit => LimiterTypeOK
  <2>1. NoRecord \in Records
    BY AttemptsAssumption DEF NoRecord, Records
  <2>2. QED
    BY <2>1 DEF LimiterInit, LimiterTypeOK
<1>2. LimiterTypeOK /\ [LimiterNext]_limiterVars => LimiterTypeOK'
  BY LimiterTypeStep
<1>3. QED
  BY <1>1, <1>2, PTL DEF LimiterSpec

-----------------------------------------------------------------------------
(* The size of the map.                                                    *)

\* After its pruning, Reserve always finds room for one more record.
LEMMA RoomAfterPruning ==
    ASSUME LimiterTypeOK, BoundedMap, NEW E \in Evictions
    PROVE  /\ IsFiniteSet(Kept(E))
           /\ Cardinality(Kept(E)) <= MaxKeys - 1
<1>1. Fresh \in SUBSET Entries
  BY DEF Fresh
<1>2. /\ IsFiniteSet(Fresh) /\ IsFiniteSet(Entries)
      /\ Cardinality(Fresh) \in Nat /\ Cardinality(Entries) \in Nat
      /\ Cardinality(Fresh) <= Cardinality(Entries)
      /\ Cardinality(Fresh) = Cardinality(Entries) => Fresh = Entries
  BY <1>1, FS_Subset, FS_CardinalityType DEF BoundedMap
<1>3. Kept(E) \in SUBSET Fresh
  BY DEF Kept
<1>4. /\ IsFiniteSet(Kept(E)) /\ Cardinality(Kept(E)) \in Nat
      /\ Cardinality(Kept(E)) <= Cardinality(Fresh)
  BY <1>2, <1>3, FS_Subset, FS_CardinalityType
<1>5. Cardinality(Entries) <= MaxKeys /\ MaxKeys \in Nat
  BY MaxKeysAssumption DEF BoundedMap
<1>6. CASE Cardinality(Fresh) <= MaxKeys - 1
  BY <1>2, <1>4, <1>5, <1>6
<1>7. CASE Cardinality(Fresh) = MaxKeys
  <2>1. Fresh = Entries /\ Cardinality(Entries) = MaxKeys
    BY <1>2, <1>5, <1>7
  <2>2. Candidates # {}
    BY <2>1 DEF BoundedMap, Candidates, Unlocked
  <2>3. Candidates \in SUBSET Fresh
    BY DEF Candidates, Unlocked
  <2>4. IsFiniteSet(Candidates) /\ Cardinality(Candidates) \in Nat
    BY <1>2, <2>3, FS_Subset, FS_CardinalityType
  <2>5. Cardinality(Candidates) >= 1
    BY <2>2, <2>4, FS_EmptySet
  <2>6. Excess = 1
    BY <1>5, <1>7, <2>4, <2>5 DEF Excess
  <2>7. E \in SUBSET Fresh /\ Cardinality(E) = 1
    BY <2>3, <2>6 DEF Evictions
  <2>8. PICK x : E = {x}
    BY <1>2, <2>7, FS_Subset, FS_Singleton
  <2>9. Cardinality(Fresh \ {x}) = Cardinality(Fresh) - 1
    BY <1>2, <2>7, <2>8, FS_RemoveElement
  <2>10. QED
    BY <1>4, <1>7, <2>8, <2>9 DEF Kept
<1>8. QED
  BY <1>2, <1>4, <1>5, <1>6, <1>7

\* A stored record adds at most its own key to what was kept.
LEMMA StoreEntries ==
    ASSUME NEW k \in LimiterKeys, NEW E, NEW rec, Store(k, E, rec)
    PROVE  /\ Entries' \in SUBSET (Kept(E) \cup {k})
           /\ rec # NoRecord => k \in Entries'
           /\ attempts'[k] = rec
BY DEF Store, Entries, NoRecord

\* Reserve, Succeed and the clock keep the map bounded and, when it is full,
\* a record in it that can be evicted.
LEMMA BoundedStep ==
    ASSUME LimiterTypeOK, BoundedMap, [LimiterNext]_limiterVars
    PROVE  BoundedMap'
<1>1. CASE clock' = clock + 1 /\ UNCHANGED attempts
  <2>1. Entries' = Entries
    BY <1>1 DEF Entries
  <2>2. \A k \in Entries : ~Locked(k) => ~Locked(k)'
    <3>1. \A k \in LimiterKeys : attempts[k].lockedUntil \in Nat
      BY DEF LimiterTypeOK, Records
    <3>2. clock \in Nat
      BY DEF LimiterTypeOK
    <3>3. QED
      BY <1>1, <3>1, <3>2 DEF Locked, Entries
  <2>3. QED
    BY <2>1, <2>2 DEF BoundedMap
<1>2. ASSUME NEW k \in LimiterKeys, NEW E \in Evictions, UNCHANGED clock,
             Allow(k, E)
      PROVE  BoundedMap'
  <2> DEFINE rec == [count       |-> IF k \in Kept(E) THEN Counted(k) + 1 ELSE 1,
                     lockedUntil |-> 0,
                     lastSeen    |-> clock]
  <2>1. Store(k, E, rec)
    BY <1>2 DEF Allow
  <2>2. rec.lastSeen = clock /\ rec.lockedUntil = 0 /\ NoRecord.lastSeen = 0
    BY DEF NoRecord
  <2>3. clock \in Nat /\ clock # 0
    BY DEF LimiterTypeOK
  <2> HIDE DEF rec
  <2>4. rec # NoRecord
    BY <2>2, <2>3
  <2>5. Entries' \in SUBSET (Kept(E) \cup {k}) /\ k \in Entries' /\ attempts'[k] = rec
    BY <2>1, <2>4, StoreEntries
  <2>6. ~Locked(k)'
    BY <1>2, <2>2, <2>3, <2>5 DEF Locked
  <2>7. IsFiniteSet(Kept(E)) /\ Cardinality(Kept(E)) <= MaxKeys - 1
        /\ Cardinality(Kept(E)) \in Nat
    BY RoomAfterPruning, FS_CardinalityType
  <2>8. IsFiniteSet(Kept(E) \cup {k}) /\ Cardinality(Kept(E) \cup {k}) <= MaxKeys
        /\ Cardinality(Kept(E) \cup {k}) \in Nat
    <3>1. /\ IsFiniteSet(Kept(E) \cup {k})
          /\ \/ Cardinality(Kept(E) \cup {k}) = Cardinality(Kept(E))
             \/ Cardinality(Kept(E) \cup {k}) = Cardinality(Kept(E)) + 1
      BY <2>7, FS_AddElement
    <3>2. QED
      BY <2>7, <3>1, MaxKeysAssumption
  <2>9. IsFiniteSet(Entries') /\ Cardinality(Entries') <= Cardinality(Kept(E) \cup {k})
        /\ Cardinality(Entries') \in Nat
    BY <2>5, <2>8, FS_Subset, FS_CardinalityType
  <2>10. Cardinality(Entries') <= MaxKeys
    BY <2>8, <2>9, MaxKeysAssumption
  <2>11. QED
    BY <2>5, <2>6, <2>9, <2>10 DEF BoundedMap
<1>3. ASSUME NEW k \in LimiterKeys, NEW E \in Evictions, NEW rec,
             k \in Kept(E), Store(k, E, rec)
      PROVE  BoundedMap'
  <2>1. Entries' \in SUBSET Kept(E)
    BY <1>3, StoreEntries
  <2>2. IsFiniteSet(Kept(E)) /\ Cardinality(Kept(E)) <= MaxKeys - 1
        /\ Cardinality(Kept(E)) \in Nat
    BY RoomAfterPruning, FS_CardinalityType
  <2>3. IsFiniteSet(Entries') /\ Cardinality(Entries') <= Cardinality(Kept(E))
        /\ Cardinality(Entries') \in Nat
    BY <2>1, <2>2, FS_Subset, FS_CardinalityType
  <2>4. Cardinality(Entries') < MaxKeys
    BY <2>2, <2>3, MaxKeysAssumption
  <2>5. QED
    BY <2>3, <2>4, MaxKeysAssumption DEF BoundedMap
<1>4. ASSUME NEW k \in LimiterKeys, UNCHANGED clock, Succeed(k)
      PROVE  BoundedMap'
  <2>1. Entries' \in SUBSET Entries
    BY <1>4 DEF Succeed, Entries, LimiterTypeOK
  <2>2. /\ IsFiniteSet(Entries') /\ Cardinality(Entries') <= Cardinality(Entries)
        /\ Cardinality(Entries') \in Nat /\ Cardinality(Entries) \in Nat
        /\ Cardinality(Entries) = Cardinality(Entries') => Entries = Entries'
    BY <2>1, FS_Subset, FS_CardinalityType DEF BoundedMap
  <2>3. Cardinality(Entries') <= MaxKeys
    BY <2>2, MaxKeysAssumption DEF BoundedMap
  <2>4. ASSUME Cardinality(Entries') = MaxKeys
        PROVE  \E j \in Entries' : ~Locked(j)'
    <3>1. Entries = Entries' /\ Cardinality(Entries) = MaxKeys
      BY <2>2, <2>4, MaxKeysAssumption DEF BoundedMap
    <3>2. PICK j \in Entries : ~Locked(j)
      BY <3>1 DEF BoundedMap
    <3>3. j # k /\ attempts'[j] = attempts[j]
      BY <1>4, <3>1 DEF Succeed, Entries, LimiterTypeOK
    <3>4. QED
      BY <1>4, <3>1, <3>2, <3>3 DEF Locked
  <2>5. QED
    BY <2>2, <2>3, <2>4 DEF BoundedMap
<1>5. CASE UNCHANGED limiterVars
  BY <1>5 DEF limiterVars, BoundedMap, Entries, Locked
<1>6. QED
  BY <1>1, <1>2, <1>3, <1>4, <1>5
     DEF LimiterNext, ReserveAllowed, ReserveLocks, ReserveRefused, LockOut,
         Refuse

\* The limiter's memory is bounded by maxLimiterKeys, whatever keys arrive.
THEOREM BoundedMapThm == LimiterSpec => []BoundedMap
<1>1. LimiterInit => BoundedMap
  <2>1. LimiterInit => Entries = {}
    BY DEF LimiterInit, Entries
  <2>2. QED
    BY <2>1, FS_EmptySet, MaxKeysAssumption DEF BoundedMap
<1>2. LimiterTypeOK /\ BoundedMap /\ [LimiterNext]_limiterVars => BoundedMap'
  BY BoundedStep
<1>3. QED
  BY <1>1, <1>2, LimiterTypeCorrect, PTL DEF LimiterSpec

-----------------------------------------------------------------------------
(* Lockouts.                                                               *)

\* A locked key survives every pruning.
LEMMA LockedIsKept ==
    ASSUME LimiterTypeOK, NEW k \in LimiterKeys, Locked(k), NEW E \in Evictions
    PROVE  k \in Kept(E)
<1>1. attempts[k] # NoRecord
  BY DEF Locked, NoRecord, LimiterTypeOK
<1>2. k \in Fresh /\ k \notin Candidates
  BY <1>1 DEF Fresh, Entries, Candidates, Unlocked
<1>3. QED
  BY <1>2 DEF Kept, Evictions

\* A lockout is neither shortened nor extended by other keys' traffic, by
\* pruning or by further attempts; only Succeed releases it.
THEOREM LockStandsThm == LimiterSpec => LockStands
<1> DEFINE Stands(k) == Locked(k) =>
                           \/ attempts'[k].lockedUntil = attempts[k].lockedUntil
                           \/ Succeed(k)
<1>1. ASSUME LimiterTypeOK, [LimiterNext]_limiterVars, NEW k \in LimiterKeys,
             Locked(k)
      PROVE  Stands(k)
  <2>1. ASSUME NEW j \in LimiterKeys, NEW E \in Evictions, NEW rec,
               Store(j, E, rec), j # k
        PROVE  attempts'[k] = attempts[k]
    BY <1>1, <2>1, LockedIsKept DEF Store
  <2>2. ASSUME NEW j \in LimiterKeys, NEW E \in Evictions, Allow(j, E)
        PROVE  Stands(k)
    <3>1. j # k
      BY <1>1, <2>2, LockedIsKept DEF Allow
    <3>2. QED
      BY <2>1, <2>2, <3>1 DEF Allow
  <2>3. ASSUME NEW j \in LimiterKeys, NEW E \in Evictions, LockOut(j, E)
        PROVE  Stands(k)
    <3>1. j # k
      BY <1>1, <2>3 DEF LockOut
    <3>2. QED
      BY <2>1, <2>3, <3>1 DEF LockOut
  <2>4. ASSUME NEW j \in LimiterKeys, NEW E \in Evictions, Refuse(j, E)
        PROVE  Stands(k)
    BY <2>1, <2>4 DEF Refuse, Store
  <2>5. ASSUME NEW j \in LimiterKeys, Succeed(j)
        PROVE  Stands(k)
    <3>1. CASE j = k
      BY <2>5, <3>1
    <3>2. CASE j # k
      <4>1. attempts'[k] = attempts[k]
        BY <1>1, <2>5, <3>2 DEF Succeed, LimiterTypeOK
      <4>2. QED
        BY <4>1
    <3>3. QED
      BY <3>1, <3>2
  <2>6. CASE UNCHANGED attempts
    BY <2>6
  <2>7. QED
    BY <1>1, <2>2, <2>3, <2>4, <2>5, <2>6
       DEF LimiterNext, ReserveAllowed, ReserveLocks, ReserveRefused,
           limiterVars
<1>2. LimiterTypeOK /\ [LimiterNext]_limiterVars
        => [\A k \in LimiterKeys : Stands(k)]_limiterVars
  BY <1>1
<1>3. QED
  BY <1>2, LimiterTypeCorrect, PTL DEF LimiterSpec, LockStands

-----------------------------------------------------------------------------
(* The attempts of a window.                                               *)

Grants == [time : Nat, number : Nat]

\* What the record of a key knows of the attempts it was allowed: none is later
\* than lastSeen, and while the key is not locked count covers them all; those
\* before a lockout have left the window when the lockout ends.
Covered(k) ==
    /\ attempts[k].lastSeen <= clock
    /\ IsFiniteSet(granted[k])
    /\ \A g \in granted[k] : /\ g.time > clock - Window
                             /\ g.time <= attempts[k].lastSeen
    /\ attempts[k].lockedUntil = 0 => Cardinality(granted[k]) <= attempts[k].count
    /\ attempts[k].lockedUntil # 0 =>
          /\ Cardinality(granted[k]) <= MaxAttempts
          /\ \A g \in granted[k] : g.time + Window <= attempts[k].lockedUntil

\* The inductive invariant.
WindowInv ==
    /\ LimiterTypeOK
    /\ granted \in [LimiterKeys -> SUBSET Grants]
    /\ \A k \in LimiterKeys : Covered(k)

\* The window only watches the limiter: each of its steps is one of the limiter.
LEMMA WindowSteps ==
    [WindowNext]_windowVars => [LimiterNext]_limiterVars
BY DEF WindowNext, windowVars, Tick, Allowed, Denied, Succeeded, LimiterNext, limiterVars,
       ReserveAllowed, ReserveLocks, ReserveRefused

\* Every behaviour of the limiter with its history is one of the limiter.
THEOREM WindowImplementsLimiter == WindowSpec => LimiterSpec
<1>1. WindowInit => LimiterInit
  BY DEF WindowInit
<1> QED
  BY <1>1, WindowSteps, PTL DEF WindowSpec, LimiterSpec

\* The types of a key's record and of the attempts it was allowed.
LEMMA KeyTypes ==
    ASSUME WindowInv, NEW k \in LimiterKeys
    PROVE  /\ clock \in Nat /\ clock # 0
           /\ attempts[k].count \in 0..MaxAttempts /\ attempts[k].count \in Nat
           /\ attempts[k].lockedUntil \in Nat /\ attempts[k].lastSeen \in Nat
           /\ \A g \in granted[k] : g \in Grants /\ g.time \in Nat
           /\ IsFiniteSet(granted[k]) /\ Cardinality(granted[k]) \in Nat
<1>1. attempts[k] \in Records /\ clock \in Nat /\ clock # 0
  BY DEF WindowInv, LimiterTypeOK
<1>2. IsFiniteSet(granted[k]) /\ granted[k] \in SUBSET Grants
  BY DEF WindowInv, Covered
<1>3. Cardinality(granted[k]) \in Nat
  BY <1>2, FS_CardinalityType
<1>4. \A g \in granted[k] : g \in Grants /\ g.time \in Nat
  BY <1>2 DEF Grants
<1> QED
  BY <1>1, <1>2, <1>3, <1>4, AttemptsAssumption DEF Records

\* A record that pruning drops, as stale or to make room, takes no attempt of
\* the window with it that Forget leaves.
LEMMA DroppedIsEmpty ==
    ASSUME WindowInv, NEW E \in Evictions, NEW k \in LimiterKeys, k \notin Kept(E)
    PROVE  Forget(E)[k] = {}
<1>1. CASE k \in E
  BY <1>1 DEF Forget
<1>2. CASE k \notin E
  <2>1. k \notin Fresh /\ Forget(E)[k] = granted[k]
    BY <1>2 DEF Kept, Forget
  <2>2. CASE attempts[k] = NoRecord
    <3>1. Cardinality(granted[k]) <= 0
      BY <2>2 DEF WindowInv, Covered, NoRecord
    <3> QED
      BY <2>1, <3>1, KeyTypes, FS_EmptySet
  <2>3. CASE attempts[k] # NoRecord
    <3>1. ~(attempts[k].lastSeen >= clock - Window)
      BY <2>1, <2>3 DEF Fresh, Entries
    <3>2. \A g \in granted[k] : FALSE
      BY <3>1, KeyTypes, WindowAssumption DEF WindowInv, Covered
    <3> QED
      BY <2>1, <3>2
  <2> QED
    BY <2>2, <2>3
<1> QED
  BY <1>1, <1>2

\* Forget takes nothing from a key that is kept.
LEMMA KeptIsRemembered ==
    ASSUME NEW E, NEW k \in LimiterKeys, k \in Kept(E)
    PROVE  Forget(E)[k] = granted[k]
BY DEF Kept, Forget

\* A key without a record and without attempts.
LEMMA CoveredNothing ==
    ASSUME NEW k \in LimiterKeys, attempts'[k] = NoRecord, granted'[k] = {},
           clock \in Nat, clock' = clock
    PROVE  Covered(k)'
<1>1. Cardinality({}) = 0 /\ IsFiniteSet({})
  BY FS_EmptySet
<1> QED
  BY <1>1 DEF Covered, NoRecord

\* Reserve of key k: the others keep what they have, or lose record and attempts.
LEMMA OthersCovered ==
    ASSUME WindowInv, NEW E \in Evictions, NEW k \in LimiterKeys, NEW rec, Store(k, E, rec),
           clock' = clock, NEW j \in LimiterKeys, j # k, granted'[j] = Forget(E)[j]
    PROVE  Covered(j)'
<1>1. CASE j \in Kept(E)
  <2>1. attempts'[j] = attempts[j] /\ granted'[j] = granted[j]
    BY <1>1, KeptIsRemembered DEF Store
  <2> QED
    BY <2>1 DEF WindowInv, Covered
<1>2. CASE j \notin Kept(E)
  <2>1. attempts'[j] = NoRecord /\ granted'[j] = {}
    BY <1>2, DroppedIsEmpty DEF Store
  <2> QED
    BY <2>1, CoveredNothing, KeyTypes
<1> QED
  BY <1>1, <1>2

\* One more attempt is at most one more element.
LEMMA OneMoreGrant ==
    ASSUME NEW G, IsFiniteSet(G), NEW g
    PROVE  /\ IsFiniteSet(G \cup {g})
           /\ Cardinality(G \cup {g}) \in Nat
           /\ Cardinality(G \cup {g}) <= Cardinality(G) + 1
<1>1. IsFiniteSet(G \cup {g}) /\ Cardinality(G) \in Nat
  BY FS_AddElement, FS_CardinalityType
<1>2. Cardinality(G \cup {g}) = IF g \in G THEN Cardinality(G) ELSE Cardinality(G) + 1
  BY FS_AddElement
<1> QED
  BY <1>1, <1>2

\* Reserve leaves the attempts that Forget leaves, and perhaps one more of now.
LEMMA ForgetType ==
    ASSUME WindowInv, NEW E
    PROVE  Forget(E) \in [LimiterKeys -> SUBSET Grants]
BY DEF WindowInv, Forget

\* An attempt is allowed: the count goes up with the attempts, or starts again
\* with none left in the window.
LEMMA AllowedKeeps ==
    ASSUME WindowInv, NEW k \in LimiterKeys, NEW E \in Evictions, Allow(k, E),
           granted' = [Forget(E) EXCEPT ![k] = @ \cup {Grant(@)}], clock' = clock
    PROVE  WindowInv'
<1> DEFINE G == Forget(E)[k]
           n == IF k \in Kept(E) THEN Counted(k) + 1 ELSE 1
           rec == [count |-> n, lockedUntil |-> 0, lastSeen |-> clock]
<1>1. Store(k, E, rec)
  BY DEF Allow
<1>2. rec.count = n /\ rec.lockedUntil = 0 /\ rec.lastSeen = clock
  OBVIOUS
<1>3. attempts'[k] = rec
  BY <1>1 DEF Store
<1>4. granted'[k] = G \cup {Grant(G)} /\ \A j \in LimiterKeys : j # k => granted'[j] = Forget(E)[j]
  BY ForgetType
<1>5. clock \in Nat /\ G \in SUBSET Grants
  BY KeyTypes, ForgetType
<1>6. /\ IsFiniteSet(G) /\ Cardinality(G) \in Nat /\ Cardinality(G) + 1 <= n
      /\ \A g \in G : g.time > clock - Window /\ g.time <= clock
  <2>1. CASE k \notin Kept(E)
    <3>1. G = {} /\ n = 1
      BY <2>1, DroppedIsEmpty
    <3>2. IsFiniteSet(G) /\ Cardinality(G) = 0
      BY <3>1, FS_EmptySet
    <3> HIDE DEF G, n
    <3> QED
      BY <3>1, <3>2
  <2>2. CASE k \in Kept(E)
    <3>1. G = granted[k] /\ ~Locked(k) /\ n = Counted(k) + 1
      BY <2>2, KeptIsRemembered DEF Allow
    <3>2. IsFiniteSet(G) /\ Cardinality(G) \in Nat
      BY <3>1, KeyTypes
    <3>3. \A g \in G : g.time > clock - Window /\ g.time <= clock
      BY <3>1, KeyTypes DEF WindowInv, Covered
    <3>4. Cardinality(G) <= Counted(k)
      <4>1. CASE attempts[k].lockedUntil = 0
        BY <3>1, <4>1 DEF WindowInv, Covered, Counted
      <4>2. CASE attempts[k].lockedUntil # 0
        <5>1. \A g \in G : FALSE
          BY <3>1, <4>2, KeyTypes, WindowAssumption DEF WindowInv, Covered, Locked
        <5>2. G = {} /\ Counted(k) = 0
          BY <4>2, <5>1 DEF Counted
        <5> QED
          BY <5>2, FS_EmptySet
      <4> QED
        BY <4>1, <4>2
    <3>5. Counted(k) \in Nat
      BY CountedType, AttemptsAssumption DEF WindowInv
    <3> QED
      BY <3>1, <3>2, <3>3, <3>4, <3>5
  <2> QED
    BY <2>1, <2>2
<1>7. n \in Nat
  BY CountedType, AttemptsAssumption DEF WindowInv
<1>8. Grant(G) \in Grants /\ Grant(G).time = clock
  BY <1>5, <1>6 DEF Grant, Grants
<1> HIDE DEF G, n, rec
<1>9. Covered(k)'
  <2>1. IsFiniteSet(granted'[k]) /\ Cardinality(granted'[k]) \in Nat
        /\ Cardinality(granted'[k]) <= Cardinality(G) + 1
    <3>1. /\ IsFiniteSet(G \cup {Grant(G)}) /\ Cardinality(G \cup {Grant(G)}) \in Nat
          /\ Cardinality(G \cup {Grant(G)}) <= Cardinality(G) + 1
      <4> DEFINE g == Grant(G)
      <4> HIDE DEF g
      <4>1. /\ IsFiniteSet(G \cup {g}) /\ Cardinality(G \cup {g}) \in Nat
            /\ Cardinality(G \cup {g}) <= Cardinality(G) + 1
        BY <1>6, OneMoreGrant
      <4> QED
        BY <4>1 DEF g
    <3> QED
      BY <1>4, <3>1
  <2>2. Cardinality(granted'[k]) <= n
    BY <1>6, <1>7, <2>1
  <2>3. \A g \in granted'[k] : g.time > clock - Window /\ g.time <= clock
    BY <1>4, <1>5, <1>6, <1>8, WindowAssumption
  <2> QED
    BY <1>2, <1>3, <1>5, <2>1, <2>2, <2>3 DEF Covered
<1>10. \A j \in LimiterKeys : j # k => Covered(j)'
  BY <1>1, <1>4, OthersCovered
<1>11. granted' \in [LimiterKeys -> SUBSET Grants]
  <2>1. G \cup {Grant(G)} \in SUBSET Grants
    BY <1>5, <1>8
  <2>2. granted' = [Forget(E) EXCEPT ![k] = G \cup {Grant(G)}]
    BY DEF G
  <2> QED
    BY <2>1, <2>2, ForgetType
<1>12. LimiterTypeOK'
  BY LimiterTypeStep DEF WindowInv, LimiterNext, ReserveAllowed
<1> QED
  BY <1>9, <1>10, <1>11, <1>12 DEF WindowInv

\* An attempt is refused: a key that is locked now was allowed no more than count
\* says, and none of it is later than now.
LEMMA DeniedKeeps ==
    ASSUME WindowInv, NEW k \in LimiterKeys, NEW E \in Evictions,
           LockOut(k, E) \/ Refuse(k, E), granted' = Forget(E), clock' = clock
    PROVE  WindowInv'
<1>1. k \in Kept(E) /\ granted'[k] = granted[k]
  BY KeptIsRemembered DEF LockOut, Refuse
<1>2. Covered(k)'
  <2>1. CASE Refuse(k, E)
    <3>1. attempts'[k] = attempts[k]
      BY <2>1 DEF Refuse, Store
    <3> QED
      BY <1>1, <3>1 DEF WindowInv, Covered
  <2>2. CASE LockOut(k, E)
    <3>1. attempts'[k] = [count |-> 0, lockedUntil |-> clock + Window, lastSeen |-> clock]
      BY <2>2 DEF LockOut, Store
    <3>2. /\ attempts'[k].lockedUntil = clock + Window /\ attempts'[k].lastSeen = clock
          /\ clock \in Nat /\ clock + Window # 0
      BY <3>1, KeyTypes, WindowAssumption
    <3>3. attempts[k].lockedUntil = 0
      BY <2>2, AttemptsAssumption DEF LockOut, Counted
    <3>4. Cardinality(granted[k]) <= MaxAttempts
      BY <3>3, KeyTypes, AttemptsAssumption DEF WindowInv, Covered
    <3>5. \A g \in granted[k] : /\ g.time > clock - Window /\ g.time <= clock
                                /\ g.time + Window <= clock + Window
      BY KeyTypes, WindowAssumption DEF WindowInv, Covered
    <3>6. IsFiniteSet(granted[k])
      BY KeyTypes
    <3> QED
      BY <1>1, <3>2, <3>4, <3>5, <3>6 DEF Covered
  <2> QED
    BY <2>1, <2>2
<1>3. \A j \in LimiterKeys : j # k => Covered(j)'
  BY OthersCovered DEF LockOut, Refuse
<1>4. granted' \in [LimiterKeys -> SUBSET Grants]
  BY ForgetType
<1>5. LimiterTypeOK'
  BY LimiterTypeStep DEF WindowInv, LimiterNext, ReserveLocks, ReserveRefused
<1> QED
  BY <1>2, <1>3, <1>4, <1>5 DEF WindowInv

\* The key succeeded: its record and its attempts are gone.
LEMMA SucceededKeeps ==
    ASSUME WindowInv, NEW k \in LimiterKeys, Succeeded(k)
    PROVE  WindowInv'
<1>1. /\ attempts' = [attempts EXCEPT ![k] = NoRecord] /\ clock' = clock
      /\ granted' = [granted EXCEPT ![k] = {}]
  BY DEF Succeeded, Succeed
<1>2. attempts \in [LimiterKeys -> Records] /\ granted \in [LimiterKeys -> SUBSET Grants]
  BY DEF WindowInv, LimiterTypeOK
<1>3. Covered(k)'
  BY <1>1, <1>2, KeyTypes, CoveredNothing
<1>4. \A j \in LimiterKeys : j # k => Covered(j)'
  <2> SUFFICES ASSUME NEW j \in LimiterKeys, j # k PROVE Covered(j)'
    OBVIOUS
  <2>1. attempts'[j] = attempts[j] /\ granted'[j] = granted[j]
    BY <1>1, <1>2
  <2> QED
    BY <1>1, <2>1 DEF WindowInv, Covered
<1>5. granted' \in [LimiterKeys -> SUBSET Grants]
  BY <1>1, <1>2
<1>6. LimiterTypeOK'
  BY LimiterTypeStep DEF WindowInv, LimiterNext, Succeeded
<1> QED
  BY <1>3, <1>4, <1>5, <1>6 DEF WindowInv

\* Time passes: attempts leave the window.
LEMMA TickKeeps ==
    ASSUME WindowInv, Tick
    PROVE  WindowInv'
<1>1. clock' = clock + 1 /\ attempts' = attempts
      /\ granted' = [k \in LimiterKeys |-> {g \in granted[k] : g.time > clock + 1 - Window}]
  BY DEF Tick
<1>2. ASSUME NEW k \in LimiterKeys PROVE Covered(k)'
  <2>1. /\ granted'[k] \in SUBSET granted[k]
        /\ \A g \in granted'[k] : g.time > clock' - Window
    <3>1. granted'[k] = {g \in granted[k] : g.time > clock + 1 - Window}
      BY <1>1
    <3>2. \A g \in granted'[k] : g \in granted[k] /\ g.time > clock + 1 - Window
      BY <3>1
    <3>3. granted'[k] \in SUBSET granted[k]
      BY <3>2
    <3>4. clock' = clock + 1 /\ clock \in Nat /\ Window \in Nat
      BY <1>1, KeyTypes, WindowAssumption
    <3>5. \A g \in granted'[k] : g.time > clock' - Window
      BY <3>2, <3>4, KeyTypes
    <3> QED
      BY <3>3, <3>5
  <2>2. IsFiniteSet(granted'[k]) /\ Cardinality(granted'[k]) <= Cardinality(granted[k])
        /\ Cardinality(granted'[k]) \in Nat
    BY <2>1, KeyTypes, FS_Subset, FS_CardinalityType
  <2>3. attempts'[k].lastSeen <= clock'
    BY <1>1, KeyTypes DEF WindowInv, Covered
  <2>4. attempts'[k].lockedUntil = 0 => Cardinality(granted'[k]) <= attempts'[k].count
    BY <1>1, <2>2, KeyTypes DEF WindowInv, Covered
  <2>5. attempts'[k].lockedUntil # 0 =>
           /\ Cardinality(granted'[k]) <= MaxAttempts
           /\ \A g \in granted'[k] : g.time + Window <= attempts'[k].lockedUntil
    BY <1>1, <2>1, <2>2, KeyTypes, AttemptsAssumption DEF WindowInv, Covered
  <2>6. \A g \in granted'[k] : g.time <= attempts'[k].lastSeen
    BY <1>1, <2>1 DEF WindowInv, Covered
  <2> QED
    BY <2>1, <2>2, <2>3, <2>4, <2>5, <2>6 DEF Covered
<1>3. granted' \in [LimiterKeys -> SUBSET Grants]
  BY <1>1 DEF WindowInv
<1>4. LimiterTypeOK'
  BY <1>1, LimiterTypeStep DEF WindowInv, LimiterNext
<1> QED
  BY <1>2, <1>3, <1>4 DEF WindowInv

LEMMA WindowInvariant == WindowSpec => []WindowInv
<1>1. WindowInit => WindowInv
  <2> SUFFICES ASSUME WindowInit PROVE WindowInv
    OBVIOUS
  <2>1. /\ clock = 1 /\ \A k \in LimiterKeys : attempts[k] = NoRecord /\ granted[k] = {}
        /\ granted \in [LimiterKeys -> SUBSET Grants]
    BY DEF WindowInit, LimiterInit
  <2>2. LimiterTypeOK
    <3>1. NoRecord \in Records
      BY AttemptsAssumption DEF NoRecord, Records
    <3> QED
      BY <3>1 DEF WindowInit, LimiterInit, LimiterTypeOK
  <2>3. Cardinality({}) = 0 /\ IsFiniteSet({})
    BY FS_EmptySet
  <2>4. \A k \in LimiterKeys : Covered(k)
    BY <2>1, <2>3 DEF Covered, NoRecord
  <2> QED
    BY <2>1, <2>2, <2>4 DEF WindowInv
<1>2. WindowInv /\ [WindowNext]_windowVars => WindowInv'
  <2> SUFFICES ASSUME WindowInv, [WindowNext]_windowVars PROVE WindowInv'
    OBVIOUS
  <2>1. CASE Tick
    BY <2>1, TickKeeps
  <2>2. ASSUME NEW k \in LimiterKeys, Allowed(k) PROVE WindowInv'
    BY <2>2, AllowedKeeps DEF Allowed
  <2>3. ASSUME NEW k \in LimiterKeys, Denied(k) PROVE WindowInv'
    BY <2>3, DeniedKeeps DEF Denied
  <2>4. ASSUME NEW k \in LimiterKeys, Succeeded(k) PROVE WindowInv'
    BY <2>4, SucceededKeeps
  <2>5. CASE UNCHANGED windowVars
    BY <2>5 DEF WindowInv, Covered, LimiterTypeOK, windowVars
  <2> QED
    BY <2>1, <2>2, <2>3, <2>4, <2>5 DEF WindowNext
<1> QED
  BY <1>1, <1>2, PTL DEF WindowSpec

\* No key is allowed more than l.max attempts in a window, for every number of
\* keys, attempts and every length of the window.
THEOREM AtMostMaxPerWindowThm == WindowSpec => []AtMostMaxPerWindow
<1>1. ASSUME WindowInv PROVE AtMostMaxPerWindow
  <2> SUFFICES ASSUME NEW k \in LimiterKeys PROVE Cardinality(granted[k]) <= MaxAttempts
    BY DEF AtMostMaxPerWindow
  <2>1. Covered(k)
    BY <1>1 DEF WindowInv
  <2> QED
    BY <1>1, <2>1, KeyTypes, AttemptsAssumption DEF Covered
<1> QED
  BY <1>1, WindowInvariant, PTL

=============================================================================
