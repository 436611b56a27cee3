---------------------------- MODULE LoginLimiter ----------------------------
(***************************************************************************)
(* auth/ratelimit.go: the counter of failed logins per key (a client       *)
(* address, or "user:" and a name) with a temporary lockout.  Reserve and  *)
(* Succeed hold the mutex from end to end, so each is one step; they are   *)
(* called by any number of concurrent login requests in any order.         *)
(*                                                                         *)
(* The clock starts at 1: 0 is the zero time.Time.  A key without a record *)
(* maps to NoRecord.                                                       *)
(***************************************************************************)
EXTENDS Integers, FiniteSets

CONSTANTS
    LimiterKeys,   \* the keys requests come with
    MaxAttempts,   \* l.max
    Window,        \* l.window
    MaxKeys        \* maxLimiterKeys

ASSUME AttemptsAssumption == MaxAttempts \in Nat \ {0}
ASSUME WindowAssumption == Window \in Nat \ {0}
ASSUME MaxKeysAssumption == MaxKeys \in Nat \ {0}

VARIABLES clock, attempts

limiterVars == <<clock, attempts>>

-----------------------------------------------------------------------------

NoRecord == [count |-> 0, lockedUntil |-> 0, lastSeen |-> 0]
Records == [count : 0..MaxAttempts, lockedUntil : Nat, lastSeen : Nat]

Entries == {k \in LimiterKeys : attempts[k] # NoRecord}

LimiterTypeOK ==
    /\ clock \in Nat \ {0}
    /\ attempts \in [LimiterKeys -> Records]

LimiterInit ==
    /\ clock = 1
    /\ attempts = [k \in LimiterKeys |-> NoRecord]

-----------------------------------------------------------------------------
(* pruneLocked.                                                            *)

Locked(k) == clock < attempts[k].lockedUntil

\* Records neither locked nor seen within the window are dropped first.
Fresh == {k \in Entries : Locked(k) \/ attempts[k].lastSeen >= clock - Window}
Unlocked == {k \in Fresh : ~Locked(k)}

\* Mutant: eviction also takes keys that are locked out.
MutantCandidates == Fresh

Candidates == Unlocked

\* Mutant: the map is pruned only once it is beyond its limit.
MutantExcess ==
    LET n == Cardinality(Fresh) - MaxKeys
    IN  IF n <= 0 THEN 0
        ELSE IF n <= Cardinality(Candidates) THEN n ELSE Cardinality(Candidates)

\* How many records the loop removes: until the map is below its limit, or
\* only locked records are left.
Excess ==
    LET n == Cardinality(Fresh) - MaxKeys + 1
    IN  IF n <= 0 THEN 0
        ELSE IF n <= Cardinality(Candidates) THEN n ELSE Cardinality(Candidates)

\* The least recently seen candidates go; between equals, map order decides.
Evictions ==
    {E \in SUBSET Candidates :
        /\ Cardinality(E) = Excess
        /\ \A e \in E, u \in Candidates \ E :
              attempts[e].lastSeen <= attempts[u].lastSeen}

-----------------------------------------------------------------------------
(* Reserve, by its outcome.  E is what its pruning evicted.                *)

Kept(E) == Fresh \ E

Store(k, E, rec) ==
    attempts' = [j \in LimiterKeys |->
                    IF j = k THEN rec
                    ELSE IF j \in Kept(E) THEN attempts[j] ELSE NoRecord]

\* The attempts that still count: an expired lockout starts a fresh window.
Counted(k) == IF attempts[k].lockedUntil # 0 THEN 0 ELSE attempts[k].count

\* Mutant: the attempts are counted but not limited.
MutantAllow(k, E) ==
    /\ k \in Kept(E) => ~Locked(k)
    /\ Store(k, E, [count       |-> IF k \in Kept(E) THEN Counted(k) + 1 ELSE 1,
                    lockedUntil |-> 0,
                    lastSeen    |-> clock])

\* A first attempt, or one below the maximum.
Allow(k, E) ==
    /\ k \in Kept(E) => (~Locked(k) /\ Counted(k) < MaxAttempts)
    /\ Store(k, E, [count       |-> IF k \in Kept(E) THEN Counted(k) + 1 ELSE 1,
                    lockedUntil |-> 0,
                    lastSeen    |-> clock])

\* Mutant: the lockout lasts no time.
MutantLockOut(k, E) ==
    /\ k \in Kept(E)
    /\ ~Locked(k)
    /\ Counted(k) >= MaxAttempts
    /\ Store(k, E, [count |-> 0, lockedUntil |-> clock, lastSeen |-> clock])

\* The attempt beyond the maximum is refused and locks the key.
LockOut(k, E) ==
    /\ k \in Kept(E)
    /\ ~Locked(k)
    /\ Counted(k) >= MaxAttempts
    /\ Store(k, E, [count       |-> 0,
                    lockedUntil |-> clock + Window,
                    lastSeen    |-> clock])

\* A locked key is refused and its record left as it is.
Refuse(k, E) ==
    /\ k \in Kept(E)
    /\ Locked(k)
    /\ Store(k, E, attempts[k])

ReserveAllowed(k) == \E E \in Evictions : Allow(k, E)
ReserveLocks(k) == \E E \in Evictions : LockOut(k, E)
ReserveRefused(k) == \E E \in Evictions : Refuse(k, E)
ReserveDenied(k) == ReserveLocks(k) \/ ReserveRefused(k)

\* Releases the key after a successful login, lockout included.
Succeed(k) == attempts' = [attempts EXCEPT ![k] = NoRecord]

-----------------------------------------------------------------------------

LimiterNext ==
    \/ /\ clock' = clock + 1
       /\ UNCHANGED attempts
    \/ /\ \E k \in LimiterKeys :
             ReserveAllowed(k) \/ ReserveLocks(k) \/ ReserveRefused(k) \/ Succeed(k)
       /\ UNCHANGED clock

LimiterSpec == LimiterInit /\ [][LimiterNext]_limiterVars

-----------------------------------------------------------------------------
(* Properties.                                                             *)

\* The map never outgrows maxLimiterKeys, although pruneLocked gives up when
\* "everything is locked out" and Reserve then inserts regardless: a full map
\* always holds a record that can be evicted, because the record that would
\* be the last to lock was itself pruned before it could.
BoundedMap ==
    /\ IsFiniteSet(Entries)
    /\ Cardinality(Entries) <= MaxKeys
    /\ Cardinality(Entries) = MaxKeys => \E k \in Entries : ~Locked(k)

\* A lockout stands until its time: no pruning, no flood of other keys and no
\* further attempt ends it early or extends it.  Only Succeed releases it.
LockStands ==
    [][\A k \in LimiterKeys :
          Locked(k) => \/ attempts'[k].lockedUntil = attempts[k].lockedUntil
                       \/ Succeed(k)]_limiterVars

=============================================================================
