----------------------------- MODULE LoginProofs -----------------------------
(***************************************************************************)
(* Proofs about the login, for any addresses, names, tokens and concurrent *)
(* requests, any limits and lifetimes.                                     *)
(***************************************************************************)
EXTENDS Login, FiniteSetTheorems, TLAPS

\* Only a request whose password was right comes to the session store.
Verified ==
    \A q \in Requests :
        request[q].pc \in {"create", "release_address", "release_user"}
            => request[q].correct /\ request[q].user \in KnownUsers

\* A stored session is the one its login made, and nobody ended it.
SessionsTrue ==
    \A t \in Tokens :
        sessions[t] # NoSession => /\ issued[t] # 0
                                   /\ t \notin ended
                                   /\ sessions[t].expires = issued[t] + TTL

\* Only a token that was issued can have been ended.
EndedWereIssued == \A t \in ended : issued[t] # 0

\* The inductive invariant.
LoginInv ==
    /\ LoginTypeOK
    /\ Verified
    /\ SessionsTrue
    /\ EndedWereIssued
    /\ SessionsExact
    /\ IsFiniteSet(Open(sessions))
    /\ SessionsBounded

SessionSet == [user : KnownUsers, expires : Nat] \cup {NoSession}
RequestSet == [pc : Steps, address : Addresses, user : Users, correct : BOOLEAN]

-----------------------------------------------------------------------------
(* The two limiters.                                                       *)

LEMMA UserMaximum == UserFactor * MaxAttempts \in Nat \ {0}
  <1>1. \A m, n \in Nat \ {0} : m * n \in Nat \ {0}
    BY SMT
  <1> QED BY <1>1, LimitsAssumption

LEMMA AddressNoRecord == addressLimiter!NoRecord \in addressLimiter!Records
  BY LimitsAssumption DEF addressLimiter!NoRecord, addressLimiter!Records

LEMMA UserNoRecord == userLimiter!NoRecord \in userLimiter!Records
  <1>1. 0 \in 0..(UserFactor * MaxAttempts)
    BY UserMaximum
  <1> QED BY <1>1 DEF userLimiter!NoRecord, userLimiter!Records

\* What Reserve stores by address is well formed.
LEMMA AddressReserved ==
  ASSUME LoginTypeOK, NEW a \in Addresses,
         addressLimiter!ReserveAllowed(a) \/ addressLimiter!ReserveDenied(a)
  PROVE  byAddress' \in [Addresses -> addressLimiter!Records]
  <1>1. /\ byAddress \in [Addresses -> addressLimiter!Records] /\ clock \in Nat
        /\ byAddress[a] \in addressLimiter!Records
    BY DEF LoginTypeOK, addressLimiter!LimiterTypeOK
  <1>2. ASSUME NEW E, NEW rec \in addressLimiter!Records, addressLimiter!Store(a, E, rec)
        PROVE  byAddress' \in [Addresses -> addressLimiter!Records]
    BY <1>1, <1>2, AddressNoRecord DEF addressLimiter!Store
  <1>3. addressLimiter!Counted(a) \in 0..MaxAttempts
    BY <1>1, LimitsAssumption DEF addressLimiter!Counted, addressLimiter!Records
  <1>4. ASSUME NEW E, addressLimiter!Allow(a, E)
        PROVE  byAddress' \in [Addresses -> addressLimiter!Records]
    <2> DEFINE n == IF a \in addressLimiter!Kept(E) THEN addressLimiter!Counted(a) + 1 ELSE 1
    <2>1. n \in 0..MaxAttempts
      BY <1>3, <1>4, LimitsAssumption DEF addressLimiter!Allow
    <2>2. addressLimiter!Store(a, E, [count |-> n, lockedUntil |-> 0, lastSeen |-> clock])
      BY <1>4 DEF addressLimiter!Allow
    <2> HIDE DEF n
    <2>3. [count |-> n, lockedUntil |-> 0, lastSeen |-> clock] \in addressLimiter!Records
      BY <1>1, <2>1 DEF addressLimiter!Records
    <2> QED BY <1>2, <2>2, <2>3
  <1>5. ASSUME NEW E, addressLimiter!LockOut(a, E)
        PROVE  byAddress' \in [Addresses -> addressLimiter!Records]
    <2>1. clock + Window \in Nat /\ 0 \in 0..MaxAttempts
      BY <1>1, LimitsAssumption
    <2>2. [count |-> 0, lockedUntil |-> clock + Window, lastSeen |-> clock]
              \in addressLimiter!Records
      BY <1>1, <2>1 DEF addressLimiter!Records
    <2> QED BY <1>2, <1>5, <2>2 DEF addressLimiter!LockOut
  <1>6. ASSUME NEW E, addressLimiter!Refuse(a, E)
        PROVE  byAddress' \in [Addresses -> addressLimiter!Records]
    BY <1>1, <1>2, <1>6 DEF addressLimiter!Refuse
  <1> QED BY <1>4, <1>5, <1>6
             DEF addressLimiter!ReserveAllowed, addressLimiter!ReserveDenied,
                 addressLimiter!ReserveLocks, addressLimiter!ReserveRefused

\* What Reserve stores by user name is well formed.
LEMMA UserReserved ==
  ASSUME LoginTypeOK, NEW u \in Users,
         userLimiter!ReserveAllowed(u) \/ userLimiter!ReserveDenied(u)
  PROVE  byUser' \in [Users -> userLimiter!Records]
  <1> DEFINE max == UserFactor * MaxAttempts
  <1>0. max \in Nat \ {0}
    BY UserMaximum
  <1> HIDE DEF max
  <1>r. userLimiter!Records = [count : 0..max, lockedUntil : Nat, lastSeen : Nat]
    BY DEF userLimiter!Records, max
  <1>1. /\ byUser \in [Users -> userLimiter!Records] /\ clock \in Nat
        /\ byUser[u] \in userLimiter!Records
    BY DEF LoginTypeOK, userLimiter!LimiterTypeOK
  <1>2. ASSUME NEW E, NEW rec \in userLimiter!Records, userLimiter!Store(u, E, rec)
        PROVE  byUser' \in [Users -> userLimiter!Records]
    BY <1>1, <1>2, UserNoRecord DEF userLimiter!Store
  <1>3. userLimiter!Counted(u) \in 0..max
    BY <1>0, <1>1, <1>r DEF userLimiter!Counted
  <1>4. ASSUME NEW E, userLimiter!Allow(u, E)
        PROVE  byUser' \in [Users -> userLimiter!Records]
    <2> DEFINE n == IF u \in userLimiter!Kept(E) THEN userLimiter!Counted(u) + 1 ELSE 1
    <2>1. u \in userLimiter!Kept(E) => userLimiter!Counted(u) < max
      BY <1>4 DEF userLimiter!Allow, max
    <2>2. userLimiter!Store(u, E, [count |-> n, lockedUntil |-> 0, lastSeen |-> clock])
      BY <1>4 DEF userLimiter!Allow
    <2>3. n \in 0..max
      BY <1>0, <1>3, <2>1
    <2> HIDE DEF n
    <2>4. [count |-> n, lockedUntil |-> 0, lastSeen |-> clock] \in userLimiter!Records
      BY <1>1, <2>3, <1>r
    <2> QED BY <1>2, <2>2, <2>4
  <1>5. ASSUME NEW E, userLimiter!LockOut(u, E)
        PROVE  byUser' \in [Users -> userLimiter!Records]
    <2>1. clock + Window \in Nat /\ 0 \in 0..max
      BY <1>0, <1>1, LimitsAssumption
    <2>2. [count |-> 0, lockedUntil |-> clock + Window, lastSeen |-> clock]
              \in userLimiter!Records
      BY <1>1, <2>1, <1>r
    <2> QED BY <1>2, <1>5, <2>2 DEF userLimiter!LockOut
  <1>6. ASSUME NEW E, userLimiter!Refuse(u, E)
        PROVE  byUser' \in [Users -> userLimiter!Records]
    BY <1>1, <1>2, <1>6 DEF userLimiter!Refuse
  <1> QED BY <1>4, <1>5, <1>6
             DEF userLimiter!ReserveAllowed, userLimiter!ReserveDenied,
                 userLimiter!ReserveLocks, userLimiter!ReserveRefused

\* No Reserve, whoever it is for, changes the record of a locked address:
\* pruning takes only records that are not locked.
LEMMA LockedIsKept ==
  ASSUME LoginTypeOK, NEW a \in Addresses, NEW k \in Addresses,
         addressLimiter!Locked(a),
         addressLimiter!ReserveAllowed(k) \/ addressLimiter!ReserveDenied(k)
  PROVE  byAddress'[a] = byAddress[a]
  <1>1. byAddress[a] # addressLimiter!NoRecord
    BY LoginBoundsAssumption
       DEF LoginTypeOK, addressLimiter!LimiterTypeOK, addressLimiter!Locked,
           addressLimiter!NoRecord
  <1>2. \A E \in addressLimiter!Evictions : a \in addressLimiter!Kept(E)
    BY <1>1 DEF addressLimiter!Evictions, addressLimiter!Kept, addressLimiter!Fresh,
                addressLimiter!Entries, addressLimiter!Candidates, addressLimiter!Unlocked
  <1>3. ASSUME NEW E \in addressLimiter!Evictions, NEW rec,
               addressLimiter!Store(k, E, rec), a # k \/ rec = byAddress[a]
        PROVE  byAddress'[a] = byAddress[a]
    BY <1>2, <1>3 DEF addressLimiter!Store
  <1>4. ASSUME NEW E \in addressLimiter!Evictions, addressLimiter!Allow(k, E)
        PROVE  byAddress'[a] = byAddress[a]
    BY <1>2, <1>3, <1>4 DEF addressLimiter!Allow
  <1>5. ASSUME NEW E \in addressLimiter!Evictions, addressLimiter!LockOut(k, E)
        PROVE  byAddress'[a] = byAddress[a]
    BY <1>3, <1>5 DEF addressLimiter!LockOut
  <1>6. ASSUME NEW E \in addressLimiter!Evictions, addressLimiter!Refuse(k, E)
        PROVE  byAddress'[a] = byAddress[a]
    BY <1>3, <1>6 DEF addressLimiter!Refuse
  <1> QED BY <1>4, <1>5, <1>6
             DEF addressLimiter!ReserveAllowed, addressLimiter!ReserveDenied,
                 addressLimiter!ReserveLocks, addressLimiter!ReserveRefused

-----------------------------------------------------------------------------
(* Requests.                                                               *)

\* A request that waits somewhere carries an address and a name.
LEMMA Waiting ==
  ASSUME LoginTypeOK, NEW q \in Requests, ~At(q, "idle")
  PROVE  request[q] \in RequestSet
  BY DEF LoginTypeOK, At, Idle, RequestSet

LEMMA GotoKeeps ==
  ASSUME LoginInv, NEW q \in Requests, NEW pc \in Steps, ~At(q, "idle"), Goto(q, pc),
         \/ pc \notin {"create", "release_address", "release_user"}
         \/ request[q].correct /\ request[q].user \in KnownUsers
  PROVE  /\ request' \in [Requests -> RequestSet \cup {Idle}]
         /\ Verified'
  <1>1. request[q] \in RequestSet
    BY Waiting DEF LoginInv
  <1>2. request \in [Requests -> RequestSet \cup {Idle}]
    BY DEF LoginInv, LoginTypeOK, RequestSet
  <1>3. [request[q] EXCEPT !.pc = pc] \in RequestSet
    BY <1>1 DEF RequestSet
  <1>4. request' = [request EXCEPT ![q] = [request[q] EXCEPT !.pc = pc]]
    BY <1>1, <1>2 DEF Goto
  <1>5. request' \in [Requests -> RequestSet \cup {Idle}]
    BY <1>2, <1>3, <1>4
  <1>6. /\ request'[q] = [request[q] EXCEPT !.pc = pc]
        /\ \A p \in Requests : p # q => request'[p] = request[p]
    BY <1>2, <1>4
  <1>7. /\ request'[q].pc = pc
        /\ request'[q].correct = request[q].correct
        /\ request'[q].user = request[q].user
    BY <1>1, <1>6 DEF RequestSet
  <1> QED BY <1>5, <1>6, <1>7 DEF Verified, LoginInv

LEMMA AnsweredKeeps ==
  ASSUME LoginInv, NEW q \in Requests, Answered(q)
  PROVE  /\ request' \in [Requests -> RequestSet \cup {Idle}]
         /\ Verified'
  BY DEF LoginInv, LoginTypeOK, RequestSet, Verified, Answered, Idle

-----------------------------------------------------------------------------
(* Sessions.                                                               *)

\* What is in the invariant about sessions.
SessionInv ==
    /\ SessionsTrue
    /\ EndedWereIssued
    /\ SessionsExact
    /\ IsFiniteSet(Open(sessions))
    /\ SessionsBounded

\* A step that touches neither sessions nor time, and serves nobody.
LEMMA SessionsUntouched ==
  ASSUME LoginInv, UNCHANGED <<clock, sessions, issued, ended>>, served' = NoToken
  PROVE  SessionInv'
  BY DEF LoginInv, SessionInv, SessionsTrue, EndedWereIssued, SessionsExact,
         SessionsBounded, Open

\* Removing sessions keeps the store within its limit.
LEMMA FewerSessions ==
  ASSUME LoginInv, Open(sessions') \subseteq Open(sessions)
  PROVE  IsFiniteSet(Open(sessions')) /\ Cardinality(Open(sessions')) <= MaxSessions
  <1>1. /\ IsFiniteSet(Open(sessions'))
        /\ Cardinality(Open(sessions')) <= Cardinality(Open(sessions))
    BY FS_Subset DEF LoginInv
  <1>2. Cardinality(Open(sessions')) \in Nat /\ Cardinality(Open(sessions)) \in Nat
    BY <1>1, FS_CardinalityType DEF LoginInv
  <1> QED BY <1>1, <1>2, SessionAssumption DEF LoginInv, SessionsBounded

\* pruneLocked drops no session that is still good.
LEMMA PrunedKeepsGood ==
  ASSUME LoginInv
  PROVE  /\ Pruned \in [Tokens -> SessionSet]
         /\ Open(Pruned) \subseteq Open(sessions)
         /\ \A t \in Tokens : Pruned[t] \in {sessions[t], NoSession}
         /\ \A t \in Tokens :
               (issued[t] # 0 /\ t \notin ended /\ clock < issued[t] + TTL)
                   => Pruned[t] # NoSession
  <1>1. sessions \in [Tokens -> SessionSet]
    BY DEF LoginInv, LoginTypeOK, SessionSet
  <1>2. /\ Pruned \in [Tokens -> SessionSet]
        /\ \A t \in Tokens : Pruned[t] \in {sessions[t], NoSession}
    BY <1>1 DEF Pruned, SessionSet
  <1>3. Open(Pruned) \subseteq Open(sessions)
    BY <1>1, <1>2 DEF Open
  <1>4. ASSUME NEW t \in Tokens,
               issued[t] # 0, t \notin ended, clock < issued[t] + TTL
        PROVE  Pruned[t] # NoSession
    <2>1. sessions[t] # NoSession
      BY <1>4 DEF LoginInv, SessionsExact
    <2>2. Alive(sessions[t])
      BY <1>4, <2>1 DEF LoginInv, SessionsTrue, Alive
    <2> QED BY <2>1, <2>2 DEF Pruned
  <1> QED BY <1>2, <1>3, <1>4

\* One more element makes a finite set at most one larger.
LEMMA OneMore ==
  ASSUME NEW S, IsFiniteSet(S), NEW x
  PROVE  /\ IsFiniteSet(S \cup {x})
         /\ Cardinality(S \cup {x}) \in Nat
         /\ Cardinality(S \cup {x}) <= Cardinality(S) + 1
  <1>1. IsFiniteSet(S \cup {x}) /\ Cardinality(S) \in Nat
    BY FS_AddElement, FS_CardinalityType
  <1>2. Cardinality(S \cup {x}) = IF x \in S THEN Cardinality(S) ELSE Cardinality(S) + 1
    BY FS_AddElement
  <1> QED BY <1>1, <1>2

\* A new session: the token is fresh and the store had room after pruning.
LEMMA CreateKeeps ==
  ASSUME LoginInv, NEW t \in Tokens, NEW u \in KnownUsers, Room, issued[t] = 0,
         issued' = [issued EXCEPT ![t] = clock],
         sessions' = [Pruned EXCEPT ![t] = [user |-> u, expires |-> clock + TTL]],
         UNCHANGED <<clock, ended>>, served' = NoToken
  PROVE  /\ sessions' \in [Tokens -> SessionSet]
         /\ issued' \in [Tokens -> 0..MaxClock]
         /\ SessionInv'
  <1> DEFINE new == [user |-> u, expires |-> clock + TTL]
  <1>1. /\ clock \in 1..MaxClock /\ clock + TTL \in Nat /\ clock \in Nat
        /\ issued \in [Tokens -> 0..MaxClock] /\ clock \in 0..MaxClock
    BY SessionAssumption, LoginBoundsAssumption DEF LoginInv, LoginTypeOK
  <1>2. new \in SessionSet /\ new # NoSession /\ new.expires = clock + TTL
    BY <1>1, SessionAssumption DEF SessionSet, NoSession
  <1> HIDE DEF new
  <1>3. /\ sessions' \in [Tokens -> SessionSet]
        /\ sessions'[t] = new
        /\ \A s \in Tokens : s # t => sessions'[s] = Pruned[s]
    BY <1>2, PrunedKeepsGood DEF new
  <1>4. /\ issued' \in [Tokens -> 0..MaxClock]
        /\ issued'[t] = clock
        /\ \A s \in Tokens : s # t => issued'[s] = issued[s]
    BY <1>1
  <1>5. t \notin ended
    BY DEF LoginInv, EndedWereIssued
  <1>6. SessionsTrue'
    BY <1>1, <1>2, <1>3, <1>4, <1>5, PrunedKeepsGood DEF LoginInv, SessionsTrue
  <1>7. EndedWereIssued'
    BY <1>4, <1>5 DEF LoginInv, LoginTypeOK, EndedWereIssued
  <1>8. SessionsExact'
    <2>1. ASSUME NEW s \in Tokens, issued'[s] # 0, s \notin ended',
                 clock' < issued'[s] + TTL
          PROVE  sessions'[s] # NoSession
      <3>1. CASE s = t
        BY <1>2, <1>3, <3>1
      <3>2. CASE s # t
        BY <1>3, <1>4, <2>1, <3>2, PrunedKeepsGood
      <3> QED BY <3>1, <3>2
    <2> QED BY <2>1 DEF SessionsExact
  <1>9. /\ IsFiniteSet(Open(Pruned)) /\ Cardinality(Open(Pruned)) \in Nat
        /\ Cardinality(Open(Pruned)) < MaxSessions
    BY PrunedKeepsGood, FS_Subset, FS_CardinalityType DEF LoginInv, Room
  <1>10. Open(sessions') \subseteq Open(Pruned) \cup {t}
    BY <1>3 DEF Open
  <1>11. /\ IsFiniteSet(Open(Pruned) \cup {t})
         /\ Cardinality(Open(Pruned) \cup {t}) \in Nat
         /\ Cardinality(Open(Pruned) \cup {t}) <= Cardinality(Open(Pruned)) + 1
    BY <1>9, OneMore
  <1>12. /\ IsFiniteSet(Open(sessions')) /\ Cardinality(Open(sessions')) \in Nat
         /\ Cardinality(Open(sessions')) <= Cardinality(Open(Pruned) \cup {t})
    BY <1>10, <1>11, FS_Subset, FS_CardinalityType
  <1>13. IsFiniteSet(Open(sessions)') /\ SessionsBounded'
    <2>1. Open(sessions)' = Open(sessions')
      BY DEF Open
    <2> QED BY <1>9, <1>11, <1>12, <2>1, SessionAssumption DEF SessionsBounded
  <1> QED BY <1>3, <1>4, <1>6, <1>7, <1>8, <1>13 DEF SessionInv

\* A session is taken out, because it expired or was logged out; a request that
\* finds its session alive is served.
LEMMA DropKeeps ==
  ASSUME LoginInv, NEW t \in Tokens, issued[t] # 0,
         sessions' = [sessions EXCEPT ![t] = NoSession],
         \/ ended' = ended /\ ~Alive(sessions[t])
         \/ ended' = ended \cup {t},
         UNCHANGED <<clock, issued>>, served' = NoToken
  PROVE  /\ sessions' \in [Tokens -> SessionSet]
         /\ SessionInv'
  <1>1. sessions \in [Tokens -> SessionSet] /\ NoSession \in SessionSet
    BY DEF LoginInv, LoginTypeOK, SessionSet
  <1>2. /\ sessions' \in [Tokens -> SessionSet]
        /\ sessions'[t] = NoSession
        /\ \A s \in Tokens : s # t => sessions'[s] = sessions[s]
    BY <1>1
  <1>3. SessionsTrue'
    BY <1>2 DEF LoginInv, SessionsTrue
  <1>4. EndedWereIssued'
    BY DEF LoginInv, EndedWereIssued
  <1>5. SessionsExact'
    <2>1. t \in ended' \/ ~(clock < issued[t] + TTL)
      BY DEF LoginInv, SessionsExact, SessionsTrue, Alive
    <2>2. ASSUME NEW s \in Tokens, issued'[s] # 0, s \notin ended',
                 clock' < issued'[s] + TTL
          PROVE  sessions'[s] # NoSession
      <3>1. s # t
        BY <2>1, <2>2
      <3> QED BY <1>2, <2>2, <3>1 DEF LoginInv, SessionsExact
    <2> QED BY <2>2 DEF SessionsExact
  <1>6. Open(sessions') \subseteq Open(sessions)
    BY <1>1, <1>2 DEF Open
  <1>7. IsFiniteSet(Open(sessions)') /\ SessionsBounded'
    <2>1. Open(sessions)' = Open(sessions')
      BY DEF Open
    <2> QED BY <1>6, <2>1, FewerSessions DEF SessionsBounded
  <1> QED BY <1>2, <1>3, <1>4, <1>5, <1>7 DEF SessionInv

-----------------------------------------------------------------------------

LEMMA LoginInit == Init => LoginInv
  <1> SUFFICES ASSUME Init PROVE LoginInv
    OBVIOUS
  <1>1. LoginTypeOK
    <2>1. addressLimiter!LimiterTypeOK
      BY AddressNoRecord DEF Init, addressLimiter!LimiterTypeOK
    <2>2. userLimiter!LimiterTypeOK
      BY UserNoRecord DEF Init, userLimiter!LimiterTypeOK
    <2>3. clock \in 1..MaxClock /\ restarts \in 0..MaxRestarts
      BY LoginBoundsAssumption DEF Init
    <2>4. /\ sessions \in [Tokens -> [user : KnownUsers, expires : Nat] \cup {NoSession}]
          /\ request \in [Requests -> [pc : Steps, address : Addresses, user : Users,
                                       correct : BOOLEAN] \cup {Idle}]
      BY DEF Init
    <2>5. served \in Tokens \cup {NoToken} /\ ended \subseteq Tokens
      BY DEF Init
    <2>6. issued \in [Tokens -> 0..MaxClock]
      BY LoginBoundsAssumption DEF Init
    <2> QED BY <2>1, <2>2, <2>3, <2>4, <2>5, <2>6 DEF LoginTypeOK
  <1>2. Verified
    BY DEF Init, Verified, Idle
  <1>3. SessionsTrue /\ EndedWereIssued /\ SessionsExact
    BY DEF Init, SessionsTrue, EndedWereIssued, SessionsExact
  <1>4. Open(sessions) = {}
    BY DEF Init, Open
  <1>5. IsFiniteSet(Open(sessions)) /\ SessionsBounded
    BY <1>4, FS_EmptySet, SessionAssumption DEF SessionsBounded
  <1> QED BY <1>1, <1>2, <1>3, <1>5 DEF LoginInv

\* The types, once each variable is known to have its own.
LEMMA TypesTogether ==
  ASSUME clock' \in 1..MaxClock,
         byAddress' \in [Addresses -> addressLimiter!Records],
         byUser' \in [Users -> userLimiter!Records],
         sessions' \in [Tokens -> SessionSet],
         request' \in [Requests -> RequestSet \cup {Idle}],
         restarts' \in 0..MaxRestarts,
         served' \in Tokens \cup {NoToken},
         issued' \in [Tokens -> 0..MaxClock],
         ended' \subseteq Tokens
  PROVE  LoginTypeOK'
  <1>1. clock' \in Nat \ {0}
    BY LoginBoundsAssumption
  <1> QED BY <1>1 DEF LoginTypeOK, SessionSet, RequestSet, addressLimiter!LimiterTypeOK,
                      userLimiter!LimiterTypeOK, addressLimiter!Records, userLimiter!Records

LEMMA TypesApart ==
  ASSUME LoginTypeOK
  PROVE  /\ clock \in 1..MaxClock
         /\ byAddress \in [Addresses -> addressLimiter!Records]
         /\ byUser \in [Users -> userLimiter!Records]
         /\ sessions \in [Tokens -> SessionSet]
         /\ request \in [Requests -> RequestSet \cup {Idle}]
         /\ restarts \in 0..MaxRestarts
         /\ served \in Tokens \cup {NoToken}
         /\ issued \in [Tokens -> 0..MaxClock]
         /\ ended \subseteq Tokens
  BY DEF LoginTypeOK, SessionSet, RequestSet, addressLimiter!LimiterTypeOK,
         userLimiter!LimiterTypeOK

\* Every step keeps the invariant.
LEMMA LoginStep ==
  ASSUME LoginInv, [Next]_vars
  PROVE  LoginInv'
  <1> USE TypesApart
  <1>0. LoginTypeOK
    BY DEF LoginInv
  <1>1. ASSUME LoginTypeOK', Verified', SessionInv' PROVE LoginInv'
    BY <1>1 DEF LoginInv, SessionInv
  <1>2. ASSUME NEW q \in Requests, ReserveAddress(q) PROVE LoginInv'
    <2>1. request[q].address \in Addresses
      BY <1>0, <1>2, Waiting DEF ReserveAddress, At, RequestSet
    <2>2. byAddress' \in [Addresses -> addressLimiter!Records]
      BY <1>0, <1>2, <2>1, AddressReserved DEF ReserveAddress
    <2>3. request' \in [Requests -> RequestSet \cup {Idle}] /\ Verified'
      BY <1>2, GotoKeeps, AnsweredKeeps DEF ReserveAddress, At, Steps
    <2>4. SessionInv'
      BY <1>2, SessionsUntouched DEF ReserveAddress
    <2>5. LoginTypeOK'
      BY <1>0, <1>2, <2>2, <2>3, TypesTogether DEF ReserveAddress
    <2> QED BY <1>1, <2>3, <2>4, <2>5
  <1>3. ASSUME NEW q \in Requests, ReserveUser(q) PROVE LoginInv'
    <2>1. request[q].user \in Users
      BY <1>0, <1>3, Waiting DEF ReserveUser, At, RequestSet
    <2>2. byUser' \in [Users -> userLimiter!Records]
      BY <1>0, <1>3, <2>1, UserReserved DEF ReserveUser
    <2>3. request' \in [Requests -> RequestSet \cup {Idle}] /\ Verified'
      BY <1>3, GotoKeeps, AnsweredKeeps DEF ReserveUser, At, Steps
    <2>4. SessionInv'
      BY <1>3, SessionsUntouched DEF ReserveUser
    <2>5. LoginTypeOK'
      BY <1>0, <1>3, <2>2, <2>3, TypesTogether DEF ReserveUser
    <2> QED BY <1>1, <2>3, <2>4, <2>5
  <1>4. ASSUME NEW q \in Requests, Verify(q) PROVE LoginInv'
    <2>1. request' \in [Requests -> RequestSet \cup {Idle}] /\ Verified'
      BY <1>4, GotoKeeps, AnsweredKeeps DEF Verify, At, Steps
    <2>2. SessionInv'
      BY <1>4, SessionsUntouched DEF Verify
    <2>3. LoginTypeOK'
      BY <1>0, <1>4, <2>1, TypesTogether DEF Verify
    <2> QED BY <1>1, <2>1, <2>2, <2>3
  <1>5. ASSUME NEW q \in Requests, CreateSession(q) PROVE LoginInv'
    <2>1. request[q].correct /\ request[q].user \in KnownUsers
      BY <1>5 DEF LoginInv, Verified, CreateSession, At
    <2>2. request' \in [Requests -> RequestSet \cup {Idle}] /\ Verified'
      BY <1>5, <2>1, GotoKeeps DEF CreateSession, At, Steps
    <2>3. /\ sessions' \in [Tokens -> SessionSet]
          /\ issued' \in [Tokens -> 0..MaxClock]
          /\ SessionInv'
      BY <1>5, <2>1, CreateKeeps DEF CreateSession
    <2>4. LoginTypeOK'
      BY <1>0, <1>5, <2>2, <2>3, TypesTogether DEF CreateSession
    <2> QED BY <1>1, <2>2, <2>3, <2>4
  <1>6. ASSUME NEW q \in Requests, CreateFails(q) PROVE LoginInv'
    <2>1. request' \in [Requests -> RequestSet \cup {Idle}] /\ Verified'
      BY <1>6, AnsweredKeeps DEF CreateFails
    <2>2. CASE UNCHANGED sessions
      <3>1. SessionInv'
        BY <1>6, <2>2, SessionsUntouched DEF CreateFails
      <3>2. LoginTypeOK'
        BY <1>0, <1>6, <2>1, <2>2, TypesTogether DEF CreateFails
      <3> QED BY <1>1, <2>1, <3>1, <3>2
    <2>3. CASE sessions' = Pruned
      <3>1. sessions' \in [Tokens -> SessionSet]
        BY <2>3, PrunedKeepsGood
      <3>2. SessionsTrue' /\ EndedWereIssued'
        BY <1>6, <2>3, PrunedKeepsGood
           DEF CreateFails, LoginInv, SessionsTrue, EndedWereIssued
      <3>3. SessionsExact'
        BY <1>6, <2>3, PrunedKeepsGood DEF CreateFails, SessionsExact
      <3>4. IsFiniteSet(Open(sessions)') /\ SessionsBounded'
        <4>1. Open(sessions)' = Open(sessions')
          BY DEF Open
        <4> QED BY <2>3, <4>1, PrunedKeepsGood, FewerSessions DEF SessionsBounded
      <3>5. LoginTypeOK'
        BY <1>0, <1>6, <2>1, <3>1, TypesTogether DEF CreateFails
      <3> QED BY <1>1, <2>1, <3>2, <3>3, <3>4, <3>5 DEF SessionInv
    <2> QED BY <1>6, <2>2, <2>3 DEF CreateFails
  <1>7. ASSUME NEW q \in Requests, ReleaseAddress(q) PROVE LoginInv'
    <2>1. byAddress' \in [Addresses -> addressLimiter!Records]
      BY <1>0, <1>7, AddressNoRecord DEF ReleaseAddress, addressLimiter!Succeed
    <2>2. request[q].correct /\ request[q].user \in KnownUsers
      BY <1>7 DEF LoginInv, Verified, ReleaseAddress, At
    <2>3. request' \in [Requests -> RequestSet \cup {Idle}] /\ Verified'
      BY <1>7, <2>2, GotoKeeps DEF ReleaseAddress, At, Steps
    <2>4. SessionInv'
      BY <1>7, SessionsUntouched DEF ReleaseAddress
    <2>5. LoginTypeOK'
      BY <1>0, <1>7, <2>1, <2>3, TypesTogether DEF ReleaseAddress
    <2> QED BY <1>1, <2>3, <2>4, <2>5
  <1>8. ASSUME NEW q \in Requests, ReleaseUser(q) PROVE LoginInv'
    <2>1. byUser' \in [Users -> userLimiter!Records]
      BY <1>0, <1>8, UserNoRecord DEF ReleaseUser, userLimiter!Succeed
    <2>2. request' \in [Requests -> RequestSet \cup {Idle}] /\ Verified'
      BY <1>8, AnsweredKeeps DEF ReleaseUser
    <2>3. SessionInv'
      BY <1>8, SessionsUntouched DEF ReleaseUser
    <2>4. LoginTypeOK'
      BY <1>0, <1>8, <2>1, <2>2, TypesTogether DEF ReleaseUser
    <2> QED BY <1>1, <2>2, <2>3, <2>4
  <1>9. ASSUME NEW q \in Requests, Arrive(q) PROVE LoginInv'
    <2>1. request' \in [Requests -> RequestSet \cup {Idle}] /\ Verified'
      BY <1>0, <1>9 DEF Arrive, RequestSet, Steps, LoginInv, Verified
    <2>2. SessionInv'
      BY <1>9, SessionsUntouched DEF Arrive
    <2>3. LoginTypeOK'
      BY <1>0, <1>9, <2>1, TypesTogether DEF Arrive
    <2> QED BY <1>1, <2>1, <2>2, <2>3
  <1>10. ASSUME NEW t \in Tokens, Access(t) PROVE LoginInv'
    <2>0. Verified'
      BY <1>10 DEF Access, LoginInv, Verified
    <2>1. CASE Alive(sessions[t])
      <3>1. served' = t /\ UNCHANGED <<clock, sessions, issued, ended>>
        BY <1>10, <2>1 DEF Access
      <3>2. sessions[t] # NoSession
        BY <1>0, <2>1, LoginBoundsAssumption DEF Alive, NoSession
      <3>3. t \notin ended /\ issued[t] # 0 /\ clock < issued[t] + TTL
        BY <2>1, <3>2 DEF LoginInv, SessionsTrue, Alive
      <3>4. SessionInv'
        BY <3>1, <3>3 DEF LoginInv, SessionInv, SessionsTrue, EndedWereIssued,
                          SessionsExact, SessionsBounded, Open
      <3>5. LoginTypeOK'
        BY <1>0, <1>10, <3>1, TypesTogether DEF Access
      <3> QED BY <1>1, <2>0, <3>4, <3>5
    <2>2. CASE ~Alive(sessions[t])
      <3>1. sessions' \in [Tokens -> SessionSet] /\ SessionInv'
        BY <1>10, <2>2, DropKeeps DEF Access
      <3>2. LoginTypeOK'
        BY <1>0, <1>10, <2>2, <3>1, TypesTogether DEF Access
      <3> QED BY <1>1, <2>0, <3>1, <3>2
    <2> QED BY <2>1, <2>2
  <1>11. ASSUME NEW t \in Tokens, Logout(t) PROVE LoginInv'
    <2>0. Verified'
      BY <1>11 DEF Logout, LoginInv, Verified
    <2>1. sessions' \in [Tokens -> SessionSet] /\ SessionInv'
      BY <1>11, DropKeeps DEF Logout
    <2>2. LoginTypeOK'
      BY <1>0, <1>11, <2>1, TypesTogether DEF Logout
    <2> QED BY <1>1, <2>0, <2>1, <2>2
  <1>12. ASSUME Tick PROVE LoginInv'
    <2>0. Verified'
      BY <1>12 DEF Tick, LoginInv, Verified
    <2>1. clock' \in 1..MaxClock /\ clock < clock' /\ clock \in Nat
      BY <1>0, <1>12, LoginBoundsAssumption DEF Tick
    <2>2. SessionsTrue' /\ EndedWereIssued'
      BY <1>12 DEF Tick, LoginInv, SessionsTrue, EndedWereIssued
    <2>3. SessionsExact'
      <3>1. ASSUME NEW t \in Tokens, clock' < issued[t] + TTL PROVE clock < issued[t] + TTL
        BY <1>0, <2>1, <3>1, SessionAssumption
      <3> QED BY <1>12, <3>1 DEF Tick, LoginInv, SessionsExact
    <2>4. IsFiniteSet(Open(sessions)') /\ SessionsBounded'
      BY <1>12 DEF Tick, LoginInv, SessionsBounded, Open
    <2>5. LoginTypeOK'
      BY <1>0, <1>12, <2>1, TypesTogether DEF Tick
    <2> QED BY <1>1, <2>0, <2>2, <2>3, <2>4, <2>5 DEF SessionInv
  <1>13. ASSUME Restart PROVE LoginInv'
    <2>0. Verified'
      BY <1>13 DEF Restart, Verified, Idle
    <2>1. SessionsTrue'
      BY <1>13 DEF Restart, SessionsTrue
    <2>2. EndedWereIssued'
      BY <1>13 DEF Restart, LoginInv, EndedWereIssued
    <2>3. SessionsExact'
      BY <1>13 DEF Restart, SessionsExact
    <2>4. Open(sessions)' = {}
      BY <1>13 DEF Restart, Open
    <2>5. IsFiniteSet(Open(sessions)') /\ SessionsBounded'
      BY <2>4, FS_EmptySet, SessionAssumption DEF SessionsBounded
    <2>6. /\ byAddress' \in [Addresses -> addressLimiter!Records]
          /\ byUser' \in [Users -> userLimiter!Records]
      BY <1>13, AddressNoRecord, UserNoRecord DEF Restart
    <2>7. /\ sessions' \in [Tokens -> SessionSet]
          /\ request' \in [Requests -> RequestSet \cup {Idle}]
          /\ served' \in Tokens \cup {NoToken}
          /\ ended' \subseteq Tokens
      BY <1>0, <1>13 DEF Restart, SessionSet
    <2>8. restarts' \in 0..MaxRestarts
      BY <1>0, <1>13, LoginBoundsAssumption DEF Restart
    <2>9. clock' \in 1..MaxClock /\ issued' \in [Tokens -> 0..MaxClock]
      BY <1>0, <1>13 DEF Restart
    <2>10. LoginTypeOK'
      BY <2>6, <2>7, <2>8, <2>9, TypesTogether
    <2> QED BY <1>1, <2>0, <2>1, <2>2, <2>3, <2>5, <2>10 DEF SessionInv
  <1>14. ASSUME UNCHANGED vars PROVE LoginInv'
    <2>1. LoginTypeOK'
      BY <1>0, <1>14, TypesTogether DEF vars
    <2>2. Verified'
      BY <1>14 DEF vars, LoginInv, Verified
    <2>3. SessionInv'
      BY <1>14 DEF vars, LoginInv, SessionInv, SessionsTrue, EndedWereIssued, SessionsExact,
                   SessionsBounded, Open
    <2> QED BY <1>1, <2>1, <2>2, <2>3
  <1> QED BY <1>2, <1>3, <1>4, <1>5, <1>6, <1>7, <1>8, <1>9, <1>10, <1>11, <1>12, <1>13,
             <1>14 DEF Next

LEMMA LoginInvariant == Spec => []LoginInv
  <1>1. Init => LoginInv
    BY LoginInit
  <1>2. LoginInv /\ [Next]_vars => LoginInv'
    BY LoginStep
  <1> QED BY <1>1, <1>2, PTL DEF Spec

-----------------------------------------------------------------------------

\* Limiters, sessions and requests stay well formed.
THEOREM LoginTypeCorrect == Spec => []LoginTypeOK
  <1>1. LoginInv => LoginTypeOK
    BY DEF LoginInv
  <1> QED BY <1>1, LoginInvariant, PTL

\* A session admits from its login to its end and not a moment longer, whatever
\* prunings, limits, races and restarts come between.
THEOREM SessionsExactThm == Spec => []SessionsExact
  <1>1. LoginInv => SessionsExact
    BY DEF LoginInv
  <1> QED BY <1>1, LoginInvariant, PTL

\* The session store stays within maxSessions.
THEOREM SessionsBoundedThm == Spec => []SessionsBounded
  <1>1. LoginInv => SessionsBounded
    BY DEF LoginInv
  <1> QED BY <1>1, LoginInvariant, PTL

\* Nothing but time, a restart or the right password ends a lockout.
THEOREM LockEndsByTimeOrLoginThm == Spec => LockEndsByTimeOrLogin
  <1> DEFINE Ends(a) == /\ addressLimiter!Locked(a)
                        /\ byAddress'[a].lockedUntil # byAddress[a].lockedUntil
                        /\ restarts' = restarts
             Entitled(a) == \E q \in Requests : /\ At(q, "release_address")
                                                /\ request[q].address = a
                                                /\ request[q].correct
                                                /\ request[q].user \in KnownUsers
  <1>1. ASSUME LoginInv, Next, NEW a \in Addresses, Ends(a)
        PROVE  Entitled(a)
    <2>0. LoginTypeOK
      BY <1>1 DEF LoginInv
    <2>1. ASSUME NEW q \in Requests, ReserveAddress(q) PROVE FALSE
      <3>1. request[q].address \in Addresses
        BY <2>0, <2>1, Waiting DEF ReserveAddress, At, RequestSet
      <3>2. byAddress'[a] = byAddress[a]
        BY <1>1, <2>0, <2>1, <3>1, LockedIsKept DEF ReserveAddress
      <3> QED BY <1>1, <3>2
    <2>2. ASSUME NEW q \in Requests, ReleaseAddress(q) PROVE Entitled(a)
      <3>1. request[q].address = a
        BY <1>1, <2>0, <2>2
           DEF ReleaseAddress, addressLimiter!Succeed, LoginTypeOK, addressLimiter!LimiterTypeOK
      <3>2. request[q].correct /\ request[q].user \in KnownUsers
        BY <1>1, <2>2 DEF LoginInv, Verified, ReleaseAddress, At
      <3> QED BY <2>2, <3>1, <3>2 DEF ReleaseAddress
    <2>3. CASE Restart
      BY <1>1, <2>0, <2>3, LoginBoundsAssumption DEF Restart, LoginTypeOK
    <2>4. CASE UNCHANGED byAddress
      BY <1>1, <2>4
    <2> QED BY <1>1, <2>1, <2>2, <2>3, <2>4
            DEF Next, Tick, Arrive, ReserveUser, Verify, CreateSession, CreateFails,
                ReleaseUser, Access, Logout
  <1>2. LoginInv /\ [Next]_vars => [\A a \in Addresses : Ends(a) => Entitled(a)]_vars
    BY <1>1
  <1> QED BY <1>2, LoginInvariant, PTL DEF Spec, LockEndsByTimeOrLogin

-----------------------------------------------------------------------------
(* What is proved of one limiter holds of the two of the login.            *)

addressProofs ==
    INSTANCE LoginLimiterProofs WITH LimiterKeys <- Addresses, attempts <- byAddress,
                                     granted <- [a \in Addresses |-> {}]
userProofs ==
    INSTANCE LoginLimiterProofs WITH LimiterKeys <- Users, attempts <- byUser,
                                     MaxAttempts <- UserFactor * MaxAttempts,
                                     granted <- [u \in Users |-> {}]

\* The limiter by address of Login is the one that LoginLimiterProofs is about.
LEMMA AddressLimiter ==
  /\ addressLimiter!LimiterTypeOK <=> addressProofs!LimiterTypeOK
  /\ addressLimiter!BoundedMap <=> addressProofs!BoundedMap
  /\ addressLimiter!BoundedMap' <=> addressProofs!BoundedMap'
  /\ addressLimiter!LimiterNext <=> addressProofs!LimiterNext
  <1>1. addressLimiter!LimiterTypeOK <=> addressProofs!LimiterTypeOK
    BY DEF addressLimiter!LimiterTypeOK, addressProofs!LimiterTypeOK, addressLimiter!Records,
           addressProofs!Records
  <1>2. addressLimiter!BoundedMap <=> addressProofs!BoundedMap
    BY DEF addressLimiter!BoundedMap, addressProofs!BoundedMap, addressLimiter!Entries,
           addressProofs!Entries, addressLimiter!NoRecord, addressProofs!NoRecord,
           addressLimiter!Locked, addressProofs!Locked, addressLimiter!IsFiniteSet,
           addressProofs!IsFiniteSet, addressLimiter!Cardinality, addressProofs!Cardinality
  <1>3. addressLimiter!BoundedMap' <=> addressProofs!BoundedMap'
    BY DEF addressLimiter!BoundedMap, addressProofs!BoundedMap, addressLimiter!Entries,
           addressProofs!Entries, addressLimiter!NoRecord, addressProofs!NoRecord,
           addressLimiter!Locked, addressProofs!Locked, addressLimiter!IsFiniteSet,
           addressProofs!IsFiniteSet, addressLimiter!Cardinality, addressProofs!Cardinality
  <1>4. addressLimiter!LimiterNext <=> addressProofs!LimiterNext
    BY Zenon
       DEF addressLimiter!LimiterNext, addressProofs!LimiterNext,
           addressLimiter!ReserveAllowed, addressProofs!ReserveAllowed,
           addressLimiter!ReserveLocks, addressProofs!ReserveLocks,
           addressLimiter!ReserveRefused, addressProofs!ReserveRefused,
           addressLimiter!Succeed, addressProofs!Succeed, addressLimiter!Allow,
           addressProofs!Allow, addressLimiter!LockOut, addressProofs!LockOut,
           addressLimiter!Refuse, addressProofs!Refuse, addressLimiter!Store,
           addressProofs!Store, addressLimiter!Kept, addressProofs!Kept,
           addressLimiter!Counted, addressProofs!Counted, addressLimiter!Fresh,
           addressProofs!Fresh, addressLimiter!Locked, addressProofs!Locked,
           addressLimiter!Evictions, addressProofs!Evictions, addressLimiter!Candidates,
           addressProofs!Candidates, addressLimiter!Unlocked, addressProofs!Unlocked,
           addressLimiter!Excess, addressProofs!Excess, addressLimiter!Entries,
           addressProofs!Entries, addressLimiter!NoRecord, addressProofs!NoRecord,
           addressLimiter!Cardinality, addressProofs!Cardinality
  <1> QED BY <1>1, <1>2, <1>3, <1>4

\* A step of the limiter keeps its map bounded.
LEMMA AddressStaysBounded ==
  ASSUME addressLimiter!LimiterTypeOK, addressLimiter!BoundedMap,
         [addressLimiter!LimiterNext]_<<clock, byAddress>>
  PROVE  addressLimiter!BoundedMap'
  <1>1. addressProofs!LimiterTypeOK /\ addressProofs!BoundedMap
    BY AddressLimiter
  <1>2. [addressProofs!LimiterNext]_(addressProofs!limiterVars)
    BY AddressLimiter DEF addressProofs!limiterVars
  <1>3. addressProofs!BoundedMap'
    BY <1>1, <1>2, LimitsAssumption, LoginBoundsAssumption, addressProofs!BoundedStep
  <1> QED BY <1>3, AddressLimiter

\* An empty map is bounded.
LEMMA AddressEmpty ==
  /\ byAddress = [k \in Addresses |-> addressLimiter!NoRecord] => addressLimiter!BoundedMap
  /\ byAddress' = [k \in Addresses |-> addressLimiter!NoRecord] => addressLimiter!BoundedMap'
  <1>0. addressLimiter!NoRecord = addressProofs!NoRecord
    BY DEF addressLimiter!NoRecord, addressProofs!NoRecord
  <1>1. addressProofs!IsFiniteSet({}) /\ addressProofs!Cardinality({}) = 0
    BY addressProofs!FS_EmptySet, LimitsAssumption, LoginBoundsAssumption
  <1>2. ASSUME byAddress = [k \in Addresses |-> addressLimiter!NoRecord]
        PROVE  addressLimiter!BoundedMap
    <2>1. addressProofs!Entries = {}
      BY <1>0, <1>2 DEF addressProofs!Entries
    <2>2. addressProofs!BoundedMap
      BY <1>1, <2>1, LimitsAssumption DEF addressProofs!BoundedMap
    <2> QED BY <2>2, AddressLimiter
  <1>3. ASSUME byAddress' = [k \in Addresses |-> addressLimiter!NoRecord]
        PROVE  addressLimiter!BoundedMap'
    <2>1. addressProofs!Entries' = {}
      BY <1>0, <1>3 DEF addressProofs!Entries, addressProofs!NoRecord
    <2>2. addressProofs!BoundedMap'
      BY <1>1, <2>1, LimitsAssumption DEF addressProofs!BoundedMap
    <2> QED BY <2>2, AddressLimiter
  <1> QED BY <1>2, <1>3

\* The limiter by user name of Login is the one that LoginLimiterProofs is about.
LEMMA UserLimiter ==
  /\ userLimiter!LimiterTypeOK <=> userProofs!LimiterTypeOK
  /\ userLimiter!BoundedMap <=> userProofs!BoundedMap
  /\ userLimiter!BoundedMap' <=> userProofs!BoundedMap'
  /\ userLimiter!LimiterNext <=> userProofs!LimiterNext
  <1>1. userLimiter!LimiterTypeOK <=> userProofs!LimiterTypeOK
    BY DEF userLimiter!LimiterTypeOK, userProofs!LimiterTypeOK, userLimiter!Records,
           userProofs!Records
  <1>2. userLimiter!BoundedMap <=> userProofs!BoundedMap
    BY DEF userLimiter!BoundedMap, userProofs!BoundedMap, userLimiter!Entries,
           userProofs!Entries, userLimiter!NoRecord, userProofs!NoRecord,
           userLimiter!Locked, userProofs!Locked, userLimiter!IsFiniteSet,
           userProofs!IsFiniteSet, userLimiter!Cardinality, userProofs!Cardinality
  <1>3. userLimiter!BoundedMap' <=> userProofs!BoundedMap'
    BY DEF userLimiter!BoundedMap, userProofs!BoundedMap, userLimiter!Entries,
           userProofs!Entries, userLimiter!NoRecord, userProofs!NoRecord,
           userLimiter!Locked, userProofs!Locked, userLimiter!IsFiniteSet,
           userProofs!IsFiniteSet, userLimiter!Cardinality, userProofs!Cardinality
  <1>4. userLimiter!LimiterNext <=> userProofs!LimiterNext
    BY Zenon
       DEF userLimiter!LimiterNext, userProofs!LimiterNext, userLimiter!ReserveAllowed,
           userProofs!ReserveAllowed, userLimiter!ReserveLocks, userProofs!ReserveLocks,
           userLimiter!ReserveRefused, userProofs!ReserveRefused, userLimiter!Succeed,
           userProofs!Succeed, userLimiter!Allow, userProofs!Allow, userLimiter!LockOut,
           userProofs!LockOut, userLimiter!Refuse, userProofs!Refuse, userLimiter!Store,
           userProofs!Store, userLimiter!Kept, userProofs!Kept, userLimiter!Counted,
           userProofs!Counted, userLimiter!Fresh, userProofs!Fresh, userLimiter!Locked,
           userProofs!Locked, userLimiter!Evictions, userProofs!Evictions,
           userLimiter!Candidates, userProofs!Candidates, userLimiter!Unlocked,
           userProofs!Unlocked, userLimiter!Excess, userProofs!Excess, userLimiter!Entries,
           userProofs!Entries, userLimiter!NoRecord, userProofs!NoRecord,
           userLimiter!Cardinality, userProofs!Cardinality
  <1> QED BY <1>1, <1>2, <1>3, <1>4

\* A step of the limiter keeps its map bounded.
LEMMA UserStaysBounded ==
  ASSUME userLimiter!LimiterTypeOK, userLimiter!BoundedMap,
         [userLimiter!LimiterNext]_<<clock, byUser>>
  PROVE  userLimiter!BoundedMap'
  <1>1. userProofs!LimiterTypeOK /\ userProofs!BoundedMap
    BY UserLimiter
  <1>2. [userProofs!LimiterNext]_(userProofs!limiterVars)
    BY UserLimiter DEF userProofs!limiterVars
  <1>3. userProofs!BoundedMap'
    BY <1>1, <1>2, LimitsAssumption, UserMaximum, LoginBoundsAssumption, userProofs!BoundedStep
  <1> QED BY <1>3, UserLimiter

\* An empty map is bounded.
LEMMA UserEmpty ==
  /\ byUser = [k \in Users |-> userLimiter!NoRecord] => userLimiter!BoundedMap
  /\ byUser' = [k \in Users |-> userLimiter!NoRecord] => userLimiter!BoundedMap'
  <1>0. userLimiter!NoRecord = userProofs!NoRecord
    BY DEF userLimiter!NoRecord, userProofs!NoRecord
  <1>1. userProofs!IsFiniteSet({}) /\ userProofs!Cardinality({}) = 0
    BY userProofs!FS_EmptySet, LimitsAssumption, UserMaximum, LoginBoundsAssumption
  <1>2. ASSUME byUser = [k \in Users |-> userLimiter!NoRecord]
        PROVE  userLimiter!BoundedMap
    <2>1. userProofs!Entries = {}
      BY <1>0, <1>2 DEF userProofs!Entries
    <2>2. userProofs!BoundedMap
      BY <1>1, <2>1, LimitsAssumption DEF userProofs!BoundedMap
    <2> QED BY <2>2, UserLimiter
  <1>3. ASSUME byUser' = [k \in Users |-> userLimiter!NoRecord]
        PROVE  userLimiter!BoundedMap'
    <2>1. userProofs!Entries' = {}
      BY <1>0, <1>3 DEF userProofs!Entries, userProofs!NoRecord
    <2>2. userProofs!BoundedMap'
      BY <1>1, <2>1, LimitsAssumption DEF userProofs!BoundedMap
    <2> QED BY <2>2, UserLimiter
  <1> QED BY <1>2, <1>3

\* To each limiter a step of the login is one of its own, or none, unless the
\* process restarts.
LimiterStep ==
    /\ [addressLimiter!LimiterNext]_<<clock, byAddress>>
    /\ [userLimiter!LimiterNext]_<<clock, byUser>>

LEMMA StepsAreLimiterSteps ==
  ASSUME LoginTypeOK, [Next]_vars
  PROVE  Restart \/ LimiterStep
  <1>1. CASE Tick
    BY <1>1 DEF Tick, LimiterStep, addressLimiter!LimiterNext, userLimiter!LimiterNext
  <1>2. CASE Restart
    BY <1>2
  <1>3. ASSUME NEW q \in Requests, ReserveAddress(q)
        PROVE  LimiterStep
    <2>1. request[q].address \in Addresses
      BY <1>3, Waiting DEF ReserveAddress, At, RequestSet
    <2> QED BY <1>3, <2>1
               DEF ReserveAddress, LimiterStep, addressLimiter!LimiterNext,
                   addressLimiter!ReserveDenied
  <1>4. ASSUME NEW q \in Requests, ReserveUser(q)
        PROVE  LimiterStep
    <2>1. request[q].user \in Users
      BY <1>4, Waiting DEF ReserveUser, At, RequestSet
    <2> QED BY <1>4, <2>1
               DEF ReserveUser, LimiterStep, userLimiter!LimiterNext,
                   userLimiter!ReserveDenied
  <1>5. ASSUME NEW q \in Requests, ReleaseAddress(q)
        PROVE  LimiterStep
    <2>1. request[q].address \in Addresses
      BY <1>5, Waiting DEF ReleaseAddress, At, RequestSet
    <2> QED BY <1>5, <2>1 DEF ReleaseAddress, LimiterStep, addressLimiter!LimiterNext
  <1>6. ASSUME NEW q \in Requests, ReleaseUser(q)
        PROVE  LimiterStep
    <2>1. request[q].user \in Users
      BY <1>6, Waiting DEF ReleaseUser, At, RequestSet
    <2> QED BY <1>6, <2>1 DEF ReleaseUser, LimiterStep, userLimiter!LimiterNext
  <1>7. ASSUME NEW q \in Requests,
               Arrive(q) \/ Verify(q) \/ CreateSession(q) \/ CreateFails(q)
        PROVE  LimiterStep
    BY <1>7 DEF Arrive, Verify, CreateSession, CreateFails, LimiterStep
  <1>8. ASSUME NEW t \in Tokens, Access(t) \/ Logout(t)
        PROVE  LimiterStep
    BY <1>8 DEF Access, Logout, LimiterStep
  <1>9. CASE UNCHANGED vars
    BY <1>9 DEF vars, LimiterStep
  <1> QED BY <1>1, <1>2, <1>3, <1>4, <1>5, <1>6, <1>7, <1>8, <1>9 DEF Next

\* handler/auth.go drives each of its limiters as auth/ratelimit.go expects: every
\* step of a request, of any number of concurrent ones, is one call of a limiter or
\* leaves both alone; only a restart, which empties both, is not.
THEOREM LoginDrivesLimiters == Spec => [][Restart \/ LimiterStep]_vars
  <1>1. LoginTypeOK /\ [Next]_vars => [Restart \/ LimiterStep]_vars
    BY StepsAreLimiterSteps
  <1> QED BY <1>1, LoginTypeCorrect, PTL DEF Spec

\* Therefore the maps of both limiters stay within maxLimiterKeys under any traffic
\* of logins, and a full map always has a record that can be evicted, across
\* restarts as well: BoundedMap of the limiter alone carries over to the login.
THEOREM LoginLimitersBounded ==
    Spec => [](addressLimiter!BoundedMap /\ userLimiter!BoundedMap)
  <1>1. Init => addressLimiter!BoundedMap /\ userLimiter!BoundedMap
    BY AddressEmpty, UserEmpty DEF Init
  <1>2. LoginTypeOK /\ addressLimiter!BoundedMap /\ userLimiter!BoundedMap /\ [Next]_vars
          => (addressLimiter!BoundedMap /\ userLimiter!BoundedMap)'
    <2> SUFFICES ASSUME LoginTypeOK, addressLimiter!BoundedMap, userLimiter!BoundedMap,
                        [Next]_vars
                 PROVE  addressLimiter!BoundedMap' /\ userLimiter!BoundedMap'
      OBVIOUS
    <2>1. CASE Restart
      BY <2>1, AddressEmpty, UserEmpty DEF Restart
    <2>2. CASE LimiterStep
      <3>1. addressLimiter!LimiterTypeOK /\ userLimiter!LimiterTypeOK
        BY DEF LoginTypeOK
      <3> QED BY <2>2, <3>1, AddressStaysBounded, UserStaysBounded DEF LimiterStep
    <2> QED BY <2>1, <2>2, StepsAreLimiterSteps
  <1> QED BY <1>1, <1>2, LoginTypeCorrect, PTL DEF Spec
=============================================================================
