-------------------------------- MODULE Login --------------------------------
(***************************************************************************)
(* The login, logout and session check of handler/auth.go, over the two    *)
(* limiters (by client address and by user name) and the session store of  *)
(* auth/session.go.  net/http runs every request in its own goroutine; the *)
(* limiters and the store lock for each call, so requests interleave       *)
(* between the calls, above all during the slow password check.            *)
(*                                                                         *)
(* A request with a foreign origin, a malformed body or empty credentials  *)
(* is answered before the limiters and changes nothing; it is left out, as *)
(* is everything when authentication is disabled.                          *)
(***************************************************************************)
EXTENDS Integers, FiniteSets

CONSTANTS
    Addresses,     \* client addresses, as clientIP reports them
    Users,         \* the user names that are tried
    KnownUsers,    \* those in the configuration
    Requests,      \* concurrent login requests
    Tokens,        \* session tokens; rand.Read never yields one twice
    MaxAttempts,   \* max_login_attempts
    UserFactor,    \* how much looser the limiter by user name is
    Window,        \* lockout_duration
    MaxKeys,       \* maxLimiterKeys
    TTL,           \* session_ttl
    MaxSessions,   \* maxSessions
    MaxClock,      \* bound on the clock
    MaxRestarts    \* bound on restarts

ASSUME UsersAssumption == KnownUsers \subseteq Users
ASSUME SessionAssumption == TTL \in Nat \ {0} /\ MaxSessions \in Nat
ASSUME LimitsAssumption ==
    /\ MaxAttempts \in Nat \ {0} /\ UserFactor \in Nat \ {0}
    /\ Window \in Nat \ {0} /\ MaxKeys \in Nat \ {0}
ASSUME LoginBoundsAssumption == MaxClock \in Nat \ {0} /\ MaxRestarts \in Nat

VARIABLES
    clock,
    byAddress,   \* loginLimiter
    byUser,      \* userLimiter
    sessions,    \* token -> session
    request,     \* login requests: where they stand and what they carry
    restarts,
    served,      \* the token with which the last step passed requireAuth
    issued,      \* history: token -> when a login obtained it, 0 for never
    ended        \* history: tokens logged out, or lost in a restart

vars == <<clock, byAddress, byUser, sessions, request, restarts, served,
          issued, ended>>

-----------------------------------------------------------------------------

addressLimiter ==
    INSTANCE LoginLimiter WITH LimiterKeys <- Addresses, attempts <- byAddress
userLimiter ==
    INSTANCE LoginLimiter WITH LimiterKeys <- Users, attempts <- byUser,
                               MaxAttempts <- UserFactor * MaxAttempts

NoToken == "none"
NoSession == [user |-> "none", expires |-> 0]
Steps == {"idle", "address", "user", "verify", "create", "release_address",
          "release_user"}
Idle == [pc |-> "idle", address |-> "none", user |-> "none", correct |-> FALSE]

LoginTypeOK ==
    /\ clock \in 1..MaxClock
    /\ addressLimiter!LimiterTypeOK
    /\ userLimiter!LimiterTypeOK
    /\ sessions \in [Tokens -> [user : KnownUsers, expires : Nat] \cup {NoSession}]
    /\ request \in [Requests -> [pc : Steps, address : Addresses, user : Users,
                                 correct : BOOLEAN] \cup {Idle}]
    /\ restarts \in 0..MaxRestarts
    /\ served \in Tokens \cup {NoToken}
    /\ issued \in [Tokens -> 0..MaxClock]
    /\ ended \subseteq Tokens

Init ==
    /\ clock = 1
    /\ byAddress = [a \in Addresses |-> addressLimiter!NoRecord]
    /\ byUser = [u \in Users |-> userLimiter!NoRecord]
    /\ sessions = [t \in Tokens |-> NoSession]
    /\ request = [q \in Requests |-> Idle]
    /\ restarts = 0
    /\ served = NoToken
    /\ issued = [t \in Tokens |-> 0]
    /\ ended = {}

-----------------------------------------------------------------------------

Tick ==
    /\ clock < MaxClock
    /\ clock' = clock + 1
    /\ served' = NoToken
    /\ UNCHANGED <<byAddress, byUser, sessions, request, restarts, issued, ended>>

\* Limiters and sessions live in memory only.
Restart ==
    /\ restarts < MaxRestarts
    /\ restarts' = restarts + 1
    /\ byAddress' = [a \in Addresses |-> addressLimiter!NoRecord]
    /\ byUser' = [u \in Users |-> userLimiter!NoRecord]
    /\ sessions' = [t \in Tokens |-> NoSession]
    /\ request' = [q \in Requests |-> Idle]
    /\ served' = NoToken
    /\ ended' = ended \cup {t \in Tokens : issued[t] # 0}
    /\ UNCHANGED <<clock, issued>>

-----------------------------------------------------------------------------
(* POST /api/login, one step per call.                                     *)

At(q, pc) == request[q].pc = pc
Goto(q, pc) == request' = [request EXCEPT ![q].pc = pc]
Answered(q) == request' = [request EXCEPT ![q] = Idle]

\* Only a configured name has a password that is right.
Arrive(q) ==
    /\ At(q, "idle")
    /\ \E a \in Addresses, u \in Users, c \in BOOLEAN :
          /\ c => u \in KnownUsers
          /\ request' = [request EXCEPT ![q] = [pc |-> "address", address |-> a,
                                                user |-> u, correct |-> c]]
    /\ served' = NoToken
    /\ UNCHANGED <<clock, byAddress, byUser, sessions, restarts, issued, ended>>

\* Counted by address; 429 when refused.
ReserveAddress(q) ==
    LET a == request[q].address IN
    /\ At(q, "address")
    /\ \/ addressLimiter!ReserveAllowed(a) /\ Goto(q, "user")
       \/ addressLimiter!ReserveDenied(a) /\ Answered(q)
    /\ served' = NoToken
    /\ UNCHANGED <<clock, byUser, sessions, restarts, issued, ended>>

\* Counted by user name; 429 when refused, and the address stays counted.
ReserveUser(q) ==
    LET u == request[q].user IN
    /\ At(q, "user")
    /\ \/ userLimiter!ReserveAllowed(u) /\ Goto(q, "verify")
       \/ userLimiter!ReserveDenied(u) /\ Answered(q)
    /\ served' = NoToken
    /\ UNCHANGED <<clock, byAddress, sessions, restarts, issued, ended>>

\* Mutants: an unknown user is let in; a wrong password releases the address
\* as well.
MutantVerifyUnknown(q) ==
    /\ At(q, "verify")
    /\ IF request[q].correct \/ request[q].user \notin KnownUsers
       THEN Goto(q, "create")
       ELSE Answered(q)
    /\ served' = NoToken
    /\ UNCHANGED <<clock, byAddress, byUser, sessions, restarts, issued, ended>>
MutantVerify(q) ==
    /\ At(q, "verify")
    /\ Goto(q, IF request[q].user \in KnownUsers /\ request[q].correct
               THEN "create" ELSE "release_address")
    /\ served' = NoToken
    /\ UNCHANGED <<clock, byAddress, byUser, sessions, restarts, issued, ended>>

\* The password check; 401 for a wrong one and for an unknown user alike.
Verify(q) ==
    /\ At(q, "verify")
    /\ IF request[q].user \in KnownUsers /\ request[q].correct
       THEN Goto(q, "create")
       ELSE Answered(q)
    /\ served' = NoToken
    /\ UNCHANGED <<clock, byAddress, byUser, sessions, restarts, issued, ended>>

Alive(s) == clock < s.expires

\* pruneLocked: expired sessions make room.
Pruned == [t \in Tokens |-> IF Alive(sessions[t]) THEN sessions[t] ELSE NoSession]
Open(ss) == {t \in Tokens : ss[t] # NoSession}

\* Mutant: the limit is not enforced.
MutantRoom == TRUE

Room == Cardinality(Open(Pruned)) < MaxSessions

CreateSession(q) ==
    /\ At(q, "create")
    /\ Room
    /\ \E t \in Tokens :
          /\ issued[t] = 0
          /\ issued' = [issued EXCEPT ![t] = clock]
          /\ sessions' = [Pruned EXCEPT ![t] = [user    |-> request[q].user,
                                                expires |-> clock + TTL]]
    /\ Goto(q, "release_address")
    /\ served' = NoToken
    /\ UNCHANGED <<clock, byAddress, byUser, restarts, ended>>

\* The store is full, or rand.Read fails: 500, and the attempts stay counted.
CreateFails(q) ==
    /\ At(q, "create")
    /\ \/ ~Room /\ sessions' = Pruned
       \/ UNCHANGED sessions
    /\ Answered(q)
    /\ served' = NoToken
    /\ UNCHANGED <<clock, byAddress, byUser, restarts, issued, ended>>

ReleaseAddress(q) ==
    /\ At(q, "release_address")
    /\ addressLimiter!Succeed(request[q].address)
    /\ Goto(q, "release_user")
    /\ served' = NoToken
    /\ UNCHANGED <<clock, byUser, sessions, restarts, issued, ended>>

\* The cookie is set and the request answered.
ReleaseUser(q) ==
    /\ At(q, "release_user")
    /\ userLimiter!Succeed(request[q].user)
    /\ Answered(q)
    /\ served' = NoToken
    /\ UNCHANGED <<clock, byAddress, sessions, restarts, issued, ended>>

-----------------------------------------------------------------------------
(* Requests that carry a cookie: any token ever issued may come back.      *)

\* requireAuth, requireAuthPage, me: Get drops an expired session.
Access(t) ==
    /\ issued[t] # 0
    /\ IF Alive(sessions[t])
       THEN served' = t /\ UNCHANGED sessions
       ELSE served' = NoToken /\ sessions' = [sessions EXCEPT ![t] = NoSession]
    /\ UNCHANGED <<clock, byAddress, byUser, request, restarts, issued, ended>>

\* Mutant: only the cookie is cleared.
MutantLogout(t) ==
    /\ issued[t] # 0
    /\ ended' = ended \cup {t}
    /\ served' = NoToken
    /\ UNCHANGED <<clock, byAddress, byUser, sessions, request, restarts, issued>>

Logout(t) ==
    /\ issued[t] # 0
    /\ sessions' = [sessions EXCEPT ![t] = NoSession]
    /\ ended' = ended \cup {t}
    /\ served' = NoToken
    /\ UNCHANGED <<clock, byAddress, byUser, request, restarts, issued>>

-----------------------------------------------------------------------------

Next ==
    \/ Tick
    \/ Restart
    \/ \E q \in Requests :
          \/ Arrive(q) \/ ReserveAddress(q) \/ ReserveUser(q) \/ Verify(q)
          \/ CreateSession(q) \/ CreateFails(q)
          \/ ReleaseAddress(q) \/ ReleaseUser(q)
    \/ \E t \in Tokens : Access(t) \/ Logout(t)

Spec == Init /\ [][Next]_vars

-----------------------------------------------------------------------------
(* Properties.                                                             *)

\* A lockout ends before its time only because a request from the locked
\* address was let in before and has meanwhile proved the right password; no
\* wrong password, refused request or flood of other addresses lifts it.
LockEndsByTimeOrLogin ==
    [][\A a \in Addresses :
          (/\ addressLimiter!Locked(a)
           /\ byAddress'[a].lockedUntil # byAddress[a].lockedUntil
           /\ restarts' = restarts)
          => \E q \in Requests : /\ At(q, "release_address")
                                 /\ request[q].address = a
                                 /\ request[q].correct
                                 /\ request[q].user \in KnownUsers]_vars

\* A session admits exactly as long as it should.  A request passes requireAuth
\* only with a token that a login of this process obtained less than the
\* session lifetime ago and nobody has logged out; and neither the pruning, nor
\* a store at its limit, nor a race of logins ends a session before that.
SessionsExact ==
    /\ served # NoToken =>
          /\ served \notin ended
          /\ issued[served] # 0
          /\ clock < issued[served] + TTL
    /\ \A t \in Tokens :
          (issued[t] # 0 /\ t \notin ended /\ clock < issued[t] + TTL)
              => sessions[t] # NoSession

\* The store never outgrows maxSessions, whatever logins race.
SessionsBounded == Cardinality(Open(sessions)) <= MaxSessions

=============================================================================
