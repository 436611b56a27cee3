---------------------------- MODULE LimiterWindow ----------------------------
(***************************************************************************)
(* LoginLimiter with a history variable: the attempts each key was allowed *)
(* during the last window, forgotten when the key succeeds or is evicted   *)
(* from a full map.  An attempt is its time and a number that tells it     *)
(* from others of the same time.                                           *)
(***************************************************************************)
EXTENDS LoginLimiter

CONSTANTS MaxClock   \* bound on the clock

ASSUME MaxClockAssumption == MaxClock \in Nat

VARIABLES granted

windowVars == <<clock, attempts, granted>>

WindowInit == LimiterInit /\ granted = [k \in LimiterKeys |-> {}]

\* Attempts that have left the window are dropped.
Tick ==
    /\ clock < MaxClock
    /\ clock' = clock + 1
    /\ granted' = [k \in LimiterKeys |-> {g \in granted[k] : g.time > clock + 1 - Window}]
    /\ UNCHANGED attempts

Forget(E) == [k \in LimiterKeys |-> IF k \in E THEN {} ELSE granted[k]]

\* The attempt that k is allowed now, beside those in G.
Grant(G) == [time |-> clock, number |-> Cardinality(G)]

Allowed(k) ==
    \E E \in Evictions :
        /\ Allow(k, E)
        /\ granted' = [Forget(E) EXCEPT ![k] = @ \cup {Grant(@)}]
        /\ UNCHANGED clock

Denied(k) ==
    \E E \in Evictions :
        /\ LockOut(k, E) \/ Refuse(k, E)
        /\ granted' = Forget(E)
        /\ UNCHANGED clock

Succeeded(k) ==
    /\ Succeed(k)
    /\ granted' = [granted EXCEPT ![k] = {}]
    /\ UNCHANGED clock

WindowNext ==
    \/ Tick
    \/ \E k \in LimiterKeys : Allowed(k)
    \/ \E k \in LimiterKeys : Denied(k)
    \/ \E k \in LimiterKeys : Succeeded(k)

WindowSpec == WindowInit /\ [][WindowNext]_windowVars

-----------------------------------------------------------------------------

\* No key is allowed more than l.max attempts within any period of l.window,
\* across lockouts, expiries and the dropping of stale records; only its own
\* success or its eviction from a full map gives it new attempts.
AtMostMaxPerWindow ==
    \A k \in LimiterKeys : Cardinality(granted[k]) <= MaxAttempts

=============================================================================
