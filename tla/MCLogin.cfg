\* Racing logins over limiters and a store at their limits, and a restart.
CONSTANTS
    Addresses = {a1, a2}
    Users = {"alice", "nobody"}
    KnownUsers = {"alice"}
    Requests = {q1, q2}
    Tokens = {t1, t2}
    MaxAttempts = 1
    UserFactor = 2
    Window = 1
    MaxKeys = 2
    TTL = 1
    MaxSessions = 1
    MaxClock = 2
    MaxRestarts = 1
SYMMETRY Symmetry
SPECIFICATION Spec
INVARIANTS
    LoginTypeOK
    SessionsExact
    SessionsBounded
PROPERTY
    LockEndsByTimeOrLogin
