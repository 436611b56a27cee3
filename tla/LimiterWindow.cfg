\* More keys than the map holds, two attempts, a window of two ticks.
CONSTANTS
    LimiterKeys = {a, b, c, d}
    MaxAttempts = 2
    Window = 2
    MaxKeys = 3
    MaxClock = 6
SPECIFICATION WindowSpec
INVARIANTS
    LimiterTypeOK
    BoundedMap
    AtMostMaxPerWindow
PROPERTY
    LockStands
