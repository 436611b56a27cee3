\* One reservation, two notifiers, a restart.
CONSTANTS
    Day = 2
    RemindDays = {7, 1}
    Resources = {r1}
    Instances = {}
    Ends <- MCEnds
    Times <- MCTimes
    NumNotifiers = 2
    RetainDays = 3
    MaxCrashes = 1
SPECIFICATION Spec
INVARIANTS
    TypeOK
    MarkedWasAccepted
    RepeatOnlyIfOwed
    UrgencyNeverDrops
