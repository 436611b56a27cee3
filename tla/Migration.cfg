\* Two resources, two dates, three crashes.
CONSTANTS
    Ids = {r1, r2}
    Levels = {l7}
    Ends = {1, 2}
    MaxCrashes = 3
SPECIFICATION FairSpec
INVARIANTS
    MigrationTypeOK
    ServesMigrated
PROPERTIES
    ImplementsLog
    ServesAgain
