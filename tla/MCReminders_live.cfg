\* A reservation that is renewed and a GPU instance, announced by one goroutine,
\* the clock moving on and a restart, under fairness.
CONSTANTS
    Day = 2
    RemindDays = {7, 1}
    Resources = {r1}
    Instances = {i1}
    Ends <- LiveEnds
    Times <- LiveTimes
    NumNotifiers = 1
    RetainDays = 3
    MaxCrashes = 1
VIEW LiveView
SPECIFICATION FairSpec
PROPERTY
    NothingOutstandingForever
