\* A page, a click and a second one; probes at 1, 3, 5, ... ticks.
CONSTANTS
    MaxClicks = 2
    FirstDelay = 1
    Interval = 2
    Cap = 4
    MaxErrs = 2
SPECIFICATION FairSpec
INVARIANTS
    PollTypeOK
    SpinnerBacked
    OneLoopUnlessOverlap
PROPERTIES
    SpinnerStops
    OutcomeShown
