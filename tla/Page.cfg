\* Two tables, two loads in flight at a time, a message of one tick.
CONSTANTS
    Tables = {"reservations", "gpu_coverage"}
    Paths = {"/", "/deep"}
    Home = "/"
    MsgLife = 1
    MaxVersion = 2
    MaxCalls = 2
SPECIFICATION Spec
INVARIANTS
    PageTypeOK
    ImportShown
    OneRedirect
    NothingStuck
PROPERTIES
    RegressOnlyIfConcurrent
    MessageStays
    ReturnsWhereTheyWere
