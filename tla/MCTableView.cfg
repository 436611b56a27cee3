\* Every list, order, filter and moment.
CONSTANTS
    Day = 2
    Lists <- MCLists
    GPULists <- MCGPULists
    Types <- MCTypes
    Words <- MCWords
    Start = 10
    End = 12
SPECIFICATION ViewSpec
INVARIANTS
    ViewTypeOK
    OrderShown
    DayCountsAgree
