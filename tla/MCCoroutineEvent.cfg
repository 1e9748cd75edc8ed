SPECIFICATION EventSpec
CONSTANTS
    MasterCalls <- EventCalls
    Rules <- AllRules
    CoroutineCnt = 4
    MaxBatch = 2
    Priorities = {0}
    MaxPriority = 3
    Keys = {}
    PctValues = {}
    ReleaseMax = 25
    MaxCreate = 5
INVARIANTS
    FinishListExact
    IInv
PROPERTIES
    BarrierHolds
    ImplementsForkJoin
    BatchCompletes
CHECK_DEADLOCK FALSE
