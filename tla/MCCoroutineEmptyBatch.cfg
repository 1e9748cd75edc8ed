SPECIFICATION EventSpec
CONSTANTS
    MasterCalls <- EventCalls
    Rules <- AllButNonEmpty
    CoroutineCnt = 2
    MaxBatch = 1
    Priorities = {0}
    MaxPriority = 3
    Keys = {}
    PctValues = {}
    ReleaseMax = 25
    MaxCreate = 2
PROPERTIES
    BatchCompletes
CHECK_DEADLOCK FALSE
