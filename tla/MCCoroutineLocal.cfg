SPECIFICATION Spec
CONSTANTS
    MasterCalls <- PlainCalls
    Rules <- PlainRules
    CoroutineCnt = 2
    MaxBatch = 1
    Priorities = {0}
    MaxPriority = 3
    Keys = {k1}
    PctValues = {}
    ReleaseMax = 25
    MaxCreate = 3
INVARIANTS
    NoForeignLocal
CHECK_DEADLOCK FALSE
