SPECIFICATION PlainSpec
CONSTANTS
    MasterCalls <- PlainCalls
    Rules <- PlainRules
    CoroutineCnt = 3
    MaxBatch = 2
    Priorities = {0, 1}
    MaxPriority = 3
    Keys = {k1}
    PctValues = {0, 1}
    ReleaseMax = 1
    MaxCreate = 4
INVARIANTS
    NoAssertFails
    ResumeFindsRunnable
    SearchAgrees
    NothingLeftBehind
    ActivityCount
    LiveHasStack
    FreedHasNoLocals
PROPERTIES
    EveryCoroutineEnds
CHECK_DEADLOCK FALSE
