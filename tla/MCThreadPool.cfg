SPECIFICATION FairSpec
CONSTANTS
    ThreadNum = 3
    Producers = {p1, p2}
    Tasks = {t1, t2}
    NoTask = NoTask
    NoOne = NoOne
INVARIANTS
    NoThreadOutlivesPool
    JoinedOnce
    SleepDecisionIsFresh
PROPERTIES
    ImplementsExecutor
    AddedIsStarted
CHECK_DEADLOCK FALSE
