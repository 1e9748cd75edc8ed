SPECIFICATION FairSpec
CONSTANTS
    ThreadNum = 1
    Producers = {p1}
    Tasks = {t1}
    NoTask = NoTask
    NoOne = NoOne
PROPERTIES
    ShutdownReturns
CHECK_DEADLOCK FALSE
