SPECIFICATION Spec
CONSTANTS
    ThreadNum = 1
    Producers = {p1}
    Tasks = {t1, t2}
    NoTask = NoTask
    NoOne = NoOne
INVARIANTS
    DrainsBeforeExit
CHECK_DEADLOCK FALSE
