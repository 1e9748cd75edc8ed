SPECIFICATION FairSpec
CONSTANTS
    Items = {i1, i2}
    Spawners = {s1, s2}
    Waiters = {w1, w2}
    NoOne = NoOne
INVARIANTS
    CountIsExact
    NoLostWakeup
PROPERTIES
    WaitIsBarrier
    WaitReturns
