CONSTANTS
    Workers = {w1, w2}
    Callers = {c1, c2}
    Tasks = {t1, t2, t3}
    Pools <- BothPools
    Nthreadmax = 2
    Nidlemax = 1
    None = None
SPECIFICATION FairSpec
INVARIANTS
    OnePlace
    NeverStranded
    Retired
PROPERTIES
    EveryTaskRuns
    ShutdownReturns
CHECK_DEADLOCK FALSE
