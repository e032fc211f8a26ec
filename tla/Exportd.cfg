CONSTANTS
    Threads = {t1, t2}
    NoThread = NoThread
    Files = {f1, f2}
    NoFile = NoFile
    NoCookie = NoCookie
    Granularity = 1
    Period = 2
    MaxNow = 4
SPECIFICATION Spec
SYMMETRY Symmetry
INVARIANTS
    NothingHidden
    OneCookie
    Monotonic
