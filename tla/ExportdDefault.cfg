CONSTANTS
    Threads = {t1}
    NoThread = NoThread
    Files = {f1}
    NoFile = NoFile
    NoCookie = NoCookie
    Granularity = 2
    Period = 5
    MaxNow = 9
SPECIFICATION Spec
SYMMETRY Symmetry
INVARIANT NothingHidden
