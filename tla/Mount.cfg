CONSTANTS
    Callbacks = {t1, t2}
    UrlCounts = {1, 2}
    RetryTimeouts = {0, 7}
    Initial = 1
    Saturate = 2
    MinDefer = 3
    MaxDefer = 4
    Timeout = 5
    Entries = {1, 2, 3}
    Dots = {1}
    Bytes <- SumOfSizes
    ChunkSize = 2
    Specials = 3
    Room = 2
    MaxChanges = 1
INIT MCInit
NEXT MCNext
SYMMETRY Symmetric
INVARIANTS
    FallbackTypeOK
    BoundedWait
    NeverAbandoned
    ReaddirTypeOK
    StableOnce
    OffsetsMeanOnePlace
