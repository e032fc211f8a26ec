CONSTANTS
    Threads = {t1, t2}
    Keys = {k1}
    Replies = {r1}
    Inodes = {i1, i2, i3}
    None = None
SPECIFICATION FairSpec
INVARIANTS
    GenuineReads
    PublishedComplete
PROPERTY
    CacheableAgain
    ImplementsDiskCache
