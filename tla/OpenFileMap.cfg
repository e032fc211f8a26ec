CONSTANTS
    Inos = {i1, i2}
    MaxOpen = 2
SPECIFICATION FairSpec
CHECK_DEADLOCK FALSE
INVARIANTS
    IteratorsPointBack
    RefcntExact
    OpenFilesWatched
PROPERTY
    EventuallyScanned
