CONSTANTS
    Fds = {f1, f2}
    Pages = {1}
    MaxVersion = 2
    Scanner = Scanner
    Detached = Detached
SPECIFICATION FairSpec
INVARIANTS
    StalePagesDoomed
    SettledReads
PROPERTIES
    StalePagesDropped
