CONSTANTS
    Modes <- PooledListeners
    Requests = {r1}
    PipeCap = 1
SPECIFICATION ServerSpec
CHECK_DEADLOCK FALSE
INVARIANTS
    ValidUntilReply
