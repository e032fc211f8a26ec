CONSTANTS
    Modes <- AllModes
    Requests = {r1, r2}
    PipeCap = 1
SPECIFICATION ServerSpec
CHECK_DEADLOCK FALSE
INVARIANTS
    ServerTypeOK
    OneReply
    ValidUntilShutdown
PROPERTIES
    Answered
    ShutdownEnds
