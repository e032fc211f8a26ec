CONSTANTS
    Self = Self
    Others = {x1, x2}
    SelfUrl = SelfUrl
    Urls = {u1, u2}
    Callers = {c1}
    Pool = {c1}
    None = None
SPECIFICATION FairSpec
INVARIANTS
    OneToOne
PROPERTIES
    RemovedWasBlamed
    EventuallyRouted
    ShutdownReturns
