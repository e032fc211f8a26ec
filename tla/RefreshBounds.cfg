CONSTANTS
    Callers = {c1}
    Tasks = {t1}
    MaxAge = 1
    Swr = 1
    PastSwr = 0
    StaleIfError = 2
    MaxDelay = 1
    Start = 10
    MaxNow = 15
    MaxVersion = 1
SPECIFICATION Spec
INVARIANTS
    SettledAnswers
    BoundedOnError
    NoCacheIsCurrent
