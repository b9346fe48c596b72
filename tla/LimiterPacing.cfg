SPECIFICATION FairSpec
CONSTANTS
    Callers = {c1, c2, c3}
    MaxWorkers = 2
    MinInterval = 2
    MaxRetries = 2
    BackoffBase = 1
    BackoffMax = 2
    Resets = {0, 1, 3}
INVARIANTS
    TypeOK
    ConcurrencyBounded
    PauseHolds
PROPERTIES
    SpacingKept
    CallEnds
