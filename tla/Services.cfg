SPECIFICATION ServicesSpec
CONSTANTS
    NULL = NULL
    Caller = {h1, b1, b2}
    Priority = {h1}
    Concurrency = 2
    MaxSpend = 1
    Debt = 1
    Yield = 1
    Readers = {r1, r2}
    MaxWal = 3
    ResetAt = 1
    PauseAt = 2
    HoldAt = 2
    DrainTicks = 3
    CoolTicks = 1
    SnapshotTicks = 1
    MaxErrors = 1
INVARIANTS
    RateKept
    NoOversleep
PROPERTIES
    EveryCallerServed
    HoldLifted
CHECK_DEADLOCK FALSE
