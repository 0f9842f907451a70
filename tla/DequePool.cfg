SPECIFICATION Spec
CONSTANTS
    Threads = {t1, t2, t3}
    Elements = {a, b}
    Null = null
    MaxLen = 3
    Clients = {c1, c2}
    FixedWorkers = {w1, w2}
    Tasks = {a, b, c}
    Throwing = {a}
    Pill = pill
    Idle = idle
INVARIANTS
    TokensCountItems
    FixedEachTaskOnce
PROPERTIES
    BlockedPopServed
    ImplementsBlockingDeque
    QueuedBeforeShutdownRuns
    FixedShutdownEnds
\* Every thread may be blocked in pop with nobody left to add.
CHECK_DEADLOCK FALSE
