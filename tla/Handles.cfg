SPECIFICATION Spec
CONSTANTS
    Threads = {t1, t2, t3}
    Value = 2
    MaxCount = 3
    NoThread = none
    MaxDepth = 3
    Nobody = nobody
    MaxGen = 3
INVARIANTS
    TypeOK
    TokensLoseNoWakeup
    MutexLosesNoWakeup
    ConditionLosesNoWakeup
    SignalIsNotSwallowed
PROPERTIES
    ImplementsTokenCounter
    ImplementsRecursiveLock
    ImplementsMonitor
\* Every thread may be asleep with nobody left to release or to signal.
CHECK_DEADLOCK FALSE
