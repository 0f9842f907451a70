SPECIFICATION Spec
CONSTANTS
    MaxThreads = 1
    Foreign = {f}
    MaxSends = 2
INVARIANTS
    RegistryExact
    NoLostWakeup
PROPERTY InOrder
\* Every thread may sleep in readMessage with nobody left to send.
CHECK_DEADLOCK FALSE
