SPECIFICATION Spec
CONSTANTS
    Clients = {c1, c2}
    MaxThreads = 2
    Tasks = {a, b, c}
    Throwing = {a}
    None = none
INVARIANTS
    AssignmentAnnounced
    EachTaskOnce
PROPERTIES
    AssignedTaskRuns
    ShutdownEnds
\* The pool stops when every task is submitted and every worker has died.
CHECK_DEADLOCK FALSE
