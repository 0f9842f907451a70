SPECIFICATION Spec
CONSTANTS
    Clients = {c1}
    MaxThreads = 1
    Tasks = {a, b}
    Throwing = {}
    None = none
PROPERTIES
    AcceptedTasksRun
\* The pool stops when every task is submitted and every worker has died.
CHECK_DEADLOCK FALSE
