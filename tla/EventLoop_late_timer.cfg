SPECIFICATION Spec
CONSTANTS
    Callers = {c1}
    Tasks = {a}
    CallerKinds = {"repeat"}
    OwnerKinds = {"promise"}
    MayThrow = FALSE
    Owners = {"main"}
    Intervals = {1}
    MaxTime = 3
    MaxEvents = 1
    MaxPromised = 1
    HandleSpan = 100
PROPERTY TimerFires
CHECK_DEADLOCK FALSE
