SPECIFICATION Spec
CONSTANTS
    Callers = {c1}
    Tasks = {a, b}
    CallerKinds = {"promise", "run", "runPromised"}
    OwnerKinds = {"promise", "run", "runPromised", "repeat", "cancel"}
    MayThrow = FALSE
    Owners = {"spawned", "main"}
    Intervals = {1}
    MaxTime = 2
    MaxEvents = 2
    MaxPromised = 1
    HandleSpan = 100
INVARIANT NothingLost
PROPERTIES
    AcceptedRuns
    TimerFires
    CancelIsFinal
CHECK_DEADLOCK FALSE
