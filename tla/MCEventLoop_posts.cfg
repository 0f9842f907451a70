SPECIFICATION Spec
CONSTANTS
    Callers = {c1, c2}
    Tasks = {a, b}
    CallerKinds = {"promise", "run", "runPromised", "repeat", "cancel"}
    OwnerKinds = {"promise", "run", "runPromised", "repeat", "cancel"}
    MayThrow = TRUE
    Owners = {"spawned", "main"}
    Intervals = {0, 2}
    MaxTime = 1
    MaxEvents = 2
    MaxPromised = 1
    HandleSpan = 100
INVARIANTS
    TypeOK
    NoDeadSleep
    OnceOnly
SYMMETRY Alike
CHECK_DEADLOCK FALSE
