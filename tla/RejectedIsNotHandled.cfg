SPECIFICATION Spec
CONSTANTS
    Clients = {k1, x1}
    Limits = {1}
    Window = 1
    TicksPerSecond = 1
    MaxTracked = 2
    MaxTime = 1
    Requests = {r1, r2}
    Intruders = {x1}
    MaxBody = 2
INVARIANT
    RejectedIsNotHandled
CHECK_DEADLOCK FALSE
