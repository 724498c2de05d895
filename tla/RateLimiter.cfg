SPECIFICATION LimiterSpec
CONSTANTS
    Clients = {k1, k2, k3}
    Limits = {0, 2}
    Window = 3
    TicksPerSecond = 2
    MaxTracked = 2
    MaxTime = 6
SYMMETRY Symmetry
INVARIANTS
    NoBurstBeyondLimit
    MemoryIsBounded
    RetryAfterIsEnough
PROPERTIES
    ImplementsSlidingWindow
CHECK_DEADLOCK FALSE
