SPECIFICATION Spec
CONSTANTS
    Rows = {r1, r2, r3, r4}
    Walkers = {w1}
    Limit = 2
INVARIANTS
    PageAsPromised
    WalkMissesNothing
SYMMETRY Symmetry
CHECK_DEADLOCK FALSE
