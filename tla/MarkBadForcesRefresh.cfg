SPECIFICATION Spec
CONSTANTS
    Callers = {c1, c2}
    Providers = {openrouter}
    Modes = {direct}
    Models = {m1, m2}
    NoModel = NoModel
    RefreshTTL = 2
    MaxTime = 3
INVARIANT
    MarkBadForcesRefresh
SYMMETRY Symmetry
