SPECIFICATION Spec
CONSTANTS
    Requests = {r1, r2}
    Prompts = {p1, s1}
    Modes = {direct}
    Models = {m1}
    NoModel = NoModel
    AllowedModels = {m1}
    SensitivePrompts = {s1}
    ScopeEnabled = TRUE
    CacheEnabled = TRUE
    Faults = {}
INVARIANT
    AnsweredIsSettled
CHECK_DEADLOCK FALSE
