SPECIFICATION CallSpec
CONSTANTS
    Callers = {c1, c2}
    Providers = {openrouter}
    Modes = {direct, detailed}
    Models = {m1, m2}
    NoModel = NoModel
    RefreshTTL = 1
    MaxTime = 1
    DefaultModel = m0
    CappedModes = {direct}
    Thinking = {m1}
    Bare = {}
INVARIANTS
    LockIsHeld
    SoundIsNotDenied
PROPERTIES
    UsesSelector
    NoNeedlessFetch
    NoDenylistedPick
    SelectionIsKept
    WasteOnlyShrinks
    GetModelReturns
CHECK_DEADLOCK FALSE
