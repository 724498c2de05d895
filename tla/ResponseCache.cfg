SPECIFICATION Spec
CONSTANTS
    Keys = {k1, k2, k3}
    Answers = {a1, a2}
    Nothing = Nothing
    MaxEntries = 2
    TTL = 2
    MaxTime = 4
    MaxPuts = 4
INVARIANTS
    WithinCapacity
    AnswersAreFresh
PROPERTIES
    LostOnlyToEviction
    ImplementsAnswerCache
SYMMETRY Symmetry
