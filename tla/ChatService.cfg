SPECIFICATION Spec
CONSTANTS
    Requests = {r1, r2}
    Prompts = {p1, s1}
    Modes = {direct}
    Models = {m1, m2}
    NoModel = NoModel
    AllowedModels = {m1}
    SensitivePrompts = {s1}
    ScopeEnabled = TRUE
    CacheEnabled = TRUE
    Faults = {"commit", "refresh", "crash"}
INVARIANTS
    PromptStoredBeforeLLM
    ReplyAgreesWithRow
    AnswerMatchesQuestion
    SensitivePromptStaysHere
    CachedAnswersWereGiven
PROPERTIES
    ImplementsLifecycle
    EveryRequestIsAnswered
CHECK_DEADLOCK FALSE
