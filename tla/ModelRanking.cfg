SPECIFICATION Spec
CONSTANTS
    Catalogs <- MCCatalogs
    Caps = {0, 256, 1024}
INVARIANT
    MeetsContract
PROPERTY
    ChoiceIsSteady
CHECK_DEADLOCK FALSE
