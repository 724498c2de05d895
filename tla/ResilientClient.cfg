SPECIFICATION Spec
CONSTANTS
    Requests = {r1, r2, r3}
    NumProviders = 2
    MaxRetries = 1
    FailureThreshold = 2
    Cooldown = 2
    MaxTime = 3
INVARIANTS
    TrippedAtThreshold
    NoCallAdmittedWhileOpen
    OpenOnEvidence
    GaugeShowsTrips
    WalkInOrder
PROPERTIES
    EveryRequestEnds
    ProbeFailureReopens
CHECK_DEADLOCK FALSE
