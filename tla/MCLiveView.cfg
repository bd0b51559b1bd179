SPECIFICATION Spec
CONSTANTS
    MaxRuns = 2
    MaxAttempts = 2
    MaxClaims = 2
INVARIANTS
    TypeOK
    EndedViewIsComplete
CHECK_DEADLOCK FALSE
PROPERTIES
    ViewsSettle
    EventsArrive
