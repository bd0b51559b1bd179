SPECIFICATION Spec
CONSTANTS
    MaxRuns = 1
    MaxAttempts = 2
    MaxClaims = 2
INVARIANT ExplanationBeforeDecision
CHECK_DEADLOCK FALSE
