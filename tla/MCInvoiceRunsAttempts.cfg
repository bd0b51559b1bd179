\* Attempts: one invoice, one retry or one review, the code's three attempts.
SPECIFICATION Spec
CONSTANTS
    Invoices = {i1}
    Runs = {r1, r2}
    Workers = {w1, w2}
    None = None
    MaxAttempts = 3
    RetryLimit = 1
    MaxRevision = 2
    MaxMessages = 1
SYMMETRY RunsAndWorkersSymmetry
INVARIANTS
    TypeOK
    RunsAreRecoverable
PROPERTIES
    EndedRunsStay
    StaleWorkersWriteNothing
CHECK_DEADLOCK FALSE
