SPECIFICATION FairSpec
CONSTANTS
    Invoices = {i1}
    Runs = {r1, r2}
    Workers = {w1}
    None = None
    MaxAttempts = 2
    RetryLimit = 1
    MaxRevision = 2
    MaxMessages = 1
PROPERTIES
    RunsEnd
    ImplementsInvoiceLife
CHECK_DEADLOCK FALSE
