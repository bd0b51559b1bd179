\* Revisions: three runs of one invoice in any order of retries and reviews.
SPECIFICATION Spec
CONSTANTS
    Invoices = {i1}
    Runs = {r1, r2, r3}
    Workers = {w1, w2}
    None = None
    MaxAttempts = 1
    RetryLimit = 2
    MaxRevision = 3
    MaxMessages = 1
SYMMETRY RunsAndWorkersSymmetry
INVARIANTS
    ActiveRunIsCurrent
    OneDecisionPerRevision
    WorkflowOnDecidedInvoice
    CommittedExactlyWhenApproved
PROPERTIES
    ClosedInvoicesStay
    LifeSafety
CHECK_DEADLOCK FALSE
