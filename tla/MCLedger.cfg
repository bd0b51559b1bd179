\* Two invoices, two workers, one review of each.
SPECIFICATION Spec
CONSTANTS
    v1 = v1
    o1 = o1
    s1 = s1
    Invoices = {i1, i2}
    Workers = {w1, w2}
    Vendors = {v1}
    Orders = {o1}
    Skus = {s1}
    References = {"A1", "A-1", "A-2", "H"}
    None = None
    WeakIdentity <- MCWeakIdentity
    OrderVendor <- MCOrderVendor
    Ceiling <- MCCeiling
    Authorised <- MCAuthorised
    Readings <- MCReadings
    History <- MCHistory
    MaxRevision = 2
SYMMETRY Symmetry
INVARIANTS
    TypeOK
    GuardNeverRefuses
    NoSimilarAcceptance
    ExplanationFollowsPolicy
PROPERTY
    KeepsAccounts
CHECK_DEADLOCK FALSE
