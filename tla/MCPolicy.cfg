\* Seventeen documents, three revisions, three other invoices.
SPECIFICATION Spec
CONSTANTS
    v1 = v1
    v2 = v2
    o1 = o1
    o2 = o2
    o3 = o3
    s1 = s1
    s2 = s2
    None = None
    Bad = Bad
    Other = Other
    Vendors = {v1, v2}
    Orders = {o1, o2, o3}
    Skus = {s1, s2}
    References = {"A1", "A-1", "B2"}
    Texts = {"Acme", "Acme Tools", "Old", "Drill", "Cable", "Cord", "each", "box", "USD", "EUR"}
    VendorBook <- MCVendorBook
    OrderBook <- MCOrderBook
    Weak <- MCWeak
    Documents <- MCDocuments
    Requests <- MCRequests
    OtherInvoices <- MCOtherInvoices
    MaxRevision = 3
INVARIANTS
    TypeOK
    GoodsAreAuthorised
    ProgressTellsOutcome
    RowGivesReason
CHECK_DEADLOCK FALSE
