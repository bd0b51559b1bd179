\* Room for two documents, three contents, three uploads at a time.
SPECIFICATION Spec
CONSTANTS
    Documents = {d1, d2, d3}
    Digests = {c1, c2, c3}
    Requests = {q1, q2, q3}
    None = None
    Limit = 2
    GlobalQuota = 5
    WorkspaceQuota = 4
SYMMETRY ReferencesSymmetry
INVARIANTS
    TypeOK
    WithinLimit
    OneRowPerDigest
    SavedIsStored
    QuotasAgree
CHECK_DEADLOCK FALSE
