\* Two of three workspaces are created; two uploads each, three uploads a day, three requests at a time.
SPECIFICATION Spec
CONSTANTS
    Workspaces = {w1, w2, w3}
    Invoices = {i1, i2, i3, i4}
    Documents = {d1, d2, d3}
    Requests = {q1, q2, q3}
    None = None
    SessionUploads = 2
    GlobalUploads = 3
    SessionQuota = 2
SYMMETRY IntakeSymmetry
INVARIANTS
    TypeOK
    OneInvoicePerDocument
    CountersAgree
    SubmittedIsStored
CHECK_DEADLOCK FALSE
