\* Two members end with one address.
SPECIFICATION Spec
CONSTANTS
    Members = {m0, m1, m2}
    Owner = m0
    Invitations = {v1, v2, v3}
    Emails = {e0, e1, e2}
    OwnerEmail = e0
    Requests = {q1, q2}
    None = None
    Limit = 3
SYMMETRY TeamSymmetry
INVARIANT ActiveEmailsDistinct
CHECK_DEADLOCK FALSE
