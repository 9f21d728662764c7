\* One erasure, with one lead that carries the user's address.
CONSTANTS
    Request = {q1}
    Call = {c1}
    Lead = {l1}
    Consent = {a1}
SPECIFICATION Spec
CHECK_DEADLOCK FALSE
INVARIANT ErasureReachesLeads
