\* Two calls at a time, three requests, one consent and one lead.
CONSTANTS
    Request = {q1, q2, q3}
    Call = {c1, c2}
    Lead = {l1}
    Consent = {a1}
SPECIFICATION Spec
SYMMETRY Symmetry
CHECK_DEADLOCK FALSE
INVARIANTS
    TypeOK
    
    ErasureReachesUser
