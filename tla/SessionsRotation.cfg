\* Two sign-ins, four tokens and two requests at a time.
CONSTANTS
    Session = {s1, s2}
    Token = {t1, t2, t3, t4}
    Request = {c1, c2}
    NoSession = NoSession
    NoToken = NoToken
SPECIFICATION Spec
SYMMETRY Symmetry
INVARIANTS
    TypeOK
    OneLiveToken
    BoundTokenFollowsSession
    StolenIsDead
PROPERTIES
    NoResurrection
    LedgerSpec
