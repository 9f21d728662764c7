\* One sign-in, one rotation, one revocation.
CONSTANTS
    Session = {s1}
    Token = {t1, t2}
    Request = {c1}
    NoSession = NoSession
    NoToken = NoToken
SPECIFICATION Spec
INVARIANT RevokedSessionIsDead
