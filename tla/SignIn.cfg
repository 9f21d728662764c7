CONSTANTS
    Dashboard = {d1}
    Partner = {p1}
    Token = {k1, k2}
    Link = {l1}
    Slot = {s1}
    Nobody = Nobody
    NoToken = NoToken
    NoLink = NoLink
SPECIFICATION Spec
INVARIANTS
    TypeOK
    LinkSpentOnce
    
    OutIsOut
    ActsAsShown
PROPERTIES
    NoEndlessWait
