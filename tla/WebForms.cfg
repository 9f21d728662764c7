CONSTANTS
    Phone = {p1}
    Program = {n1}
    Invitee = {i1, i2}
    Contactless = {i2}
    PixKey = {k1, k2}
    MaxSubmits = 2
    MaxVisits = 2
    MaxPct = 2
    Blank = Blank
    NoSplit = NoSplit
SPECIFICATION Spec
CHECK_DEADLOCK FALSE
INVARIANTS
    TypeOK
    NoSilentTwin
    
    
    AnnouncedKeyStands
PROPERTIES
    TakenAwayOnlyAfterLeaving
    SubmissionEnds
