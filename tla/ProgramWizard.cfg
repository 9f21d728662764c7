CONSTANTS
    Number <- MCNumber
    Bound = {0, 5}
    Sale = {0, 1, 200}
    MaxTiers = 2
    MaxFrom = 5
    NoName = NoName
    Brinde = Brinde
    Open = Open
    NoProgram = NoProgram
SPECIFICATION Spec
CHECK_DEADLOCK FALSE
INVARIANTS
    TypeOK
    
    GoalIsPromised
    AcceptedIffPublishable
