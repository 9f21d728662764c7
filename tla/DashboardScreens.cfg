CONSTANTS
    Row = {r1, r2}
    Call = {c1, c2}
    LeadStatus = {"new", "closed"}
    MaxMoves = 1
    NoRow = NoRow
    NotYet = NotYet
    Lost = Lost
SPECIFICATION Spec
SYMMETRY Symmetry
CHECK_DEADLOCK FALSE
INVARIANTS
    TypeOK
    NeverAhead
    
    NoStuckControls
    
PROPERTIES
    BackOnlyOnOverlap
    AppliedAsShown
