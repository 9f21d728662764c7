\* One partner, two rewards; a worker run and an HTTP run of the job overlap.
CONSTANTS
    p1 = p1
    p2 = p2
    r1 = r1
    r2 = r2
    r3 = r3
    Partner = {p1}
    Reward = {r1, r2}
    Payout = {q1, q2, q3}
    Key = {k1}
    Runner = {cron, http}
    Worker = {cron}
    Owner <- MCOwner
    Scope <- MCScope
    HoldDays <- MCHoldDays
    MaxDay = 2
    NoKey = NoKey
    NoDate = NoDate
    NoPartner = NoPartner
SPECIFICATION Spec
SYMMETRY Symmetry
INVARIANTS
    TypeOK
    HeldLongEnough
    PaidRewardBacked
    SettledUnlessOverlap
    PendingBoundedByRunners
PROPERTY LedgerSpec
