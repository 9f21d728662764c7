\* A partner without a key, and the worker that reads the keys of all.
CONSTANTS
    p1 = p1
    p2 = p2
    r1 = r1
    r2 = r2
    r3 = r3
    Partner = {p1, p2}
    Reward = {r1, r3}
    Payout = {q1}
    Key = {k1}
    Runner = {cron}
    Worker = {cron}
    Owner <- MCOwner
    Scope <- MCScope
    HoldDays <- MCHoldDays
    MaxDay = 1
    NoKey = NoKey
    NoDate = NoDate
    NoPartner = NoPartner
SPECIFICATION FairSpec
PROPERTY EligibleServedIfOwnerKeyed
