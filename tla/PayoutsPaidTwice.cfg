\* The job never overlaps with itself; a reward is claimed again while its payout is being paid.
CONSTANTS
    p1 = p1
    p2 = p2
    r1 = r1
    r2 = r2
    r3 = r3
    Partner = {p1}
    Reward = {r1}
    Payout = {q1, q2}
    Key = {k1}
    Runner = {cron}
    Worker = {cron}
    Owner <- MCOwner
    Scope <- MCScope
    HoldDays <- MCHoldDays
    MaxDay = 1
    NoKey = NoKey
    NoDate = NoDate
    NoPartner = NoPartner
SPECIFICATION Spec
INVARIANT RewardPaidOnce
