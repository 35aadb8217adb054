SPECIFICATION Spec
CONSTANTS
    e1 = e1
    e2 = e2
    p1 = p1
    p2 = p2
    b1 = b1
    b2 = b2
    NoRow = NoRow
    NoWinner = NoWinner
    Profiles = {p1, p2}
    Events = {e1, e2}
    Buckets = {b1, b2}
    Legs <- TwoEvents
    ProfileEvent <- TwoProfiles
    Shares = 1
    Stakes = {1}
    PayoutUnit = 2
    MaxOpenExposure = 1
    MaxEventExposure = 1
    MaxDailyLoss = 1
    MaxIntents = 2
    MaxFaults = 0
    MaxOperator = 0
INVARIANT
    WorstCaseDayLoss
