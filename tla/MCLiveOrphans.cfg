SPECIFICATION OperatorRestarts
CONSTANTS
    e1 = e1
    e2 = e2
    p1 = p1
    p2 = p2
    b1 = b1
    b2 = b2
    NoRow = NoRow
    NoWinner = NoWinner
    Profiles = {p1}
    Events = {e1}
    Buckets = {b1, b2}
    Legs <- OneLeg
    ProfileEvent <- OneProfile
    Shares = 1
    Stakes = {1}
    PayoutUnit = 2
    MaxOpenExposure = 3
    MaxEventExposure = 3
    MaxDailyLoss = 1
    MaxIntents = 1
    MaxFaults = 1
    MaxOperator = 0
PROPERTY
    OrphansResolvedOrReported
