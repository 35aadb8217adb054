SPECIFICATION FairSpec
CONSTANTS
    e1 = e1
    e2 = e2
    b1 = b1
    b2 = b2
    g1 = g1
    g2 = g2
    a1 = a1
    NoWinner = NoWinner
    Wallets = {g1, a1}
    Active = {a1}
    Bracket = {g1}
    Events = {e1, e2}
    Buckets = {b1, b2}
    Legs <- TwoLegs
    GateAt <- OneGate
    StartingBalance = 6
    PayoutUnit = 2
    CapNum = 2
    CapDen = 3
    Tickets = {1, 4}
    Marks = {1}
    MaxClock = 4
    MaxTrades = 2
    MaxFaults = 1
INVARIANTS
    TypeOK
    EndsOnce
    ReadersAgree
    WithinMeans
    OneDecisionPerEvent
    OneTicketPerInstant
PROPERTIES
    ResolvedIsPaid
    InstantIsSwept
