SPECIFICATION SpecWithOperator
CONSTANTS
    e1 = e1
    e2 = e2
    b1 = b1
    b2 = b2
    g1 = g1
    g2 = g2
    a1 = a1
    NoWinner = NoWinner
    Wallets = {g1, g2, a1}
    Active = {a1}
    Bracket = {}
    Events = {e1}
    Buckets = {b1, b2}
    Legs <- OneLeg
    GateAt <- TwoGates
    StartingBalance = 6
    PayoutUnit = 2
    CapNum = 2
    CapDen = 3
    Tickets = {1, 4}
    Marks = {1}
    MaxClock = 4
    MaxTrades = 2
    MaxFaults = 0
    MaxCommands = 0
    MaxEdits = 1
INVARIANT
    OneTicketPerInstant
