SPECIFICATION Spec
CONSTANTS
    Address <- MCAddress
    a = a
    b = b
    owed = owed
    Asked <- MCAsked
    Funds = 3
    Client = {user, c1, c2}
    User = user
    QuoteID = {1, 2, 3}
    Lifetime = 1
    Capacity = 2
    MaxTx = 3
    MaxTime = 2
    Payout = 1
    Hour = 2
    Limit = 2
    Nobody = nobody
SYMMETRY MCSymmetry
INVARIANTS
    PaidOncePerHour
    PayoutLimit
PROPERTIES
    CheckedHoldsWhenMined
