CONSTANTS
    x1 = x1 x2 = x2 x3 = x3 s1 = s1 s2 = s2
    Workers = {w1, w2}
    Services = {x1, x2, x3}
    Subscribers = {s1, s2}
    OwnerOf <- SharedWallet
    Plans = {p1}
    Terms <- BothTerms
    Kinds = {"activate_funded", "renew_funded"}
    Ops = {o1, o2}
    Reasons = {r1}
    MaxMoney = 2
    Opening = {2}
    MaxTime = 0
    MaxSubscriptions = 1
    MaxSwitches = 1
    None = None
SYMMETRY Interchangeable
SPECIFICATION Spec
INVARIANTS TypeOK WalletsAddUp ChargesBacked PeriodsPaid
PROPERTIES RefusalsTrue
