CONSTANTS
    x1 = x1 x2 = x2 x3 = x3 s1 = s1 s2 = s2
    Workers = {w1, w2}
    Services = {x1}
    Subscribers = {s1}
    OwnerOf <- OneService
    Plans = {p1}
    Terms <- ShortTerms
    Kinds = {"activate", "renew"}
    Ops = {o1, o2, o3}
    Reasons = {r1}
    MaxMoney = 2
    Opening = {}
    MaxTime = 3
    MaxSubscriptions = 1
    MaxSwitches = 1
    None = None
SYMMETRY Interchangeable
SPECIFICATION Spec
INVARIANTS PeriodsChained
PROPERTY ImplementsPaidTime
