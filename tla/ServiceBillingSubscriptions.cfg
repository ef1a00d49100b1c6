CONSTANTS
    x1 = x1 x2 = x2 x3 = x3 s1 = s1 s2 = s2
    Workers = {w1, w2}
    Services = {x1}
    Subscribers = {s1}
    OwnerOf <- OneService
    Plans = {p1, p2}
    Terms <- BothTerms
    Kinds = {"activate", "assign", "change", "end"}
    Ops = {o1}
    Reasons = {r1}
    MaxMoney = 2
    Opening = {}
    MaxTime = 0
    MaxSubscriptions = 2
    MaxSwitches = 1
    None = None
SPECIFICATION Spec
INVARIANTS OneActive
PROPERTIES EligibleWhenBilled SoldAsOffered
