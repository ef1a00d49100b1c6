CONSTANTS
    x1 = x1 x2 = x2 x3 = x3 s1 = s1 s2 = s2
    Workers = {w1, w2}
    Services = {x1}
    Subscribers = {s1}
    OwnerOf <- OneService
    Plans = {p1}
    Terms <- ShortTerms
    Kinds = {"activate_funded"}
    Ops = {o1}
    Reasons = {r1}
    MaxMoney = 1
    Opening = {1}
    MaxTime = 0
    MaxSubscriptions = 1
    MaxSwitches = 0
    None = None
SPECIFICATION Spec
PROPERTIES ConflictsTrue
