CONSTANTS
    w1 = w1 w2 = w2 w3 = w3
    x1 = x1 s1 = s1
    Workers = {w1, w2, w3}
    Clerks = {w3}
    Subscribers = {s1}
    Services = {x1}
    Plans = {p1}
    Staff = {a, b}
    Operators = {a}
    OwnerOf <- OneService
    Transactions = {t1}
    Events = {e1}
    Ops = {o1}
    Names = {n1}
    RoleLists <- Asked
SPECIFICATION FairSpec
INVARIANT DeadlocksAmongRoleChanges
PROPERTY CallsEnd
