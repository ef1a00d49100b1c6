CONSTANTS
    w1 = w1 w2 = w2 s1 = s1 s2 = s2 t1 = t1
    Workers = {w1, w2}
    Subscribers = {s1}
    Transactions = {t1}
    Messages <- LooseEnds
    FakeCalls <- FakePayments
    Ops = {o1, o2}
    Reasons = {r1}
    MaxMoney = 1
    MaxCrashes = 0
    None = None
SYMMETRY Interchangeable
SPECIFICATION Spec
INVARIANTS InsertsAlone
PROPERTIES ResolutionsReplayed ImplementsBook ImplementsAccount
