CONSTANTS
    Workers = {w1, w2}
    Subscribers = {s1, s2}
    Ops = {o1, o2, o3}
    Reasons = {r1}
    Amounts = {1}
    MaxMoney = 2
    None = None
SYMMETRY Interchangeable
SPECIFICATION Spec
INVARIANTS TypeOK LedgerChain ReversalsSound LatestIsFresh DefencesIdle AnswersTrue
PROPERTIES RetriesReplayed RefusedAtLimit ImplementsAccount
