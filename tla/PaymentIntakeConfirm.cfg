CONSTANTS
    w1 = w1 w2 = w2 s1 = s1 s2 = s2 t1 = t1
    Workers = {w1, w2}
    Subscribers = {s1, s2}
    Transactions = {t1}
    Messages <- ChangingPayload
    FakeCalls <- NoCalls
    Ops = {o1}
    Reasons = {r1}
    MaxMoney = 1
    MaxCrashes = 1
    None = None
SPECIFICATION FairSpec
INVARIANTS TypeOK PaymentsAccounted EvidenceMatches
PROPERTIES AcksEarned RetriesEnd
