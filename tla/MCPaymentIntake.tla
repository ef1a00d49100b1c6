-------------------------- MODULE MCPaymentIntake ---------------------------
(* Small instances of PaymentIntake for TLC.                               *)
EXTENDS PaymentIntake, TLC

CONSTANTS w1, w2, s1, s2, t1

(* A payment of one subscriber; the same transaction with another account, *)
(* with an unknown one, and with an amount that cannot be used.            *)
Paid == [tx |-> t1, amount |-> 1, account |-> s1]
Changed == [tx |-> t1, amount |-> 1, account |-> s2]
Unknown == [tx |-> t1, amount |-> 1, account |-> None]
Unusable == [tx |-> t1, amount |-> None, account |-> s1]

NoCalls == {}
ChangingPayload == {Paid, Changed}
LooseEnds == {Unknown, Unusable}
FakePayments == {Unknown, Paid}

Interchangeable == Permutations(Workers) \cup Permutations(Ops)

=============================================================================
