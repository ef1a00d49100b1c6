-------------------------- MODULE MCServiceBilling --------------------------
(* Small instances of ServiceBilling for TLC.                              *)
EXTENDS ServiceBilling, TLC

CONSTANTS x1, x2, x3, s1, s2

OneService == [x \in {x1} |-> s1]

(* Two services share a wallet, a third one has its own.                   *)
SharedWallet == [x \in {x1, x2, x3} |-> IF x = x3 THEN s2 ELSE s1]

(* A package with a grace time, and a dearer and longer one without.       *)
Short == [price |-> 1, duration |-> 1, grace |-> 2]
Long == [price |-> 2, duration |-> 2, grace |-> 0]

BothTerms == {Short, Long}
ShortTerms == {Short}

Interchangeable == Permutations(Workers) \cup Permutations(Ops)

=============================================================================
