---------------------------- MODULE PaymentBook -----------------------------
(***************************************************************************)
(* What payment intake promises: a provider's payment is received once,    *)
(* with an amount that never changes; its whole amount goes to one wallet, *)
(* at once or when an operator names the subscriber, and stays there.      *)
(***************************************************************************)
EXTENDS Naturals

CONSTANTS
    Payments,       \* what identifies a payment: its profile and transaction
    Subscribers,
    MaxMoney,
    None

VARIABLE book       \* per payment: None, or what it says and the credits made

Credit(s, amount) == [wallet |-> s, amount |-> amount]

Init == book = [p \in Payments |-> None]

(* A payment arrives: credited to the subscriber its reference names, or   *)
(* to nobody yet.                                                          *)
Receive(p, amount, account) ==
    /\ book[p] = None
    /\ \E credits \in {{}, {Credit(account, amount)}} :
        /\ account = None => credits = {}
        /\ book' = [book EXCEPT ![p] =
             [amount |-> amount, account |-> account, credits |-> credits]]

(* An operator assigns a payment that was credited to nobody.              *)
Assign(p, s) ==
    /\ book[p] # None
    /\ book[p].credits = {}
    /\ book' = [book EXCEPT ![p].credits = {Credit(s, book[p].amount)}]

Next ==
    \E p \in Payments :
        \/ \E amount \in 1..MaxMoney, account \in Subscribers \cup {None} :
            Receive(p, amount, account)
        \/ \E s \in Subscribers : Assign(p, s)

Spec == Init /\ [][Next]_book

=============================================================================
