------------------------------- MODULE Account ------------------------------
(***************************************************************************)
(* What the wallet ledger promises its callers: each operation identifier  *)
(* moves one account by one amount, once; the balance is what the moves    *)
(* left and never leaves its range; a move can be undone once, by an equal *)
(* and opposite move of the same account, which cannot itself be undone.   *)
(***************************************************************************)
EXTENDS Integers, Functions

CONSTANTS Subscribers, Ops, MaxMoney, None

VARIABLES
    balance,    \* what each subscriber has
    moves       \* the moves made so far

Move == [op: Ops, subscriber: Subscribers, delta: Int, undoes: Ops \cup {None}]

Init ==
    /\ balance = [s \in Subscribers |-> 0]
    /\ moves = {}

(* Nothing but a move that was never undone, and undoes nothing, may be    *)
(* undone.                                                                 *)
Undoable(m, o) ==
    /\ m.op = o
    /\ m.undoes = None
    /\ \A n \in moves : n.undoes # o

Apply(m) ==
    /\ \A n \in moves : n.op # m.op
    /\ m.undoes # None => \E n \in moves :
         /\ Undoable(n, m.undoes)
         /\ n.subscriber = m.subscriber
         /\ m.delta = -n.delta
    /\ balance[m.subscriber] + m.delta \in 0..MaxMoney
    /\ balance' = [balance EXCEPT ![m.subscriber] = @ + m.delta]
    /\ moves' = moves \cup {m}

Next ==
    \E o \in Ops, s \in Subscribers, d \in -MaxMoney..MaxMoney,
       u \in Ops \cup {None} :
        Apply([op |-> o, subscriber |-> s, delta |-> d, undoes |-> u])

Spec == Init /\ [][Next]_<<balance, moves>>

-----------------------------------------------------------------------------
(* What follows for whoever implements this.  What a subscriber has is the *)
(* sum of all moves of its account.                                        *)
MovesOf(s) == {m \in moves : m.subscriber = s}

Delta == [m \in Move |-> m.delta]

AddsUp == \A s \in Subscribers : balance[s] = SumFunctionOnSet(Delta, MovesOf(s))

(* An identifier stands for one move, and a move is undone at most once,   *)
(* by one of the same account that takes back what it gave.                *)
AppliedOnce == \A m, n \in moves : m.op = n.op => m = n

UndoneOnce ==
    \A m \in moves : m.undoes # None =>
        /\ \E n \in moves :
             /\ n.op = m.undoes /\ n.undoes = None
             /\ n.subscriber = m.subscriber /\ n.delta + m.delta = 0
        /\ \A n \in moves : n.undoes = m.undoes => n = m

(* No account is overdrawn or holds more than there may be.                *)
InRange == \A s \in Subscribers : balance[s] \in 0..MaxMoney

Promises == AddsUp /\ AppliedOnce /\ UndoneOnce /\ InRange

=============================================================================
