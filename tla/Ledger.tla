------------------------------- MODULE Ledger -------------------------------
(***************************************************************************)
(* The wallet ledger of src/billing/models.py as data: its rows, the small *)
(* calculations of src/billing/services.py on them, and the checks that    *)
(* LedgerEntry.clean and the table's constraints make when a row is saved. *)
(*                                                                         *)
(* A wallet is one-to-one with a subscriber, so a subscriber names both.   *)
(* A row's primary key is a fresh UUID; its operation identifier is unique *)
(* too, and stands for the key in the references `previous' and            *)
(* `reverses'.                                                             *)
(***************************************************************************)
EXTENDS Integers

CONSTANTS
    Subscribers,    \* the subscribers (and so their wallets)
    Ops,            \* operation identifiers clients may send
    Reasons,        \* the reasons operators may give
    MaxMoney,       \* MAX_MONEY_MINOR, the largest amount and balance
    None            \* Python's None / SQL's NULL

ASSUME LedgerAssumption ==
    /\ MaxMoney \in Nat \ {0}
    /\ None \notin Ops

Money == 1..MaxMoney
Balances == 0..MaxMoney

Directions == {"credit", "debit"}
ManualTypes == {"manual_credit", "manual_debit"}
EntryTypes == ManualTypes \cup {"billing_charge", "payment_credit", "reversal"}

Entry ==
    [wallet: Subscribers, seq: Nat \ {0}, op: Ops, type: EntryTypes,
     direction: Directions, amount: Money, balance_after: Balances,
     previous: Ops \cup {None}, reverses: Ops \cup {None}, reason: Reasons]

-----------------------------------------------------------------------------
(* The helpers of the posting services.                                    *)

\* Mutation: a reversal repeats the entry it should undo.
SameDirection(d) == d

OppositeDirection(d) == IF d = "credit" THEN "debit" ELSE "credit"

ManualEntryType(d) == IF d = "credit" THEN "manual_credit" ELSE "manual_debit"

(* The row `.order_by("-sequence_number").first()' finds, or None.         *)
LatestEntry(rows, s) ==
    LET own == {e \in rows : e.wallet = s} IN
    IF own = {} THEN None ELSE CHOOSE e \in own : \A f \in own : f.seq <= e.seq

CurrentBalance(latest) == IF latest = None THEN 0 ELSE latest.balance_after

NextSequence(latest) == IF latest = None THEN 1 ELSE latest.seq + 1

\* Mutation: a debit larger than the balance empties the wallet.
ClampedBalance(balance, d, amount) ==
    IF d = "credit" THEN balance + amount
    ELSE IF balance < amount THEN 0 ELSE balance - amount

ResultingBalance(balance, d, amount) ==
    IF d = "credit" THEN balance + amount ELSE balance - amount

(* The signed effect of a row on its wallet, for stating properties.       *)
Signed(d, amount) == IF d = "credit" THEN amount ELSE -amount

\* Mutation: overdrafts up to the money limit are let through.
OverdraftAllowed(balance) == balance <= MaxMoney

(* _ledger_resulting_balance raises outside this range.                    *)
BalanceAllowed(balance) == balance >= 0 /\ balance <= MaxMoney

-----------------------------------------------------------------------------
(* What the model class and the table refuse when a row is saved.          *)

TypeMatchesDirection(e) ==
    /\ e.type \in {"manual_credit", "payment_credit"} => e.direction = "credit"
    /\ e.type \in {"manual_debit", "billing_charge"} => e.direction = "debit"

(* The row continues its wallet's chain: the first row has no predecessor, *)
(* a later one names the row right before it, and the balance follows.     *)
ContinuesChain(e, rows) ==
    \/ /\ e.seq = 1
       /\ e.previous = None
       /\ e.balance_after = ResultingBalance(0, e.direction, e.amount)
    \/ \E p \in rows :
         /\ p.op = e.previous
         /\ p.wallet = e.wallet
         /\ p.seq = e.seq - 1
         /\ e.balance_after = ResultingBalance(p.balance_after, e.direction, e.amount)

(* _clean_reversal_target: a manual row of the same wallet, not reversed   *)
(* yet, of the same amount and the opposite direction.                     *)
ReversalMatches(e, rows) ==
    IF e.type = "reversal"
    THEN \E t \in rows :
           /\ t.op = e.reverses
           /\ t.wallet = e.wallet
           /\ t.type \in ManualTypes
           /\ t.amount = e.amount
           /\ e.direction = OppositeDirection(t.direction)
    ELSE e.reverses = None

IsClean(e, rows) ==
    /\ TypeMatchesDirection(e)
    /\ BalanceAllowed(e.balance_after)
    /\ ContinuesChain(e, rows)
    /\ ReversalMatches(e, rows)

(* The unique constraints two rows would break together: the operation     *)
(* identifier, and those that keep the chain and the reversals single.     *)
SameOperation(e, f) == e.op = f.op

SamePlace(e, f) ==
    \/ e.wallet = f.wallet /\ e.seq = f.seq
    \/ e.previous # None /\ e.previous = f.previous
    \/ e.reverses # None /\ e.reverses = f.reverses

=============================================================================
