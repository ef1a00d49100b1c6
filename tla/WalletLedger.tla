---------------------------- MODULE WalletLedger ----------------------------
(***************************************************************************)
(* Operators posting to wallets: post_manual_wallet_adjustment and         *)
(* reverse_ledger_entry of src/billing/services.py, each run by a web      *)
(* worker inside one database transaction under READ COMMITTED.  A step is *)
(* one statement that reads, locks or writes rows; in between, any other   *)
(* worker may run, and a worker may die and lose its transaction.          *)
(*                                                                         *)
(* `entries' and `wallets' are the committed rows.  What a transaction     *)
(* wrote and did not commit is visible to it alone, except that a unique   *)
(* index makes another transaction wait for it.  A row lock is held until  *)
(* the transaction ends.                                                   *)
(***************************************************************************)
EXTENDS Ledger

CONSTANTS
    Workers,        \* the web workers
    Amounts         \* the amounts operators and providers use

ASSUME WalletLedgerAssumption ==
    /\ Amounts \subseteq Money
    /\ None \notin Entry

VARIABLES
    entries,        \* committed LedgerEntry rows
    wallets,        \* subscribers with a committed Wallet row
    pc,             \* the statement each worker is about to run
    req,            \* the call each worker serves, or None
    rowLocks,       \* the rows each worker's transaction holds FOR UPDATE
    newWallet,      \* whether it inserted a wallet, not yet committed
    latest,         \* its local latest_entry
    draft,          \* the entry it builds, then inserts; None before that
    reply           \* how its call ended, None while it runs

vars == <<entries, wallets, pc, req, rowLocks, newWallet, latest, draft, reply>>

Steps ==
    {"idle", "first_check", "lock_subscriber", "lock_wallet", "create_wallet",
     "pick_latest", "lock_latest", "lock_target", "recheck", "build", "full_clean",
     "insert", "commit", "done"}

Accepted == {"posted", "replayed"}
Refused ==
    {"operation_conflict", "stale", "invalid", "has_wallet", "irreversible",
     "already_reversed", "balance"}

ASSUME ReplyAssumption == None \notin Accepted \cup Refused

(* What a call asks for.  A reversal is given the row it reverses, whose   *)
(* wallet, amount and direction never change: they are part of the call.   *)
Request ==
    {r \in [wallet: Subscribers, op: Ops, type: ManualTypes \cup {"reversal"},
            direction: Directions, amount: Money, reverses: Ops \cup {None},
            reason: Reasons] :
        r.type = "reversal" <=> r.reverses # None}

Adjustments ==
    {[wallet |-> s, op |-> o, type |-> ManualEntryType(d), direction |-> d,
      amount |-> a, reverses |-> None, reason |-> r] :
        s \in Subscribers, o \in Ops, d \in Directions, a \in Amounts, r \in Reasons}

Reversals(targets) ==
    {[wallet |-> t.wallet, op |-> o, type |-> "reversal",
      direction |-> OppositeDirection(t.direction), amount |-> t.amount,
      reverses |-> t.op, reason |-> r] :
        t \in targets, o \in Ops, r \in Reasons}

-----------------------------------------------------------------------------
(* Rows, locks and the existing-operation lookups.                         *)

SubscriberRow(s) == <<"subscriber", s>>
WalletRow(s) == <<"wallet", s>>
EntryRow(o) == <<"entry", o>>

Rows == ({"subscriber", "wallet"} \X Subscribers) \cup ({"entry"} \X Ops)

Free(row, w) == \A v \in Workers \ {w} : row \notin rowLocks[v]

(* The committed rows that carry the operation identifier.                 *)
UsesOf(o) == {e \in entries : e.op = o}

(* The committed row is what this very call would have written.            *)
Answers(r, e) ==
    /\ e.op = r.op
    /\ e.wallet = r.wallet
    /\ e.type = r.type
    /\ e.direction = r.direction
    /\ e.amount = r.amount
    /\ e.reverses = r.reverses
    /\ e.reason = r.reason

(* Rows the open transactions of ws inserted: not visible, but indexed.    *)
Uncommitted(ws) == {draft[v] : v \in {x \in ws : pc[x] = "commit"}}

Goto(w, step) == pc' = [pc EXCEPT ![w] = step]

(* The transaction ends and the caller gets an answer.                     *)
Finish(w, answer) ==
    /\ Goto(w, "done")
    /\ reply' = [reply EXCEPT ![w] = answer]
    /\ rowLocks' = [rowLocks EXCEPT ![w] = {}]
    /\ newWallet' = [newWallet EXCEPT ![w] = FALSE]
    /\ latest' = [latest EXCEPT ![w] = None]
    /\ draft' = [draft EXCEPT ![w] = None]
    /\ UNCHANGED req

(* It ends without a commit: a ValidationError, or a row already there.    *)
Return(w, answer) == Finish(w, answer) /\ UNCHANGED <<entries, wallets>>

\* Mutation: a known identifier is taken for a retry whatever it was used for.
CheckIdentifierOnly(w, step) ==
    IF UsesOf(req[w].op) = {}
    THEN /\ Goto(w, step)
         /\ UNCHANGED <<entries, wallets, req, rowLocks, newWallet, latest, draft, reply>>
    ELSE Return(w, "replayed")

(* The lookup by operation identifier: go on if it is unused.              *)
CheckExisting(w, step) ==
    \/ /\ UsesOf(req[w].op) = {}
       /\ Goto(w, step)
       /\ UNCHANGED <<entries, wallets, req, rowLocks, newWallet, latest, draft, reply>>
    \/ \E e \in UsesOf(req[w].op) :
         Return(w, IF Answers(req[w], e) THEN "replayed" ELSE "operation_conflict")

\* Mutation: the lock is noted, but nobody waits for it.
NoteLock(w, row) == rowLocks' = [rowLocks EXCEPT ![w] = @ \cup {row}]

TakeLock(w, row) ==
    /\ Free(row, w)
    /\ rowLocks' = [rowLocks EXCEPT ![w] = @ \cup {row}]

-----------------------------------------------------------------------------
(* The statements of the two services, in the order they run.              *)

(* A call arrives with valid arguments; what it asks for may repeat an     *)
(* earlier call, or reuse its identifier for something else.               *)
Submit(w) ==
    /\ pc[w] = "idle"
    /\ \E r \in Adjustments \cup Reversals(entries) : req' = [req EXCEPT ![w] = r]
    /\ Goto(w, "first_check")
    /\ UNCHANGED <<entries, wallets, rowLocks, newWallet, latest, draft, reply>>

(* The lookup before any lock is taken.                                    *)
FirstCheck(w) ==
    /\ pc[w] = "first_check"
    /\ CheckExisting(w, "lock_subscriber")

\* Mutation: the subscriber row is read without FOR UPDATE.
ReadSubscriber(w) ==
    /\ pc[w] = "lock_subscriber"
    /\ Goto(w, "lock_wallet")
    /\ UNCHANGED <<entries, wallets, req, rowLocks, newWallet, latest, draft, reply>>

LockSubscriber(w) ==
    /\ pc[w] = "lock_subscriber"
    /\ TakeLock(w, SubscriberRow(req[w].wallet))
    /\ Goto(w, "lock_wallet")
    /\ UNCHANGED <<entries, wallets, req, newWallet, latest, draft, reply>>

(* The wallet row, if it exists; an adjustment goes on to create it.       *)
LockWallet(w) ==
    /\ pc[w] = "lock_wallet"
    /\ \/ /\ req[w].wallet \in wallets
          /\ TakeLock(w, WalletRow(req[w].wallet))
          /\ Goto(w, "pick_latest")
       \/ /\ req[w].wallet \notin wallets
          /\ req[w].type # "reversal"
          /\ Goto(w, "create_wallet")
          /\ UNCHANGED rowLocks
    /\ UNCHANGED <<entries, wallets, req, newWallet, latest, draft, reply>>

(* INSERT of the wallet: waits for an open insert of the same wallet, and  *)
(* is refused when one was committed since the lookup, by full_clean or by *)
(* the unique index: both messages say that there is a wallet already.     *)
CreateWallet(w) ==
    /\ pc[w] = "create_wallet"
    /\ \A v \in Workers \ {w} : newWallet[v] => req[v].wallet # req[w].wallet
    /\ IF req[w].wallet \in wallets
       THEN Return(w, "has_wallet")
       ELSE /\ newWallet' = [newWallet EXCEPT ![w] = TRUE]
            /\ Goto(w, "pick_latest")
            /\ UNCHANGED <<entries, wallets, req, rowLocks, latest, draft, reply>>

(* SELECT ... ORDER BY ... LIMIT 1 FOR UPDATE picks the row first, then    *)
(* waits for its lock: a newer row committed meanwhile is not picked.      *)
PickLatest(w) ==
    /\ pc[w] = "pick_latest"
    /\ latest' = [latest EXCEPT ![w] = LatestEntry(entries, req[w].wallet)]
    /\ Goto(w, "lock_latest")
    /\ UNCHANGED <<entries, wallets, req, rowLocks, newWallet, draft, reply>>

LockLatest(w) ==
    /\ pc[w] = "lock_latest"
    /\ IF latest[w] = None THEN UNCHANGED rowLocks ELSE TakeLock(w, EntryRow(latest[w].op))
    /\ Goto(w, IF req[w].type = "reversal" THEN "lock_target" ELSE "recheck")
    /\ UNCHANGED <<entries, wallets, req, newWallet, latest, draft, reply>>

LockTarget(w) ==
    /\ pc[w] = "lock_target"
    /\ TakeLock(w, EntryRow(req[w].reverses))
    /\ Goto(w, "recheck")
    /\ UNCHANGED <<entries, wallets, req, newWallet, latest, draft, reply>>

\* Mutation: the lookup is not repeated under the locks.
SkipRecheck(w) ==
    /\ pc[w] = "recheck"
    /\ Goto(w, "build")
    /\ UNCHANGED <<entries, wallets, req, rowLocks, newWallet, latest, draft, reply>>

(* The same lookup again, now that no one else posts to this wallet.       *)
Recheck(w) ==
    /\ pc[w] = "recheck"
    /\ CheckExisting(w, "build")

(* The row the call will insert after its local latest_entry.              *)
NewEntry(w) ==
    LET r == req[w] IN
    [wallet |-> r.wallet, seq |-> NextSequence(latest[w]), op |-> r.op,
     type |-> r.type, direction |-> r.direction, amount |-> r.amount,
     balance_after |->
        ResultingBalance(CurrentBalance(latest[w]), r.direction, r.amount),
     previous |-> IF latest[w] = None THEN None ELSE latest[w].op,
     reverses |-> r.reverses, reason |-> r.reason]

\* Mutation: nothing looks for an earlier reversal of the target.
NeverReversed(r) == FALSE

(* The target of a reversal has a reversal already.                        *)
AlreadyReversed(r) == r.reverses # None /\ \E e \in entries : e.reverses = r.reverses

(* Only manual rows are reversed, and only once; balances stay in range.   *)
Build(w) ==
    LET r == req[w]
        irreversible == \E t \in UsesOf(r.reverses) : t.type \notin ManualTypes
    IN
    /\ pc[w] = "build"
    /\ \/ irreversible /\ Return(w, "irreversible")
       \/ ~irreversible /\ AlreadyReversed(r) /\ Return(w, "already_reversed")
       \/ /\ ~irreversible
          /\ ~AlreadyReversed(r)
          /\ IF BalanceAllowed(NewEntry(w).balance_after)
             THEN /\ draft' = [draft EXCEPT ![w] = NewEntry(w)]
                  /\ Goto(w, "full_clean")
                  /\ UNCHANGED <<entries, wallets, req, rowLocks, newWallet, latest, reply>>
             ELSE Return(w, "balance")

(* full_clean reads the committed rows.  A row with the identifier is told *)
(* to the caller; what else it finds is raised as it is.                   *)
FullClean(w) ==
    LET e == draft[w] IN
    /\ pc[w] = "full_clean"
    /\ IF \E f \in entries : SameOperation(e, f)
       THEN Return(w, "operation_conflict")
       ELSE IF ~IsClean(e, entries) \/ \E f \in entries : SamePlace(e, f)
       THEN Return(w, "invalid")
       ELSE /\ Goto(w, "insert")
            /\ UNCHANGED <<entries, wallets, req, rowLocks, newWallet, latest, draft, reply>>

(* INSERT waits while an open transaction holds one of the unique keys.    *)
(* One that a committed row holds is an IntegrityError, which the service  *)
(* turns into the message that the ledger changed meanwhile.               *)
Insert(w) ==
    LET Clashes(f) == SameOperation(draft[w], f) \/ SamePlace(draft[w], f) IN
    /\ pc[w] = "insert"
    /\ \A f \in Uncommitted(Workers \ {w}) : ~Clashes(f)
    /\ IF \E f \in entries : Clashes(f)
       THEN Return(w, "stale")
       ELSE /\ Goto(w, "commit")
            /\ UNCHANGED <<entries, wallets, req, rowLocks, newWallet, latest, draft, reply>>

(* COMMIT: the rows become visible, the locks are released.                *)
Commit(w) ==
    /\ pc[w] = "commit"
    /\ entries' = entries \cup {draft[w]}
    /\ wallets' = wallets \cup (IF newWallet[w] THEN {req[w].wallet} ELSE {})
    /\ Finish(w, "posted")

(* The caller has the answer and the worker is free.                       *)
Respond(w) ==
    /\ pc[w] = "done"
    /\ Goto(w, "idle")
    /\ req' = [req EXCEPT ![w] = None]
    /\ reply' = [reply EXCEPT ![w] = None]
    /\ UNCHANGED <<entries, wallets, rowLocks, newWallet, latest, draft>>

(* The worker dies, before or after the commit: the database rolls back an *)
(* open transaction, and the caller never learns what happened.            *)
Crash(w) ==
    /\ pc[w] # "idle"
    /\ Goto(w, "idle")
    /\ req' = [req EXCEPT ![w] = None]
    /\ reply' = [reply EXCEPT ![w] = None]
    /\ rowLocks' = [rowLocks EXCEPT ![w] = {}]
    /\ newWallet' = [newWallet EXCEPT ![w] = FALSE]
    /\ latest' = [latest EXCEPT ![w] = None]
    /\ draft' = [draft EXCEPT ![w] = None]
    /\ UNCHANGED <<entries, wallets>>

-----------------------------------------------------------------------------
(* The other services that post to a wallet, each as the one committed     *)
(* transaction it is: payment credits (ingestion, and the resolution of an *)
(* unmatched payment) and billing charges.  They take the same locks.      *)

Unlocked(s) ==
    \A w \in Workers :
        /\ SubscriberRow(s) \notin rowLocks[w]
        /\ WalletRow(s) \notin rowLocks[w]
        /\ newWallet[w] => req[w].wallet # s
        /\ \A e \in entries : e.wallet = s => EntryRow(e.op) \notin rowLocks[w]

EntryElsewhere(s, o, type, d, a, r) ==
    LET last == LatestEntry(entries, s) IN
    [wallet |-> s, seq |-> NextSequence(last), op |-> o, type |-> type,
     direction |-> d, amount |-> a,
     balance_after |-> ResultingBalance(CurrentBalance(last), d, a),
     previous |-> IF last = None THEN None ELSE last.op,
     reverses |-> None, reason |-> r]

PostElsewhere(s, o, type, d, a, r) ==
    LET e == EntryElsewhere(s, o, type, d, a, r) IN
    /\ Unlocked(s)
    /\ IsClean(e, entries)
    /\ \A f \in entries \cup Uncommitted(Workers) : ~SameOperation(e, f) /\ ~SamePlace(e, f)
    /\ entries' = entries \cup {e}
    /\ UNCHANGED <<pc, req, rowLocks, newWallet, latest, draft, reply>>

(* _create_payment_wallet_credit makes the wallet if there is none.        *)
PaymentCredit(s, o, a, r) ==
    /\ PostElsewhere(s, o, "payment_credit", "credit", a, r)
    /\ wallets' = wallets \cup {s}

(* _post_wallet_funded_period needs one.                                   *)
BillingCharge(s, o, a, r) ==
    /\ s \in wallets
    /\ PostElsewhere(s, o, "billing_charge", "debit", a, r)
    /\ UNCHANGED wallets

-----------------------------------------------------------------------------
Init ==
    /\ entries = {}
    /\ wallets = {}
    /\ pc = [w \in Workers |-> "idle"]
    /\ req = [w \in Workers |-> None]
    /\ rowLocks = [w \in Workers |-> {}]
    /\ newWallet = [w \in Workers |-> FALSE]
    /\ latest = [w \in Workers |-> None]
    /\ draft = [w \in Workers |-> None]
    /\ reply = [w \in Workers |-> None]

(* The statements that end a call, once it has been submitted.             *)
Proceed(w) ==
    \/ FirstCheck(w) \/ LockSubscriber(w) \/ LockWallet(w) \/ CreateWallet(w)
    \/ PickLatest(w) \/ LockLatest(w) \/ LockTarget(w) \/ Recheck(w)
    \/ Build(w) \/ FullClean(w) \/ Insert(w) \/ Commit(w) \/ Respond(w)

Elsewhere ==
    \E s \in Subscribers, o \in Ops, a \in Amounts, r \in Reasons :
        PaymentCredit(s, o, a, r) \/ BillingCharge(s, o, a, r)

Next ==
    \/ \E w \in Workers : Submit(w) \/ Proceed(w) \/ Crash(w)
    \/ Elsewhere

Spec == Init /\ [][Next]_vars

-----------------------------------------------------------------------------
(* Every variable keeps the kind of value the code gives it.               *)
TypeOK ==
    /\ entries \subseteq Entry
    /\ wallets \subseteq Subscribers
    /\ pc \in [Workers -> Steps]
    /\ req \in [Workers -> Request \cup {None}]
    /\ rowLocks \in [Workers -> SUBSET Rows]
    /\ newWallet \in [Workers -> BOOLEAN]
    /\ latest \in [Workers -> Entry \cup {None}]
    /\ draft \in [Workers -> Entry \cup {None}]
    /\ reply \in [Workers -> Accepted \cup Refused \cup {None}]

(* The committed rows of a wallet are one chain, whatever the interleaving *)
(* of the workers that wrote them: no two rows share their operation       *)
(* identifier, their place or their predecessor, and the balance of a row  *)
(* is that of the row before it plus the signed amount.                    *)
RowsDistinct ==
    \A e, f \in entries : e # f =>
        /\ e.op # f.op
        /\ e.wallet = f.wallet => e.seq # f.seq
        /\ e.previous = f.previous => e.previous = None

RowsLinked ==
    \A e \in entries :
        \/ /\ e.seq = 1
           /\ e.previous = None
           /\ e.balance_after = Signed(e.direction, e.amount)
        \/ \E p \in entries :
             /\ p.op = e.previous
             /\ p.wallet = e.wallet
             /\ e.seq = p.seq + 1
             /\ e.balance_after = p.balance_after + Signed(e.direction, e.amount)

LedgerChain == RowsDistinct /\ RowsLinked

(* A reversal undoes a manual row of its wallet with an equal and opposite *)
(* amount, and no row is reversed twice, even by two operators at once.    *)
ReversalsSound ==
    \A e \in entries : e.reverses # None =>
        /\ \E t \in entries :
             /\ t.op = e.reverses
             /\ t.wallet = e.wallet
             /\ t.type \in ManualTypes
             /\ Signed(t.direction, t.amount) = -Signed(e.direction, e.amount)
        /\ \A f \in entries : f.reverses = e.reverses => f = e

(* From the moment a worker has read its latest entry to its commit, that  *)
(* is still the wallet's last committed row: the balance and the sequence  *)
(* number it computes from it are not stale.                               *)
UsesLatest ==
    {"lock_latest", "lock_target", "recheck", "build", "full_clean", "insert", "commit"}

LatestIsFresh ==
    \A w \in Workers :
        pc[w] \in UsesLatest => latest[w] = LatestEntry(entries, req[w].wallet)

(* The constraints on wallets and on chains are a second line of defence   *)
(* that never acts: the locks already keep two workers from making one     *)
(* wallet, or the same next row of it.  A posting comes too late for one   *)
(* reason only: its identifier, free when it looked, was spent meanwhile   *)
(* on another wallet.                                                      *)
LostIdentifier(r) == \E e \in entries : e.op = r.op /\ e.wallet # r.wallet

DefencesIdle ==
    \A w \in Workers :
        /\ reply[w] \notin {"invalid", "has_wallet"}
        /\ reply[w] = "stale" => LostIdentifier(req[w])

(* A caller told that its call took effect finds the row it asked for, be  *)
(* it written by this call or by the earlier call this one repeats.        *)
AnswersTrue ==
    \A w \in Workers :
        reply[w] \in Accepted => \E e \in entries : Answers(req[w], e)

(* A call that repeats one already committed is never refused: it gets the *)
(* row back, even if it was waiting for a lock while the first committed.  *)
RetriesReplayed ==
    [][\A w \in Workers :
         reply[w] = None /\ reply'[w] \in Refused
            => \A e \in entries : ~Answers(req[w], e)]_vars

BalanceOf(s) == CurrentBalance(LatestEntry(entries, s))

(* A posting is refused for the balance only when, at that moment, it      *)
(* would take the wallet below zero or above the limit: never short of the *)
(* limit, and never for a balance another posting has changed since.       *)
RefusedAtLimit ==
    [][\A w \in Workers :
         reply[w] = None /\ reply'[w] = "balance"
            => BalanceOf(req[w].wallet) + Signed(req[w].direction, req[w].amount)
                 \notin Balances]_vars

(* Committed rows are the moves of an abstract account that applies every  *)
(* operation identifier exactly once.                                      *)
MoveOf(e) ==
    [op |-> e.op, subscriber |-> e.wallet,
     delta |-> Signed(e.direction, e.amount), undoes |-> e.reverses]

Abstract == INSTANCE Account WITH
    balance <- [s \in Subscribers |-> BalanceOf(s)],
    moves <- {MoveOf(e) : e \in entries}

ImplementsAccount == Abstract!Spec

=============================================================================
