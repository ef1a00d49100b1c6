--------------------------- MODULE PaymentIntake ----------------------------
(***************************************************************************)
(* Payments coming in, from billing/views.py, billing/mpesa_callbacks.py   *)
(* and billing/services.py: M-PESA confirmations that the provider sends   *)
(* until they are acknowledged, fake payments that operators enter, and    *)
(* unmatched payments that operators resolve.                              *)
(*                                                                         *)
(* A confirmation is two transactions: capture commits the event on its    *)
(* own, then processing books the payment.  A step is one statement that   *)
(* reads, locks or writes rows; a worker may die between any two, and a    *)
(* redeployment stops them all.  Posting to a wallet under its             *)
(* subscriber's lock is one step here: WalletLedger models its statements. *)
(***************************************************************************)
EXTENDS Integers, FiniteSets

CONSTANTS
    Workers,        \* the web workers
    Subscribers,    \* subscribers, registered from the start or later
    Transactions,   \* provider transaction identifiers
    Messages,       \* the confirmations the provider may send
    FakeCalls,      \* the payments operators may enter through the fake provider
    Ops,            \* operation identifiers of operators
    Reasons,        \* the reasons operators may give
    MaxMoney,       \* MAX_MONEY_MINOR
    MaxCrashes,     \* bound: how often workers may be stopped
    None

Profiles == {"paybill", "fake"}
Money == 1..MaxMoney

(* A confirmation, reduced to what is compared and used: equal messages    *)
(* are those with equal digests.  Its amount is None when the payload      *)
(* cannot be booked (no valid amount, or not the configured Paybill), its  *)
(* account is None when the reference names no subscriber there can be.    *)
Message ==
    [tx: Transactions, amount: Money \cup {None}, account: Subscribers \cup {None}]

(* What is kept of a transaction: the first payload that came, or nothing. *)
Evidence == Messages \cup {None}

Answered == {"ok", "refused"}

-----------------------------------------------------------------------------
(* Rows.  A payment is identified by its profile and transaction.          *)

Pids == Profiles \X Transactions

(* The operation identifier of a confirmation is derived from its event.   *)
Operations == Ops \cup Pids

Payment ==
    [id: Pids, amount: Money, account: Subscribers \cup {None}]

Allocation ==
    [payment: Pids, wallet: Subscribers, op: Operations, amount: Money]

(* What another service posts to a wallet, its amount signed.              *)
Posting == [wallet: Subscribers, op: Ops, amount: Int]

(* An open case has no resolution; a resolved one has all of it.           *)
Case ==
    {c \in [payment: Pids, op: Ops \cup {None}, wallet: Subscribers \cup {None},
            reason: Reasons \cup {None}] :
        /\ c.op = None <=> c.wallet = None
        /\ c.op = None <=> c.reason = None}

Link == [event: Transactions, payment: Pids]

Draft ==
    [payment: Payment \cup {None}, allocation: Allocation \cup {None},
     case: Case \cup {None}]

Task ==
    [kind: {"confirmation"}, msg: Messages]
    \cup [kind: {"fake"}, msg: FakeCalls, op: Ops]
    \cup [kind: {"resolve"}, payment: Pids, subscriber: Subscribers, op: Ops,
          reason: Reasons]

ASSUME PaymentIntakeAssumption ==
    /\ MaxMoney \in Nat \ {0}
    /\ MaxCrashes \in Nat
    /\ Messages \subseteq Message
    /\ FakeCalls \subseteq {m \in Message : m.amount # None}
    /\ None \notin Money \cup Subscribers \cup Reasons \cup Ops \cup Message
    /\ None \notin Payment \cup Allocation \cup Case \cup Task \cup Answered
    /\ None \notin [amount: Money, account: Subscribers \cup {None},
                    credits: SUBSET [wallet: Subscribers, amount: Money]]

-----------------------------------------------------------------------------
VARIABLES
    events,         \* captured MpesaCallbackEvent by transaction, or None
    payments,       \* committed Payment rows
    allocations,    \* committed PaymentAllocation rows, each with its ledger entry
    cases,          \* committed UnmatchedPaymentCase rows
    links,          \* committed MpesaCallbackPaymentLink rows
    balance,        \* wallet balances
    elsewhere,      \* ledger entries that other services posted
    registered,     \* the subscribers there are
    active,         \* active provider profiles
    enabled,        \* MPESA_PAYBILL_INGESTION_ENABLED
    acked,          \* confirmations the provider got an acknowledgement for
    pc,             \* the statement each worker is about to run
    task,           \* the call each worker serves, or None
    rowLocks,       \* rows each worker's open transaction holds FOR UPDATE
    joined,         \* the resolution allocation joined to its case, or None
    draft,          \* the rows its open transaction wrote
    answer,         \* how its call ended: ok, refused or None
    crashes         \* how often workers were stopped

rows == <<events, payments, allocations, cases, links, balance, elsewhere>>
setting == <<registered, active, enabled>>
local == <<task, rowLocks, joined, draft, answer>>
vars == <<rows, setting, acked, pc, local, crashes>>

Steps ==
    {"idle", "capture", "lock_event", "lock_profile", "find_payment",
     "insert_payment", "match", "pick_case", "lock_case", "lock_payment",
     "lock_subscriber", "credit", "commit", "done"}

-----------------------------------------------------------------------------
(* What calls say and find.                                                *)

OpenCase(pid) == [payment |-> pid, op |-> None, wallet |-> None, reason |-> None]

IsOpen(c) == c.reason = None

NoDraft == [payment |-> None, allocation |-> None, case |-> None]

IsIntake(t) == t.kind \in {"confirmation", "fake"}

ProfileOf(t) == IF t.kind = "confirmation" THEN "paybill" ELSE "fake"

Pid(t) == IF IsIntake(t) THEN <<ProfileOf(t), t.msg.tx>> ELSE t.payment

OpOf(t) == IF t.kind = "confirmation" THEN Pid(t) ELSE t.op

PaymentOf(t) == [id |-> Pid(t), amount |-> t.msg.amount, account |-> t.msg.account]

PaymentsWith(pid) == {p \in payments : p.id = pid}
AllocationsOf(pid) == {a \in allocations : a.payment = pid}
CasesOf(pid) == {c \in cases : c.payment = pid}
LinksOf(tx) == {l \in links : l.event = tx}

(* _operation_id_used_elsewhere                                            *)
OpUsed(o) == \E e \in allocations \cup elsewhere : e.op = o

(* Keys that the other open transactions put into unique indexes.          *)
DraftedElsewhere(w, op, pid) ==
    \E v \in Workers \ {w} :
        LET a == draft[v].allocation IN a # None /\ (a.op = op \/ a.payment = pid)

-----------------------------------------------------------------------------
(* Locks, and how a call ends.                                             *)

EventRow(tx) == <<"event", tx>>
ProfileRow(profile) == <<"profile", profile>>
PaymentRow(pid) == <<"payment", pid>>
CaseRow(pid) == <<"case", pid>>
SubscriberRow(s) == <<"subscriber", s>>

Rows ==
    ({"event"} \X Transactions) \cup ({"profile"} \X Profiles)
    \cup ({"payment", "case"} \X Pids) \cup ({"subscriber"} \X Subscribers)

Free(row, w) == \A v \in Workers \ {w} : row \notin rowLocks[v]

Goto(w, step) == pc' = [pc EXCEPT ![w] = step]

TakeLock(w, row) ==
    /\ Free(row, w)
    /\ rowLocks' = [rowLocks EXCEPT ![w] = @ \cup {row}]

LockThen(w, row, step) ==
    /\ TakeLock(w, row)
    /\ Goto(w, step)
    /\ UNCHANGED <<rows, setting, acked, task, joined, draft, answer, crashes>>

(* The transaction ends, with a commit or a rollback; the locks go with it.*)
Finish(w, how) ==
    /\ Goto(w, "done")
    /\ answer' = [answer EXCEPT ![w] = how]
    /\ rowLocks' = [rowLocks EXCEPT ![w] = {}]
    /\ joined' = [joined EXCEPT ![w] = None]
    /\ draft' = [draft EXCEPT ![w] = NoDraft]
    /\ UNCHANGED <<setting, acked, task, crashes>>

(* Nothing to write: already done, or nothing to do.                       *)
Accept(w) == Finish(w, "ok") /\ UNCHANGED rows

\* Mutation: the view acknowledges a confirmation it failed to process.
AckAnyway(w) == Accept(w)

(* An exception rolls back everything the transaction wrote.  The caller   *)
(* of a confirmation gets a 500, which makes the provider send it again.   *)
Refuse(w) == Finish(w, "refused") /\ UNCHANGED rows

-----------------------------------------------------------------------------
(* Calls arrive.                                                           *)

Start(w, t, step) ==
    /\ pc[w] = "idle"
    /\ task' = [task EXCEPT ![w] = t]
    /\ Goto(w, step)
    /\ UNCHANGED <<rows, setting, acked, rowLocks, joined, draft, answer, crashes>>

(* The provider sends a confirmation, for the first time or once more.     *)
Deliver(w, m) == Start(w, [kind |-> "confirmation", msg |-> m], "capture")

EnterFake(w) ==
    \E m \in FakeCalls, o \in Ops :
        Start(w, [kind |-> "fake", msg |-> m, op |-> o], "lock_profile")

ResolveCase(w) ==
    \E c \in cases, s \in registered, o \in Ops, r \in Reasons :
        Start(w, [kind |-> "resolve", payment |-> c.payment, subscriber |-> s,
                  op |-> o, reason |-> r], "pick_case")

-----------------------------------------------------------------------------
(* A confirmation: evidence first, in a transaction of its own.            *)

\* Mutation: a changed payload is processed instead of the evidence.
CaptureAnything(w) ==
    LET m == task[w].msg IN
    /\ pc[w] = "capture"
    /\ events' = [events EXCEPT ![m.tx] = IF @ = None THEN m ELSE @]
    /\ IF ~enabled
       THEN Finish(w, "ok")
       ELSE Goto(w, "lock_event") /\ UNCHANGED <<setting, acked, local, crashes>>
    /\ UNCHANGED <<payments, allocations, cases, links, balance, elsewhere>>

\* Mutation: a changed payload is an error to the provider.
CaptureStrictly(w) ==
    LET m == task[w].msg IN
    /\ pc[w] = "capture"
    /\ events' = [events EXCEPT ![m.tx] = IF @ = None THEN m ELSE @]
    /\ IF events[m.tx] \notin {None, m}
       THEN Finish(w, "refused")
       ELSE IF ~enabled THEN Finish(w, "ok")
       ELSE Goto(w, "lock_event") /\ UNCHANGED <<setting, acked, local, crashes>>
    /\ UNCHANGED <<payments, allocations, cases, links, balance, elsewhere>>

(* The first payload of a transaction is kept.  A different one is         *)
(* acknowledged and goes no further; so is any while ingestion is off.     *)
Capture(w) ==
    LET m == task[w].msg IN
    /\ pc[w] = "capture"
    /\ events' = [events EXCEPT ![m.tx] = IF @ = None THEN m ELSE @]
    /\ IF events[m.tx] \notin {None, m} \/ ~enabled
       THEN Finish(w, "ok")
       ELSE Goto(w, "lock_event") /\ UNCHANGED <<setting, acked, local, crashes>>
    /\ UNCHANGED <<payments, allocations, cases, links, balance, elsewhere>>

(* A linked event was processed before; one that cannot be booked is kept  *)
(* as evidence only.                                                       *)
LockEvent(w) ==
    LET m == task[w].msg IN
    /\ pc[w] = "lock_event"
    /\ Free(EventRow(m.tx), w)
    /\ IF LinksOf(m.tx) # {} \/ m.amount = None
       THEN Accept(w)
       ELSE LockThen(w, EventRow(m.tx), "lock_profile")

-----------------------------------------------------------------------------
(* The core that confirmations and fake payments share.                    *)

\* Mutation: the profile row is read without FOR UPDATE.
ReadProfile(w) ==
    /\ pc[w] = "lock_profile"
    /\ IF ProfileOf(task[w]) \in active
       THEN /\ Goto(w, "find_payment")
            /\ UNCHANGED <<rows, setting, acked, local, crashes>>
       ELSE Refuse(w)

LockProfile(w) ==
    LET profile == ProfileOf(task[w]) IN
    /\ pc[w] = "lock_profile"
    /\ Free(ProfileRow(profile), w)
    /\ IF profile \in active
       THEN LockThen(w, ProfileRow(profile), "find_payment")
       ELSE Refuse(w)

\* Mutation: the known payment is updated to what the call says.
Overwrite(w) ==
    /\ payments' = {p \in payments : p.id # Pid(task[w])} \cup {PaymentOf(task[w])}
    /\ Finish(w, "ok")
    /\ UNCHANGED <<events, allocations, cases, links, balance, elsewhere>>

(* The payment is known: nothing is booked again, and a call that says     *)
(* something else of it is refused.  A confirmation still gets its link.   *)
Reuse(w) ==
    IF PaymentOf(task[w]) \notin payments THEN Refuse(w)
    ELSE IF task[w].kind = "fake" THEN Accept(w)
    ELSE LockThen(w, PaymentRow(Pid(task[w])), "commit")

FindPayment(w) ==
    LET pid == Pid(task[w]) IN
    /\ pc[w] = "find_payment"
    /\ \/ PaymentsWith(pid) # {} /\ Free(PaymentRow(pid), w) /\ Reuse(w)
       \/ /\ PaymentsWith(pid) = {}
          /\ IF OpUsed(OpOf(task[w]))
             THEN Refuse(w)
             ELSE /\ Goto(w, "insert_payment")
                  /\ UNCHANGED <<rows, setting, acked, local, crashes>>

\* Mutation: the payment commits before it is credited or set aside.
InsertAndCommit(w) ==
    /\ pc[w] = "insert_payment"
    /\ payments' = payments \cup {PaymentOf(task[w])}
    /\ Goto(w, "match")
    /\ UNCHANGED <<events, allocations, cases, links, balance, elsewhere,
                   setting, acked, local, crashes>>

(* The rows of a payment, before and after it is set aside.                *)
Received(t) == [payment |-> PaymentOf(t), allocation |-> None, case |-> None]
SetAside(t) == [payment |-> PaymentOf(t), allocation |-> None, case |-> OpenCase(Pid(t))]

(* INSERT, inside a savepoint: if another transaction won, its row counts. *)
InsertPayment(w) ==
    /\ pc[w] = "insert_payment"
    /\ \A v \in Workers \ {w} : draft[v].payment # None => draft[v].payment.id # Pid(task[w])
    /\ IF PaymentsWith(Pid(task[w])) # {}
       THEN Reuse(w)
       ELSE /\ draft' = [draft EXCEPT ![w] = Received(task[w])]
            /\ Goto(w, "match")
            /\ UNCHANGED <<rows, setting, acked, task, rowLocks, joined, answer, crashes>>

(* The reference names a subscriber, whose row is locked, or a case opens. *)
Match(w) ==
    LET s == task[w].msg.account IN
    /\ pc[w] = "match"
    /\ \/ s \in registered /\ LockThen(w, SubscriberRow(s), "credit")
       \/ /\ s \notin registered
          /\ draft' = [draft EXCEPT ![w] = SetAside(task[w])]
          /\ Goto(w, "commit")
          /\ UNCHANGED <<rows, setting, acked, task, rowLocks, joined, answer, crashes>>

-----------------------------------------------------------------------------
(* Resolving an unmatched payment.                                         *)

(* SELECT ... FOR UPDATE OF the case, joined to its allocation: the join   *)
(* is made before the wait for the lock, and not made again after it.      *)
PickCase(w) ==
    LET pid == task[w].payment IN
    /\ pc[w] = "pick_case"
    /\ joined' = [joined EXCEPT ![w] =
         IF \E c \in CasesOf(pid) : IsOpen(c)
         THEN None ELSE CHOOSE a \in AllocationsOf(pid) : TRUE]
    /\ Goto(w, "lock_case")
    /\ UNCHANGED <<rows, setting, acked, task, rowLocks, draft, answer, crashes>>

LockCase(w) ==
    /\ pc[w] = "lock_case"
    /\ LockThen(w, CaseRow(task[w].payment), "lock_payment")

\* Mutation: only the joined allocation counts.
JoinedOnly(w) == {joined[w]} \ {None}

(* The allocation that resolved the case, looked up if the join missed it. *)
Resolution(w) ==
    IF joined[w] # None THEN {joined[w]}
    ELSE {a \in AllocationsOf(task[w].payment) : a.op = task[w].op}

(* The resolved case is what this very call would have made of it.         *)
Repeats(t, c, a) ==
    /\ a.op = t.op
    /\ a.wallet = t.subscriber
    /\ c.wallet = a.wallet
    /\ c.reason = t.reason

LockPayment(w) ==
    LET t == task[w] IN
    /\ pc[w] = "lock_payment"
    /\ Free(PaymentRow(t.payment), w)
    /\ \E c \in CasesOf(t.payment) :
         IF ~IsOpen(c)
         THEN IF \E a \in Resolution(w) : Repeats(t, c, a) THEN Accept(w) ELSE Refuse(w)
         ELSE IF AllocationsOf(t.payment) # {} \/ OpUsed(t.op)
         THEN Refuse(w)
         ELSE LockThen(w, PaymentRow(t.payment), "lock_subscriber")

LockSubscriber(w) ==
    /\ pc[w] = "lock_subscriber"
    /\ LockThen(w, SubscriberRow(task[w].subscriber), "credit")

-----------------------------------------------------------------------------
(* Booking, for all three.                                                 *)

\* Mutation: no upper limit on a balance.
AnyBalance(b) == b >= 0

BalanceAllowed(b) == b \in 0..MaxMoney

(* _create_payment_wallet_credit, under the subscriber's lock.             *)
NewAllocation(t) ==
    IF IsIntake(t)
    THEN [payment |-> Pid(t), wallet |-> t.msg.account, op |-> OpOf(t),
          amount |-> t.msg.amount]
    ELSE [payment |-> Pid(t), wallet |-> t.subscriber, op |-> OpOf(t),
          amount |-> (CHOOSE p \in PaymentsWith(t.payment) : TRUE).amount]

ClosedCase(t) ==
    [payment |-> t.payment, op |-> t.op, wallet |-> t.subscriber, reason |-> t.reason]

(* The rows of a payment that is credited, on arrival or by its case.      *)
Credited(t) ==
    [payment |-> IF IsIntake(t) THEN PaymentOf(t) ELSE None,
     allocation |-> NewAllocation(t),
     case |-> IF IsIntake(t) THEN None ELSE ClosedCase(t)]

\* Mutation: the identifier is not looked up again under the lock.
CreditUnchecked(w) ==
    LET a == NewAllocation(task[w]) IN
    /\ pc[w] = "credit"
    /\ ~DraftedElsewhere(w, a.op, a.payment)
    /\ IF BalanceAllowed(balance[a.wallet] + a.amount) /\ AllocationsOf(a.payment) = {}
       THEN /\ draft' = [draft EXCEPT ![w] = Credited(task[w])]
            /\ Goto(w, "commit")
            /\ UNCHANGED <<rows, setting, acked, task, rowLocks, joined, answer, crashes>>
       ELSE Refuse(w)

Credit(w) ==
    LET a == NewAllocation(task[w]) IN
    /\ pc[w] = "credit"
    /\ ~DraftedElsewhere(w, a.op, a.payment)
    /\ IF /\ BalanceAllowed(balance[a.wallet] + a.amount)
          /\ ~OpUsed(a.op)
          /\ AllocationsOf(a.payment) = {}
       THEN /\ draft' = [draft EXCEPT ![w] = Credited(task[w])]
            /\ Goto(w, "commit")
            /\ UNCHANGED <<rows, setting, acked, task, rowLocks, joined, answer, crashes>>
       ELSE Refuse(w)

(* COMMIT of everything the transaction wrote, a confirmation's link too.  *)
Commit(w) ==
    LET d == draft[w]
        t == task[w]
    IN
    /\ pc[w] = "commit"
    /\ payments' = payments \cup ({d.payment} \ {None})
    /\ allocations' = allocations \cup ({d.allocation} \ {None})
    /\ cases' = IF d.case = None THEN cases
                ELSE (cases \ CasesOf(Pid(t))) \cup {d.case}
    /\ links' = links \cup (IF t.kind = "confirmation"
                            THEN {[event |-> t.msg.tx, payment |-> Pid(t)]} ELSE {})
    /\ balance' = IF d.allocation = None THEN balance
                  ELSE [balance EXCEPT ![d.allocation.wallet] = @ + d.allocation.amount]
    /\ Finish(w, "ok")
    /\ UNCHANGED <<events, elsewhere>>

(* The answer leaves; the provider stops sending what was acknowledged.    *)
Respond(w) ==
    /\ pc[w] = "done"
    /\ acked' = IF task[w].kind = "confirmation" /\ answer[w] = "ok"
                THEN acked \cup {task[w].msg} ELSE acked
    /\ Goto(w, "idle")
    /\ task' = [task EXCEPT ![w] = None]
    /\ answer' = [answer EXCEPT ![w] = None]
    /\ UNCHANGED <<rows, setting, rowLocks, joined, draft, crashes>>

-----------------------------------------------------------------------------
(* What happens around the calls.                                          *)

Stop(ws) ==
    /\ crashes < MaxCrashes
    /\ crashes' = crashes + 1
    /\ pc' = [w \in Workers |-> IF w \in ws THEN "idle" ELSE pc[w]]
    /\ task' = [w \in Workers |-> IF w \in ws THEN None ELSE task[w]]
    /\ rowLocks' = [w \in Workers |-> IF w \in ws THEN {} ELSE rowLocks[w]]
    /\ joined' = [w \in Workers |-> IF w \in ws THEN None ELSE joined[w]]
    /\ draft' = [w \in Workers |-> IF w \in ws THEN NoDraft ELSE draft[w]]
    /\ answer' = [w \in Workers |-> IF w \in ws THEN None ELSE answer[w]]
    /\ UNCHANGED <<rows, acked, registered, active>>

(* A worker dies, before or after its commit: PostgreSQL rolls back what   *)
(* was open, and whoever called hears nothing.                             *)
Crash(w) == pc[w] # "idle" /\ Stop({w}) /\ UNCHANGED enabled

(* A redeployment switches ingestion on or off and restarts the workers.   *)
Redeploy == Stop(Workers) /\ enabled' = ~enabled

(* sync_mpesa_paybill_profile creates or activates the Paybill profile.    *)
SyncProfile ==
    /\ enabled
    /\ \A w \in Workers : ProfileRow("paybill") \notin rowLocks[w]
    /\ active' = active \cup {"paybill"}
    /\ UNCHANGED <<rows, registered, enabled, acked, pc, local, crashes>>

(* A profile is deactivated, which no payment prevents.                    *)
Deactivate(profile) ==
    /\ profile \in active
    /\ \A w \in Workers : ProfileRow(profile) \notin rowLocks[w]
    /\ active' = active \ {profile}
    /\ UNCHANGED <<rows, registered, enabled, acked, pc, local, crashes>>

Register(s) ==
    /\ s \notin registered
    /\ registered' = registered \cup {s}
    /\ UNCHANGED <<rows, active, enabled, acked, pc, local, crashes>>

(* Adjustments, reversals and billing charges change the balance under     *)
(* the subscriber's lock and spend an operation identifier.                *)
PostElsewhere(s, o, b) ==
    /\ s \in registered
    /\ \A w \in Workers : SubscriberRow(s) \notin rowLocks[w]
    /\ \A w \in Workers : draft[w].allocation # None => draft[w].allocation.op # o
    /\ ~OpUsed(o)
    /\ b # balance[s]
    /\ elsewhere' = elsewhere \cup {[op |-> o, wallet |-> s, amount |-> b - balance[s]]}
    /\ balance' = [balance EXCEPT ![s] = b]
    /\ UNCHANGED <<events, payments, allocations, cases, links, setting, acked, pc,
                   local, crashes>>

-----------------------------------------------------------------------------
Init ==
    /\ events = [x \in Transactions |-> None]
    /\ payments = {} /\ allocations = {} /\ cases = {} /\ links = {}
    /\ balance = [s \in Subscribers |-> 0]
    /\ elsewhere = {}
    /\ registered \in SUBSET Subscribers
    /\ active \in SUBSET Profiles
    /\ enabled \in BOOLEAN
    /\ acked = {}
    /\ pc = [w \in Workers |-> "idle"]
    /\ task = [w \in Workers |-> None]
    /\ rowLocks = [w \in Workers |-> {}]
    /\ joined = [w \in Workers |-> None]
    /\ draft = [w \in Workers |-> NoDraft]
    /\ answer = [w \in Workers |-> None]
    /\ crashes = 0

(* The statements that end a call, once it has come in.                    *)
Proceed(w) ==
    \/ Capture(w) \/ LockEvent(w) \/ LockProfile(w) \/ FindPayment(w)
    \/ InsertPayment(w) \/ Match(w) \/ PickCase(w) \/ LockCase(w)
    \/ LockPayment(w) \/ LockSubscriber(w) \/ Credit(w) \/ Commit(w) \/ Respond(w)

Environment ==
    \/ Redeploy
    \/ SyncProfile
    \/ \E profile \in Profiles : Deactivate(profile)
    \/ \E s \in Subscribers : Register(s)
    \/ \E s \in Subscribers, o \in Ops, b \in 0..MaxMoney : PostElsewhere(s, o, b)

Next ==
    \/ \E w \in Workers :
         \/ \E m \in Messages : Deliver(w, m)
         \/ EnterFake(w) \/ ResolveCase(w)
         \/ Proceed(w)
         \/ Crash(w)
    \/ Environment

Spec == Init /\ [][Next]_vars

(* The provider repeats what was not acknowledged.                         *)
Retry(m) == m \notin acked /\ \E w \in Workers : Deliver(w, m)

(* Workers keep running and PostgreSQL serves the waiters of a lock in     *)
(* turn; the provider keeps retrying.  No operator has to act.             *)
Fairness ==
    /\ \A w \in Workers : SF_vars(Proceed(w))
    /\ \A m \in Messages : SF_vars(Retry(m))

FairSpec == Spec /\ Fairness

-----------------------------------------------------------------------------
(* Every variable keeps the kind of value the code gives it.               *)
TypeOK ==
    /\ events \in [Transactions -> Evidence]
    /\ payments \subseteq Payment
    /\ allocations \subseteq Allocation
    /\ cases \subseteq Case
    /\ links \subseteq Link
    /\ balance \in [Subscribers -> 0..MaxMoney]
    /\ elsewhere \subseteq Posting
    /\ registered \subseteq Subscribers
    /\ active \subseteq Profiles
    /\ enabled \in BOOLEAN
    /\ acked \subseteq Messages
    /\ pc \in [Workers -> Steps]
    /\ task \in [Workers -> Task \cup {None}]
    /\ rowLocks \in [Workers -> SUBSET Rows]
    /\ joined \in [Workers -> Allocation \cup {None}]
    /\ draft \in [Workers -> Draft]
    /\ answer \in [Workers -> Answered \cup {None}]
    /\ crashes \in 0..MaxCrashes

(* Every received payment is accounted for, exactly one way, and all of it *)
(* or nothing: its full amount credited to the subscriber its reference    *)
(* names, or an open case and no credit, or a resolved case with the one   *)
(* credit the case tells of.                                               *)
Matched(p) ==
    /\ CasesOf(p.id) = {}
    /\ \E a \in allocations : AllocationsOf(p.id) = {a} /\ a.wallet = p.account

Waiting(p) ==
    AllocationsOf(p.id) = {} /\ CasesOf(p.id) = {OpenCase(p.id)}

Resolved(p) ==
    \E c \in cases, a \in allocations :
        /\ CasesOf(p.id) = {c} /\ ~IsOpen(c)
        /\ AllocationsOf(p.id) = {a}
        /\ c.op = a.op /\ c.wallet = a.wallet

PaymentsAccounted ==
    /\ \A p \in payments :
        /\ Matched(p) \/ Waiting(p) \/ Resolved(p)
        /\ \A a \in AllocationsOf(p.id) : a.amount = p.amount
    /\ \A a \in allocations : PaymentsWith(a.payment) # {}
    /\ \A c \in cases : PaymentsWith(c.payment) # {}

(* Money follows the evidence: every Paybill payment is linked to the      *)
(* captured event it came from and says what the event says, however many  *)
(* different payloads the provider sent for its transaction.               *)
EvidenceMatches ==
    \A p \in payments : p.id[1] = "paybill" =>
        /\ \E l \in links : l.payment = p.id
        /\ \A l \in links : l.payment = p.id =>
            events[l.event] = [tx |-> p.id[2], amount |-> p.amount, account |-> p.account]

(* The profile lock makes ingestion one at a time, so that the fallback of *)
(* an insert that lost a race is never taken.                              *)
InsertsAlone ==
    \A w \in Workers : pc[w] = "insert_payment" =>
        /\ PaymentsWith(Pid(task[w])) = {}
        /\ \A v \in Workers : draft[v].payment # None => draft[v].payment.id # Pid(task[w])

(* A confirmation is acknowledged only when the provider need not send it  *)
(* again: it is booked, it can never be, or ingestion is off.              *)
AcksEarned ==
    [][\A m \in acked' \ acked :
         \/ LinksOf(m.tx) # {}
         \/ m.amount = None
         \/ events[m.tx] # m
         \/ ~enabled]_vars

(* Resolving a case again in the same way succeeds, even if the second     *)
(* call waited for the case while the first one committed.                 *)
ResolutionsReplayed ==
    [][\A w \in Workers :
         /\ task[w] # None
         /\ task[w].kind = "resolve"
         /\ answer[w] = None
         /\ answer'[w] = "refused"
         => ~ \E c \in CasesOf(task[w].payment) :
                \E a \in AllocationsOf(task[w].payment) : Repeats(task[w], c, a)]_vars

(* The provider is not kept retrying for ever: once ingestion is on, the   *)
(* profile stays active and the wallet has room, every confirmation is     *)
(* acknowledged.                                                           *)
HasRoom(m) ==
    m.amount # None /\ m.account # None => balance[m.account] + m.amount <= MaxMoney

RetriesEnd ==
    \A m \in Messages :
        <>[](enabled /\ "paybill" \in active /\ HasRoom(m)) => <>(m \in acked)

(* The committed rows are a payment book: no payment is received twice or  *)
(* changed, and no credit is repeated, moved or taken back.                *)
Booked(pid) ==
    IF PaymentsWith(pid) = {} THEN None
    ELSE [amount |-> (CHOOSE p \in PaymentsWith(pid) : TRUE).amount,
          account |-> (CHOOSE p \in PaymentsWith(pid) : TRUE).account,
          credits |-> {[wallet |-> a.wallet, amount |-> a.amount] : a \in AllocationsOf(pid)}]

Bookings == [pid \in Pids |-> Booked(pid)]

Book == INSTANCE PaymentBook WITH Payments <- Pids, book <- Bookings

ImplementsBook == Book!Spec

(* And with what other services post they are an account: an identifier    *)
(* moves a wallet once, whichever service or worker it is given to, and    *)
(* what is in the wallets is what the rows moved, never below zero or past *)
(* the limit.  What a reversal undoes is for WalletLedger to say.          *)
MoveOf(e) == [op |-> e.op, subscriber |-> e.wallet, delta |-> e.amount, undoes |-> None]

Moves == {MoveOf(e) : e \in allocations \cup elsewhere}

Abstract == INSTANCE Account WITH Ops <- Operations, moves <- Moves

ImplementsAccount == Abstract!Spec

=============================================================================
