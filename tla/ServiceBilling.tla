--------------------------- MODULE ServiceBilling ---------------------------
(***************************************************************************)
(* Package subscriptions and billing periods, from billing/services.py:    *)
(* assigning, changing and ending a subscription; activating and renewing  *)
(* a service, with or without a charge to its subscriber's wallet.         *)
(*                                                                         *)
(* Every call is one transaction.  All of them lock the service and its    *)
(* subscriber in one statement, after lookups that lock nothing; what they *)
(* read under that lock cannot change until they end.  What is not under   *)
(* it may: package rows, the operation identifiers of other services, and  *)
(* everything before the lock is obtained.                                 *)
(***************************************************************************)
EXTENDS Integers, FiniteSets, Functions

CONSTANTS
    Workers,        \* the web workers
    Services,
    Subscribers,
    OwnerOf,        \* the subscriber of each service, which never changes
    Plans,          \* packages
    Terms,          \* terms a package may have: price, duration and grace
    Kinds,          \* the kinds of calls operators make
    Ops,            \* operation identifiers
    Reasons,
    MaxMoney,       \* MAX_MONEY_MINOR
    Opening,        \* what wallets may hold when the model starts
    MaxTime,        \* bound: the last time the clock shows
    MaxSubscriptions,   \* bound: with so many, a service is given no other
    MaxSwitches,    \* bound: how often others change what calls read
    None

PlainKinds == {"activate", "renew"}
FundedKinds == {"activate_funded", "renew_funded"}
PeriodKinds == PlainKinds \cup FundedKinds
AssignmentKinds == {"assign", "change", "end"}

Done == {"written", "replayed"}
Refused == {"conflict", "invalid", "ineligible", "stale", "balance"}

-----------------------------------------------------------------------------
(* Rows and calls.                                                         *)

Package == [terms: Terms, active: BOOLEAN]

Subscription ==
    [id: Nat \ {0}, service: Services, plan: Plans, terms: Terms,
     active: BOOLEAN]

Period ==
    [service: Services, seq: Nat \ {0}, op: Ops, type: {"activation", "renewal"},
     previous: Ops \cup {None}, subscription: Nat \ {0}, terms: Terms,
     starts: Nat, expires: Nat, grace_until: Nat]

(* A charge, with the balance the ledger entry of its debit leaves.        *)
Charge ==
    [service: Services, op: Ops, type: {"activation", "renewal"},
     amount: 1..MaxMoney, balance_after: Nat, reason: Reasons]

Call ==
    [kind: Kinds, service: Services, op: Ops \cup {None}, previous: Ops \cup {None},
     plan: Plans \cup {None}, subscription: Nat, reason: Reasons]

Draft ==
    [period: Period \cup {None}, charge: Charge \cup {None},
     subscription: Subscription \cup {None}, ended: Nat]

ASSUME ServiceBillingAssumption ==
    /\ OwnerOf \in [Services -> Subscribers]
    /\ MaxMoney \in Nat \ {0}
    /\ MaxTime \in Nat
    /\ MaxSubscriptions \in Nat \ {0}
    /\ Opening \subseteq 0..MaxMoney
    /\ MaxSwitches \in Nat
    /\ Terms \subseteq [price: 1..MaxMoney, duration: Nat \ {0}, grace: Nat]
    /\ Kinds \subseteq PeriodKinds \cup AssignmentKinds
    /\ None \notin Ops \cup Reasons \cup Plans \cup Nat
    /\ None \notin Subscription \cup Period \cup Charge \cup Call
    /\ None \notin [starts: Nat, expires: Nat, grace_until: Nat]
    /\ None \notin Done \cup Refused

-----------------------------------------------------------------------------
VARIABLES
    subscriptions,  \* committed Subscription rows
    periods,        \* committed BillingPeriod rows
    charges,        \* committed BillingCharge rows
    ledgerOps,      \* operation identifiers of committed ledger entries
    balance,        \* wallet balances, None where there is no wallet
    deposited,      \* history: what other services moved into each wallet
    catalog,        \* packages: their terms and whether they are active
    serviceOn,      \* active services
    subscriberOn,   \* active subscribers
    now,            \* the clock
    switches,       \* how often something was switched
    pc,             \* the statement each worker is about to run
    call,           \* the call it serves, or None
    rowLocks,       \* the rows its transaction holds FOR UPDATE
    draft,          \* the rows its transaction wrote
    answer          \* how its call ended, None while it runs

money == <<ledgerOps, balance, deposited>>
rows == <<subscriptions, periods, charges, money>>
around == <<catalog, serviceOn, subscriberOn, now, switches>>
local == <<call, rowLocks, draft, answer>>
vars == <<rows, around, pc, local>>

(* Every model's save validates with full_clean, which sees the committed  *)
(* rows, and then inserts the row.                                         *)
Saving ==
    {"save_period", "insert_period", "save_entry", "insert_entry",
     "save_charge", "insert_charge"}

Steps ==
    Saving \cup
    {"idle", "lookup", "lookup_rest", "lock_service", "lock_subscriber",
     "recheck", "check", "lock_plan", "commit", "done"}

-----------------------------------------------------------------------------
(* What calls find.                                                        *)

NoDraft == [period |-> None, charge |-> None, subscription |-> None, ended |-> 0]

Funded(c) == c.kind \in FundedKinds

TypeOf(c) == IF c.kind \in {"activate", "activate_funded"} THEN "activation" ELSE "renewal"

PeriodsOf(x) == {p \in periods : p.service = x}

(* The row `.order_by("-sequence_number").first()' finds, or None.         *)
LatestPeriod(x) ==
    IF PeriodsOf(x) = {} THEN None
    ELSE CHOOSE p \in PeriodsOf(x) : \A q \in PeriodsOf(x) : q.seq <= p.seq

ActiveSubscriptions(x) == {b \in subscriptions : b.service = x /\ b.active}

(* The committed period or charge is what this very call would have made.  *)
PeriodAnswers(c, p) ==
    /\ p.op = c.op
    /\ p.service = c.service
    /\ p.type = TypeOf(c)
    /\ p.previous = c.previous

ChargeAnswers(c, h) ==
    /\ h.op = c.op
    /\ h.service = c.service
    /\ h.type = TypeOf(c)
    /\ h.reason = c.reason
    /\ \E p \in periods : p.op = h.op /\ p.previous = c.previous /\ h.amount = p.terms.price

Answered(c) ==
    IF Funded(c) THEN \E h \in charges : ChargeAnswers(c, h)
    ELSE \E p \in periods : PeriodAnswers(c, p)

PeriodUses(o) == \E p \in periods : p.op = o
ChargeUses(o) == \E h \in charges : h.op = o

Taken(c) == PeriodUses(c.op) \/ (Funded(c) /\ (ChargeUses(c.op) \/ c.op \in ledgerOps))

(* The open transactions that have put an identifier into the unique index *)
(* of periods, of ledger entries and of charges.                           *)
EntryInserted == {"save_charge", "insert_charge", "commit"}
PeriodInserted == {"save_entry", "insert_entry"} \cup EntryInserted

HoldsPeriodKey(v, o) ==
    pc[v] \in PeriodInserted /\ draft[v].period # None /\ draft[v].period.op = o

HoldsEntryKey(v, o) ==
    pc[v] \in EntryInserted /\ draft[v].charge # None /\ draft[v].charge.op = o

HoldsChargeKey(v, o) ==
    pc[v] = "commit" /\ draft[v].charge # None /\ draft[v].charge.op = o

-----------------------------------------------------------------------------
(* Locks, and how a call ends.                                             *)

ServiceRow(x) == <<"service", x>>
SubscriberRow(s) == <<"subscriber", s>>
PlanRow(p) == <<"plan", p>>

Rows ==
    ({"service"} \X Services) \cup ({"subscriber"} \X Subscribers) \cup ({"plan"} \X Plans)

Free(row, w) == \A v \in Workers \ {w} : row \notin rowLocks[v]

Unlocked(row) == \A v \in Workers : row \notin rowLocks[v]

Goto(w, step) == pc' = [pc EXCEPT ![w] = step]

GoOn(w, step) == Goto(w, step) /\ UNCHANGED <<rows, around, local>>

\* Mutation: the rows are read without FOR UPDATE.
ReadThen(w, row, step) == GoOn(w, step)

LockThen(w, row, step) ==
    /\ Free(row, w)
    /\ rowLocks' = [rowLocks EXCEPT ![w] = @ \cup {row}]
    /\ Goto(w, step)
    /\ UNCHANGED <<rows, around, call, draft, answer>>

(* The transaction ends, with a commit or a rollback; the locks go with it.*)
Finish(w, how) ==
    /\ Goto(w, "done")
    /\ answer' = [answer EXCEPT ![w] = how]
    /\ rowLocks' = [rowLocks EXCEPT ![w] = {}]
    /\ draft' = [draft EXCEPT ![w] = NoDraft]
    /\ UNCHANGED <<around, call>>

Return(w, how) == Finish(w, how) /\ UNCHANGED rows

(* The identifier is known: the row it made is the answer, or an error.    *)
Replay(w) == Return(w, IF Answered(call[w]) THEN "replayed" ELSE "conflict")

-----------------------------------------------------------------------------
(* Calls come in.                                                          *)

Start(w, c, step) ==
    /\ pc[w] = "idle"
    /\ call' = [call EXCEPT ![w] = c]
    /\ Goto(w, step)
    /\ UNCHANGED <<rows, around, rowLocks, draft, answer>>

(* An activation names no previous period; a renewal names the one that    *)
(* its form showed as the latest, which may not be the latest any more.    *)
SubmitPeriod(w) ==
    \E k \in Kinds \cap PeriodKinds, x \in Services, o \in Ops, r \in Reasons,
       p \in {None} \cup {q.op : q \in periods} :
        /\ p = None <=> k \in {"activate", "activate_funded"}
        /\ \A q \in periods : q.op = p => q.service = x
        /\ Start(w, [kind |-> k, service |-> x, op |-> o, previous |-> p,
                     plan |-> None, subscription |-> 0, reason |-> r], "lookup")

HasRoom(x) == Cardinality({b \in subscriptions : b.service = x}) < MaxSubscriptions

SubmitAssignment(w) ==
    \E x \in Services, plan \in Plans, r \in Reasons :
        /\ "assign" \in Kinds
        /\ HasRoom(x)
        /\ Start(w, [kind |-> "assign", service |-> x, op |-> None, previous |-> None,
                     plan |-> plan, subscription |-> 0, reason |-> r], "lock_service")

(* Changing or ending names a subscription; its service never changes.     *)
SubmitForSubscription(w) ==
    \E k \in Kinds \cap {"change", "end"}, b \in subscriptions, r \in Reasons,
       plan \in Plans \cup {None} :
        /\ plan = None <=> k = "end"
        /\ k = "change" => HasRoom(b.service)
        /\ Start(w, [kind |-> k, service |-> b.service, op |-> None, previous |-> None,
                     plan |-> plan, subscription |-> b.id, reason |-> r], "lock_service")

-----------------------------------------------------------------------------
(* Every call: the service's row, then its subscriber's.                   *)

LockService(w) ==
    /\ pc[w] = "lock_service"
    /\ LockThen(w, ServiceRow(call[w].service), "lock_subscriber")

Checks(c) == IF c.kind \in PeriodKinds THEN "recheck" ELSE "check"

\* Mutation: the lock is taken of the service row alone.
ReadSubscriber(w) ==
    /\ pc[w] = "lock_subscriber"
    /\ GoOn(w, Checks(call[w]))

LockSubscriber(w) ==
    /\ pc[w] = "lock_subscriber"
    /\ LockThen(w, SubscriberRow(OwnerOf[call[w].service]), Checks(call[w]))

BothActive(x) == x \in serviceOn /\ OwnerOf[x] \in subscriberOn

-----------------------------------------------------------------------------
(* Activating and renewing.                                                *)

(* Looking for an earlier call with the identifier, before any lock.  The  *)
(* tables a funded call looks at are read by statements of their own.      *)
Lookup(w) ==
    LET c == call[w] IN
    /\ pc[w] = "lookup"
    /\ IF IF Funded(c) THEN ChargeUses(c.op) ELSE PeriodUses(c.op)
       THEN Replay(w)
       ELSE GoOn(w, IF Funded(c) THEN "lookup_rest" ELSE "lock_service")

LookupRest(w) ==
    /\ pc[w] = "lookup_rest"
    /\ IF Taken(call[w]) THEN Return(w, "conflict") ELSE GoOn(w, "lock_service")

Eligible(c) ==
    /\ BothActive(c.service)
    /\ ActiveSubscriptions(c.service) # {}
    /\ Funded(c) => balance[OwnerOf[c.service]] # None

\* Mutation: a renewal starts when it is made.
StartsNow(previous) == now

\* Mutation: time in grace is given away.
StartsAfterExpiry(previous) ==
    IF previous # None /\ now < previous.expires THEN previous.expires ELSE now

StartsAt(previous) ==
    IF previous # None /\ now < previous.grace_until THEN previous.expires ELSE now

NewPeriod(c) ==
    LET b == CHOOSE a \in ActiveSubscriptions(c.service) : TRUE
        previous == LatestPeriod(c.service)
        expires == StartsAt(previous) + b.terms.duration IN
    [service |-> c.service, type |-> TypeOf(c), op |-> c.op, previous |-> c.previous,
     seq |-> IF previous = None THEN 1 ELSE previous.seq + 1,
     subscription |-> b.id, terms |-> b.terms,
     starts |-> StartsAt(previous), expires |-> expires,
     grace_until |-> expires + b.terms.grace]

\* Mutation: the charge is what the package costs today.
ChargeToday(c) ==
    LET b == CHOOSE a \in ActiveSubscriptions(c.service) : TRUE
        price == catalog[b.plan].terms.price IN
    [service |-> c.service, op |-> c.op, type |-> TypeOf(c), amount |-> price,
     balance_after |-> balance[OwnerOf[c.service]] - price, reason |-> c.reason]

NewCharge(c) ==
    LET price == NewPeriod(c).terms.price IN
    [service |-> c.service, op |-> c.op, type |-> TypeOf(c), amount |-> price,
     balance_after |-> balance[OwnerOf[c.service]] - price, reason |-> c.reason]

(* The rows of a period, with its charge if it is paid from the wallet.    *)
Billing(c) ==
    [period |-> NewPeriod(c), charge |-> IF Funded(c) THEN NewCharge(c) ELSE None,
     subscription |-> None, ended |-> 0]

\* Mutation: nobody looks at the balance.
OnCredit(c) == TRUE

Affordable(c) ==
    Funded(c) => balance[OwnerOf[c.service]] >= NewPeriod(c).terms.price

Outdated(c) ==
    c.previous # (IF LatestPeriod(c.service) = None THEN None ELSE LatestPeriod(c.service).op)

\* Mutation: the identifier is not looked up again under the locks.
CheckOnce(w) ==
    LET c == call[w] IN
    /\ pc[w] = "recheck"
    /\ \/ ~Eligible(c) /\ Return(w, "ineligible")
       \/ Eligible(c) /\ Outdated(c) /\ Return(w, "stale")
       \/ Eligible(c) /\ ~Outdated(c) /\ ~Affordable(c) /\ Return(w, "balance")
       \/ /\ Eligible(c) /\ ~Outdated(c) /\ Affordable(c)
          /\ draft' = [draft EXCEPT ![w] = Billing(c)]
          /\ Goto(w, "save_period")
          /\ UNCHANGED <<rows, around, call, rowLocks, answer>>

(* Under the locks: what must hold of the service comes before another     *)
(* look at the identifier.  Only the identifiers of other services, the    *)
(* packages and the clock can change from here to the end of the call.     *)
Recheck(w) ==
    LET c == call[w] IN
    /\ pc[w] = "recheck"
    /\ \/ ~Eligible(c) /\ Return(w, "ineligible")
       \/ Eligible(c) /\ Taken(c) /\ Replay(w)
       \/ Eligible(c) /\ ~Taken(c) /\ Outdated(c) /\ Return(w, "stale")
       \/ /\ Eligible(c) /\ ~Taken(c) /\ ~Outdated(c) /\ ~Affordable(c)
          /\ Return(w, "balance")
       \/ /\ Eligible(c) /\ ~Taken(c) /\ ~Outdated(c) /\ Affordable(c)
          /\ draft' = [draft EXCEPT ![w] = Billing(c)]
          /\ Goto(w, "save_period")
          /\ UNCHANGED <<rows, around, call, rowLocks, answer>>

Try(w, step, taken, how, next) ==
    /\ pc[w] = step
    /\ IF taken THEN Return(w, how) ELSE GoOn(w, next)

(* The saves translate what they know: an identifier that full_clean finds *)
(* in the ledger or among the charges is a different entry or charge, and  *)
(* a unique index that refuses an INSERT makes the form outdated.  What    *)
(* full_clean finds among the periods is passed on as it is.               *)
SavePeriod(w) ==
    Try(w, "save_period", PeriodUses(call[w].op), "invalid", "insert_period")

\* Mutation: the period is saved in a transaction of its own.
InsertPeriodAtOnce(w) ==
    /\ pc[w] = "insert_period"
    /\ ~PeriodUses(call[w].op)
    /\ periods' = periods \cup {draft[w].period}
    /\ Goto(w, IF Funded(call[w]) THEN "save_entry" ELSE "commit")
    /\ UNCHANGED <<subscriptions, charges, money, around, local>>

(* INSERT waits for an open transaction with the same identifier.          *)
InsertPeriod(w) ==
    /\ Try(w, "insert_period", PeriodUses(call[w].op), "stale",
           IF Funded(call[w]) THEN "save_entry" ELSE "commit")
    /\ \A v \in Workers \ {w} : ~HoldsPeriodKey(v, call[w].op)

SaveEntry(w) ==
    Try(w, "save_entry", call[w].op \in ledgerOps, "conflict", "insert_entry")

InsertEntry(w) ==
    /\ Try(w, "insert_entry", call[w].op \in ledgerOps, "stale", "save_charge")
    /\ \A v \in Workers \ {w} : ~HoldsEntryKey(v, call[w].op)

SaveCharge(w) ==
    Try(w, "save_charge", ChargeUses(call[w].op), "conflict", "insert_charge")

InsertCharge(w) ==
    /\ Try(w, "insert_charge", ChargeUses(call[w].op), "stale", "commit")
    /\ \A v \in Workers \ {w} : ~HoldsChargeKey(v, call[w].op)

Save(w) ==
    \/ SavePeriod(w) \/ InsertPeriod(w)
    \/ SaveEntry(w) \/ InsertEntry(w)
    \/ SaveCharge(w) \/ InsertCharge(w)

-----------------------------------------------------------------------------
(* Assigning, changing and ending.                                         *)

(* Only the service's active subscription can be changed or ended, and a   *)
(* service that has one gets no other by assignment.                       *)
Check(w) ==
    LET c == call[w]
        named == {b \in ActiveSubscriptions(c.service) : b.id = c.subscription} IN
    /\ pc[w] = "check"
    /\ \/ /\ c.kind = "assign"
          /\ IF BothActive(c.service) /\ ActiveSubscriptions(c.service) = {}
             THEN GoOn(w, "lock_plan")
             ELSE Return(w, "ineligible")
       \/ /\ c.kind = "change"
          /\ IF named # {} THEN GoOn(w, "lock_plan") ELSE Return(w, "ineligible")
       \/ /\ c.kind = "end"
          /\ IF named # {}
             THEN /\ draft' = [draft EXCEPT ![w].ended = c.subscription]
                  /\ Goto(w, "commit")
                  /\ UNCHANGED <<rows, around, call, rowLocks, answer>>
             ELSE Return(w, "ineligible")

NewSubscription(c) ==
    [id |-> 1 + Cardinality({b \in subscriptions : b.service = c.service}),
     service |-> c.service, plan |-> c.plan, terms |-> catalog[c.plan].terms,
     active |-> TRUE]

(* The rows of a new subscription, and the one it replaces.                *)
Sale(c) ==
    [period |-> None, charge |-> None, subscription |-> NewSubscription(c),
     ended |-> c.subscription]

PlanAllowed(c) ==
    /\ catalog[c.plan].active
    /\ c.kind = "change" =>
        /\ BothActive(c.service)
        /\ \A b \in ActiveSubscriptions(c.service) : b.plan # c.plan

\* Mutation: the package is read without a lock.
ReadPlan(w) ==
    LET c == call[w] IN
    /\ pc[w] = "lock_plan"
    /\ IF PlanAllowed(c)
       THEN /\ draft' = [draft EXCEPT ![w] = Sale(c)]
            /\ Goto(w, "commit")
            /\ UNCHANGED <<rows, around, call, rowLocks, answer>>
       ELSE Return(w, "ineligible")

(* The subscription keeps the terms its package has now.                   *)
LockPlan(w) ==
    LET c == call[w] IN
    /\ pc[w] = "lock_plan"
    /\ Free(PlanRow(c.plan), w)
    /\ IF PlanAllowed(c)
       THEN /\ rowLocks' = [rowLocks EXCEPT ![w] = @ \cup {PlanRow(c.plan)}]
            /\ draft' = [draft EXCEPT ![w] = Sale(c)]
            /\ Goto(w, "commit")
            /\ UNCHANGED <<rows, around, call, answer>>
       ELSE Return(w, "ineligible")

-----------------------------------------------------------------------------
(* COMMIT, the answer, and death.                                          *)

Ended(x, id) ==
    {IF b.service = x /\ b.id = id THEN [b EXCEPT !.active = FALSE] ELSE b :
        b \in subscriptions}

Written(row) == {row} \ {None}

Commit(w) ==
    LET d == draft[w]
        x == call[w].service IN
    /\ pc[w] = "commit"
    /\ subscriptions' = Ended(x, d.ended) \cup Written(d.subscription)
    /\ periods' = periods \cup Written(d.period)
    /\ charges' = charges \cup Written(d.charge)
    /\ ledgerOps' = ledgerOps \cup {h.op : h \in Written(d.charge)}
    /\ balance' = IF d.charge = None THEN balance
                  ELSE [balance EXCEPT ![OwnerOf[x]] = d.charge.balance_after]
    /\ UNCHANGED deposited
    /\ Finish(w, "written")

Respond(w) ==
    /\ pc[w] = "done"
    /\ Goto(w, "idle")
    /\ call' = [call EXCEPT ![w] = None]
    /\ answer' = [answer EXCEPT ![w] = None]
    /\ UNCHANGED <<rows, around, rowLocks, draft>>

(* The worker dies: PostgreSQL rolls its transaction back.                 *)
Crash(w) ==
    /\ pc[w] \notin {"idle", "done"}
    /\ Goto(w, "idle")
    /\ call' = [call EXCEPT ![w] = None]
    /\ rowLocks' = [rowLocks EXCEPT ![w] = {}]
    /\ draft' = [draft EXCEPT ![w] = NoDraft]
    /\ UNCHANGED <<rows, around, answer>>

-----------------------------------------------------------------------------
(* What others do meanwhile, each in one transaction under its own locks.  *)

Switch == switches < MaxSwitches /\ switches' = switches + 1

Toggled(set, e) == IF e \in set THEN set \ {e} ELSE set \cup {e}

SetServiceActive(x) ==
    /\ Switch
    /\ Unlocked(ServiceRow(x)) /\ Unlocked(SubscriberRow(OwnerOf[x]))
    /\ serviceOn' = Toggled(serviceOn, x)
    /\ UNCHANGED <<rows, catalog, subscriberOn, now, pc, local>>

SetSubscriberActive(s) ==
    /\ Switch
    /\ Unlocked(SubscriberRow(s))
    /\ subscriberOn' = Toggled(subscriberOn, s)
    /\ UNCHANGED <<rows, catalog, serviceOn, now, pc, local>>

(* A package is edited, or switched on or off.                             *)
UpdatePackage(p) ==
    /\ Switch
    /\ Unlocked(PlanRow(p))
    /\ \E t \in Terms : catalog' = [catalog EXCEPT ![p].terms = t]
    /\ UNCHANGED <<rows, serviceOn, subscriberOn, now, pc, local>>

SetPackageActive(p) ==
    /\ Switch
    /\ Unlocked(PlanRow(p))
    /\ catalog' = [catalog EXCEPT ![p].active = ~@]
    /\ UNCHANGED <<rows, serviceOn, subscriberOn, now, pc, local>>

(* An adjustment, a reversal or a payment, under the subscriber's lock:    *)
(* the wallet is made if there is none, and the identifier is used, which  *)
(* may be one that a call here is about to use.                            *)
MoneyElsewhere(s) ==
    LET before == IF balance[s] = None THEN 0 ELSE balance[s] IN
    /\ Switch
    /\ Unlocked(SubscriberRow(s))
    /\ \E o \in Ops \cup {None}, after \in 0..MaxMoney :
        /\ o \notin ledgerOps
        /\ \A w \in Workers : ~HoldsEntryKey(w, o)
        /\ after # before
        /\ ledgerOps' = ledgerOps \cup ({o} \ {None})
        /\ balance' = [balance EXCEPT ![s] = after]
        /\ deposited' = [deposited EXCEPT ![s] = @ + after - before]
    /\ UNCHANGED <<subscriptions, periods, charges, catalog, serviceOn, subscriberOn,
                   now, pc, local>>

Tick ==
    /\ now < MaxTime
    /\ now' = now + 1
    /\ UNCHANGED <<rows, catalog, serviceOn, subscriberOn, switches, pc, local>>

-----------------------------------------------------------------------------
(* At the start every package is on sale, and the services have no package *)
(* yet or one each.                                                        *)
FirstSubscriptions(p) ==
    {[id |-> 1, service |-> x, plan |-> p, terms |-> catalog[p].terms, active |-> TRUE] :
        x \in Services}

Init ==
    /\ catalog \in [Plans -> {k \in Package : k.active}]
    /\ subscriptions \in {{}} \cup {FirstSubscriptions(p) : p \in Plans}
    /\ periods = {} /\ charges = {} /\ ledgerOps = {}
    /\ balance \in [Subscribers -> Opening \cup {None}]
    /\ deposited = [s \in Subscribers |-> IF balance[s] = None THEN 0 ELSE balance[s]]
    /\ serviceOn = Services /\ subscriberOn = Subscribers
    /\ now = 0 /\ switches = 0
    /\ pc = [w \in Workers |-> "idle"]
    /\ call = [w \in Workers |-> None]
    /\ rowLocks = [w \in Workers |-> {}]
    /\ draft = [w \in Workers |-> NoDraft]
    /\ answer = [w \in Workers |-> None]

Submit(w) == SubmitPeriod(w) \/ SubmitAssignment(w) \/ SubmitForSubscription(w)

Proceed(w) ==
    \/ LockService(w) \/ LockSubscriber(w)
    \/ Lookup(w) \/ LookupRest(w) \/ Recheck(w) \/ Save(w)
    \/ Check(w) \/ LockPlan(w)
    \/ Commit(w) \/ Respond(w)

Around ==
    \/ \E x \in Services : SetServiceActive(x)
    \/ \E s \in Subscribers : SetSubscriberActive(s) \/ MoneyElsewhere(s)
    \/ \E p \in Plans : UpdatePackage(p) \/ SetPackageActive(p)
    \/ Tick

Next ==
    \/ \E w \in Workers : Submit(w) \/ Proceed(w) \/ Crash(w)
    \/ Around

Spec == Init /\ [][Next]_vars

-----------------------------------------------------------------------------
(* Every variable keeps the kind of value the code gives it; in particular *)
(* no wallet goes below zero.                                              *)
TypeOK ==
    /\ subscriptions \subseteq Subscription
    /\ periods \subseteq Period
    /\ charges \subseteq Charge
    /\ ledgerOps \subseteq Ops
    /\ balance \in [Subscribers -> 0..MaxMoney \cup {None}]
    /\ deposited \in [Subscribers -> Int]
    /\ catalog \in [Plans -> Package]
    /\ serviceOn \subseteq Services
    /\ subscriberOn \subseteq Subscribers
    /\ now \in 0..MaxTime
    /\ switches \in 0..MaxSwitches
    /\ pc \in [Workers -> Steps]
    /\ call \in [Workers -> Call \cup {None}]
    /\ rowLocks \in [Workers -> SUBSET Rows]
    /\ draft \in [Workers -> Draft]
    /\ answer \in [Workers -> Done \cup Refused \cup {None}]

(* The periods of a service are one chain, numbered without a hole, and no *)
(* two of them overlap, however far apart in the chain, whoever activates  *)
(* and renews it at once.  The unique constraints of the table are not     *)
(* modelled: the locks suffice.                                            *)
Follows(p, q) ==
    /\ p.type = "renewal"
    /\ p.previous = q.op
    /\ p.service = q.service
    /\ p.seq = q.seq + 1

PeriodsChained ==
    /\ \A p \in periods :
         \/ p.type = "activation" /\ p.previous = None /\ p.seq = 1
         \/ \E q \in periods : Follows(p, q)
    /\ \A p, q \in periods : p # q =>
         /\ p.op # q.op
         /\ p.service = q.service =>
              /\ p.seq # q.seq
              /\ p.seq < q.seq => p.expires <= q.starts

(* A service has at most one active subscription, whatever operators do at *)
(* once; the partial unique index is not modelled: the locks suffice.      *)
OneActive == \A x \in Services : Cardinality(ActiveSubscriptions(x)) <= 1

(* Every charge paid for one period of its service, at the price that the  *)
(* period's subscription was sold at, whatever its package costs by now.   *)
ChargesBacked ==
    /\ \A p \in periods : \E b \in subscriptions :
         b.service = p.service /\ b.id = p.subscription /\ b.terms = p.terms
    /\ \A h \in charges :
         /\ h.op \in ledgerOps
         /\ \E p \in periods :
              /\ p.op = h.op /\ p.service = h.service /\ p.type = h.type
              /\ p.terms.price = h.amount
    /\ \A g, h \in charges : g.op = h.op => g = h

(* A wallet holds what others moved into it, less what was charged to it:  *)
(* no charge of two services at once overwrites the other, no payment is   *)
(* lost to a charge, and nothing is charged where there is no wallet.      *)
Amount == [h \in Charge |-> h.amount]

ChargedTo(s) == SumFunctionOnSet(Amount, {h \in charges : OwnerOf[h.service] = s})

WalletsAddUp ==
    \A s \in Subscribers :
        (IF balance[s] = None THEN 0 ELSE balance[s]) = deposited[s] - ChargedTo(s)

(* Nothing is billed to a service, a subscriber or a subscription that has *)
(* been switched off or ended by the time the period commits.              *)
EligibleWhenBilled ==
    [][\A p \in periods' \ periods :
         /\ p.service \in serviceOn
         /\ OwnerOf[p.service] \in subscriberOn
         /\ \E b \in ActiveSubscriptions(p.service) : b.id = p.subscription]_vars

(* A subscription is only sold on a package that is on sale, on the terms  *)
(* the package has at that moment.                                         *)
SoldAsOffered ==
    [][\A b \in subscriptions' :
         (\A a \in subscriptions : a.service # b.service \/ a.id # b.id)
           => catalog[b.plan] = [terms |-> b.terms, active |-> TRUE]]_vars

Refuses(w, how) == answer[w] = None /\ answer'[w] \in how

(* "Already used for a different" period or charge is only said of an      *)
(* identifier that has not done what this very call asks for.              *)
ConflictsTrue ==
    [][\A w \in Workers : Refuses(w, {"conflict"}) => ~Answered(call[w])]_vars

(* A call that repeats one that is done gets its row, not a refusal for    *)
(* what became of the service, the wallet or the chain since.              *)
RetriesReplayed ==
    [][\A w \in Workers :
         Refuses(w, {"ineligible", "invalid", "stale", "balance"})
         /\ call[w].kind \in PeriodKinds
           => ~Answered(call[w])]_vars

(* Whether two duplicates race before the lock, behind it or up to the     *)
(* unique indexes: none that is done is told that its form is outdated,    *)
(* that the wallet has not the money or that its identifier is used for    *)
(* something else.  Two places are excepted, which refuse calls that are   *)
(* done: the check of eligibility, and the rest of the unlocked lookup.    *)
RefusalsTrue ==
    [][\A w \in Workers :
         Refuses(w, {"conflict", "invalid", "stale", "balance"}) /\ pc[w] # "lookup_rest"
           => ~Answered(call[w])]_vars

(* Where every period is paid from a wallet, none is left unpaid: what     *)
(* fails after the period is saved (the identifier turns up in the ledger, *)
(* an index refuses a row, the worker dies) takes the period with it.      *)
PeriodsPaid ==
    Kinds \subseteq FundedKinds =>
        \A p \in periods : \E h \in charges :
            h.op = p.op /\ h.service = p.service /\ h.amount = p.terms.price

(* The committed periods are a service's paid time.                        *)
Paid ==
    [x \in Services |->
       IF PeriodsOf(x) = {} THEN None
       ELSE [starts |-> LatestPeriod(x).starts, expires |-> LatestPeriod(x).expires,
             grace_until |-> LatestPeriod(x).grace_until]]

Time == INSTANCE PaidTime WITH paid <- Paid, clock <- now

ImplementsPaidTime == Time!Spec

=============================================================================
