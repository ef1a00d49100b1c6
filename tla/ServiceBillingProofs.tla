------------------------ MODULE ServiceBillingProofs ------------------------
(***************************************************************************)
(* Proofs about ServiceBilling, for any workers, services, wallets,        *)
(* packages and calls.  What a call reads once it has locked the service   *)
(* and its subscriber is still so when it commits.                         *)
(***************************************************************************)
EXTENDS ServiceBilling, FiniteFacts, FiniteSetTheorems, TLAPS

-----------------------------------------------------------------------------
(* What the constants are.                                                 *)

LEMMA NoneApart ==
    /\ None \notin Ops /\ None \notin Plans /\ None \notin Nat
    /\ None \notin Subscription /\ None \notin Period /\ None \notin Charge /\ None \notin Call
    /\ None \notin Done /\ None \notin Refused
BY ServiceBillingAssumption

LEMMA TermsParts ==
    ASSUME NEW t \in Terms
    PROVE  t.price \in 1..MaxMoney /\ t.duration \in Nat \ {0} /\ t.grace \in Nat
BY ServiceBillingAssumption

LEMMA KindParts ==
    /\ PeriodKinds \cap AssignmentKinds = {}
    /\ FundedKinds \subseteq PeriodKinds
    /\ \A k \in Kinds : k \in PeriodKinds \cup AssignmentKinds
BY ServiceBillingAssumption DEF PeriodKinds, PlainKinds, FundedKinds, AssignmentKinds

LEMMA OwnerTyped == \A x \in Services : OwnerOf[x] \in Subscribers
BY ServiceBillingAssumption

-----------------------------------------------------------------------------
(* Type correctness.  A worker past a statement has what it produced, and  *)
(* every service with periods has a last one.                              *)

(* What the pages let through.                                             *)
Asked(c) ==
    /\ c \in Call
    /\ c.kind \in PeriodKinds => c.op \in Ops /\ (c.previous = None <=> TypeOf(c) = "activation")
    /\ c.kind \in {"assign", "change"} => c.plan \in Plans
    /\ c.kind = "assign" => c.subscription = 0

(* The rows that a call of its kind writes.                                *)
Drafts(c, d) ==
    /\ c.kind \in PeriodKinds =>
        /\ d.period \in Period
        /\ d.period.grace_until = d.period.expires + d.period.terms.grace
        /\ d.subscription = None /\ d.ended = 0
        /\ Funded(c) => d.charge \in Charge /\ d.charge.balance_after <= MaxMoney
        /\ ~Funded(c) => d.charge = None
    /\ c.kind \in AssignmentKinds =>
        /\ d.period = None /\ d.charge = None /\ d.ended = c.subscription
        /\ c.kind = "end" => d.subscription = None
        /\ c.kind # "end" => d.subscription \in Subscription

Ready(w) ==
    /\ pc[w] # "idle" => Asked(call[w])
    /\ pc[w] \in {"lookup", "lookup_rest", "recheck"} \cup Saving => call[w].kind \in PeriodKinds
    /\ pc[w] \in {"check", "lock_plan"} => call[w].kind \in AssignmentKinds
    /\ pc[w] = "lock_plan" => call[w].kind \in {"assign", "change"}
    /\ pc[w] \notin Saving \cup {"commit"} => draft[w] = NoDraft
    /\ pc[w] \in Saving \cup {"commit"} => Drafts(call[w], draft[w])

SubscriptionsOf(x) == {b \in subscriptions : b.service = x}

RowsInv ==
    /\ \A x \in Services : IsFiniteSet(SubscriptionsOf(x))
    /\ \A x \in Services : PeriodsOf(x) # {} =>
         \E p \in PeriodsOf(x) : \A q \in PeriodsOf(x) : q.seq <= p.seq
    /\ \A p \in periods : p.grace_until = p.expires + p.terms.grace

TypeInv == TypeOK /\ RowsInv /\ \A w \in Workers : Ready(w)

LEMMA Typed ==
    ASSUME TypeInv
    PROVE  /\ subscriptions \subseteq Subscription /\ periods \subseteq Period
           /\ charges \subseteq Charge
           /\ balance \in [Subscribers -> 0..MaxMoney \cup {None}]
           /\ pc \in [Workers -> Steps] /\ call \in [Workers -> Call \cup {None}]
           /\ rowLocks \in [Workers -> SUBSET Rows] /\ draft \in [Workers -> Draft]
           /\ answer \in [Workers -> Done \cup Refused \cup {None}]
           /\ now \in Nat /\ MaxMoney \in Nat
           /\ \A w \in Workers : Ready(w)
BY ServiceBillingAssumption DEF TypeInv, TypeOK

LEMMA CallParts ==
    ASSUME NEW c, Asked(c)
    PROVE  /\ c \in Call /\ c.kind \in Kinds /\ c.service \in Services
           /\ c.subscription \in Nat /\ c.reason \in Reasons
           /\ c.previous \in Ops \cup {None}
           /\ c.kind \in PeriodKinds => c.op \in Ops
           /\ TypeOf(c) \in {"activation", "renewal"}
BY DEF Asked, Call, TypeOf

(* The last period of a service.                                           *)
LEMMA LatestFound ==
    ASSUME TypeInv, NEW x \in Services
    PROVE  /\ LatestPeriod(x) = None <=> PeriodsOf(x) = {}
           /\ LatestPeriod(x) # None =>
                /\ LatestPeriod(x) \in PeriodsOf(x)
                /\ LatestPeriod(x) \in Period
                /\ \A q \in PeriodsOf(x) : q.seq <= LatestPeriod(x).seq
<1>1. CASE PeriodsOf(x) = {}
  BY <1>1 DEF LatestPeriod
<1>2. CASE PeriodsOf(x) # {}
  <2>1. PICK p \in PeriodsOf(x) : \A q \in PeriodsOf(x) : q.seq <= p.seq
    BY <1>2 DEF TypeInv, RowsInv
  <2>2. /\ LatestPeriod(x) \in PeriodsOf(x)
        /\ \A q \in PeriodsOf(x) : q.seq <= LatestPeriod(x).seq
    BY <1>2, <2>1 DEF LatestPeriod
  <2>3. LatestPeriod(x) \in Period
    BY <2>2, Typed DEF PeriodsOf
  <2> QED BY <1>2, <2>2, <2>3, NoneApart
<1> QED BY <1>1, <1>2

LEMMA StartsTyped ==
    ASSUME TypeInv, NEW x \in Services
    PROVE  StartsAt(LatestPeriod(x)) \in Nat
<1>1. LatestPeriod(x) # None => LatestPeriod(x).expires \in Nat
  BY LatestFound DEF Period
<1> QED BY <1>1, Typed DEF StartsAt

(* The subscription a period is made for.                                  *)
Billed(x) == CHOOSE a \in ActiveSubscriptions(x) : TRUE

LEMMA BilledFound ==
    ASSUME TypeInv, NEW x, ActiveSubscriptions(x) # {}
    PROVE  /\ Billed(x) \in ActiveSubscriptions(x) /\ Billed(x) \in subscriptions
           /\ Billed(x).id \in Nat \ {0} /\ Billed(x).terms \in Terms
<1>1. Billed(x) \in ActiveSubscriptions(x)
  BY DEF Billed
<1>2. Billed(x) \in subscriptions /\ Billed(x) \in Subscription
  BY <1>1, Typed DEF ActiveSubscriptions
<1> QED BY <1>1, <1>2 DEF Subscription

LEMMA NewPeriodParts ==
    ASSUME TypeInv, NEW c, Asked(c), c.kind \in PeriodKinds, ActiveSubscriptions(c.service) # {}
    PROVE  LET p == NewPeriod(c)
               previous == LatestPeriod(c.service) IN
           /\ p \in Period
           /\ p.service = c.service /\ p.op = c.op /\ p.type = TypeOf(c) /\ p.previous = c.previous
           /\ p.subscription = Billed(c.service).id /\ p.terms = Billed(c.service).terms
           /\ p.seq = IF previous = None THEN 1 ELSE previous.seq + 1
           /\ p.starts = StartsAt(previous)
           /\ p.expires = p.starts + p.terms.duration
           /\ p.grace_until = p.expires + p.terms.grace
<1> DEFINE b == Billed(c.service)
           previous == LatestPeriod(c.service)
           n == IF previous = None THEN 1 ELSE previous.seq + 1
           at == StartsAt(previous)
           until == at + b.terms.duration
           grace == until + b.terms.grace
           p == [service |-> c.service, type |-> TypeOf(c), op |-> c.op, previous |-> c.previous,
                 seq |-> n, subscription |-> b.id, terms |-> b.terms,
                 starts |-> at, expires |-> until, grace_until |-> grace]
<1>1. NewPeriod(c) = p
  BY DEF NewPeriod, Billed
<1>2. /\ c.service \in Services /\ c.op \in Ops /\ c.previous \in Ops \cup {None}
      /\ TypeOf(c) \in {"activation", "renewal"}
  BY CallParts
<1>3. b.id \in Nat \ {0} /\ b.terms \in Terms
  BY BilledFound
<1>4. at \in Nat
  BY <1>2, StartsTyped
<1>5. until \in Nat /\ grace \in Nat
  <2> HIDE DEF b, at
  <2> QED BY <1>3, <1>4, TermsParts
<1>6. n \in Nat \ {0}
  <2>1. previous # None => previous \in Period
    BY <1>2, LatestFound
  <2> QED BY <2>1 DEF Period
<1> HIDE DEF b, previous, n, at, until, grace
<1>7. p \in Period
  BY <1>2, <1>3, <1>4, <1>5, <1>6 DEF Period
<1>8. until = at + b.terms.duration /\ grace = until + b.terms.grace
  BY DEF until, grace
<1>9. n = IF previous = None THEN 1 ELSE previous.seq + 1
  BY DEF n
<1> QED BY <1>1, <1>7, <1>8, <1>9 DEF at, previous, b

LEMMA NewChargeParts ==
    ASSUME TypeInv, NEW c, Asked(c), Funded(c), Eligible(c), Affordable(c)
    PROVE  LET h == NewCharge(c) IN
           /\ h \in Charge /\ h.balance_after <= MaxMoney
           /\ h.service = c.service /\ h.op = c.op /\ h.type = TypeOf(c) /\ h.reason = c.reason
           /\ h.amount = NewPeriod(c).terms.price
<1> DEFINE price == NewPeriod(c).terms.price
           had == balance[OwnerOf[c.service]]
           h == [service |-> c.service, op |-> c.op, type |-> TypeOf(c), amount |-> price,
                 balance_after |-> had - price, reason |-> c.reason]
<1>1. NewCharge(c) = h
  BY DEF NewCharge
<1>2. /\ c.service \in Services /\ c.op \in Ops /\ c.reason \in Reasons
      /\ TypeOf(c) \in {"activation", "renewal"} /\ c.kind \in PeriodKinds
  BY CallParts, KindParts DEF Funded
<1>3. ActiveSubscriptions(c.service) # {} /\ had # None
  BY DEF Eligible
<1>4. NewPeriod(c) \in Period
  BY <1>2, <1>3, NewPeriodParts
<1>5. price \in 1..MaxMoney
  <2>1. NewPeriod(c).terms \in Terms
    BY <1>4 DEF Period
  <2> QED BY <2>1, TermsParts
<1>6. had \in 0..MaxMoney /\ had >= price
  BY <1>2, <1>3, OwnerTyped, Typed DEF Affordable
<1> HIDE DEF price, had
<1>7. MaxMoney \in Nat
  BY ServiceBillingAssumption
<1>8. had - price \in Nat /\ had - price <= MaxMoney
  BY <1>5, <1>6, <1>7
<1>9. h \in Charge
  BY <1>2, <1>5, <1>8 DEF Charge
<1> QED BY <1>1, <1>8, <1>9 DEF price

LEMMA NewSubscriptionParts ==
    ASSUME TypeInv, NEW c, Asked(c), c.kind \in {"assign", "change"}
    PROVE  LET b == NewSubscription(c) IN
           /\ b \in Subscription
           /\ b.service = c.service /\ b.plan = c.plan /\ b.active
           /\ b.terms = catalog[c.plan].terms
<1> DEFINE n == 1 + Cardinality(SubscriptionsOf(c.service))
           t == catalog[c.plan].terms
           b == [id |-> n, service |-> c.service, plan |-> c.plan, terms |-> t, active |-> TRUE]
<1>1. NewSubscription(c) = b
  BY DEF NewSubscription, SubscriptionsOf
<1>2. c.service \in Services /\ c.plan \in Plans
  BY CallParts DEF Asked
<1>3. n \in Nat \ {0}
  BY <1>2, FS_CardinalityType DEF TypeInv, RowsInv
<1>4. t \in Terms
  BY <1>2 DEF TypeInv, TypeOK, Package
<1> HIDE DEF n, t
<1>5. b \in Subscription
  BY <1>2, <1>3, <1>4 DEF Subscription
<1> QED BY <1>1, <1>5 DEF t

(* Nothing of the other workers changes.                                   *)
Alone(w) ==
    \A v \in Workers \ {w} :
        pc'[v] = pc[v] /\ call'[v] = call[v] /\ rowLocks'[v] = rowLocks[v] /\ draft'[v] = draft[v]

(* A step that only concerns the worker's own variables.                   *)
LEMMA LocalTyped ==
    ASSUME TypeInv, NEW w \in Workers, UNCHANGED <<rows, around>>,
           NEW step \in Steps, pc' = [pc EXCEPT ![w] = step],
           NEW c \in Call \cup {None}, call' = [call EXCEPT ![w] = c],
           NEW held \in SUBSET Rows, rowLocks' = [rowLocks EXCEPT ![w] = held],
           NEW d \in Draft, draft' = [draft EXCEPT ![w] = d],
           answer' \in [Workers -> Done \cup Refused \cup {None}],
           step # "idle" => Asked(c),
           step \in {"lookup", "lookup_rest", "recheck"} \cup Saving => c.kind \in PeriodKinds,
           step \in {"check", "lock_plan"} => c.kind \in AssignmentKinds,
           step = "lock_plan" => c.kind \in {"assign", "change"},
           IF step \in Saving \cup {"commit"} THEN Drafts(c, d) ELSE d = NoDraft
    PROVE  TypeInv' /\ Alone(w)
<1>1. Alone(w)
  BY Typed DEF Alone
<1>2. TypeOK'
  BY DEF TypeInv, TypeOK, rows, money, around
<1>3. RowsInv'
  BY DEF TypeInv, RowsInv, SubscriptionsOf, PeriodsOf, rows
<1>4. pc'[w] = step /\ call'[w] = c /\ draft'[w] = d
  BY Typed
<1>5. Ready(w)'
  BY <1>4 DEF Ready, Asked, TypeOf, Drafts, Funded
<1>6. ASSUME NEW v \in Workers \ {w} PROVE Ready(v)'
  BY <1>1, <1>6 DEF TypeInv, Ready, Alone, Asked, TypeOf, Drafts, Funded
<1> QED BY <1>1, <1>2, <1>3, <1>5, <1>6 DEF TypeInv

LEMMA NothingDrafted == NoDraft \in Draft
BY DEF NoDraft, Draft

LEMMA ReturnTyped ==
    ASSUME TypeInv, NEW w \in Workers, NEW how \in Done \cup Refused, Return(w, how),
           pc[w] # "idle"
    PROVE  TypeInv' /\ Alone(w)
<1>1. /\ UNCHANGED <<rows, around>> /\ pc' = [pc EXCEPT ![w] = "done"]
      /\ call' = call /\ rowLocks' = [rowLocks EXCEPT ![w] = {}]
      /\ draft' = [draft EXCEPT ![w] = NoDraft] /\ answer' = [answer EXCEPT ![w] = how]
  BY DEF Return, Finish, Goto
<1>2. call' = [call EXCEPT ![w] = call[w]] /\ call[w] \in Call \cup {None} /\ Asked(call[w])
  BY <1>1, Typed DEF Ready
<1>3. answer' \in [Workers -> Done \cup Refused \cup {None}]
  BY <1>1, Typed
<1>4. "done" \in Steps /\ {} \in SUBSET Rows /\ NoDraft \in Draft
  BY NothingDrafted DEF Steps
<1> DEFINE step == "done"
           held == {}
<1>5. step \notin {"idle", "lookup", "lookup_rest", "recheck", "check", "lock_plan", "commit"} \cup Saving
  BY DEF Saving
<1> HIDE DEF step, held
<1> QED BY <1>1, <1>2, <1>3, <1>4, <1>5, LocalTyped DEF step, held

LEMMA GoOnTyped ==
    ASSUME TypeInv, NEW w \in Workers, NEW step \in Steps, GoOn(w, step), pc[w] # "idle",
           step # "idle",
           step \in {"lookup", "lookup_rest", "recheck"} \cup Saving => call[w].kind \in PeriodKinds,
           step \in {"check", "lock_plan"} => call[w].kind \in AssignmentKinds,
           step = "lock_plan" => call[w].kind \in {"assign", "change"},
           (step \in Saving \cup {"commit"}) <=> (pc[w] \in Saving \cup {"commit"})
    PROVE  TypeInv' /\ Alone(w)
<1>1. /\ UNCHANGED <<rows, around>> /\ pc' = [pc EXCEPT ![w] = step]
      /\ call' = call /\ rowLocks' = rowLocks /\ draft' = draft /\ answer' = answer
  BY DEF GoOn, Goto, local
<1>2. /\ call' = [call EXCEPT ![w] = call[w]] /\ rowLocks' = [rowLocks EXCEPT ![w] = rowLocks[w]]
      /\ draft' = [draft EXCEPT ![w] = draft[w]]
      /\ call[w] \in Call \cup {None} /\ rowLocks[w] \in SUBSET Rows /\ draft[w] \in Draft
      /\ answer' \in [Workers -> Done \cup Refused \cup {None}]
  BY <1>1, Typed
<1>3. Ready(w)
  BY Typed
<1> QED BY <1>1, <1>2, <1>3, LocalTyped DEF Ready

LEMMA LockThenTyped ==
    ASSUME TypeInv, NEW w \in Workers, NEW step \in Steps, NEW row \in Rows,
           LockThen(w, row, step), pc[w] \notin {"idle", "commit"} \cup Saving,
           step \notin {"idle", "lock_plan", "commit"} \cup Saving,
           step \in {"lookup", "lookup_rest", "recheck"} => call[w].kind \in PeriodKinds,
           step = "check" => call[w].kind \in AssignmentKinds
    PROVE  TypeInv' /\ Alone(w)
<1> DEFINE held == rowLocks[w] \cup {row}
<1>1. /\ UNCHANGED <<rows, around>> /\ pc' = [pc EXCEPT ![w] = step]
      /\ call' = call /\ rowLocks' = [rowLocks EXCEPT ![w] = held]
      /\ draft' = draft /\ answer' = answer
  BY DEF LockThen, Goto
<1>2. /\ call' = [call EXCEPT ![w] = call[w]] /\ draft' = [draft EXCEPT ![w] = draft[w]]
      /\ call[w] \in Call \cup {None} /\ held \in SUBSET Rows /\ draft[w] \in Draft
      /\ answer' \in [Workers -> Done \cup Refused \cup {None}]
  BY <1>1, Typed
<1>3. Ready(w)
  BY Typed
<1> HIDE DEF held
<1> QED BY <1>1, <1>2, <1>3, LocalTyped DEF Ready

(* A transaction's rows are drafted.                                       *)
LEMMA DraftedTyped ==
    ASSUME TypeInv, NEW w \in Workers, UNCHANGED <<rows, around, call, answer>>,
           NEW step \in Saving \cup {"commit"}, Goto(w, step), pc[w] # "idle",
           step \in Saving => call[w].kind \in PeriodKinds,
           NEW held \in SUBSET Rows, rowLocks' = [rowLocks EXCEPT ![w] = held],
           NEW d \in Draft, draft' = [draft EXCEPT ![w] = d], Drafts(call[w], d)
    PROVE  TypeInv' /\ Alone(w)
<1>1. /\ UNCHANGED <<rows, around>> /\ pc' = [pc EXCEPT ![w] = step]
      /\ call' = [call EXCEPT ![w] = call[w]]
      /\ call[w] \in Call \cup {None}
      /\ answer' \in [Workers -> Done \cup Refused \cup {None}]
      /\ step \in Steps
  BY Typed DEF Goto, Steps
<1>2. Ready(w)
  BY Typed
<1> QED BY <1>1, <1>2, LocalTyped DEF Ready, Saving

LEMMA SubmitTyped ==
    ASSUME TypeInv, NEW w \in Workers, Submit(w)
    PROVE  TypeInv' /\ Alone(w) /\ pc[w] = "idle" /\ pc'[w] \in {"lookup", "lock_service"}
<1>1. ASSUME NEW c, NEW step \in {"lookup", "lock_service"}, Start(w, c, step), Asked(c),
             step = "lookup" => c.kind \in PeriodKinds
      PROVE  TypeInv' /\ Alone(w) /\ pc[w] = "idle" /\ pc'[w] = step
  <2>1. /\ UNCHANGED <<rows, around>> /\ pc[w] = "idle" /\ pc' = [pc EXCEPT ![w] = step]
        /\ call' = [call EXCEPT ![w] = c]
        /\ rowLocks' = rowLocks /\ draft' = draft /\ answer' = answer
    BY <1>1 DEF Start, Goto
  <2>2. /\ rowLocks' = [rowLocks EXCEPT ![w] = rowLocks[w]] /\ draft' = [draft EXCEPT ![w] = draft[w]]
        /\ rowLocks[w] \in SUBSET Rows /\ draft[w] \in Draft /\ draft[w] = NoDraft
        /\ answer' \in [Workers -> Done \cup Refused \cup {None}]
        /\ step \in Steps /\ pc'[w] = step /\ c \in Call \cup {None}
    BY <1>1, <2>1, Typed DEF Ready, Steps, Asked, Saving
  <2> QED BY <1>1, <2>1, <2>2, LocalTyped DEF Saving
<1>2. CASE SubmitPeriod(w)
  <2>1. PICK k \in Kinds \cap PeriodKinds, x \in Services, o \in Ops, r \in Reasons,
             p \in {None} \cup {q.op : q \in periods} :
          /\ p = None <=> k \in {"activate", "activate_funded"}
          /\ Start(w, [kind |-> k, service |-> x, op |-> o, previous |-> p,
                       plan |-> None, subscription |-> 0, reason |-> r], "lookup")
    BY <1>2 DEF SubmitPeriod
  <2> DEFINE c == [kind |-> k, service |-> x, op |-> o, previous |-> p,
                   plan |-> None, subscription |-> 0, reason |-> r]
  <2>2. p \in Ops \cup {None}
    BY Typed DEF Period
  <2>3. c \in Call
    BY <2>2 DEF Call
  <2>4. Asked(c) /\ c.kind \in PeriodKinds
    BY <2>1, <2>3 DEF Asked, TypeOf, PeriodKinds, PlainKinds, FundedKinds
  <2> HIDE DEF c
  <2> QED BY <1>1, <2>1, <2>4 DEF c
<1>3. CASE SubmitAssignment(w)
  <2>1. PICK x \in Services, plan \in Plans, r \in Reasons :
          /\ "assign" \in Kinds
          /\ Start(w, [kind |-> "assign", service |-> x, op |-> None, previous |-> None,
                       plan |-> plan, subscription |-> 0, reason |-> r], "lock_service")
    BY <1>3 DEF SubmitAssignment
  <2> DEFINE c == [kind |-> "assign", service |-> x, op |-> None, previous |-> None,
                   plan |-> plan, subscription |-> 0, reason |-> r]
  <2>2. c \in Call
    BY <2>1 DEF Call
  <2>3. Asked(c)
    BY <2>2 DEF Asked, PeriodKinds, PlainKinds, FundedKinds
  <2> HIDE DEF c
  <2> QED BY <1>1, <2>1, <2>3 DEF c
<1>4. CASE SubmitForSubscription(w)
  <2>1. PICK k \in Kinds \cap {"change", "end"}, b \in subscriptions, r \in Reasons,
             plan \in Plans \cup {None} :
          /\ plan = None <=> k = "end"
          /\ Start(w, [kind |-> k, service |-> b.service, op |-> None, previous |-> None,
                       plan |-> plan, subscription |-> b.id, reason |-> r], "lock_service")
    BY <1>4 DEF SubmitForSubscription
  <2> DEFINE c == [kind |-> k, service |-> b.service, op |-> None, previous |-> None,
                   plan |-> plan, subscription |-> b.id, reason |-> r]
  <2>2. b.service \in Services /\ b.id \in Nat
    BY Typed DEF Subscription
  <2>3. c \in Call
    BY <2>2 DEF Call
  <2>4. Asked(c)
    BY <2>1, <2>3, NoneApart DEF Asked, PeriodKinds, PlainKinds, FundedKinds
  <2> HIDE DEF c
  <2> QED BY <1>1, <2>1, <2>4 DEF c
<1> QED BY <1>2, <1>3, <1>4 DEF Submit

(* The drafts a call makes are rows.                                       *)
LEMMA PeriodDrafted ==
    ASSUME TypeInv, NEW w \in Workers, pc[w] = "recheck", Eligible(call[w]), Affordable(call[w])
    PROVE  Billing(call[w]) \in Draft /\ Drafts(call[w], Billing(call[w]))
<1> DEFINE c == call[w]
           p == NewPeriod(c)
           h == IF Funded(c) THEN NewCharge(c) ELSE None
           d == [period |-> p, charge |-> h, subscription |-> None, ended |-> 0]
<1>1. Asked(c) /\ c.kind \in PeriodKinds
  BY Typed DEF Ready
<1>2. p \in Period /\ p.grace_until = p.expires + p.terms.grace
  BY <1>1, NewPeriodParts DEF Eligible
<1>3. IF Funded(c) THEN h \in Charge /\ h.balance_after <= MaxMoney ELSE h = None
  BY <1>1, NewChargeParts
<1>4. Billing(c) = d
  BY DEF Billing
<1> HIDE DEF p, h
<1>5. d \in Draft
  BY <1>2, <1>3 DEF Draft
<1>6. Drafts(c, d)
  BY <1>1, <1>2, <1>3, KindParts DEF Drafts
<1> QED BY <1>4, <1>5, <1>6

LEMMA EndDrafted ==
    ASSUME TypeInv, NEW w \in Workers, pc[w] = "check", call[w].kind = "end"
    PROVE  LET d == [NoDraft EXCEPT !.ended = call[w].subscription] IN
           /\ d \in Draft /\ Drafts(call[w], d)
           /\ [draft EXCEPT ![w].ended = call[w].subscription] = [draft EXCEPT ![w] = d]
<1> DEFINE n == call[w].subscription
           d == [NoDraft EXCEPT !.ended = n]
<1>1. Asked(call[w]) /\ draft[w] = NoDraft /\ draft \in [Workers -> Draft] /\ n \in Nat
  BY Typed, CallParts DEF Ready, Saving
<1>2. /\ d \in Draft
      /\ d.period = None /\ d.charge = None /\ d.subscription = None /\ d.ended = n
  BY <1>1 DEF Draft, NoDraft
<1>3. [draft EXCEPT ![w].ended = n] = [draft EXCEPT ![w] = d]
  BY <1>1
<1>4. "end" \notin PeriodKinds
  BY DEF PeriodKinds, PlainKinds, FundedKinds
<1>5. Drafts(call[w], d)
  <2> HIDE DEF d
  <2> QED BY <1>2, <1>4 DEF Drafts
<1> QED BY <1>2, <1>3, <1>5

LEMMA SubscriptionDrafted ==
    ASSUME TypeInv, NEW w \in Workers, pc[w] = "lock_plan"
    PROVE  Sale(call[w]) \in Draft /\ Drafts(call[w], Sale(call[w]))
<1> DEFINE c == call[w]
           b == NewSubscription(c)
           n == c.subscription
           d == [period |-> None, charge |-> None, subscription |-> b, ended |-> n]
<1>1. Asked(c) /\ c.kind \in {"assign", "change"} /\ n \in Nat
  BY Typed, CallParts DEF Ready
<1>2. b \in Subscription
  BY <1>1, NewSubscriptionParts
<1>3. c.kind \notin PeriodKinds
  BY <1>1 DEF PeriodKinds, PlainKinds, FundedKinds
<1>4. Sale(c) = d
  BY DEF Sale
<1> HIDE DEF b
<1>5. d \in Draft
  BY <1>1, <1>2 DEF Draft
<1>6. Drafts(c, d)
  BY <1>1, <1>2, <1>3 DEF Drafts
<1> QED BY <1>4, <1>5, <1>6

LEMMA RowsTyped ==
    /\ \A x \in Services : ServiceRow(x) \in Rows
    /\ \A s \in Subscribers : SubscriberRow(s) \in Rows
    /\ \A p \in Plans : PlanRow(p) \in Rows
BY DEF Rows, ServiceRow, SubscriberRow, PlanRow

(* A save is refused, or goes on to the next one.                          *)
LEMMA SaveParts ==
    ASSUME NEW w, Save(w)
    PROVE  /\ pc[w] \in Saving
           /\ \/ \E how \in Refused : Return(w, how)
              \/ \E step \in Saving \cup {"commit"} : GoOn(w, step)
<1>1. ASSUME NEW step \in Saving, NEW taken, NEW how \in Refused, NEW next \in Saving \cup {"commit"},
             Try(w, step, taken, how, next)
      PROVE  /\ pc[w] \in Saving
             /\ \/ \E no \in Refused : Return(w, no)
                \/ \E on \in Saving \cup {"commit"} : GoOn(w, on)
  BY <1>1 DEF Try
<1>2. {"invalid", "stale", "conflict"} \subseteq Refused
  BY DEF Refused
<1>3. Saving = {"save_period", "insert_period", "save_entry", "insert_entry", "save_charge", "insert_charge"}
  BY DEF Saving
<1>4. CASE SavePeriod(w)
  BY <1>1, <1>2, <1>3, <1>4 DEF SavePeriod
<1>5. CASE InsertPeriod(w)
  <2> DEFINE next == IF Funded(call[w]) THEN "save_entry" ELSE "commit"
  <2>1. next \in Saving \cup {"commit"}
    BY <1>3
  <2>2. Try(w, "insert_period", PeriodUses(call[w].op), "stale", next)
    BY <1>5 DEF InsertPeriod
  <2> HIDE DEF next
  <2> QED BY <1>1, <1>2, <1>3, <2>1, <2>2
<1>6. CASE SaveEntry(w) \/ InsertEntry(w)
  BY <1>1, <1>2, <1>3, <1>6 DEF SaveEntry, InsertEntry
<1>7. CASE SaveCharge(w) \/ InsertCharge(w)
  BY <1>1, <1>2, <1>3, <1>7 DEF SaveCharge, InsertCharge
<1> QED BY <1>4, <1>5, <1>6, <1>7 DEF Save

LEMMA ProceedTyped ==
    ASSUME TypeInv, NEW w \in Workers, Proceed(w), ~Commit(w)
    PROVE  TypeInv' /\ Alone(w)
<1> DEFINE c == call[w]
<1>0. Ready(w) /\ pc \in [Workers -> Steps]
  BY Typed
<1>1. ASSUME pc[w] # "idle"
      PROVE  Asked(c) /\ c.service \in Services /\ OwnerOf[c.service] \in Subscribers
             /\ c.kind \in PeriodKinds \cup AssignmentKinds
  BY <1>0, <1>1, CallParts, OwnerTyped, KindParts DEF Ready
<1>2. ASSUME NEW how \in Done \cup Refused, Return(w, how), pc[w] # "idle"
      PROVE  TypeInv' /\ Alone(w)
  BY <1>2, ReturnTyped
<1>3. CASE LockService(w)
  <2>1. pc[w] = "lock_service" /\ LockThen(w, ServiceRow(c.service), "lock_subscriber")
    BY <1>3 DEF LockService
  <2> QED BY <1>1, <2>1, RowsTyped, LockThenTyped DEF Steps, Saving
<1>4. CASE LockSubscriber(w)
  <2> DEFINE step == Checks(c)
             row == SubscriberRow(OwnerOf[c.service])
  <2>1. pc[w] = "lock_subscriber" /\ LockThen(w, row, step) /\ row \in Rows
    BY <1>1, <1>4, RowsTyped DEF LockSubscriber
  <2>2. /\ step \in {"recheck", "check"} /\ step \in Steps
        /\ step = "recheck" => c.kind \in PeriodKinds
        /\ step = "check" => c.kind \in AssignmentKinds
    BY <1>1, <2>1 DEF Checks, Steps
  <2> HIDE DEF step, row
  <2> QED BY <2>1, <2>2, LockThenTyped DEF Saving
<1>5. ASSUME Replay(w), pc[w] # "idle" PROVE TypeInv' /\ Alone(w)
  BY <1>2, <1>5 DEF Replay, Done, Refused
<1>6. CASE Lookup(w)
  <2>1. pc[w] = "lookup" /\ c.kind \in PeriodKinds
    BY <1>0, <1>6 DEF Lookup, Ready
  <2>2. CASE GoOn(w, "lookup_rest") \/ GoOn(w, "lock_service")
    BY <2>1, <2>2, GoOnTyped DEF Steps, Saving
  <2> QED BY <1>5, <1>6, <2>1, <2>2 DEF Lookup
<1>7. CASE LookupRest(w)
  <2>1. pc[w] = "lookup_rest"
    BY <1>7 DEF LookupRest
  <2>2. CASE GoOn(w, "lock_service")
    BY <2>1, <2>2, GoOnTyped DEF Steps, Saving
  <2> QED BY <1>2, <1>7, <2>1, <2>2 DEF LookupRest, Refused
<1>8. CASE Recheck(w)
  <2>1. pc[w] = "recheck" /\ c.kind \in PeriodKinds
    BY <1>0, <1>8 DEF Recheck, Ready
  <2>2. ASSUME Eligible(c), Affordable(c),
               draft' = [draft EXCEPT ![w] = Billing(c)], Goto(w, "save_period"),
               UNCHANGED <<rows, around, call, rowLocks, answer>>
        PROVE  TypeInv' /\ Alone(w)
    <3> DEFINE d == Billing(c)
    <3>1. d \in Draft /\ Drafts(c, d) /\ draft' = [draft EXCEPT ![w] = d]
      BY <2>1, <2>2, PeriodDrafted
    <3>2. rowLocks' = [rowLocks EXCEPT ![w] = rowLocks[w]] /\ rowLocks[w] \in SUBSET Rows
      BY <2>2, Typed
    <3> HIDE DEF d
    <3> QED BY <2>1, <2>2, <3>1, <3>2, DraftedTyped DEF Saving
  <2> QED BY <1>2, <1>5, <1>8, <2>1, <2>2 DEF Recheck, Refused
<1>9. CASE Save(w)
  <2>1. pc[w] \in Saving /\ c.kind \in PeriodKinds
    BY <1>0, <1>9, SaveParts DEF Ready
  <2>2. ASSUME NEW step \in Saving \cup {"commit"}, GoOn(w, step) PROVE TypeInv' /\ Alone(w)
    <3>1. step \in Steps /\ step \notin {"idle", "check", "lock_plan"} /\ pc[w] # "idle"
      BY <2>1 DEF Steps, Saving
    <3> QED BY <2>1, <2>2, <3>1, GoOnTyped
  <2>3. ASSUME NEW how \in Refused, Return(w, how) PROVE TypeInv' /\ Alone(w)
    BY <1>2, <2>1, <2>3 DEF Saving
  <2> QED BY <1>9, <2>2, <2>3, SaveParts
<1>10. CASE Check(w)
  <2>1. pc[w] = "check" /\ c.kind \in AssignmentKinds
    BY <1>0, <1>10 DEF Check, Ready
  <2>2. CASE c.kind \in {"assign", "change"} /\ GoOn(w, "lock_plan")
    BY <2>1, <2>2, GoOnTyped DEF Steps, Saving
  <2>3. ASSUME c.kind = "end", draft' = [draft EXCEPT ![w].ended = c.subscription],
               Goto(w, "commit"), UNCHANGED <<rows, around, call, rowLocks, answer>>
        PROVE  TypeInv' /\ Alone(w)
    <3> DEFINE d == [NoDraft EXCEPT !.ended = c.subscription]
    <3>1. d \in Draft /\ Drafts(c, d) /\ draft' = [draft EXCEPT ![w] = d]
      BY <2>1, <2>3, EndDrafted
    <3>2. rowLocks' = [rowLocks EXCEPT ![w] = rowLocks[w]] /\ rowLocks[w] \in SUBSET Rows
      BY <2>3, Typed
    <3> HIDE DEF d
    <3> QED BY <2>1, <2>3, <3>1, <3>2, DraftedTyped DEF Saving
  <2>4. "ineligible" \in Done \cup Refused
    BY DEF Refused
  <2> QED BY <1>2, <1>10, <2>1, <2>2, <2>3, <2>4 DEF Check
<1>11. CASE LockPlan(w)
  <2>1. pc[w] = "lock_plan" /\ c.plan \in Plans
    BY <1>0, <1>11 DEF LockPlan, Ready, Asked
  <2>2. CASE PlanAllowed(c)
    <3> DEFINE d == Sale(c)
               held == rowLocks[w] \cup {PlanRow(c.plan)}
    <3>1. d \in Draft /\ Drafts(c, d) /\ draft' = [draft EXCEPT ![w] = d]
      BY <1>11, <2>1, <2>2, SubscriptionDrafted DEF LockPlan
    <3>2. rowLocks' = [rowLocks EXCEPT ![w] = held] /\ held \in SUBSET Rows
      BY <1>11, <2>1, <2>2, RowsTyped, Typed DEF LockPlan
    <3>3. Goto(w, "commit") /\ UNCHANGED <<rows, around, call, answer>>
      BY <1>11, <2>2 DEF LockPlan
    <3> HIDE DEF d, held
    <3> QED BY <2>1, <3>1, <3>2, <3>3, DraftedTyped DEF Saving
  <2>3. CASE ~PlanAllowed(c)
    BY <1>2, <1>11, <2>1, <2>3 DEF LockPlan, Refused
  <2> QED BY <2>2, <2>3
<1>12. CASE Respond(w)
  <2>1. /\ UNCHANGED <<rows, around>> /\ pc[w] = "done" /\ pc' = [pc EXCEPT ![w] = "idle"]
        /\ call' = [call EXCEPT ![w] = None] /\ rowLocks' = rowLocks /\ draft' = draft
        /\ answer' = [answer EXCEPT ![w] = None]
    BY <1>12 DEF Respond, Goto
  <2>2. /\ rowLocks' = [rowLocks EXCEPT ![w] = rowLocks[w]] /\ draft' = [draft EXCEPT ![w] = draft[w]]
        /\ rowLocks[w] \in SUBSET Rows /\ draft[w] \in Draft /\ draft[w] = NoDraft
        /\ answer' \in [Workers -> Done \cup Refused \cup {None}]
        /\ "idle" \in Steps
    BY <2>1, Typed DEF Ready, Steps, Saving
  <2> QED BY <2>1, <2>2, LocalTyped DEF Saving
<1> QED BY <1>3, <1>4, <1>6, <1>7, <1>8, <1>9, <1>10, <1>11, <1>12 DEF Proceed

LEMMA CrashTyped ==
    ASSUME TypeInv, NEW w \in Workers, Crash(w)
    PROVE  TypeInv' /\ Alone(w)
<1>1. /\ UNCHANGED <<rows, around>> /\ pc' = [pc EXCEPT ![w] = "idle"]
      /\ call' = [call EXCEPT ![w] = None] /\ rowLocks' = [rowLocks EXCEPT ![w] = {}]
      /\ draft' = [draft EXCEPT ![w] = NoDraft] /\ answer' = answer
  BY DEF Crash, Goto
<1> DEFINE held == {}
<1>2. "idle" \in Steps /\ held \in SUBSET Rows /\ NoDraft \in Draft
      /\ answer' \in [Workers -> Done \cup Refused \cup {None}]
  BY <1>1, NothingDrafted, Typed DEF Steps
<1>3. rowLocks' = [rowLocks EXCEPT ![w] = held]
  BY <1>1
<1> HIDE DEF held
<1> QED BY <1>1, <1>2, <1>3, LocalTyped DEF Saving

-----------------------------------------------------------------------------
(* What a commit writes.                                                   *)

LEMMA CommitParts ==
    ASSUME TypeInv, NEW w \in Workers, Commit(w)
    PROVE  LET c == call[w]
               d == draft[w] IN
           /\ pc[w] = "commit" /\ Asked(c) /\ c.service \in Services /\ d \in Draft
           /\ c.kind \in PeriodKinds \cup AssignmentKinds /\ Drafts(c, d)
           /\ c.kind \in PeriodKinds =>
                /\ periods' = periods \cup {d.period}
                /\ subscriptions' = subscriptions
                /\ Funded(c) => charges' = charges \cup {d.charge}
                /\ ~Funded(c) => charges' = charges
           /\ c.kind \in AssignmentKinds =>
                /\ periods' = periods /\ charges' = charges
                /\ subscriptions' = Ended(c.service, c.subscription) \cup Written(d.subscription)
           /\ around' = around
<1> DEFINE c == call[w]
           d == draft[w]
<1>1. pc[w] = "commit" /\ Asked(c) /\ c.service \in Services /\ d \in Draft
  BY Typed, CallParts DEF Commit, Ready
<1>2. c.kind \in PeriodKinds \cup AssignmentKinds /\ Drafts(c, d)
  BY <1>1, Typed, CallParts, KindParts DEF Ready
<1>3. /\ subscriptions' = Ended(c.service, d.ended) \cup Written(d.subscription)
      /\ periods' = periods \cup Written(d.period)
      /\ charges' = charges \cup Written(d.charge)
      /\ around' = around
  BY DEF Commit, Finish
<1>4. ASSUME c.kind \in PeriodKinds
      PROVE  /\ periods' = periods \cup {d.period}
             /\ subscriptions' = subscriptions
             /\ Funded(c) => charges' = charges \cup {d.charge}
             /\ ~Funded(c) => charges' = charges
  <2>1. /\ d.period \in Period /\ d.subscription = None /\ d.ended = 0
        /\ Funded(c) => d.charge \in Charge
        /\ ~Funded(c) => d.charge = None
    BY <1>2, <1>4 DEF Drafts
  <2>2. \A b \in subscriptions : b.id # 0
    BY Typed DEF Subscription
  <2>3. Ended(c.service, 0) = subscriptions
    BY <2>2 DEF Ended
  <2> QED BY <1>3, <2>1, <2>3, NoneApart DEF Written
<1>5. ASSUME c.kind \in AssignmentKinds
      PROVE  /\ periods' = periods /\ charges' = charges
             /\ subscriptions' = Ended(c.service, c.subscription) \cup Written(d.subscription)
  BY <1>2, <1>3, <1>5 DEF Drafts, Written
<1> QED BY <1>1, <1>2, <1>3, <1>4, <1>5

LEMMA EndedTyped ==
    ASSUME TypeInv, NEW x, NEW n
    PROVE  /\ Ended(x, n) \subseteq Subscription
           /\ \A y \in Services : IsFiniteSet({b \in Ended(x, n) : b.service = y})
<1> DEFINE end(b) == IF b.service = x /\ b.id = n THEN [b EXCEPT !.active = FALSE] ELSE b
<1>1. ASSUME NEW b \in subscriptions PROVE end(b) \in Subscription /\ end(b).service = b.service
  <2>1. b \in Subscription
    BY Typed
  <2>2. [b EXCEPT !.active = FALSE] \in Subscription /\ [b EXCEPT !.active = FALSE].service = b.service
    BY <2>1 DEF Subscription
  <2> QED BY <2>1, <2>2
<1>2. Ended(x, n) = {end(b) : b \in subscriptions}
  BY DEF Ended
<1>3. ASSUME NEW y \in Services PROVE IsFiniteSet({b \in Ended(x, n) : b.service = y})
  <2> DEFINE S == SubscriptionsOf(y)
             T == {b \in Ended(x, n) : b.service = y}
             f == [b \in S |-> end(b)]
  <2> HIDE DEF end
  <2>1. \A b \in S : end(b) \in T
    BY <1>1, <1>2 DEF SubscriptionsOf
  <2>2. \A t \in T : \E b \in S : end(b) = t
    BY <1>1, <1>2 DEF SubscriptionsOf
  <2>3. f \in Surjection(S, T)
    BY <2>1, <2>2 DEF Surjection
  <2>4. IsFiniteSet(S)
    BY DEF TypeInv, RowsInv
  <2> HIDE DEF S, T, f
  <2>5. IsFiniteSet(T)
    BY <2>3, <2>4, FS_Surjection
  <2> QED BY <2>5 DEF T
<1> QED BY <1>1, <1>2, <1>3

LEMMA CommitRows ==
    ASSUME TypeInv, NEW w \in Workers, Commit(w)
    PROVE  /\ subscriptions' \subseteq Subscription /\ periods' \subseteq Period
           /\ charges' \subseteq Charge /\ RowsInv'
<1> DEFINE c == call[w]
           d == draft[w]
<1>1. c.service \in Services /\ d \in Draft /\ Drafts(c, d)
  BY CommitParts
<1>2. \A x \in Services : IsFiniteSet(SubscriptionsOf(x))
  BY DEF TypeInv, RowsInv
<1>3. CASE c.kind \in PeriodKinds
  <2>1. /\ d.period \in Period /\ d.period.grace_until = d.period.expires + d.period.terms.grace
        /\ Funded(c) => d.charge \in Charge
    BY <1>1, <1>3 DEF Drafts
  <2>2. subscriptions' = subscriptions /\ periods' = periods \cup {d.period}
    BY <1>3, CommitParts
  <2>3. charges' \subseteq Charge
    BY <1>3, <2>1, Typed, CommitParts
  <2>4. ASSUME NEW x \in Services, (PeriodsOf(x))' # {}
        PROVE  \E p \in (PeriodsOf(x))' : \A q \in (PeriodsOf(x))' : q.seq <= p.seq
    <3>1. (PeriodsOf(x))' = IF d.period.service = x THEN PeriodsOf(x) \cup {d.period} ELSE PeriodsOf(x)
      BY <2>2 DEF PeriodsOf
    <3>2. PeriodsOf(x) \subseteq Period /\ \A p \in Period : p.seq \in Nat
      BY Typed DEF PeriodsOf, Period
    <3>3. CASE PeriodsOf(x) = {}
      BY <2>1, <2>4, <3>1, <3>2, <3>3
    <3>4. CASE PeriodsOf(x) # {}
      <4>1. PICK p \in PeriodsOf(x) : \A q \in PeriodsOf(x) : q.seq <= p.seq
        BY <3>4 DEF TypeInv, RowsInv
      <4>2. p.seq \in Nat /\ d.period.seq \in Nat /\ \A q \in PeriodsOf(x) : q.seq \in Nat
        BY <2>1, <3>2
      <4>3. CASE d.period.service = x /\ d.period.seq >= p.seq
        <5>1. \A q \in (PeriodsOf(x))' : q.seq <= d.period.seq
          BY <3>1, <4>1, <4>2, <4>3
        <5> QED BY <3>1, <4>3, <5>1
      <4>4. CASE ~(d.period.service = x /\ d.period.seq >= p.seq)
        <5>1. \A q \in (PeriodsOf(x))' : q.seq <= p.seq
          BY <3>1, <4>1, <4>2, <4>4
        <5> QED BY <3>1, <4>1, <5>1
      <4> QED BY <4>3, <4>4
    <3> QED BY <3>3, <3>4
  <2>5. \A p \in periods' : p.grace_until = p.expires + p.terms.grace
    BY <2>1, <2>2 DEF TypeInv, RowsInv
  <2>6. \A x \in Services : IsFiniteSet((SubscriptionsOf(x))')
    BY <1>2, <2>2 DEF SubscriptionsOf
  <2>7. RowsInv'
    BY <2>4, <2>5, <2>6 DEF RowsInv
  <2> QED BY <2>1, <2>2, <2>3, <2>7, Typed
<1>4. CASE c.kind \in AssignmentKinds
  <2>1. /\ periods' = periods /\ charges' = charges
        /\ subscriptions' = Ended(c.service, c.subscription) \cup Written(d.subscription)
    BY <1>4, CommitParts
  <2>2. d.subscription \in Subscription \cup {None}
    BY <1>1 DEF Draft
  <2>3. subscriptions' \subseteq Subscription
    BY <2>1, <2>2, EndedTyped DEF Written
  <2>4. ASSUME NEW x \in Services PROVE IsFiniteSet((SubscriptionsOf(x))')
    <3> DEFINE old == {b \in Ended(c.service, c.subscription) : b.service = x}
               new == {b \in Written(d.subscription) : b.service = x}
    <3>1. (SubscriptionsOf(x))' = old \cup new
      BY <2>1 DEF SubscriptionsOf
    <3>2. new \subseteq {d.subscription}
      BY DEF Written
    <3>3. IsFiniteSet(old)
      BY EndedTyped
    <3>4. IsFiniteSet(new)
      <4>1. IsFiniteSet({d.subscription})
        BY FS_Singleton
      <4> HIDE DEF new
      <4> QED BY <3>2, <4>1, FS_Subset
    <3> HIDE DEF old, new
    <3>5. IsFiniteSet(old \cup new)
      BY <3>3, <3>4, FS_Union
    <3> QED BY <3>1, <3>5
  <2>5. RowsInv'
    BY <2>1, <2>4 DEF TypeInv, RowsInv, PeriodsOf
  <2> QED BY <2>1, <2>3, <2>5, Typed
<1> QED BY <1>3, <1>4, CommitParts

LEMMA CommitTyped ==
    ASSUME TypeInv, NEW w \in Workers, Commit(w)
    PROVE  TypeInv' /\ Alone(w)
<1> DEFINE c == call[w]
           d == draft[w]
<1>1. /\ pc[w] = "commit" /\ Asked(c) /\ c.service \in Services /\ d \in Draft
      /\ c.kind \in PeriodKinds \cup AssignmentKinds /\ Drafts(c, d)
  BY CommitParts
<1>2. /\ pc' = [pc EXCEPT ![w] = "done"] /\ answer' = [answer EXCEPT ![w] = "written"]
      /\ rowLocks' = [rowLocks EXCEPT ![w] = {}] /\ draft' = [draft EXCEPT ![w] = NoDraft]
      /\ around' = around /\ call' = call /\ deposited' = deposited
  BY DEF Commit, Finish, Goto
<1>3. Alone(w)
  BY <1>2, Typed DEF Alone
<1>4. d.charge # None => d.charge \in Charge /\ d.charge.balance_after <= MaxMoney
  BY <1>1 DEF Drafts
<1>5. balance' \in [Subscribers -> 0..MaxMoney \cup {None}]
  <2>1. CASE d.charge = None
    BY <2>1, Typed DEF Commit
  <2>2. CASE d.charge # None
    <3>1. d.charge.balance_after \in 0..MaxMoney
      BY <1>4, <2>2, Typed DEF Charge
    <3>2. balance' = [balance EXCEPT ![OwnerOf[c.service]] = d.charge.balance_after]
      BY <2>2 DEF Commit
    <3> QED BY <3>1, <3>2, Typed
  <2> QED BY <2>1, <2>2
<1>6. ledgerOps' \subseteq Ops
  <2>1. ledgerOps' = ledgerOps \cup {h.op : h \in Written(d.charge)}
    BY DEF Commit
  <2>2. \A h \in Written(d.charge) : h.op \in Ops
    BY <1>4 DEF Written, Charge
  <2> QED BY <2>1, <2>2 DEF TypeInv, TypeOK
<1>7. /\ pc' \in [Workers -> Steps] /\ rowLocks' \in [Workers -> SUBSET Rows]
      /\ draft' \in [Workers -> Draft] /\ answer' \in [Workers -> Done \cup Refused \cup {None}]
  BY <1>2, Typed, NothingDrafted DEF Steps, Done
<1>8. TypeOK'
  BY <1>2, <1>5, <1>6, <1>7, CommitRows DEF TypeInv, TypeOK, around
<1>9. Ready(w)'
  <2>1. pc'[w] = "done" /\ call'[w] = c /\ draft'[w] = NoDraft
    BY <1>2, Typed
  <2> QED BY <1>1, <2>1 DEF Ready, Asked, TypeOf, Saving
<1>10. ASSUME NEW v \in Workers \ {w} PROVE Ready(v)'
  BY <1>3, <1>10 DEF TypeInv, Ready, Alone, Asked, TypeOf, Drafts, Funded
<1> QED BY <1>3, <1>8, <1>9, <1>10, CommitRows DEF TypeInv

-----------------------------------------------------------------------------
(* What others do.                                                         *)

LEMMA AroundTyped ==
    ASSUME TypeInv, Around
    PROVE  /\ TypeInv'
           /\ subscriptions' = subscriptions /\ periods' = periods /\ charges' = charges
           /\ UNCHANGED <<pc, local>>
           /\ now' >= now
<1> USE DEF rows, local
<1>1. /\ subscriptions' = subscriptions /\ periods' = periods /\ charges' = charges
      /\ UNCHANGED <<pc, local>>
  BY DEF Around, SetServiceActive, SetSubscriberActive, UpdatePackage, SetPackageActive,
         MoneyElsewhere, Tick
<1>2. \A w \in Workers : Ready(w)'
  BY <1>1 DEF TypeInv, Ready, Asked, TypeOf, Drafts, Funded
<1>3. RowsInv'
  BY <1>1 DEF TypeInv, RowsInv, SubscriptionsOf, PeriodsOf
<1>4. Switch => switches' \in 0..MaxSwitches
  BY ServiceBillingAssumption DEF TypeInv, TypeOK, Switch
<1>5. ASSUME NEW x \in Services, SetServiceActive(x) PROVE TypeOK' /\ now' >= now
  BY <1>4, <1>5, Typed DEF SetServiceActive, Toggled, TypeInv, TypeOK, money
<1>6. ASSUME NEW s \in Subscribers, SetSubscriberActive(s) PROVE TypeOK' /\ now' >= now
  BY <1>4, <1>6, Typed DEF SetSubscriberActive, Toggled, TypeInv, TypeOK, money
<1>7. ASSUME NEW p \in Plans, UpdatePackage(p) PROVE TypeOK' /\ now' >= now
  <2>1. PICK t \in Terms : catalog' = [catalog EXCEPT ![p].terms = t]
    BY <1>7 DEF UpdatePackage
  <2>2. catalog' \in [Plans -> Package]
    BY <2>1 DEF TypeInv, TypeOK, Package
  <2> QED BY <1>4, <1>7, <2>2, Typed DEF UpdatePackage, TypeInv, TypeOK, money
<1>8. ASSUME NEW p \in Plans, SetPackageActive(p) PROVE TypeOK' /\ now' >= now
  <2>1. catalog' = [catalog EXCEPT ![p].active = ~catalog[p].active]
    BY <1>8 DEF SetPackageActive
  <2>2. catalog' \in [Plans -> Package]
    BY <2>1 DEF TypeInv, TypeOK, Package
  <2> QED BY <1>4, <1>8, <2>2, Typed DEF SetPackageActive, TypeInv, TypeOK, money
<1>9. ASSUME NEW s \in Subscribers, MoneyElsewhere(s) PROVE TypeOK' /\ now' >= now
  <2> DEFINE before == IF balance[s] = None THEN 0 ELSE balance[s]
  <2>1. PICK o \in Ops \cup {None}, after \in 0..MaxMoney :
          /\ ledgerOps' = ledgerOps \cup ({o} \ {None})
          /\ balance' = [balance EXCEPT ![s] = after]
          /\ deposited' = [deposited EXCEPT ![s] = deposited[s] + after - before]
    BY <1>9 DEF MoneyElsewhere
  <2>2. before \in Int
    BY Typed
  <2>3. deposited \in [Subscribers -> Int] /\ after \in Int
    BY ServiceBillingAssumption DEF TypeInv, TypeOK
  <2> HIDE DEF before
  <2>4. deposited[s] + after - before \in Int
    BY <2>2, <2>3
  <2>5. deposited' \in [Subscribers -> Int]
    BY <2>1, <2>3, <2>4
  <2>6. balance' \in [Subscribers -> 0..MaxMoney \cup {None}] /\ ledgerOps' \subseteq Ops
    BY <2>1 DEF TypeInv, TypeOK
  <2> QED BY <1>4, <1>9, <2>5, <2>6, Typed DEF MoneyElsewhere, TypeInv, TypeOK
<1>10. ASSUME Tick PROVE TypeOK' /\ now' >= now
  <2>1. now' \in 0..MaxTime /\ now' >= now
    BY <1>10, ServiceBillingAssumption DEF Tick, TypeInv, TypeOK
  <2> QED BY <1>10, <2>1, Typed DEF Tick, TypeInv, TypeOK, money
<1> QED BY <1>1, <1>2, <1>3, <1>5, <1>6, <1>7, <1>8, <1>9, <1>10 DEF Around, TypeInv

LEMMA InitTyped == Init => TypeInv
<1> SUFFICES ASSUME Init PROVE TypeInv
  OBVIOUS
<1>1. catalog \in [Plans -> Package] /\ \A p \in Plans : catalog[p].terms \in Terms
  BY DEF Init, Package
<1>2. subscriptions = {} \/ \E p \in Plans : subscriptions = FirstSubscriptions(p)
  BY DEF Init
<1> DEFINE first(p, x) == [id |-> 1, service |-> x, plan |-> p, terms |-> catalog[p].terms,
                          active |-> TRUE]
<1>3. subscriptions \subseteq Subscription
  <2>1. ASSUME NEW p \in Plans PROVE FirstSubscriptions(p) \subseteq Subscription
    <3>1. \A x \in Services : first(p, x) \in Subscription
      BY <1>1 DEF Subscription
    <3>2. FirstSubscriptions(p) = {first(p, x) : x \in Services}
      BY DEF FirstSubscriptions
    <3> HIDE DEF first
    <3> QED BY <3>1, <3>2
  <2> QED BY <1>2, <2>1
<1>4. ASSUME NEW x \in Services PROVE IsFiniteSet(SubscriptionsOf(x))
  <2>1. CASE subscriptions = {}
    BY <2>1, FS_EmptySet DEF SubscriptionsOf
  <2>2. ASSUME NEW p \in Plans, subscriptions = FirstSubscriptions(p)
        PROVE  IsFiniteSet(SubscriptionsOf(x))
    <3>1. subscriptions = {first(p, y) : y \in Services}
      BY <2>2 DEF FirstSubscriptions
    <3>2. \A y : first(p, y).service = y
      OBVIOUS
    <3> HIDE DEF first
    <3>3. SubscriptionsOf(x) = {first(p, x)}
      BY <3>1, <3>2 DEF SubscriptionsOf
    <3> QED BY <3>3, FS_Singleton
  <2> QED BY <1>2, <2>1, <2>2
<1>5. balance \in [Subscribers -> 0..MaxMoney \cup {None}]
  BY ServiceBillingAssumption DEF Init
<1>6. deposited \in [Subscribers -> Int]
  <2>1. \A s \in Subscribers : (IF balance[s] = None THEN 0 ELSE balance[s]) \in Int
    BY <1>5, ServiceBillingAssumption
  <2> QED BY <2>1 DEF Init
<1>7. TypeOK
  BY <1>1, <1>3, <1>5, <1>6, ServiceBillingAssumption, NothingDrafted DEF Init, TypeOK, Steps
<1>8. RowsInv
  BY <1>4 DEF Init, RowsInv, PeriodsOf
<1>9. \A w \in Workers : Ready(w)
  BY DEF Init, Ready, Saving
<1> QED BY <1>7, <1>8, <1>9 DEF TypeInv

Step(w) == Submit(w) \/ Proceed(w) \/ Crash(w)

LEMMA StepTyped ==
    ASSUME TypeInv, NEW w \in Workers, Step(w)
    PROVE  TypeInv' /\ Alone(w)
BY SubmitTyped, ProceedTyped, CommitTyped, CrashTyped DEF Step

LEMMA StutterTyped ==
    ASSUME TypeInv, UNCHANGED vars
    PROVE  TypeInv'
<1>1. UNCHANGED <<rows, around, pc, local>>
  BY DEF vars
<1>2. TypeOK'
  BY <1>1 DEF TypeInv, TypeOK, rows, money, around, local
<1>3. RowsInv'
  BY <1>1 DEF TypeInv, RowsInv, SubscriptionsOf, PeriodsOf, rows
<1>4. \A w \in Workers : Ready(w)'
  BY <1>1 DEF TypeInv, Ready, Asked, TypeOf, Drafts, Funded, local
<1> QED BY <1>2, <1>3, <1>4 DEF TypeInv

LEMMA NextTyped == TypeInv /\ [Next]_vars => TypeInv'
BY StepTyped, AroundTyped, StutterTyped DEF Next, Step

LEMMA AlwaysTyped == Spec => []TypeInv
BY InitTyped, NextTyped, PTL DEF Spec

(* Every variable keeps the kind of value the code gives it, and no wallet *)
(* goes below zero.                                                        *)
THEOREM TypeCorrect == Spec => []TypeOK
<1>1. TypeInv => TypeOK
  BY DEF TypeInv
<1> QED BY <1>1, AlwaysTyped, PTL

-----------------------------------------------------------------------------
(* The steps of a call, by what they mean for its locks and its knowledge. *)

Outside == {"idle", "done", "lookup", "lookup_rest", "lock_service"}

(* The service is locked, then its subscriber too.                         *)
Inside == {"lock_subscriber", "recheck", "check", "lock_plan", "commit"} \cup Saving
Under == {"recheck", "check", "lock_plan", "commit"} \cup Saving

Locks(w, row) == Free(row, w) /\ rowLocks'[w] = rowLocks[w] \cup {row}

EndsOutside(w) ==
    pc'[w] \in Outside /\ (rowLocks'[w] = rowLocks[w] \/ rowLocks'[w] = {})

LocksService(w) ==
    pc'[w] = "lock_subscriber" /\ Locks(w, ServiceRow(call[w].service))

LocksSubscriber(w) ==
    /\ pc[w] = "lock_subscriber" /\ pc'[w] \in {"recheck", "check"}
    /\ Locks(w, SubscriberRow(OwnerOf[call[w].service]))

Bills(w) ==
    LET c == call[w] IN
    /\ pc[w] = "recheck" /\ pc'[w] = "save_period"
    /\ Eligible(c) /\ ~Taken(c) /\ ~Outdated(c) /\ Affordable(c)
    /\ draft'[w] = Billing(c) /\ rowLocks'[w] = rowLocks[w]

Inserts(w) ==
    /\ pc[w] \in Saving /\ pc'[w] \in Saving \cup {"commit"}
    /\ pc'[w] \in PeriodInserted =>
        \/ pc[w] \in PeriodInserted
        \/ /\ ~PeriodUses(call[w].op)
           /\ \A v \in Workers \ {w} : ~HoldsPeriodKey(v, call[w].op)
    /\ pc'[w] = "commit" /\ Funded(call[w]) => ~ChargeUses(call[w].op)
    /\ draft'[w] = draft[w] /\ rowLocks'[w] = rowLocks[w]

Named(c) == \E b \in ActiveSubscriptions(c.service) : b.id = c.subscription

Replaceable(c) ==
    IF c.kind = "assign" THEN ActiveSubscriptions(c.service) = {} ELSE Named(c)

Passes(w) ==
    /\ pc[w] = "check" /\ pc'[w] = "lock_plan"
    /\ Replaceable(call[w])
    /\ rowLocks'[w] = rowLocks[w]

Ends(w) ==
    /\ pc[w] = "check" /\ pc'[w] = "commit" /\ call[w].kind = "end"
    /\ rowLocks'[w] = rowLocks[w]

Sells(w) ==
    /\ pc[w] = "lock_plan" /\ pc'[w] = "commit"
    /\ PlanAllowed(call[w])
    /\ draft'[w] = Sale(call[w])
    /\ Locks(w, PlanRow(call[w].plan))

GoesOn(w) ==
    /\ call'[w] = call[w]
    /\ \/ LocksService(w) \/ LocksSubscriber(w) \/ Bills(w) \/ Inserts(w)
       \/ Passes(w) \/ Ends(w) \/ Sells(w)

(* What a save that is not refused has found.                              *)
LEMMA SavesGoOn ==
    ASSUME pc \in [Workers -> Steps], NEW w \in Workers, Save(w),
           ~ \E how \in Refused : Return(w, how)
    PROVE  /\ \E step \in Saving \cup {"commit"} : GoOn(w, step)
           /\ Inserts(w)
<1>1. /\ pc[w] \in Saving
      /\ \E step \in Saving \cup {"commit"} : GoOn(w, step)
  BY SaveParts
<1>2. /\ pc'[w] \in Saving \cup {"commit"}
      /\ draft'[w] = draft[w] /\ rowLocks'[w] = rowLocks[w]
  BY <1>1 DEF GoOn, Goto, local
<1>3. ASSUME NEW step, NEW taken, NEW how \in Refused, NEW next, Try(w, step, taken, how, next)
      PROVE  pc[w] = step /\ pc'[w] = next /\ ~taken
  BY <1>3 DEF Try, GoOn, Goto
<1>4. "invalid" \in Refused /\ "stale" \in Refused /\ "conflict" \in Refused
  BY DEF Refused
<1>5. /\ pc'[w] \in PeriodInserted =>
          \/ pc[w] \in PeriodInserted
          \/ /\ ~PeriodUses(call[w].op)
             /\ \A v \in Workers \ {w} : ~HoldsPeriodKey(v, call[w].op)
      /\ pc'[w] = "commit" /\ Funded(call[w]) => ~ChargeUses(call[w].op)
  <2>1. CASE SavePeriod(w)
    <3>1. pc'[w] = "insert_period"
      BY <1>3, <1>4, <2>1 DEF SavePeriod
    <3> QED BY <3>1 DEF PeriodInserted, EntryInserted
  <2>2. CASE InsertPeriod(w)
    <3> DEFINE next == IF Funded(call[w]) THEN "save_entry" ELSE "commit"
    <3>1. Try(w, "insert_period", PeriodUses(call[w].op), "stale", next)
      BY <2>2 DEF InsertPeriod
    <3>2. pc'[w] = next /\ ~PeriodUses(call[w].op)
      <4> HIDE DEF next
      <4> QED BY <1>3, <1>4, <3>1
    <3>3. \A v \in Workers \ {w} : ~HoldsPeriodKey(v, call[w].op)
      BY <2>2 DEF InsertPeriod
    <3> QED BY <3>2, <3>3
  <2>3. CASE SaveEntry(w)
    <3>1. pc[w] = "save_entry" /\ pc'[w] = "insert_entry"
      BY <1>3, <1>4, <2>3 DEF SaveEntry
    <3> QED BY <3>1 DEF PeriodInserted
  <2>4. CASE InsertEntry(w)
    <3>1. pc[w] = "insert_entry" /\ pc'[w] = "save_charge"
      BY <1>3, <1>4, <2>4 DEF InsertEntry
    <3> QED BY <3>1 DEF PeriodInserted
  <2>5. CASE SaveCharge(w)
    <3>1. pc[w] = "save_charge" /\ pc'[w] = "insert_charge"
      BY <1>3, <1>4, <2>5 DEF SaveCharge
    <3> QED BY <3>1 DEF PeriodInserted, EntryInserted
  <2>6. CASE InsertCharge(w)
    <3>1. pc[w] = "insert_charge" /\ ~ChargeUses(call[w].op)
      BY <1>3, <1>4, <2>6 DEF InsertCharge
    <3> QED BY <3>1 DEF PeriodInserted, EntryInserted
  <2> QED BY <2>1, <2>2, <2>3, <2>4, <2>5, <2>6 DEF Save
<1> QED BY <1>1, <1>2, <1>5 DEF Inserts

LEMMA StepEffects ==
    ASSUME TypeInv, NEW w \in Workers, Step(w)
    PROVE  /\ EndsOutside(w) \/ GoesOn(w)
           /\ ~Commit(w) => UNCHANGED <<rows, around>>
           /\ Commit(w) => EndsOutside(w) /\ around' = around
<1> DEFINE c == call[w]
<1>0. pc \in [Workers -> Steps] /\ rowLocks \in [Workers -> SUBSET Rows] /\ draft \in [Workers -> Draft]
  BY Typed
<1>1. ASSUME NEW how, Finish(w, how) PROVE EndsOutside(w) /\ around' = around
  BY <1>0, <1>1 DEF Finish, Goto, EndsOutside, Outside
<1>2. ASSUME NEW how, Return(w, how) PROVE EndsOutside(w) /\ UNCHANGED <<rows, around>>
  BY <1>1, <1>2 DEF Return, Finish
<1>3. ASSUME NEW step \in Outside, GoOn(w, step)
      PROVE  EndsOutside(w) /\ UNCHANGED <<rows, around>>
  BY <1>0, <1>3 DEF GoOn, Goto, local, EndsOutside
<1>4. CASE Submit(w)
  <2>1. ASSUME NEW d, NEW step \in Outside, Start(w, d, step)
        PROVE  EndsOutside(w) /\ UNCHANGED <<rows, around>>
    BY <1>0, <2>1 DEF Start, Goto, EndsOutside
  <2> QED BY <1>4, <2>1 DEF Submit, SubmitPeriod, SubmitAssignment, SubmitForSubscription, Outside,
             Commit, Start
<1>5. CASE LockService(w)
  BY <1>0, <1>5 DEF LockService, LockThen, Goto, GoesOn, LocksService, Locks, Commit
<1>6. CASE LockSubscriber(w)
  <2>1. Checks(c) \in {"recheck", "check"}
    BY DEF Checks
  <2> QED BY <1>0, <1>6, <2>1 DEF LockSubscriber, LockThen, Goto, GoesOn, LocksSubscriber, Locks, Commit
<1>7. CASE Lookup(w)
  <2>1. "lookup_rest" \in Outside /\ "lock_service" \in Outside
    BY DEF Outside
  <2> QED BY <1>2, <1>3, <1>7, <2>1 DEF Lookup, Replay, Commit
<1>8. CASE LookupRest(w)
  <2>1. "lock_service" \in Outside
    BY DEF Outside
  <2> QED BY <1>2, <1>3, <1>8, <2>1 DEF LookupRest, Commit
<1>9. CASE Recheck(w)
  <2>1. pc[w] = "recheck"
    BY <1>9 DEF Recheck
  <2>2. ASSUME Eligible(c) /\ ~Taken(c) /\ ~Outdated(c) /\ Affordable(c),
               draft' = [draft EXCEPT ![w] = Billing(c)], Goto(w, "save_period"),
               UNCHANGED <<rows, around, call, rowLocks, answer>>
        PROVE  GoesOn(w) /\ UNCHANGED <<rows, around>>
    BY <1>0, <2>1, <2>2 DEF Goto, GoesOn, Bills
  <2> QED BY <1>2, <1>9, <2>1, <2>2 DEF Recheck, Replay, Commit
<1>10. CASE Save(w)
  <2>1. pc[w] # "commit" /\ pc[w] \in Saving
    BY <1>10, SaveParts DEF Saving
  <2>2. CASE \E how \in Refused : Return(w, how)
    BY <1>2, <2>1, <2>2 DEF Commit
  <2>3. CASE ~ \E how \in Refused : Return(w, how)
    <3>1. /\ \E step \in Saving \cup {"commit"} : GoOn(w, step)
          /\ Inserts(w)
      BY <1>0, <1>10, <2>3, SavesGoOn
    <3> QED BY <2>1, <3>1 DEF GoOn, local, GoesOn, Commit
  <2> QED BY <2>2, <2>3
<1>11. CASE Check(w)
  <2>1. pc[w] = "check"
    BY <1>11 DEF Check
  <2>2. ASSUME c.kind \in {"assign", "change"}, Replaceable(c), GoOn(w, "lock_plan")
        PROVE  GoesOn(w) /\ UNCHANGED <<rows, around>>
    BY <1>0, <2>1, <2>2 DEF GoOn, Goto, local, GoesOn, Passes
  <2>3. ASSUME c.kind = "end", Goto(w, "commit"), UNCHANGED <<rows, around, call, rowLocks, answer>>
        PROVE  GoesOn(w) /\ UNCHANGED <<rows, around>>
    BY <1>0, <2>1, <2>3 DEF Goto, GoesOn, Ends
  <2>4. {b \in ActiveSubscriptions(c.service) : b.id = c.subscription} # {} <=> Named(c)
    BY DEF Named
  <2>5. CASE c.kind = "assign"
    <3>1. Check(w) => Return(w, "ineligible") \/ (Replaceable(c) /\ GoOn(w, "lock_plan"))
      BY <2>5 DEF Check, Replaceable
    <3> QED BY <1>2, <1>11, <2>1, <2>2, <2>5, <3>1 DEF Commit
  <2>6. CASE c.kind = "change"
    <3>1. Check(w) => Return(w, "ineligible") \/ (Replaceable(c) /\ GoOn(w, "lock_plan"))
      BY <2>4, <2>6 DEF Check, Replaceable
    <3> QED BY <1>2, <1>11, <2>1, <2>2, <2>6, <3>1 DEF Commit
  <2>7. CASE c.kind = "end"
    BY <1>2, <1>11, <2>1, <2>3, <2>7 DEF Check, Commit
  <2> QED BY <1>11, <2>5, <2>6, <2>7 DEF Check
<1>12. CASE LockPlan(w)
  <2>1. CASE PlanAllowed(c)
    BY <1>0, <1>12, <2>1 DEF LockPlan, Goto, GoesOn, Sells, Locks, Commit
  <2>2. CASE ~PlanAllowed(c)
    BY <1>2, <1>12, <2>2 DEF LockPlan, Commit
  <2> QED BY <2>1, <2>2
<1>13. CASE Commit(w)
  BY <1>1, <1>13 DEF Commit
<1>14. CASE Respond(w) \/ Crash(w)
  BY <1>0, <1>14 DEF Respond, Crash, Goto, EndsOutside, Outside, Commit
<1> QED BY <1>4, <1>5, <1>6, <1>7, <1>8, <1>9, <1>10, <1>11, <1>12, <1>13, <1>14 DEF Step, Proceed

-----------------------------------------------------------------------------
(* Row locks: one holder each, and a call past a lock holds it.            *)

Exclusive == \A v, w \in Workers : v # w => rowLocks[v] \cap rowLocks[w] = {}

Selling(w) == pc[w] = "commit" /\ call[w].kind \in {"assign", "change"}

Holds(w) ==
    /\ pc[w] \in Inside => ServiceRow(call[w].service) \in rowLocks[w]
    /\ pc[w] \in Under => SubscriberRow(OwnerOf[call[w].service]) \in rowLocks[w]
    /\ Selling(w) => PlanRow(call[w].plan) \in rowLocks[w]

LockInv == Exclusive /\ \A w \in Workers : Holds(w)

LEMMA StepLocks ==
    ASSUME TypeInv, LockInv, NEW w \in Workers, Step(w)
    PROVE  LockInv'
<1>0. Ready(w) /\ Holds(w) /\ Exclusive
  BY Typed DEF LockInv
<1>1. Alone(w)
  BY StepTyped
<1>2. \/ rowLocks'[w] = rowLocks[w] \/ rowLocks'[w] = {}
      \/ \E row : Locks(w, row)
  BY StepEffects DEF EndsOutside, GoesOn, LocksService, LocksSubscriber, Bills, Inserts, Passes, Ends, Sells
<1>3. ASSUME NEW v \in Workers \ {w} PROVE rowLocks'[v] \cap rowLocks'[w] = {}
  BY <1>0, <1>1, <1>2 DEF Alone, Exclusive, Locks, Free
<1>4. Exclusive'
  BY <1>0, <1>1, <1>3 DEF Alone, Exclusive
<1>5. ASSUME NEW v \in Workers \ {w} PROVE Holds(v)'
  BY <1>1 DEF LockInv, Alone, Holds, Selling
<1>6. Holds(w)'
  <2>1. CASE EndsOutside(w)
    BY <2>1 DEF EndsOutside, Outside, Holds, Inside, Under, Selling, Saving
  <2>2. CASE call'[w] = call[w] /\ LocksService(w)
    BY <2>2 DEF LocksService, Locks, Holds, Inside, Under, Selling, Saving
  <2>3. CASE call'[w] = call[w] /\ LocksSubscriber(w)
    BY <1>0, <2>3 DEF LocksSubscriber, Locks, Holds, Inside, Under, Selling
  <2>4. CASE call'[w] = call[w] /\ (Bills(w) \/ Passes(w))
    BY <1>0, <2>4 DEF Bills, Passes, Holds, Inside, Under, Selling
  <2>5. CASE call'[w] = call[w] /\ (Inserts(w) \/ Ends(w))
    <3>1. call[w].kind \notin {"assign", "change"}
      BY <1>0, <2>5 DEF Inserts, Ends, Ready, PeriodKinds, PlainKinds, FundedKinds
    <3> QED BY <1>0, <2>5, <3>1 DEF Inserts, Ends, Holds, Inside, Under, Selling
  <2>6. CASE call'[w] = call[w] /\ Sells(w)
    BY <1>0, <2>6 DEF Sells, Locks, Holds, Inside, Under, Selling
  <2> QED BY <2>1, <2>2, <2>3, <2>4, <2>5, <2>6, StepEffects DEF GoesOn
<1> QED BY <1>4, <1>5, <1>6 DEF LockInv

(* Two calls past the lock are for different services.                     *)
LEMMA OneOnService ==
    ASSUME LockInv, NEW v \in Workers, NEW w \in Workers, v # w, pc[v] \in Inside, pc[w] \in Inside
    PROVE  call[v].service # call[w].service
BY DEF LockInv, Exclusive, Holds

-----------------------------------------------------------------------------
(* What a call read under its locks is still so.                           *)

(* A period that starts after, or in the grace of, the last one.           *)
StartsRight(previous, starts) ==
    \E t \in 0..now :
        starts = IF previous # None /\ t < previous.grace_until THEN previous.expires ELSE t

ExtendsChain(c, p) ==
    LET previous == LatestPeriod(c.service) IN
    /\ c.previous = IF previous = None THEN None ELSE previous.op
    /\ p.seq = IF previous = None THEN 1 ELSE previous.seq + 1
    /\ StartsRight(previous, p.starts)
    /\ p.expires = p.starts + p.terms.duration

SoldTo(x, p) == \E b \in ActiveSubscriptions(x) : b.id = p.subscription /\ b.terms = p.terms

MadeFor(c, d) ==
    /\ d.period.service = c.service /\ d.period.op = c.op
    /\ d.period.type = TypeOf(c) /\ d.period.previous = c.previous
    /\ Funded(c) =>
        /\ d.charge.service = c.service /\ d.charge.op = c.op
        /\ d.charge.type = TypeOf(c) /\ d.charge.amount = d.period.terms.price

InBilling(w) == pc[w] \in Saving \/ (pc[w] = "commit" /\ call[w].kind \in PeriodKinds)

(* The identifier is in the unique index of periods.                       *)
Inserted(w) == pc[w] \in PeriodInserted /\ call[w].kind \in PeriodKinds

Known(w) ==
    LET c == call[w]
        d == draft[w] IN
    /\ InBilling(w) =>
        /\ MadeFor(c, d)
        /\ BothActive(c.service)
        /\ SoldTo(c.service, d.period)
        /\ ExtendsChain(c, d.period)
        /\ \A q \in PeriodsOf(c.service) : q.op # c.op
    /\ Inserted(w) => ~PeriodUses(c.op)
    /\ Inserted(w) /\ pc[w] = "commit" /\ Funded(c) => ~ChargeUses(c.op)
    /\ pc[w] = "lock_plan" \/ Selling(w) => Replaceable(c)
    /\ Selling(w) =>
        /\ d.subscription.service = c.service /\ d.subscription.plan = c.plan
        /\ catalog[c.plan] = [terms |-> d.subscription.terms, active |-> TRUE]

OpsApart == \A v, w \in Workers : v # w /\ Inserted(v) /\ Inserted(w) => call[v].op # call[w].op

KnownInv == OpsApart /\ \A w \in Workers : Known(w)

Inv == TypeInv /\ LockInv /\ KnownInv

LEMMA LatestSame ==
    ASSUME NEW x, PeriodsOf(x)' = PeriodsOf(x)
    PROVE  LatestPeriod(x)' = LatestPeriod(x)
<1> DEFINE last(S) == CHOOSE p \in S : \A q \in S : q.seq <= p.seq
<1>1. LatestPeriod(x) = IF PeriodsOf(x) = {} THEN None ELSE last(PeriodsOf(x))
  BY DEF LatestPeriod
<1>2. LatestPeriod(x)' = IF PeriodsOf(x)' = {} THEN None ELSE last(PeriodsOf(x)')
  BY DEF LatestPeriod
<1> HIDE DEF last
<1> QED BY <1>1, <1>2

(* Knowledge outlives what does not concern it.                            *)
LEMMA StillKnown ==
    ASSUME TypeInv, NEW w \in Workers, Known(w),
           pc'[w] = pc[w], call'[w] = call[w], draft'[w] = draft[w],
           NEW x, x = call[w].service,
           pc[w] \in Under => PeriodsOf(x)' = PeriodsOf(x),
           pc[w] \in Under => ActiveSubscriptions(x)' = ActiveSubscriptions(x),
           now' >= now, now' \in Nat,
           pc[w] \in Under /\ BothActive(x) => BothActive(x)',
           Inserted(w) => (PeriodUses(call[w].op)' => PeriodUses(call[w].op)),
           Inserted(w) => (ChargeUses(call[w].op)' => ChargeUses(call[w].op)),
           Selling(w) => catalog'[call[w].plan] = catalog[call[w].plan]
    PROVE  Known(w)'
<1> DEFINE c == call[w]
           d == draft[w]
<1>1. pc[w] \in Under => LatestPeriod(x)' = LatestPeriod(x)
  BY LatestSame
<1>2. \A previous, starts : StartsRight(previous, starts) => StartsRight(previous, starts)'
  <2>1. 0..now \subseteq 0..now'
    BY Typed
  <2> QED BY <2>1 DEF StartsRight
<1>3. (InBilling(w)' <=> InBilling(w)) /\ (Inserted(w)' <=> Inserted(w)) /\ (Selling(w)' <=> Selling(w))
  BY DEF InBilling, Inserted, Selling
<1>4. InBilling(w) \/ pc[w] = "lock_plan" \/ Selling(w) => pc[w] \in Under
  BY DEF InBilling, Under, Selling
<1>5. ASSUME InBilling(w)
      PROVE  /\ MadeFor(c, d)' /\ BothActive(c.service)' /\ SoldTo(c.service, d.period)'
             /\ ExtendsChain(c, d.period)'
             /\ (\A q \in PeriodsOf(c.service) : q.op # c.op)'
  <2>1. MadeFor(c, d)'
    BY <1>5 DEF Known, MadeFor, TypeOf, Funded
  <2>2. BothActive(x)'
    BY <1>4, <1>5 DEF Known
  <2>3. SoldTo(x, d.period)'
    BY <1>4, <1>5 DEF Known, SoldTo
  <2>4. ExtendsChain(c, d.period)'
    BY <1>1, <1>2, <1>4, <1>5 DEF Known, ExtendsChain
  <2>5. \A q \in PeriodsOf(x)' : q.op # c.op
    BY <1>4, <1>5 DEF Known
  <2> QED BY <2>1, <2>2, <2>3, <2>4, <2>5 DEF BothActive, SoldTo, PeriodsOf
<1>6. ASSUME Inserted(w)
      PROVE  (~PeriodUses(c.op) /\ (pc[w] = "commit" /\ Funded(c) => ~ChargeUses(c.op)))'
  BY <1>6 DEF Known, PeriodUses, ChargeUses, Funded
<1>7. ASSUME pc[w] = "lock_plan" \/ Selling(w) PROVE Replaceable(c)'
  <2>1. ActiveSubscriptions(x)' = ActiveSubscriptions(x) /\ Replaceable(c)
    BY <1>4, <1>7 DEF Known
  <2> QED BY <2>1 DEF Replaceable, Named, ActiveSubscriptions
<1>8. ASSUME Selling(w)
      PROVE  (/\ d.subscription.service = c.service /\ d.subscription.plan = c.plan
              /\ catalog[c.plan] = [terms |-> d.subscription.terms, active |-> TRUE])'
  BY <1>8 DEF Known
<1> QED BY <1>3, <1>5, <1>6, <1>7, <1>8 DEF Known

LEMMA SameRows ==
    ASSUME UNCHANGED <<rows, around>>
    PROVE  /\ \A x : PeriodsOf(x)' = PeriodsOf(x) /\ ActiveSubscriptions(x)' = ActiveSubscriptions(x)
           /\ \A x : LatestPeriod(x)' = LatestPeriod(x)
           /\ \A x : BothActive(x)' <=> BothActive(x)
           /\ \A o : (PeriodUses(o)' <=> PeriodUses(o)) /\ (ChargeUses(o)' <=> ChargeUses(o))
           /\ now' = now /\ catalog' = catalog
BY DEF rows, around, PeriodsOf, ActiveSubscriptions, LatestPeriod, BothActive, PeriodUses, ChargeUses

(* A commit changes the rows of its own service only.                      *)
LEMMA CommitElsewhere ==
    ASSUME Inv, NEW w \in Workers, Commit(w)
    PROVE  /\ \A x : x # call[w].service =>
                PeriodsOf(x)' = PeriodsOf(x) /\ ActiveSubscriptions(x)' = ActiveSubscriptions(x)
           /\ \A o : PeriodUses(o)' => PeriodUses(o) \/ (Inserted(w) /\ o = call[w].op)
           /\ \A o : ChargeUses(o)' => ChargeUses(o) \/ (Inserted(w) /\ o = call[w].op)
<1> DEFINE c == call[w]
           d == draft[w]
<1>0. /\ TypeInv /\ Known(w) /\ pc[w] = "commit" /\ Drafts(c, d)
      /\ c.kind \in PeriodKinds \cup AssignmentKinds
  BY CommitParts DEF Inv, KnownInv
<1>1. CASE c.kind \in PeriodKinds
  <2>1. /\ subscriptions' = subscriptions /\ periods' = periods \cup {d.period}
        /\ Funded(c) => charges' = charges \cup {d.charge}
        /\ ~Funded(c) => charges' = charges
    BY <1>0, <1>1, CommitParts
  <2>2. Inserted(w) /\ InBilling(w)
    BY <1>0, <1>1 DEF Inserted, InBilling, PeriodInserted, EntryInserted
  <2>3. d.period.service = c.service /\ d.period.op = c.op /\ (Funded(c) => d.charge.op = c.op)
    BY <1>0, <2>2 DEF Known, MadeFor
  <2> QED BY <2>1, <2>2, <2>3 DEF PeriodsOf, ActiveSubscriptions, PeriodUses, ChargeUses
<1>2. CASE c.kind \in AssignmentKinds
  <2>1. /\ periods' = periods /\ charges' = charges
        /\ subscriptions' = Ended(c.service, c.subscription) \cup Written(d.subscription)
    BY <1>0, <1>2, CommitParts
  <2>2. \A b \in Written(d.subscription) : b.service = c.service
    BY <1>0, <1>2 DEF Known, Selling, Drafts, Written, AssignmentKinds
  <2>3. ASSUME NEW x, x # c.service PROVE ActiveSubscriptions(x)' = ActiveSubscriptions(x)
    <3>1. \A b \in subscriptions : b.service = x =>
            b = (IF b.service = c.service /\ b.id = c.subscription THEN [b EXCEPT !.active = FALSE] ELSE b)
      BY <2>3
    <3>2. \A b \in subscriptions : b.service = c.service => [b EXCEPT !.active = FALSE].service = c.service
      BY <1>0, Typed DEF Subscription
    <3>3. {b \in Ended(c.service, c.subscription) : b.service = x} = {b \in subscriptions : b.service = x}
      BY <2>3, <3>1, <3>2 DEF Ended
    <3> QED BY <2>1, <2>2, <2>3, <3>3 DEF ActiveSubscriptions
  <2> QED BY <2>1, <2>3 DEF PeriodsOf, PeriodUses, ChargeUses
<1> QED BY <1>0, <1>1, <1>2

LEMMA OthersKnow ==
    ASSUME Inv, NEW w \in Workers, Step(w), NEW v \in Workers \ {w}
    PROVE  Known(v)'
<1> PICK x : x = call[v].service
  OBVIOUS
<1>0. TypeInv /\ LockInv /\ Known(v) /\ now \in Nat
  BY Typed DEF Inv, KnownInv
<1>1. pc'[v] = pc[v] /\ call'[v] = call[v] /\ draft'[v] = draft[v]
  BY <1>0, StepTyped DEF Alone
<1>2. CASE ~Commit(w)
  BY <1>0, <1>1, <1>2, StepEffects, SameRows, StillKnown
<1>3. CASE Commit(w)
  <2>1. pc[w] = "commit" /\ around' = around
    BY <1>0, <1>3, CommitParts
  <2>2. now' = now /\ catalog' = catalog /\ BothActive(x)' = BothActive(x)
    BY <1>1, <2>1 DEF around, BothActive
  <2>3. pc[v] \in Under => PeriodsOf(x)' = PeriodsOf(x) /\ ActiveSubscriptions(x)' = ActiveSubscriptions(x)
    <3>1. pc[v] \in Under => x # call[w].service
      BY <1>0, <2>1, OneOnService DEF Under, Inside
    <3> QED BY <1>3, <3>1, CommitElsewhere
  <2>4. Inserted(v) /\ Inserted(w) => call[v].op # call[w].op
    BY DEF Inv, KnownInv, OpsApart
  <2>5. /\ Inserted(v) => (PeriodUses(call[v].op)' => PeriodUses(call[v].op))
        /\ Inserted(v) => (ChargeUses(call[v].op)' => ChargeUses(call[v].op))
    BY <1>1, <1>3, <2>4, CommitElsewhere DEF PeriodUses, ChargeUses
  <2> QED BY <1>0, <1>1, <2>2, <2>3, <2>5, StillKnown
<1> QED BY <1>2, <1>3

(* What a call that bills reads in its last look.                          *)
LEMMA BillsKnow ==
    ASSUME TypeInv, NEW w \in Workers, Bills(w)
    PROVE  LET c == call[w]
               d == Billing(c) IN
           /\ MadeFor(c, d) /\ BothActive(c.service) /\ SoldTo(c.service, d.period)
           /\ ExtendsChain(c, d.period)
           /\ \A q \in PeriodsOf(c.service) : q.op # c.op
<1> DEFINE c == call[w]
           p == NewPeriod(c)
           previous == LatestPeriod(c.service)
<1>0. /\ Asked(c) /\ c.kind \in PeriodKinds /\ c.service \in Services
      /\ Eligible(c) /\ ~Taken(c) /\ ~Outdated(c) /\ Affordable(c)
  BY Typed, CallParts DEF Bills, Ready
<1>1. BothActive(c.service) /\ ActiveSubscriptions(c.service) # {}
  BY <1>0 DEF Eligible
<1>2. /\ p \in Period
      /\ p.service = c.service /\ p.op = c.op /\ p.type = TypeOf(c) /\ p.previous = c.previous
      /\ p.subscription = Billed(c.service).id /\ p.terms = Billed(c.service).terms
      /\ p.seq = IF previous = None THEN 1 ELSE previous.seq + 1
      /\ p.starts = StartsAt(previous)
      /\ p.expires = p.starts + p.terms.duration
  BY <1>0, <1>1, NewPeriodParts
<1>3. Billing(c).period = p /\ (Funded(c) => Billing(c).charge = NewCharge(c))
  BY DEF Billing
<1>4. MadeFor(c, Billing(c))
  BY <1>0, <1>2, <1>3, NewChargeParts DEF MadeFor
<1>5. SoldTo(c.service, p)
  BY <1>1, <1>2, BilledFound DEF SoldTo
<1>6. StartsRight(previous, p.starts)
  <2>1. now \in 0..now
    BY Typed
  <2> QED BY <1>2, <2>1 DEF StartsRight, StartsAt
<1>7. ExtendsChain(c, p)
  BY <1>0, <1>2, <1>6 DEF ExtendsChain, Outdated
<1>8. \A q \in PeriodsOf(c.service) : q.op # c.op
  BY <1>0 DEF Taken, PeriodUses, PeriodsOf
<1> QED BY <1>1, <1>3, <1>4, <1>5, <1>7, <1>8

LEMMA StepKnows ==
    ASSUME Inv, NEW w \in Workers, Step(w)
    PROVE  Known(w)'
<1> PICK c : c = call[w]
  OBVIOUS
<1>0. TypeInv /\ Ready(w) /\ Known(w) /\ now \in Nat
  BY Typed DEF Inv, KnownInv
<1>1. CASE EndsOutside(w)
  BY <1>1 DEF EndsOutside, Outside, Known, InBilling, Inserted, Selling, Saving, PeriodInserted, EntryInserted
<1>2. CASE ~EndsOutside(w) /\ GoesOn(w)
  <2>0. call'[w] = c /\ UNCHANGED <<rows, around>>
    BY <1>0, <1>2, StepEffects DEF GoesOn
  <2>1. CASE LocksService(w) \/ LocksSubscriber(w)
    BY <2>1 DEF LocksService, LocksSubscriber, Known, InBilling, Inserted, Selling, Saving, PeriodInserted, EntryInserted
  <2>2. CASE Bills(w)
    <3>1. /\ MadeFor(c, Billing(c)) /\ BothActive(c.service) /\ SoldTo(c.service, Billing(c).period)
          /\ ExtendsChain(c, Billing(c).period)
          /\ \A q \in PeriodsOf(c.service) : q.op # c.op
      BY <1>0, <2>2, BillsKnow
    <3> PICK d : d = Billing(c)
      OBVIOUS
    <3>2. pc'[w] = "save_period" /\ draft'[w] = d
      BY <2>2 DEF Bills
    <3>3. MadeFor(c, d)'
      BY <3>1 DEF MadeFor, TypeOf, Funded
    <3>4. BothActive(c.service)' /\ SoldTo(c.service, d.period)'
      BY <2>0, <3>1 DEF BothActive, SoldTo, ActiveSubscriptions, rows, around
    <3>5. ExtendsChain(c, d.period)'
      BY <2>0, <3>1, SameRows DEF ExtendsChain, StartsRight
    <3>6. (\A q \in PeriodsOf(c.service) : q.op # c.op)'
      BY <2>0, <3>1, SameRows
    <3> QED BY <2>0, <3>2, <3>3, <3>4, <3>5, <3>6
            DEF Known, InBilling, Inserted, Selling, MadeFor, BothActive, SoldTo, ExtendsChain, Saving, PeriodInserted, EntryInserted
  <2>3. CASE Inserts(w)
    <3> PICK d : d = draft[w]
      OBVIOUS
    <3>1. /\ MadeFor(c, d) /\ BothActive(c.service) /\ SoldTo(c.service, d.period)
          /\ ExtendsChain(c, d.period)
          /\ \A q \in PeriodsOf(c.service) : q.op # c.op
      BY <1>0, <2>3 DEF Inserts, Known, InBilling
    <3>2. pc'[w] \in Saving \cup {"commit"} /\ draft'[w] = d /\ c.kind \in PeriodKinds
      BY <1>0, <2>3 DEF Inserts, Ready
    <3>3. MadeFor(c, d)'
      BY <3>1 DEF MadeFor, TypeOf, Funded
    <3>4. BothActive(c.service)' /\ SoldTo(c.service, d.period)'
      BY <2>0, <3>1 DEF BothActive, SoldTo, ActiveSubscriptions, rows, around
    <3>5. ExtendsChain(c, d.period)'
      BY <2>0, <3>1, SameRows DEF ExtendsChain, StartsRight
    <3>6. (\A q \in PeriodsOf(c.service) : q.op # c.op)'
      BY <2>0, <3>1, SameRows
    <3>7. pc'[w] \in PeriodInserted => ~PeriodUses(c.op)'
      <4>1. pc'[w] \in PeriodInserted => ~PeriodUses(c.op)
        BY <1>0, <2>3, <3>2 DEF Inserts, Known, Inserted
      <4> QED BY <2>0, <4>1, SameRows
    <3>8. pc'[w] = "commit" /\ Funded(c) => ~ChargeUses(c.op)'
      BY <2>0, <2>3, SameRows DEF Inserts
    <3>9. c.kind \notin {"assign", "change"} /\ pc'[w] # "lock_plan"
      BY <3>2 DEF PeriodKinds, PlainKinds, FundedKinds, Saving
    <3>10. InBilling(w)' /\ ~Selling(w)' /\ (Inserted(w)' => pc'[w] \in PeriodInserted)
      BY <2>0, <3>2, <3>9 DEF InBilling, Selling, Inserted
    <3> QED BY <2>0, <3>2, <3>3, <3>4, <3>5, <3>6, <3>7, <3>8, <3>9, <3>10
            DEF Known, MadeFor, BothActive, SoldTo, ExtendsChain, PeriodUses, ChargeUses, Funded
  <2>4. ASSUME Replaceable(c) PROVE Replaceable(c)'
    BY <2>0, <2>4, SameRows DEF Replaceable, Named
  <2>5. CASE Passes(w)
    <3>1. pc'[w] = "lock_plan" /\ Replaceable(c)'
      BY <2>4, <2>5 DEF Passes
    <3> QED BY <2>0, <3>1 DEF Known, InBilling, Inserted, Selling, Replaceable, Named, Saving, PeriodInserted, EntryInserted
  <2>6. CASE Ends(w)
    <3>1. pc'[w] = "commit" /\ c.kind = "end"
      BY <2>6 DEF Ends
    <3> QED BY <2>0, <3>1 DEF Known, InBilling, Inserted, Selling, PeriodKinds, PlainKinds, FundedKinds, Saving, PeriodInserted, EntryInserted
  <2>7. CASE Sells(w)
    <3>1. pc[w] = "lock_plan" /\ pc'[w] = "commit" /\ PlanAllowed(c) /\ draft'[w] = Sale(c)
      BY <2>7 DEF Sells
    <3>2. Replaceable(c)'
      BY <1>0, <2>4, <3>1 DEF Known
    <3> PICK b : b = NewSubscription(c)
      OBVIOUS
    <3>3. Asked(c) /\ c.kind \in {"assign", "change"} /\ c.plan \in Plans
      BY <1>0, <3>1 DEF Ready, Asked
    <3>4. b.service = c.service /\ b.plan = c.plan /\ b.terms = catalog[c.plan].terms
      BY <1>0, <3>3, NewSubscriptionParts
    <3>5. catalog[c.plan] = [terms |-> b.terms, active |-> TRUE]
      <4>1. catalog[c.plan] \in Package /\ catalog[c.plan].active
        BY <1>0, <3>1, <3>3 DEF PlanAllowed, TypeInv, TypeOK
      <4> QED BY <3>4, <4>1 DEF Package
    <3>6. draft'[w].subscription = b /\ catalog' = catalog
      BY <2>0, <3>1 DEF Sale, around
    <3>7. c.kind \notin PeriodKinds
      BY <3>3 DEF PeriodKinds, PlainKinds, FundedKinds
    <3> QED BY <2>0, <3>1, <3>2, <3>4, <3>5, <3>6, <3>7
            DEF Known, InBilling, Inserted, Selling, Replaceable, Named, Saving, PeriodInserted, EntryInserted
  <2> QED BY <1>2, <2>1, <2>2, <2>3, <2>5, <2>6, <2>7 DEF GoesOn
<1> QED BY <1>0, <1>1, <1>2, StepEffects

LEMMA StepOps ==
    ASSUME Inv, NEW w \in Workers, Step(w)
    PROVE  OpsApart'
<1>0. TypeInv /\ OpsApart /\ Alone(w)
  BY StepTyped DEF Inv, KnownInv
<1>1. ASSUME NEW v \in Workers \ {w}, Inserted(v)', Inserted(w)'
      PROVE  call'[v].op # call'[w].op
  <2>1. Inserted(v) /\ call'[v] = call[v]
    BY <1>0, <1>1 DEF Alone, Inserted
  <2>2. Inserts(w) /\ call'[w] = call[w] /\ pc'[w] \in PeriodInserted /\ call[w].kind \in PeriodKinds
    <3>1. pc'[w] \in PeriodInserted /\ call'[w].kind \in PeriodKinds
      BY <1>1 DEF Inserted
    <3>2. pc'[w] \in {"save_entry", "insert_entry", "save_charge", "insert_charge", "commit"}
      BY <3>1 DEF PeriodInserted, EntryInserted
    <3>3. GoesOn(w)
      BY <1>0, <3>2, StepEffects DEF EndsOutside, Outside
    <3>4. ~Ends(w) /\ ~Sells(w)
      BY <1>0, <3>1, <3>3, Typed DEF Ends, Sells, GoesOn, Ready, PeriodKinds, PlainKinds, FundedKinds
    <3> QED BY <3>1, <3>2, <3>3, <3>4 DEF GoesOn, LocksService, LocksSubscriber, Bills, Passes
  <2>3. CASE pc[w] \in PeriodInserted
    BY <1>0, <2>1, <2>2, <2>3 DEF Inserted, OpsApart
  <2>4. CASE pc[w] \notin PeriodInserted
    <3>1. ~HoldsPeriodKey(v, call[w].op)
      BY <2>2, <2>4 DEF Inserts
    <3>2. InBilling(v) /\ pc[v] \in Saving \cup {"commit"} /\ pc[v] \in PeriodInserted
          /\ call[v].kind \in PeriodKinds
      BY <2>1 DEF Inserted, PeriodInserted, EntryInserted, InBilling, Saving
    <3>3. Ready(v) /\ Known(v)
      BY <1>0, Typed DEF Inv, KnownInv
    <3>4. draft[v].period \in Period
      BY <3>2, <3>3 DEF Ready, Drafts
    <3>5. draft[v].period.op = call[v].op
      BY <3>2, <3>3 DEF Known, MadeFor
    <3> QED BY <2>1, <2>2, <3>1, <3>2, <3>4, <3>5, NoneApart DEF HoldsPeriodKey
  <2> QED BY <2>3, <2>4
<1>2. ASSUME NEW u \in Workers \ {w}, NEW v \in Workers \ {w}, u # v, Inserted(u)', Inserted(v)'
      PROVE  call'[u].op # call'[v].op
  BY <1>0, <1>2 DEF Alone, Inserted, OpsApart
<1> QED BY <1>1, <1>2 DEF OpsApart

(* Whoever switches or edits what a call relies on needs a row of it.      *)
LEMMA AroundKnows ==
    ASSUME Inv, Around, NEW w \in Workers
    PROVE  Known(w)'
<1> PICK x : x = call[w].service
  OBVIOUS
<1>0. /\ TypeInv /\ TypeInv' /\ Known(w) /\ Holds(w)
      /\ subscriptions' = subscriptions /\ periods' = periods /\ charges' = charges
      /\ pc' = pc /\ call' = call /\ draft' = draft /\ now' >= now
  BY AroundTyped DEF Inv, LockInv, KnownInv, local
<1>1. now' \in Nat
  BY <1>0, ServiceBillingAssumption DEF TypeInv, TypeOK
<1>2. pc[w] \in Under /\ BothActive(x) => BothActive(x)'
  <2> SUFFICES ASSUME pc[w] \in Under, BothActive(x) PROVE BothActive(x)'
    OBVIOUS
  <2>1. ServiceRow(x) \in rowLocks[w] /\ SubscriberRow(OwnerOf[x]) \in rowLocks[w]
    BY <1>0 DEF Holds, Inside, Under
  <2>2. ASSUME NEW y \in Services, SetServiceActive(y) PROVE BothActive(x)'
    BY <2>1, <2>2 DEF SetServiceActive, Unlocked, Toggled, BothActive
  <2>3. ASSUME NEW s \in Subscribers, SetSubscriberActive(s) PROVE BothActive(x)'
    BY <2>1, <2>3 DEF SetSubscriberActive, Unlocked, Toggled, BothActive
  <2> QED BY <2>2, <2>3
          DEF Around, BothActive, UpdatePackage, SetPackageActive, MoneyElsewhere, Tick
<1>3. Selling(w) => catalog'[call[w].plan] = catalog[call[w].plan]
  <2> SUFFICES ASSUME Selling(w) PROVE catalog'[call[w].plan] = catalog[call[w].plan]
    OBVIOUS
  <2>1. PlanRow(call[w].plan) \in rowLocks[w] /\ catalog \in [Plans -> Package]
    BY <1>0 DEF Holds, TypeInv, TypeOK
  <2>2. call[w].plan \in Plans
    BY <1>0, Typed DEF Selling, Ready, Asked
  <2>3. ASSUME NEW p \in Plans, UpdatePackage(p) \/ SetPackageActive(p)
        PROVE  catalog'[call[w].plan] = catalog[call[w].plan]
    <3>1. p # call[w].plan
      BY <2>1, <2>3 DEF UpdatePackage, SetPackageActive, Unlocked
    <3> QED BY <2>1, <2>2, <2>3, <3>1 DEF UpdatePackage, SetPackageActive
  <2> QED BY <2>3 DEF Around, SetServiceActive, SetSubscriberActive, MoneyElsewhere, Tick
<1>4. PeriodsOf(x)' = PeriodsOf(x) /\ ActiveSubscriptions(x)' = ActiveSubscriptions(x)
  BY <1>0 DEF PeriodsOf, ActiveSubscriptions
<1>5. /\ Inserted(w) => (PeriodUses(call[w].op)' => PeriodUses(call[w].op))
      /\ Inserted(w) => (ChargeUses(call[w].op)' => ChargeUses(call[w].op))
  BY <1>0 DEF PeriodUses, ChargeUses
<1> QED BY <1>0, <1>1, <1>2, <1>3, <1>4, <1>5, StillKnown

LEMMA AlwaysInv == Spec => []Inv
<1>1. Init => Inv
  <2>1. Init => LockInv /\ KnownInv
    BY DEF Init, LockInv, Exclusive, Holds, Inside, Under, Selling,
           KnownInv, OpsApart, Known, InBilling, Inserted, Saving, PeriodInserted, EntryInserted
  <2> QED BY <2>1, InitTyped DEF Inv
<1>2. Inv /\ [Next]_vars => Inv'
  <2> SUFFICES ASSUME Inv, [Next]_vars PROVE Inv'
    OBVIOUS
  <2>1. TypeInv'
    BY NextTyped DEF Inv
  <2>2. ASSUME UNCHANGED <<pc, local>> PROVE LockInv' /\ OpsApart'
    BY <2>2 DEF Inv, LockInv, Exclusive, Holds, Selling, KnownInv, OpsApart, Inserted, local
  <2>3. CASE UNCHANGED vars
    <3>1. UNCHANGED <<rows, around>> /\ UNCHANGED <<pc, local>>
      BY <2>3 DEF vars
    <3>2. ASSUME NEW w \in Workers PROVE Known(w)'
      BY <3>1, SameRows, StillKnown, Typed DEF Inv, KnownInv, local
    <3> QED BY <2>1, <2>2, <3>1, <3>2 DEF Inv, KnownInv
  <2>4. CASE Around
    <3>1. UNCHANGED <<pc, local>>
      BY <2>4, AroundTyped DEF Inv
    <3> QED BY <2>1, <2>2, <2>4, <3>1, AroundKnows DEF Inv, KnownInv
  <2>5. ASSUME NEW w \in Workers, Step(w) PROVE Inv'
    <3>1. \A v \in Workers : Known(v)'
      BY <2>5, StepKnows, OthersKnow
    <3>2. LockInv'
      BY <2>5, StepLocks DEF Inv
    <3> QED BY <2>1, <2>5, <3>1, <3>2, StepOps DEF Inv, KnownInv
  <2> QED BY <2>3, <2>4, <2>5 DEF Next, Step
<1> QED BY <1>1, <1>2, PTL DEF Spec

-----------------------------------------------------------------------------
(* Only a commit writes rows that billing is about.                        *)
LEMMA OnlyCommitsBill ==
    ASSUME Inv, [Next]_vars
    PROVE  \/ \E w \in Workers : Step(w) /\ Commit(w)
           \/ subscriptions' = subscriptions /\ periods' = periods /\ charges' = charges
<1>1. CASE UNCHANGED vars
  BY <1>1 DEF vars, rows
<1>2. CASE Around
  BY <1>2, AroundTyped DEF Inv
<1>3. ASSUME NEW w \in Workers, Step(w), ~Commit(w)
      PROVE  subscriptions' = subscriptions /\ periods' = periods /\ charges' = charges
  BY <1>3, StepEffects DEF Inv, rows
<1> QED BY <1>1, <1>2, <1>3 DEF Next, Step

LEMMA PeriodCommit ==
    ASSUME Inv, NEW w \in Workers, Commit(w), call[w].kind \in PeriodKinds
    PROVE  LET c == call[w]
               d == draft[w] IN
           /\ c.service \in Services /\ Asked(c) /\ Drafts(c, d)
           /\ periods' = periods \cup {d.period} /\ subscriptions' = subscriptions
           /\ Funded(c) => charges' = charges \cup {d.charge}
           /\ ~Funded(c) => charges' = charges
           /\ MadeFor(c, d) /\ BothActive(c.service) /\ SoldTo(c.service, d.period)
           /\ ExtendsChain(c, d.period)
           /\ ~PeriodUses(c.op) /\ (Funded(c) => ~ChargeUses(c.op))
           /\ d.period \in Period /\ d.period \notin periods
<1>1. TypeInv /\ Known(w)
  BY DEF Inv, KnownInv
<1>2. pc[w] = "commit" /\ InBilling(w) /\ Inserted(w)
  BY DEF Commit, InBilling, Inserted, PeriodInserted, EntryInserted
<1>3. draft[w].period \in Period
  BY <1>1, CommitParts DEF Drafts
<1> QED BY <1>1, <1>2, <1>3, CommitParts DEF Known, MadeFor, PeriodUses

LEMMA AssignmentCommit ==
    ASSUME Inv, NEW w \in Workers, Commit(w), call[w].kind \in AssignmentKinds
    PROVE  LET c == call[w]
               d == draft[w] IN
           /\ c.service \in Services /\ Asked(c) /\ Drafts(c, d)
           /\ periods' = periods /\ charges' = charges
           /\ subscriptions' = Ended(c.service, c.subscription) \cup Written(d.subscription)
           /\ c.kind = "end" => Written(d.subscription) = {}
           /\ c.kind # "end" =>
                /\ Replaceable(c)
                /\ Written(d.subscription) = {d.subscription}
                /\ d.subscription.service = c.service /\ d.subscription.plan = c.plan
                /\ catalog[c.plan] = [terms |-> d.subscription.terms, active |-> TRUE]
<1>1. TypeInv /\ Known(w)
  BY DEF Inv, KnownInv
<1>2. /\ call[w].kind # "end" => Selling(w)
      /\ pc[w] = "commit"
  BY DEF Commit, Selling, AssignmentKinds
<1>3. /\ call[w].kind = "end" => draft[w].subscription = None
      /\ call[w].kind # "end" => draft[w].subscription \in Subscription
  BY <1>1, CommitParts DEF Drafts
<1>4. /\ call[w].kind = "end" => Written(draft[w].subscription) = {}
      /\ call[w].kind # "end" => Written(draft[w].subscription) = {draft[w].subscription}
  BY <1>3, NoneApart DEF Written
<1> QED BY <1>1, <1>2, <1>4, CommitParts DEF Known

(* Ending a subscription changes nothing else of it, nor of any other.     *)
LEMMA EndedParts ==
    ASSUME TypeInv, NEW x, NEW n
    PROVE  /\ \A b \in Ended(x, n) : \E a \in subscriptions :
                /\ a.service = b.service /\ a.id = b.id /\ a.terms = b.terms
                /\ b.active => a = b /\ ~(b.service = x /\ b.id = n)
           /\ \A a \in subscriptions : \E b \in Ended(x, n) :
                a.service = b.service /\ a.id = b.id /\ a.terms = b.terms
<1> DEFINE end(b) == IF b.service = x /\ b.id = n THEN [b EXCEPT !.active = FALSE] ELSE b
<1>1. ASSUME NEW a \in subscriptions
      PROVE  /\ end(a).service = a.service /\ end(a).id = a.id /\ end(a).terms = a.terms
             /\ end(a).active => a = end(a) /\ ~(a.service = x /\ a.id = n)
  <2>1. a \in Subscription
    BY Typed
  <2>2. LET b == [a EXCEPT !.active = FALSE] IN
        b.service = a.service /\ b.id = a.id /\ b.terms = a.terms /\ ~b.active
    BY <2>1 DEF Subscription
  <2> QED BY <2>2
<1>2. Ended(x, n) = {end(b) : b \in subscriptions}
  BY DEF Ended
<1> HIDE DEF end
<1> QED BY <1>1, <1>2

-----------------------------------------------------------------------------
(* Subscriptions.                                                          *)

AtMostOne == \A x \in Services : \A a, b \in ActiveSubscriptions(x) : a = b

LEMMA CommitKeepsOne ==
    ASSUME Inv, AtMostOne, NEW w \in Workers, Commit(w)
    PROVE  AtMostOne'
<1> PICK c : c = call[w]
  OBVIOUS
<1>0. TypeInv /\ c.kind \in PeriodKinds \cup AssignmentKinds
  BY CommitParts DEF Inv
<1>1. CASE c.kind \in PeriodKinds
  BY <1>1, PeriodCommit DEF AtMostOne, ActiveSubscriptions
<1>2. CASE c.kind \in AssignmentKinds
  <2> PICK new : new = Written(draft[w].subscription)
    OBVIOUS
  <2>1. subscriptions' = Ended(c.service, c.subscription) \cup new
    BY <1>2, AssignmentCommit
  <2>2. c.kind = "end" => new = {}
    BY <1>2, AssignmentCommit
  <2>3. c.kind # "end" => Replaceable(c) /\ \E s : new = {s} /\ s.service = c.service
    BY <1>2, AssignmentCommit
  <2>4. \A b \in Ended(c.service, c.subscription) : b.active =>
          b \in subscriptions /\ ~(b.service = c.service /\ b.id = c.subscription)
    BY <1>0, EndedParts
  <2>5. c.service \in Services
    BY <1>2, AssignmentCommit
  <2>6. ASSUME c.kind # "end", NEW b \in Ended(c.service, c.subscription), b.active,
               b.service = c.service
        PROVE  FALSE
    <3>1. b \in ActiveSubscriptions(c.service) /\ b.id # c.subscription
      BY <2>4, <2>6 DEF ActiveSubscriptions
    <3> QED BY <2>3, <2>5, <2>6, <3>1 DEF Replaceable, Named, AtMostOne, ActiveSubscriptions
  <2>7. ASSUME NEW x \in Services, NEW a \in ActiveSubscriptions(x)', NEW b \in ActiveSubscriptions(x)'
        PROVE  a = b
    <3>1. ASSUME NEW s \in ActiveSubscriptions(x)'
          PROVE  s.service = x /\ s.active /\ (s \in new \/ s \in Ended(c.service, c.subscription))
      BY <2>1, <3>1 DEF ActiveSubscriptions
    <3>2. CASE a \in new \/ b \in new
      BY <2>2, <2>3, <2>6, <2>7, <3>1, <3>2
    <3>3. CASE a \notin new /\ b \notin new
      <4>1. a \in ActiveSubscriptions(x) /\ b \in ActiveSubscriptions(x)
        BY <2>4, <2>7, <3>1, <3>3 DEF ActiveSubscriptions
      <4> QED BY <4>1 DEF AtMostOne
    <3> QED BY <3>2, <3>3
  <2> QED BY <2>7 DEF AtMostOne
<1> QED BY <1>0, <1>1, <1>2

(* A service has at most one active subscription, whatever is assigned,    *)
(* changed and ended at once.                                              *)
THEOREM OneIsActive == Spec => []OneActive
<1>1. Init => AtMostOne
  <2> SUFFICES ASSUME Init, NEW x \in Services, NEW a \in ActiveSubscriptions(x),
                      NEW b \in ActiveSubscriptions(x)
               PROVE  a = b
    BY DEF AtMostOne
  <2>1. PICK p \in Plans : subscriptions = FirstSubscriptions(p)
    BY DEF Init, ActiveSubscriptions
  <2> DEFINE first(y) == [id |-> 1, service |-> y, plan |-> p, terms |-> catalog[p].terms,
                          active |-> TRUE]
  <2>2. subscriptions = {first(y) : y \in Services} /\ \A y : first(y).service = y
    BY <2>1 DEF FirstSubscriptions
  <2> HIDE DEF first
  <2> QED BY <2>2 DEF ActiveSubscriptions
<1>2. Inv /\ AtMostOne /\ [Next]_vars => AtMostOne'
  BY OnlyCommitsBill, CommitKeepsOne DEF AtMostOne, ActiveSubscriptions
<1>3. AtMostOne => OneActive
  <2> SUFFICES ASSUME AtMostOne, NEW x \in Services
               PROVE  Cardinality(ActiveSubscriptions(x)) <= 1
    BY DEF OneActive
  <2>1. ActiveSubscriptions(x) = {} \/ \E b : ActiveSubscriptions(x) = {b}
    BY DEF AtMostOne
  <2> QED BY <2>1, FS_EmptySet, FS_Singleton
<1> QED BY <1>1, <1>2, <1>3, AlwaysInv, PTL DEF Spec

(* A subscription is sold on a package on sale, on the terms it has then.  *)
THEOREM SoldAsItIsOffered == Spec => SoldAsOffered
<1>1. Inv /\ [Next]_vars =>
        \A b \in subscriptions' :
          (\A a \in subscriptions : a.service # b.service \/ a.id # b.id)
            => catalog[b.plan] = [terms |-> b.terms, active |-> TRUE]
  <2> SUFFICES ASSUME Inv, [Next]_vars, NEW b \in subscriptions',
                      \A a \in subscriptions : a.service # b.service \/ a.id # b.id
               PROVE  catalog[b.plan] = [terms |-> b.terms, active |-> TRUE]
    OBVIOUS
  <2>1. b \notin subscriptions
    OBVIOUS
  <2>2. PICK w \in Workers : Commit(w)
    BY <2>1, OnlyCommitsBill
  <2>3. call[w].kind \in AssignmentKinds
    BY <2>1, <2>2, CommitParts DEF Inv
  <2>4. b \notin Ended(call[w].service, call[w].subscription)
    BY EndedParts DEF Inv
  <2> QED BY <2>2, <2>3, <2>4, AssignmentCommit
<1> QED BY <1>1, AlwaysInv, PTL DEF Spec, SoldAsOffered

-----------------------------------------------------------------------------
(* Periods.                                                                *)

(* A new period continues the last one, whose number is the largest.       *)
LEMMA NewIsLast ==
    ASSUME Inv, NEW w \in Workers, Commit(w), call[w].kind \in PeriodKinds,
           NEW x, x = call[w].service, NEW p, p = draft[w].period
    PROVE  /\ PeriodsOf(x)' = PeriodsOf(x) \cup {p} /\ p \notin PeriodsOf(x)
           /\ \A q \in PeriodsOf(x) : q.seq < p.seq
<1> PICK previous : previous = LatestPeriod(x)
  OBVIOUS
<1>1. /\ TypeInv /\ x \in Services
      /\ periods' = periods \cup {p} /\ p \notin periods /\ p.service = x
      /\ p.seq = IF previous = None THEN 1 ELSE previous.seq + 1
  BY PeriodCommit DEF Inv, MadeFor, ExtendsChain
<1>2. \A q \in PeriodsOf(x) : q \in Period /\ q.seq \in Nat
  BY <1>1, Typed DEF PeriodsOf, Period
<1>3. ASSUME NEW q \in PeriodsOf(x) PROVE q.seq < p.seq
  <2>1. previous # None /\ previous \in PeriodsOf(x) /\ q.seq <= previous.seq
    BY <1>1, LatestFound
  <2> QED BY <1>1, <1>2, <2>1
<1> QED BY <1>1, <1>3 DEF PeriodsOf

LEMMA StartsAfterLast ==
    ASSUME Inv, NEW x \in Services, NEW starts, StartsRight(LatestPeriod(x), starts),
           LatestPeriod(x) # None
    PROVE  starts >= LatestPeriod(x).expires
<1> PICK q : q = LatestPeriod(x)
  OBVIOUS
<1>1. TypeInv /\ q \in periods /\ q \in Period
  BY LatestFound DEF Inv, PeriodsOf
<1>2. q.expires \in Nat /\ q.terms.grace \in Nat /\ q.grace_until = q.expires + q.terms.grace
  BY <1>1, TermsParts DEF Period, TypeInv, RowsInv
<1>3. PICK t \in 0..now : starts = IF q # None /\ t < q.grace_until THEN q.expires ELSE t
  BY DEF StartsRight
<1> QED BY <1>2, <1>3

(* No period ends before it starts: what comes after the last one comes    *)
(* after all of them.                                                      *)
ChainInv == PeriodsChained /\ \A p \in periods : p.starts <= p.expires

LEMMA CommitChains ==
    ASSUME Inv, ChainInv, NEW w \in Workers, Commit(w), call[w].kind \in PeriodKinds
    PROVE  ChainInv'
<1> PICK c : c = call[w]
  OBVIOUS
<1> PICK p : p = draft[w].period
  OBVIOUS
<1>1. /\ Asked(c) /\ c.kind \in PeriodKinds /\ c.service \in Services
      /\ periods' = periods \cup {p} /\ p \in Period
      /\ ExtendsChain(c, p) /\ ~PeriodUses(c.op)
      /\ p.service = c.service /\ p.op = c.op /\ p.type = TypeOf(c) /\ p.previous = c.previous
  BY PeriodCommit DEF MadeFor
<1> PICK last : last = LatestPeriod(c.service)
  OBVIOUS
<1>2. \/ p.type = "activation" /\ p.previous = None /\ p.seq = 1
      \/ \E q \in periods : Follows(p, q)
  <2>1. CASE last = None
    BY <1>1, <2>1 DEF ExtendsChain, Asked
  <2>2. CASE last # None
    <3>1. last \in periods /\ last \in Period /\ last.service = c.service
      BY <1>1, <2>2, LatestFound DEF Inv, PeriodsOf
    <3>2. c.previous = last.op /\ c.previous # None /\ p.seq = last.seq + 1
      BY <1>1, <2>2, <3>1, NoneApart DEF ExtendsChain, Period
    <3>3. p.type = "renewal"
      BY <1>1, <3>2 DEF Asked, TypeOf
    <3> QED BY <1>1, <3>1, <3>2, <3>3 DEF Follows
  <2> QED BY <2>1, <2>2
<1>3. \A q \in periods : q.op # p.op
  BY <1>1 DEF PeriodUses
<1>4. ASSUME NEW q \in periods, q.service = p.service
      PROVE  q.seq # p.seq /\ q.seq < p.seq /\ ~(p.seq < q.seq) /\ q.expires <= p.starts
  <2>1. q \in PeriodsOf(c.service) /\ q \in Period
    BY <1>1, <1>4, Typed DEF Inv, PeriodsOf
  <2>2. q.seq \in Nat /\ p.seq \in Nat /\ q.expires \in Nat /\ p.starts \in Nat
    BY <1>1, <2>1 DEF Period
  <2>3. q.seq < p.seq
    BY <1>1, <2>1, NewIsLast
  <2>4. /\ last # None /\ last \in periods /\ last \in Period /\ last.service = c.service
        /\ q.seq <= last.seq
    BY <1>1, <2>1, LatestFound DEF Inv, PeriodsOf
  <2>5. last.seq \in Nat /\ last.starts \in Nat /\ last.expires \in Nat
    BY <2>4 DEF Period
  <2>6. p.starts >= last.expires
    BY <1>1, <2>4, StartsAfterLast DEF ExtendsChain
  <2>7. CASE q = last
    BY <2>2, <2>3, <2>5, <2>6, <2>7
  <2>8. CASE q # last
    <3>1. q.expires <= last.starts /\ last.starts <= last.expires
      BY <1>1, <1>4, <2>2, <2>4, <2>5, <2>8 DEF ChainInv, PeriodsChained
    <3> QED BY <2>2, <2>3, <2>5, <2>6, <3>1
  <2> QED BY <2>7, <2>8
<1>5. ASSUME NEW q \in periods'
      PROVE  \/ q.type = "activation" /\ q.previous = None /\ q.seq = 1
             \/ \E r \in periods' : Follows(q, r)
  BY <1>1, <1>2 DEF ChainInv, PeriodsChained
<1>6. ASSUME NEW q \in periods', NEW r \in periods', q # r
      PROVE  /\ q.op # r.op
             /\ q.service = r.service =>
                  q.seq # r.seq /\ (q.seq < r.seq => q.expires <= r.starts)
  BY <1>1, <1>3, <1>4, <1>6 DEF ChainInv, PeriodsChained
<1>7. p.starts <= p.expires
  <2>1. p.expires = p.starts + p.terms.duration /\ p.starts \in Nat
    BY <1>1 DEF ExtendsChain, Period
  <2>2. p.terms.duration \in Nat
    BY <1>1, TermsParts DEF Period
  <2> QED BY <2>1, <2>2
<1> QED BY <1>1, <1>5, <1>6, <1>7 DEF ChainInv, PeriodsChained, Follows

(* The periods of a service are one chain, numbered without a hole, and no *)
(* two of them overlap, however far apart in the chain.                    *)
THEOREM PeriodsAreChained == Spec => []PeriodsChained
<1>1. Init => ChainInv
  BY DEF Init, ChainInv, PeriodsChained
<1>2. Inv /\ ChainInv /\ [Next]_vars => ChainInv'
  <2> SUFFICES ASSUME Inv, ChainInv, [Next]_vars PROVE ChainInv'
    OBVIOUS
  <2>1. CASE periods' = periods
    BY <2>1 DEF ChainInv, PeriodsChained, Follows
  <2>2. CASE periods' # periods
    <3>1. PICK w \in Workers : Commit(w)
      BY <2>2, OnlyCommitsBill
    <3>2. call[w].kind \in PeriodKinds
      BY <2>2, <3>1, CommitParts DEF Inv
    <3> QED BY <3>1, <3>2, CommitChains
  <2> QED BY <2>1, <2>2
<1>3. ChainInv => PeriodsChained
  BY DEF ChainInv
<1> QED BY <1>1, <1>2, <1>3, AlwaysInv, PTL DEF Spec

(* Nothing is billed to a service, a subscriber or a subscription that has *)
(* been switched off or ended by the time the period commits.              *)
THEOREM OnlyEligibleBilled == Spec => EligibleWhenBilled
<1>1. Inv /\ [Next]_vars =>
        \A p \in periods' \ periods :
          /\ p.service \in serviceOn
          /\ OwnerOf[p.service] \in subscriberOn
          /\ \E b \in ActiveSubscriptions(p.service) : b.id = p.subscription
  <2> SUFFICES ASSUME Inv, [Next]_vars, NEW p \in periods' \ periods
               PROVE  /\ p.service \in serviceOn
                      /\ OwnerOf[p.service] \in subscriberOn
                      /\ \E b \in ActiveSubscriptions(p.service) : b.id = p.subscription
    OBVIOUS
  <2>1. PICK w \in Workers : Commit(w)
    BY OnlyCommitsBill
  <2>2. call[w].kind \in PeriodKinds
    BY <2>1, CommitParts DEF Inv
  <2>3. p = draft[w].period
    BY <2>1, <2>2, PeriodCommit
  <2> QED BY <2>1, <2>2, <2>3, PeriodCommit DEF MadeFor, BothActive, SoldTo
<1> QED BY <1>1, AlwaysInv, PTL DEF Spec, EligibleWhenBilled

-----------------------------------------------------------------------------
(* Charges.                                                                *)

(* Identifiers the ledger has used stay used.                              *)
LEMMA LedgerGrows ==
    ASSUME TypeInv, [Next]_vars
    PROVE  ledgerOps \subseteq ledgerOps'
<1>1. CASE UNCHANGED vars
  BY <1>1 DEF vars, rows, money
<1>2. CASE Around
  BY <1>2 DEF Around, SetServiceActive, SetSubscriberActive, UpdatePackage, SetPackageActive,
              MoneyElsewhere, Tick, rows, money
<1>3. ASSUME NEW w \in Workers, Step(w) PROVE ledgerOps \subseteq ledgerOps'
  <2>1. CASE Commit(w)
    BY <2>1 DEF Commit
  <2>2. CASE ~Commit(w)
    BY <1>3, <2>2, StepEffects DEF rows, money
  <2> QED BY <2>1, <2>2
<1> QED BY <1>1, <1>2, <1>3 DEF Next, Step

LEMMA SubscriptionsStay ==
    ASSUME Inv, [Next]_vars, NEW b \in subscriptions
    PROVE  \E a \in subscriptions' : a.service = b.service /\ a.id = b.id /\ a.terms = b.terms
<1>1. CASE subscriptions' = subscriptions
  BY <1>1
<1>2. CASE subscriptions' # subscriptions
  <2>1. PICK w \in Workers : Commit(w)
    BY <1>2, OnlyCommitsBill
  <2>2. call[w].kind \in AssignmentKinds
    BY <1>2, <2>1, CommitParts DEF Inv
  <2>3. Ended(call[w].service, call[w].subscription) \subseteq subscriptions'
    BY <2>1, <2>2, AssignmentCommit
  <2> QED BY <2>3, EndedParts DEF Inv
<1> QED BY <1>1, <1>2

(* A new charge pays for the period it is committed with.                  *)
LEMMA CommitCharges ==
    ASSUME Inv, NEW w \in Workers, Commit(w), NEW h \in charges' \ charges
    PROVE  /\ charges' = charges \cup {h} /\ ~ChargeUses(h.op)
           /\ h.op \in ledgerOps'
           /\ \E p \in periods' :
                /\ p.op = h.op /\ p.service = h.service /\ p.type = h.type
                /\ p.terms.price = h.amount
<1> PICK c : c = call[w]
  OBVIOUS
<1> PICK d : d = draft[w]
  OBVIOUS
<1>1. c.kind \in PeriodKinds
  BY CommitParts DEF Inv
<1>2. Funded(c) /\ charges' = charges \cup {d.charge} /\ periods' = periods \cup {d.period}
      /\ MadeFor(c, d) /\ ~ChargeUses(c.op) /\ Drafts(c, d)
  BY <1>1, PeriodCommit
<1>3. h = d.charge /\ h \in Charge
  BY <1>1, <1>2 DEF Drafts
<1>4. h.op = c.op /\ h.service = c.service /\ h.type = TypeOf(c) /\ h.amount = d.period.terms.price
      /\ d.period.op = c.op /\ d.period.service = c.service /\ d.period.type = TypeOf(c)
  BY <1>2, <1>3 DEF MadeFor
<1>5. h.op \in ledgerOps'
  <2>1. ledgerOps' = ledgerOps \cup {g.op : g \in Written(d.charge)}
    BY DEF Commit
  <2>2. h \in Written(d.charge)
    BY <1>3, NoneApart DEF Written
  <2> QED BY <2>1, <2>2
<1> QED BY <1>2, <1>3, <1>4, <1>5

(* Every charge paid for one period of its service, at the price that the  *)
(* period's subscription was sold at, whatever its package costs by now.   *)
THEOREM ChargesAreBacked == Spec => []ChargesBacked
<1>1. Init => ChargesBacked
  BY DEF Init, ChargesBacked
<1>2. Inv /\ ChargesBacked /\ [Next]_vars => ChargesBacked'
  <2> SUFFICES ASSUME Inv, ChargesBacked, [Next]_vars PROVE ChargesBacked'
    OBVIOUS
  <2>1. periods \subseteq periods'
    BY OnlyCommitsBill DEF Commit
  <2>2. ASSUME NEW p \in periods'
        PROVE  \E b \in subscriptions' :
                 b.service = p.service /\ b.id = p.subscription /\ b.terms = p.terms
    <3>1. \E b \in subscriptions :
            b.service = p.service /\ b.id = p.subscription /\ b.terms = p.terms
      <4>1. CASE p \in periods
        BY <4>1 DEF ChargesBacked
      <4>2. CASE p \notin periods
        <5>1. PICK w \in Workers : Commit(w)
          BY <2>2, <4>2, OnlyCommitsBill
        <5>2. call[w].kind \in PeriodKinds
          BY <2>2, <4>2, <5>1, CommitParts DEF Inv
        <5>3. p = draft[w].period /\ SoldTo(p.service, p)
          BY <2>2, <4>2, <5>1, <5>2, PeriodCommit DEF MadeFor
        <5> QED BY <5>3 DEF SoldTo, ActiveSubscriptions
      <4> QED BY <4>1, <4>2
    <3> QED BY <3>1, SubscriptionsStay
  <2>3. ASSUME NEW h \in charges'
        PROVE  /\ h.op \in ledgerOps'
               /\ \E p \in periods' :
                    /\ p.op = h.op /\ p.service = h.service /\ p.type = h.type
                    /\ p.terms.price = h.amount
    <3>1. CASE h \in charges
      BY <2>1, <3>1, LedgerGrows DEF Inv, ChargesBacked
    <3>2. CASE h \notin charges
      <4>1. PICK w \in Workers : Commit(w)
        BY <2>3, <3>2, OnlyCommitsBill
      <4> QED BY <2>3, <3>2, <4>1, CommitCharges
    <3> QED BY <3>1, <3>2
  <2>4. ASSUME NEW g \in charges', NEW h \in charges', g.op = h.op PROVE g = h
    <3>1. CASE g \in charges /\ h \in charges
      BY <2>4, <3>1 DEF ChargesBacked
    <3>2. CASE ~(g \in charges /\ h \in charges)
      <4>1. PICK w \in Workers : Commit(w)
        BY <2>4, <3>2, OnlyCommitsBill
      <4>2. /\ g \notin charges => charges' = charges \cup {g} /\ ~ChargeUses(g.op)
            /\ h \notin charges => charges' = charges \cup {h} /\ ~ChargeUses(h.op)
        BY <2>4, <4>1, CommitCharges
      <4> QED BY <2>4, <3>2, <4>2 DEF ChargeUses
    <3> QED BY <3>1, <3>2
  <2> QED BY <2>2, <2>3, <2>4 DEF ChargesBacked
<1> QED BY <1>1, <1>2, AlwaysInv, PTL DEF Spec

-----------------------------------------------------------------------------
(* Refusals.                                                               *)

LEMMA AnsweredTaken ==
    ASSUME NEW c, Answered(c)
    PROVE  Taken(c)
BY DEF Answered, Taken, PeriodAnswers, ChargeAnswers, PeriodUses, ChargeUses

(* Who refuses a call, and what it has found by then.                      *)
Refusal(w, how) ==
    \/ how \in {"written", "replayed", "ineligible"}
    \/ how = "conflict" /\ (~Answered(call[w]) \/ pc[w] = "lookup_rest")
    \/ how \in {"stale", "balance"} /\ ~Taken(call[w])
    \/ pc[w] \in Saving

LEMMA RefusalParts ==
    ASSUME TypeInv, [Next]_vars, NEW w \in Workers, answer[w] = None, answer'[w] # None
    PROVE  Refusal(w, answer'[w])
<1>0. answer \in [Workers -> Done \cup Refused \cup {None}]
  BY Typed
<1>1. ~UNCHANGED answer
  OBVIOUS
<1>2. PICK v \in Workers : Step(v)
  BY <1>1, AroundTyped DEF Next, Step, vars, local
<1>3. ASSUME NEW how, Finish(v, how) PROVE v = w /\ answer'[w] = how
  BY <1>0, <1>3 DEF Finish
<1>4. ASSUME NEW how, Return(v, how) PROVE v = w /\ answer'[w] = how
  BY <1>3, <1>4 DEF Return
<1>5. ASSUME Replay(v) PROVE Refusal(w, answer'[w])
  <2>1. CASE Answered(call[v])
    BY <1>4, <1>5, <2>1 DEF Replay, Refusal
  <2>2. CASE ~Answered(call[v])
    BY <1>4, <1>5, <2>2 DEF Replay, Refusal
  <2> QED BY <2>1, <2>2
<1>6. \A step : ~GoOn(v, step)
  BY <1>1 DEF GoOn, local
<1>7. CASE Lookup(v)
  BY <1>5, <1>6, <1>7 DEF Lookup
<1>8. CASE LookupRest(v)
  BY <1>4, <1>6, <1>8 DEF LookupRest, Refusal
<1>9. CASE Recheck(v)
  <2>1. \/ Return(v, "ineligible") \/ Replay(v)
        \/ ~Taken(call[v]) /\ (Return(v, "stale") \/ Return(v, "balance"))
    BY <1>1, <1>9 DEF Recheck
  <2> QED BY <1>4, <1>5, <2>1 DEF Refusal
<1>10. CASE Save(v)
  BY <1>4, <1>6, <1>10, SaveParts DEF Refusal
<1>11. CASE Check(v)
  <2>1. Return(v, "ineligible")
    BY <1>1, <1>6, <1>11 DEF Check
  <2> QED BY <1>4, <2>1 DEF Refusal
<1>12. CASE LockPlan(v)
  <2>1. Return(v, "ineligible")
    BY <1>1, <1>12 DEF LockPlan
  <2> QED BY <1>4, <2>1 DEF Refusal
<1>13. CASE Commit(v)
  BY <1>3, <1>13 DEF Commit, Refusal
<1>14. ~(Submit(v) \/ LockService(v) \/ LockSubscriber(v) \/ Crash(v))
  BY <1>1 DEF Submit, SubmitPeriod, SubmitAssignment, SubmitForSubscription, Start, local,
              LockService, LockSubscriber, LockThen, Crash
<1>15. CASE Respond(v)
  BY <1>0, <1>15 DEF Respond
<1> QED BY <1>2, <1>7, <1>8, <1>9, <1>10, <1>11, <1>12, <1>13, <1>14, <1>15 DEF Step, Proceed

(* What is charged, or paid for, by an identifier is what one call asked   *)
(* for: a call that found no period of its service with its identifier is  *)
(* not done.                                                               *)
LEMMA NotAnswered ==
    ASSUME ChargesBacked, NEW c, \A q \in PeriodsOf(c.service) : q.op # c.op
    PROVE  ~Answered(c)
<1>1. ASSUME NEW h \in charges, ChargeAnswers(c, h) PROVE FALSE
  <2>1. PICK p \in periods : p.op = h.op /\ p.service = h.service
    BY DEF ChargesBacked
  <2> QED BY <1>1, <2>1 DEF ChargeAnswers, PeriodsOf
<1>2. ASSUME NEW p \in periods, PeriodAnswers(c, p) PROVE FALSE
  BY <1>2 DEF PeriodAnswers, PeriodsOf
<1> QED BY <1>1, <1>2 DEF Answered

(* No call that is done is refused as outdated, for the balance or as      *)
(* using an identifier of something else, wherever its twin overtakes it:  *)
(* before the lock, behind it, or up to the unique indexes.  Only the      *)
(* check of eligibility and the rest of the unlocked lookup refuse such a  *)
(* call.                                                                   *)
THEOREM RefusalsAreTrue == Spec => RefusalsTrue
<1>1. Inv /\ ChargesBacked /\ [Next]_vars =>
        \A w \in Workers :
            Refuses(w, {"conflict", "invalid", "stale", "balance"}) /\ pc[w] # "lookup_rest"
              => ~Answered(call[w])
  <2> SUFFICES ASSUME Inv, ChargesBacked, [Next]_vars, NEW w \in Workers, pc[w] # "lookup_rest",
                      Refuses(w, {"conflict", "invalid", "stale", "balance"})
               PROVE  ~Answered(call[w])
    OBVIOUS
  <2>1. /\ answer[w] = None /\ answer'[w] \in {"conflict", "invalid", "stale", "balance"}
        /\ answer'[w] # None
    BY NoneApart DEF Refuses, Refused
  <2>2. Refusal(w, answer'[w])
    BY <2>1, RefusalParts DEF Inv
  <2>3. CASE pc[w] \in Saving
    <3>1. \A q \in PeriodsOf(call[w].service) : q.op # call[w].op
      BY <2>3 DEF Inv, KnownInv, Known, InBilling
    <3> QED BY <3>1, NotAnswered
  <2>4. CASE pc[w] \notin Saving
    BY <2>1, <2>2, <2>4, AnsweredTaken DEF Refusal
  <2> QED BY <2>3, <2>4
<1> QED BY <1>1, AlwaysInv, ChargesAreBacked, PTL DEF Spec, RefusalsTrue

(* Where every period is paid from a wallet, none is left unpaid, whatever *)
(* fails after the period is saved.                                        *)
THEOREM AllPeriodsPaid == Spec => []PeriodsPaid
<1>1. Init => PeriodsPaid
  BY DEF Init, PeriodsPaid
<1>2. Inv /\ PeriodsPaid /\ [Next]_vars => PeriodsPaid'
  <2> SUFFICES ASSUME Inv, PeriodsPaid, [Next]_vars, Kinds \subseteq FundedKinds, NEW p \in periods'
               PROVE  \E h \in charges' :
                        h.op = p.op /\ h.service = p.service /\ h.amount = p.terms.price
    BY DEF PeriodsPaid
  <2>1. CASE p \in periods
    <3>1. charges \subseteq charges'
      BY OnlyCommitsBill DEF Commit
    <3> QED BY <2>1, <3>1 DEF PeriodsPaid
  <2>2. CASE p \notin periods
    <3>1. PICK w \in Workers : Commit(w)
      BY <2>2, OnlyCommitsBill
    <3>2. call[w].kind \in PeriodKinds /\ call[w].kind \in Kinds
      BY <2>2, <3>1, CommitParts, CallParts DEF Inv
    <3>3. Funded(call[w])
      BY <3>2 DEF Funded
    <3>4. p = draft[w].period /\ draft[w].charge \in charges' /\ MadeFor(call[w], draft[w])
      BY <2>2, <3>1, <3>2, <3>3, PeriodCommit
    <3> QED BY <3>3, <3>4 DEF MadeFor
  <2> QED BY <2>1, <2>2
<1> QED BY <1>1, <1>2, AlwaysInv, PTL DEF Spec

-----------------------------------------------------------------------------
(* Paid time.                                                              *)

PaidFor(x) ==
    IF PeriodsOf(x) = {} THEN None
    ELSE [starts |-> LatestPeriod(x).starts, expires |-> LatestPeriod(x).expires,
          grace_until |-> LatestPeriod(x).grace_until]

LEMMA PaidIs ==
    /\ Paid = [x \in Services |-> PaidFor(x)]
    /\ Paid' = [x \in Services |-> PaidFor(x)']
BY DEF Paid, PaidFor

(* What PaidTime sees of a service: no time, or that of its last period.   *)
LEMMA PaidParts ==
    ASSUME TypeInv, NEW x \in Services
    PROVE  /\ PaidFor(x) = None <=> LatestPeriod(x) = None
           /\ LatestPeriod(x) # None =>
                /\ PaidFor(x).expires = LatestPeriod(x).expires
                /\ PaidFor(x).grace_until = LatestPeriod(x).grace_until
<1> PICK p : p = LatestPeriod(x)
  OBVIOUS
<1>1. CASE PeriodsOf(x) = {}
  BY <1>1, LatestFound DEF PaidFor
<1>2. CASE PeriodsOf(x) # {}
  <2>1. p # None /\ p \in Period
    BY <1>2, LatestFound
  <2>2. PaidFor(x) = [starts |-> p.starts, expires |-> p.expires, grace_until |-> p.grace_until]
    BY <1>2 DEF PaidFor
  <2>3. PaidFor(x) \in [starts: Nat, expires: Nat, grace_until: Nat]
    BY <2>1, <2>2 DEF Period
  <2>4. PaidFor(x) # None
    BY <2>3, ServiceBillingAssumption
  <2> QED BY <2>1, <2>2, <2>4
<1> QED BY <1>1, <1>2

LEMMA PaidSame ==
    ASSUME NEW x, PeriodsOf(x)' = PeriodsOf(x)
    PROVE  PaidFor(x)' = PaidFor(x)
BY LatestSame DEF PaidFor

LEMMA CommitExtends ==
    ASSUME Inv, NEW w \in Workers, Commit(w), call[w].kind \in PeriodKinds
    PROVE  \E t \in 0..MaxTime : Time!Extend(call[w].service, t, draft[w].period.terms)
<1> PICK x : x = call[w].service
  OBVIOUS
<1> PICK p : p = draft[w].period
  OBVIOUS
<1> PICK last : last = LatestPeriod(x)
  OBVIOUS
<1>1. /\ TypeInv /\ x \in Services /\ p \in Period
      /\ StartsRight(last, p.starts) /\ p.expires = p.starts + p.terms.duration
      /\ p.grace_until = p.expires + p.terms.grace
  BY PeriodCommit DEF Inv, ExtendsChain, Drafts
<1>2. PICK t \in 0..now :
        p.starts = IF last # None /\ t < last.grace_until THEN last.expires ELSE t
  BY <1>1 DEF StartsRight
<1>3. t \in 0..MaxTime /\ t <= now
  BY <1>1, <1>2, ServiceBillingAssumption DEF TypeInv, TypeOK
<1>4. Time!Start(x, t) = p.starts
  BY <1>1, <1>2, PaidParts, PaidIs DEF Time!Start
<1>5. PaidFor(x)' = Time!Period(p.starts, p.terms)
  <2>1. PeriodsOf(x)' = PeriodsOf(x) \cup {p} /\ p \notin PeriodsOf(x)
        /\ \A q \in PeriodsOf(x) : q.seq < p.seq
    BY NewIsLast
  <2>2. \A q \in PeriodsOf(x)' : q \in Period /\ q.seq \in Nat
    BY <1>1, <2>1, Typed DEF PeriodsOf, Period
  <2>3. p \in PeriodsOf(x)' /\ \A q \in PeriodsOf(x)' : q.seq <= p.seq
    BY <2>1, <2>2
  <2>4. \A r \in PeriodsOf(x)' : (\A q \in PeriodsOf(x)' : q.seq <= r.seq) => r = p
    BY <2>1, <2>2, <2>3
  <2>5. LatestPeriod(x)' = p
    BY <2>3, <2>4 DEF LatestPeriod
  <2>6. PaidFor(x)' = [starts |-> p.starts, expires |-> p.expires, grace_until |-> p.grace_until]
    BY <2>3, <2>5 DEF PaidFor
  <2> QED BY <1>1, <2>6 DEF Time!Period
<1>6. \A y \in Services \ {x} : PaidFor(y)' = PaidFor(y)
  BY CommitElsewhere, PaidSame
<1>7. Paid' = [Paid EXCEPT ![x] = Time!Period(p.starts, p.terms)]
  <2>1. Paid' = [y \in Services |-> PaidFor(y)']
    BY PaidIs
  <2> QED BY <1>1, <1>5, <1>6, <2>1, PaidIs
<1>8. now' = now
  BY CommitParts DEF Inv, around
<1> QED BY <1>3, <1>4, <1>7, <1>8 DEF Time!Extend

(* Whatever workers and operators do at once, the committed periods give   *)
(* every service paid time that only grows, by one period at a time,       *)
(* without a gap or an overlap while its grace lasts.                      *)
THEOREM ServiceBillingImplementsPaidTime == Spec => ImplementsPaidTime
<1>1. Init => Time!Init
  BY DEF Init, Time!Init, Paid, PeriodsOf
<1>2. Inv /\ [Next]_vars => [Time!Next]_(Time!vars)
  <2> SUFFICES ASSUME Inv, [Next]_vars PROVE [Time!Next]_(Time!vars)
    OBVIOUS
  <2>1. periods' = periods => Paid' = Paid
    <3> SUFFICES ASSUME periods' = periods PROVE Paid' = Paid
      OBVIOUS
    <3>1. \A x : PaidFor(x)' = PaidFor(x)
      BY PaidSame DEF PeriodsOf
    <3>2. Paid' = [x \in Services |-> PaidFor(x)']
      BY PaidIs
    <3> QED BY <3>1, <3>2, PaidIs
  <2>2. CASE UNCHANGED vars
    BY <2>1, <2>2 DEF vars, rows, around, Time!vars
  <2>3. CASE Around
    <3>1. periods' = periods
      BY <2>3, AroundTyped DEF Inv
    <3>2. now' = now \/ now' > now
      BY <2>3, Typed DEF Inv, Around, SetServiceActive, SetSubscriberActive, UpdatePackage,
                         SetPackageActive, MoneyElsewhere, Tick
    <3> QED BY <2>1, <3>1, <3>2 DEF Time!Next, Time!Tick, Time!vars
  <2>4. ASSUME NEW w \in Workers, Step(w), ~Commit(w) PROVE UNCHANGED Time!vars
    BY <2>1, <2>4, StepEffects DEF Inv, rows, around, Time!vars
  <2>5. ASSUME NEW w \in Workers, Commit(w) PROVE [Time!Next]_(Time!vars)
    <3>1. CASE call[w].kind \in PeriodKinds
      <4>1. call[w].service \in Services /\ draft[w].period.terms \in Terms
        BY <2>5, <3>1, PeriodCommit DEF Period
      <4> QED BY <2>5, <3>1, <4>1, CommitExtends DEF Time!Next
    <3>2. CASE call[w].kind \in AssignmentKinds
      BY <2>1, <2>5, <3>2, CommitParts DEF Inv, around, Time!vars
    <3> QED BY <2>5, <3>1, <3>2, CommitParts DEF Inv
  <2> QED BY <2>2, <2>3, <2>4, <2>5 DEF Next, Step
<1> QED BY <1>1, <1>2, AlwaysInv, PTL DEF Spec, ImplementsPaidTime, Time!Spec

-----------------------------------------------------------------------------
(* The money.  A call that has drafted a charge knows what the wallet      *)
(* holds, because nobody else holds its subscriber's row.                  *)

PricesRight(w) ==
    LET s == OwnerOf[call[w].service] IN
    InBilling(w) /\ Funded(call[w]) =>
        balance[s] # None /\ draft[w].charge.balance_after = balance[s] - draft[w].charge.amount

MoneyInv ==
    /\ IsFiniteSet(charges)
    /\ \A w \in Workers : PricesRight(w)
    /\ WalletsAddUp

ChargesOn(s) == {h \in charges : OwnerOf[h.service] = s}

LEMMA ChargesOnParts ==
    ASSUME TypeInv, MoneyInv, NEW s
    PROVE  /\ IsFiniteSet(ChargesOn(s)) /\ ChargesOn(s) \subseteq charges
           /\ \A h \in ChargesOn(s) : Amount[h] \in Int
           /\ ChargedTo(s) = SumFunctionOnSet(Amount, ChargesOn(s)) /\ ChargedTo(s) \in Int
<1>1. ChargesOn(s) \subseteq charges
  BY DEF ChargesOn
<1>2. IsFiniteSet(ChargesOn(s))
  BY <1>1, FS_Subset DEF MoneyInv
<1>3. \A h \in charges : Amount[h] \in Int
  <2>1. \A h \in Charge : Amount[h] = h.amount /\ h.amount \in 1..MaxMoney
    BY DEF Amount, Charge
  <2>2. 1..MaxMoney \subseteq Int
    BY ServiceBillingAssumption
  <2> QED BY <2>1, <2>2, Typed
<1>4. ChargedTo(s) = SumFunctionOnSet(Amount, ChargesOn(s))
  BY DEF ChargedTo, ChargesOn
<1>5. SumFunctionOnSet(Amount, ChargesOn(s)) \in Int
  BY <1>1, <1>2, <1>3, SumIsInteger
<1> QED BY <1>1, <1>2, <1>3, <1>4, <1>5

LEMMA ChargedSame ==
    ASSUME charges' = charges, NEW s
    PROVE  ChargedTo(s)' = ChargedTo(s)
BY DEF ChargedTo

(* Two calls past their locks charge different wallets.                    *)
LEMMA OneOnWallet ==
    ASSUME LockInv, NEW v \in Workers, NEW w \in Workers, v # w, pc[v] \in Under, pc[w] \in Under
    PROVE  OwnerOf[call[v].service] # OwnerOf[call[w].service]
BY DEF LockInv, Exclusive, Holds

LEMMA InBillingUnder == \A w : InBilling(w) => pc[w] \in Under
BY DEF InBilling, Under

LEMMA PricesStay ==
    ASSUME NEW w, PricesRight(w), pc'[w] = pc[w], call'[w] = call[w], draft'[w] = draft[w],
           InBilling(w) => balance'[OwnerOf[call[w].service]] = balance[OwnerOf[call[w].service]]
    PROVE  PricesRight(w)'
BY DEF PricesRight, InBilling, Funded

LEMMA StepPrices ==
    ASSUME Inv, MoneyInv, NEW w \in Workers, Step(w)
    PROVE  PricesRight(w)'
<1> PICK c : c = call[w]
  OBVIOUS
<1>0. TypeInv /\ Ready(w) /\ PricesRight(w)
  BY Typed DEF Inv, MoneyInv
<1>1. CASE EndsOutside(w)
  BY <1>1 DEF EndsOutside, Outside, PricesRight, InBilling, Saving
<1>2. CASE ~EndsOutside(w) /\ GoesOn(w)
  <2>0. call'[w] = c /\ balance' = balance
    BY <1>0, <1>2, StepEffects DEF GoesOn, rows, money
  <2>1. CASE LocksService(w) \/ LocksSubscriber(w) \/ Passes(w)
    BY <2>1 DEF LocksService, LocksSubscriber, Passes, PricesRight, InBilling, Saving
  <2>2. CASE Inserts(w)
    BY <1>0, <2>0, <2>2 DEF Inserts, PricesRight, InBilling, Funded
  <2>3. CASE Ends(w) \/ Sells(w)
    <3>1. c.kind \notin PeriodKinds
      BY <1>0, <2>3, KindParts DEF Ends, Sells, Ready
    <3> QED BY <2>0, <2>3, <3>1 DEF Ends, Sells, PricesRight, InBilling, Saving
  <2>4. CASE Bills(w)
    <3> SUFFICES ASSUME Funded(c)
                 PROVE  LET s == OwnerOf[c.service] IN
                        /\ balance[s] # None
                        /\ draft'[w].charge.balance_after = balance[s] - draft'[w].charge.amount
      BY <2>0 DEF PricesRight, Funded
    <3>1. Asked(c) /\ Eligible(c) /\ Affordable(c) /\ draft'[w] = Billing(c)
      BY <1>0, <2>4 DEF Bills, Ready
    <3>2. draft'[w].charge = NewCharge(c)
      BY <3>1 DEF Billing
    <3>3. NewCharge(c).amount = NewPeriod(c).terms.price
      BY <1>0, <3>1, NewChargeParts
    <3>4. NewCharge(c).balance_after = balance[OwnerOf[c.service]] - NewPeriod(c).terms.price
      BY DEF NewCharge
    <3> QED BY <3>1, <3>2, <3>3, <3>4 DEF Eligible
  <2> QED BY <1>2, <2>1, <2>2, <2>3, <2>4 DEF GoesOn
<1> QED BY <1>0, <1>1, <1>2, StepEffects

(* What a commit does to the wallets.                                      *)
LEMMA CommitMoney ==
    ASSUME Inv, MoneyInv, NEW w \in Workers, Commit(w)
    PROVE  LET s == OwnerOf[call[w].service]
               h == draft[w].charge IN
           /\ deposited' = deposited
           /\ \/ h = None /\ balance' = balance /\ charges' = charges
              \/ /\ h \in Charge /\ h \notin charges /\ charges' = charges \cup {h}
                 /\ s \in Subscribers /\ OwnerOf[h.service] = s /\ balance[s] # None
                 /\ balance' = [balance EXCEPT ![s] = balance[s] - h.amount]
                 /\ balance[s] - h.amount \in Nat
<1> PICK c : c = call[w]
  OBVIOUS
<1> PICK h : h = draft[w].charge
  OBVIOUS
<1>0. TypeInv /\ pc[w] = "commit" /\ c.service \in Services /\ Drafts(c, draft[w]) /\ PricesRight(w)
  BY CommitParts DEF Inv, MoneyInv
<1>1. deposited' = deposited
  BY DEF Commit
<1>2. CASE h = None
  <2>1. balance' = balance /\ charges' = charges
    BY <1>2 DEF Commit, Written
  <2> QED BY <1>1, <1>2, <2>1
<1>3. CASE h # None
  <2>1. c.kind \in PeriodKinds /\ Funded(c) /\ h \in Charge
    BY <1>0, <1>3, CommitParts DEF Drafts, Inv
  <2>2. charges' = charges \cup {h} /\ MadeFor(c, draft[w]) /\ ~ChargeUses(c.op)
    BY <2>1, PeriodCommit
  <2>3. h.service = c.service /\ h \notin charges
    BY <2>1, <2>2 DEF MadeFor, ChargeUses
  <2>4. balance[OwnerOf[c.service]] # None
        /\ h.balance_after = balance[OwnerOf[c.service]] - h.amount
    BY <1>0, <2>1 DEF PricesRight, InBilling
  <2>5. balance' = [balance EXCEPT ![OwnerOf[c.service]] = h.balance_after]
    BY <1>3 DEF Commit
  <2>6. h.balance_after \in Nat
    BY <2>1 DEF Charge
  <2> QED BY <1>0, <1>1, <2>1, <2>2, <2>3, <2>4, <2>5, <2>6, OwnerTyped
<1> QED BY <1>2, <1>3

LEMMA CommitAddsUp ==
    ASSUME Inv, MoneyInv, NEW w \in Workers, Commit(w)
    PROVE  IsFiniteSet(charges') /\ WalletsAddUp'
<1> PICK h : h = draft[w].charge
  OBVIOUS
<1> PICK owner : owner = OwnerOf[call[w].service]
  OBVIOUS
<1>0. TypeInv /\ IsFiniteSet(charges) /\ WalletsAddUp /\ deposited' = deposited
      /\ balance \in [Subscribers -> 0..MaxMoney \cup {None}] /\ deposited \in [Subscribers -> Int]
  BY CommitMoney, Typed DEF Inv, MoneyInv, TypeInv, TypeOK
<1>1. CASE h = None /\ balance' = balance /\ charges' = charges
  BY <1>0, <1>1, ChargedSame DEF WalletsAddUp
<1>2. CASE /\ h \in Charge /\ h \notin charges /\ charges' = charges \cup {h}
           /\ owner \in Subscribers /\ OwnerOf[h.service] = owner /\ balance[owner] # None
           /\ balance' = [balance EXCEPT ![owner] = balance[owner] - h.amount]
           /\ balance[owner] - h.amount \in Nat
  <2>1. IsFiniteSet(charges')
    BY <1>0, <1>2, FS_AddElement
  <2>2. ASSUME NEW s \in Subscribers, s # owner
        PROVE  balance'[s] = balance[s] /\ ChargedTo(s)' = ChargedTo(s)
    <3>1. ChargesOn(s)' = ChargesOn(s)
      BY <1>2, <2>2 DEF ChargesOn
    <3> QED BY <1>0, <1>2, <2>2, <3>1 DEF ChargedTo, ChargesOn
  <2>3. ChargedTo(owner)' = ChargedTo(owner) + h.amount
    <3>1. ChargesOn(owner)' = ChargesOn(owner) \cup {h}
      BY <1>2 DEF ChargesOn
    <3>2. h \notin ChargesOn(owner)
      BY <1>2 DEF ChargesOn
    <3>3. Amount[h] = h.amount /\ h.amount \in Int
      <4>1. h.amount \in 1..MaxMoney /\ MaxMoney \in Nat
        BY <1>2, ServiceBillingAssumption DEF Charge
      <4> QED BY <1>2, <4>1 DEF Amount
    <3>4. /\ IsFiniteSet(ChargesOn(owner)) /\ \A g \in ChargesOn(owner) : Amount[g] \in Int
          /\ ChargedTo(owner) = SumFunctionOnSet(Amount, ChargesOn(owner))
      BY <1>0, ChargesOnParts
    <3>5. SumFunctionOnSet(Amount, ChargesOn(owner) \cup {h})
            = SumFunctionOnSet(Amount, ChargesOn(owner)) + Amount[h]
      BY <3>2, <3>3, <3>4, SumOneMore
    <3>6. ChargedTo(owner)' = SumFunctionOnSet(Amount, ChargesOn(owner)')
      BY DEF ChargedTo, ChargesOn
    <3> QED BY <3>1, <3>3, <3>4, <3>5, <3>6
  <2>4. balance'[owner] = balance[owner] - h.amount /\ balance'[owner] # None
    BY <1>0, <1>2, NoneApart
  <2>5. h.amount \in Int /\ deposited[owner] \in Int /\ balance[owner] \in Int /\ ChargedTo(owner) \in Int
    <3>1. h.amount \in 1..MaxMoney /\ MaxMoney \in Nat
      BY <1>2, ServiceBillingAssumption DEF Charge
    <3> QED BY <1>0, <1>2, <3>1, ChargesOnParts
  <2>6. balance[owner] = deposited[owner] - ChargedTo(owner)
    BY <1>0, <1>2 DEF WalletsAddUp
  <2>7. balance'[owner] = deposited'[owner] - ChargedTo(owner)'
    BY <1>0, <2>3, <2>4, <2>5, <2>6
  <2>8. ASSUME NEW s \in Subscribers
        PROVE  (IF balance'[s] = None THEN 0 ELSE balance'[s]) = deposited'[s] - ChargedTo(s)'
    <3>1. CASE s = owner
      BY <2>4, <2>7, <3>1
    <3>2. CASE s # owner
      BY <1>0, <2>2, <3>2 DEF WalletsAddUp
    <3> QED BY <3>1, <3>2
  <2> QED BY <2>1, <2>8 DEF WalletsAddUp
<1> QED BY <1>1, <1>2, CommitMoney, <1>0

LEMMA MoneyElsewhereAddsUp ==
    ASSUME Inv, MoneyInv, NEW owner \in Subscribers, MoneyElsewhere(owner)
    PROVE  MoneyInv'
<1>0. TypeInv /\ LockInv /\ WalletsAddUp /\ IsFiniteSet(charges)
      /\ balance \in [Subscribers -> 0..MaxMoney \cup {None}] /\ deposited \in [Subscribers -> Int]
  BY Typed DEF Inv, MoneyInv, TypeInv, TypeOK
<1>1. PICK before : before = IF balance[owner] = None THEN 0 ELSE balance[owner]
  OBVIOUS
<1>2. PICK after \in 0..MaxMoney :
        /\ balance' = [balance EXCEPT ![owner] = after]
        /\ deposited' = [deposited EXCEPT ![owner] = @ + after - before]
  BY <1>1 DEF MoneyElsewhere
<1>3. charges' = charges /\ pc' = pc /\ UNCHANGED local
  BY DEF MoneyElsewhere
<1>4. after \in Int /\ before \in Int /\ after # None
  BY <1>0, <1>1, NoneApart, ServiceBillingAssumption
<1>5. ASSUME NEW s \in Subscribers
      PROVE  (IF balance'[s] = None THEN 0 ELSE balance'[s]) = deposited'[s] - ChargedTo(s)'
  <2>1. ChargedTo(s)' = ChargedTo(s)
    BY <1>3, ChargedSame
  <2>2. (IF balance[s] = None THEN 0 ELSE balance[s]) = deposited[s] - ChargedTo(s)
    BY <1>0 DEF WalletsAddUp
  <2>3. CASE s # owner
    BY <1>0, <1>2, <2>1, <2>2, <2>3
  <2>4. CASE s = owner
    <3>1. balance'[s] = after /\ deposited'[s] = deposited[s] + after - before
      BY <1>0, <1>2, <2>4
    <3>2. deposited[s] \in Int /\ ChargedTo(s) \in Int
      BY <1>0, ChargesOnParts
    <3>3. before = deposited[s] - ChargedTo(s)
      BY <1>1, <2>2, <2>4
    <3>4. after = deposited[s] + after - before - ChargedTo(s)
      BY <1>4, <3>2, <3>3
    <3>5. balance'[s] # None
      BY <1>4, <3>1
    <3>6. deposited'[s] - ChargedTo(s)' = after
      BY <1>4, <2>1, <3>1, <3>2, <3>4
    <3> QED BY <3>1, <3>5, <3>6
  <2> QED BY <2>3, <2>4
<1>6. ASSUME NEW w \in Workers PROVE PricesRight(w)'
  <2>1. PricesRight(w) /\ Holds(w)
    BY <1>0 DEF MoneyInv, LockInv
  <2>2. ASSUME InBilling(w) PROVE OwnerOf[call[w].service] # owner
    <3>1. SubscriberRow(OwnerOf[call[w].service]) \in rowLocks[w]
      BY <2>1, <2>2, InBillingUnder DEF Holds
    <3>2. SubscriberRow(owner) \notin rowLocks[w]
      BY DEF MoneyElsewhere, Unlocked
    <3> QED BY <3>1, <3>2
  <2>3. InBilling(w) => balance'[OwnerOf[call[w].service]] = balance[OwnerOf[call[w].service]]
    BY <1>0, <1>2, <2>2
  <2> QED BY <1>3, <2>1, <2>3, PricesStay DEF local
<1> QED BY <1>0, <1>3, <1>5, <1>6 DEF MoneyInv, WalletsAddUp

(* A wallet holds what others moved into it, less what was charged to it:  *)
(* no charge overwrites another or a payment, whoever charges and pays at  *)
(* once.                                                                   *)
THEOREM WalletsAlwaysAddUp == Spec => []WalletsAddUp
<1>1. Init => MoneyInv
  <2> SUFFICES ASSUME Init PROVE MoneyInv
    OBVIOUS
  <2>1. charges = {} /\ \A w \in Workers : pc[w] = "idle"
    BY DEF Init
  <2>2. ASSUME NEW s \in Subscribers PROVE ChargedTo(s) = 0
    <3>1. {h \in charges : OwnerOf[h.service] = s} = {}
      BY <2>1
    <3> QED BY <3>1, SumOfNone DEF ChargedTo
  <2>3. balance \in [Subscribers -> 0..MaxMoney \cup {None}]
    BY InitTyped DEF TypeInv, TypeOK
  <2>4. \A s \in Subscribers : deposited[s] = (IF balance[s] = None THEN 0 ELSE balance[s])
                               /\ deposited[s] \in Int
    BY InitTyped DEF Init, TypeInv, TypeOK
  <2>5. WalletsAddUp
    BY <2>2, <2>4 DEF WalletsAddUp
  <2> QED BY <2>1, <2>5, FS_EmptySet DEF MoneyInv, PricesRight, InBilling, Saving
<1>2. Inv /\ MoneyInv /\ [Next]_vars => MoneyInv'
  <2> SUFFICES ASSUME Inv, MoneyInv, [Next]_vars PROVE MoneyInv'
    OBVIOUS
  <2>0. TypeInv /\ LockInv
    BY DEF Inv
  <2>1. ASSUME UNCHANGED <<charges, balance, deposited>>,
               \A w \in Workers : PricesRight(w)'
        PROVE  MoneyInv'
    BY <2>1, ChargedSame DEF MoneyInv, WalletsAddUp
  <2>2. ASSUME UNCHANGED <<charges, balance, deposited, pc, local>> PROVE MoneyInv'
    <3>1. ASSUME NEW w \in Workers PROVE PricesRight(w)'
      BY <2>2, PricesStay DEF MoneyInv, local
    <3> QED BY <2>1, <2>2, <3>1
  <2>3. CASE UNCHANGED vars
    BY <2>2, <2>3 DEF vars, rows, money
  <2>4. ASSUME NEW s \in Subscribers, MoneyElsewhere(s) PROVE MoneyInv'
    BY <2>4, MoneyElsewhereAddsUp
  <2>5. CASE Around /\ ~ \E s \in Subscribers : MoneyElsewhere(s)
    BY <2>2, <2>5 DEF Around, SetServiceActive, SetSubscriberActive, UpdatePackage, SetPackageActive,
                      Tick, rows, money
  <2>6. ASSUME NEW w \in Workers, Step(w) PROVE MoneyInv'
    <3>1. PricesRight(w)' /\ Alone(w)
      BY <2>0, <2>6, StepPrices, StepTyped
    <3>2. CASE ~Commit(w)
      <4>1. UNCHANGED <<charges, balance, deposited>>
        BY <2>0, <2>6, <3>2, StepEffects DEF rows, money
      <4>2. ASSUME NEW v \in Workers, v # w PROVE PricesRight(v)'
        BY <3>1, <4>1, <4>2, PricesStay DEF Alone, MoneyInv
      <4> QED BY <2>1, <3>1, <4>1, <4>2
    <3>3. CASE Commit(w)
      <4>1. ASSUME NEW v \in Workers, v # w PROVE PricesRight(v)'
        <5>1. pc[w] \in Under
          BY <3>3 DEF Commit, Under
        <5>2. InBilling(v) => OwnerOf[call[v].service] # OwnerOf[call[w].service]
          BY <2>0, <4>1, <5>1, OneOnWallet, InBillingUnder
        <5>3. \/ balance' = balance
              \/ \E b : balance' = [balance EXCEPT ![OwnerOf[call[w].service]] = b]
          BY <3>3, CommitMoney
        <5>4. InBilling(v) => balance'[OwnerOf[call[v].service]] = balance[OwnerOf[call[v].service]]
          <6>1. InBilling(v) => OwnerOf[call[v].service] \in Subscribers
            BY <2>0, Typed, CallParts, OwnerTyped DEF Ready, InBilling, Saving
          <6> QED BY <2>0, <5>2, <5>3, <6>1, Typed
        <5> QED BY <3>1, <4>1, <5>4, PricesStay DEF Alone, MoneyInv
      <4> QED BY <3>1, <3>3, <4>1, CommitAddsUp DEF MoneyInv
    <3> QED BY <3>2, <3>3
  <2> QED BY <2>3, <2>4, <2>5, <2>6 DEF Next, Step
<1>3. MoneyInv => WalletsAddUp
  BY DEF MoneyInv
<1> QED BY <1>1, <1>2, <1>3, AlwaysInv, PTL DEF Spec

=============================================================================
