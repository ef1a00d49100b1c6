------------------------ MODULE PaymentIntakeProofs -------------------------
(***************************************************************************)
(* Proofs about PaymentIntake, for any workers, subscribers, transactions, *)
(* messages and calls.  What a call found out about its payment, under the *)
(* lock of its profile or of its case, is still so when it commits.        *)
(***************************************************************************)
EXTENDS PaymentIntake, TLAPS

-----------------------------------------------------------------------------
(* What the constants are.                                                 *)

LEMMA NoneApart ==
    /\ None \notin Money /\ None \notin Subscribers /\ None \notin Reasons /\ None \notin Ops
    /\ None \notin Message /\ None \notin Payment /\ None \notin Allocation /\ None \notin Case
    /\ None \notin Task /\ None \notin Answered
BY PaymentIntakeAssumption

LEMMA MessageParts ==
    ASSUME NEW m \in Message
    PROVE  /\ m.tx \in Transactions /\ m.amount \in Money \cup {None}
           /\ m.account \in Subscribers \cup {None}
           /\ m = [tx |-> m.tx, amount |-> m.amount, account |-> m.account]
BY DEF Message

LEMMA TaskParts ==
    ASSUME NEW t \in Task
    PROVE  /\ t.kind \in {"confirmation", "fake", "resolve"}
           /\ IsIntake(t) <=> t.kind # "resolve"
           /\ IsIntake(t) =>
                /\ t.msg \in Message /\ t.msg.tx \in Transactions
                /\ t.msg.amount \in Money \cup {None} /\ t.msg.account \in Subscribers \cup {None}
                /\ ProfileOf(t) \in Profiles /\ Pid(t) = <<ProfileOf(t), t.msg.tx>>
           /\ t.kind = "confirmation" => t.msg \in Messages /\ Pid(t) = <<"paybill", t.msg.tx>>
           /\ t.kind = "fake" => t.msg.amount # None /\ Pid(t)[1] # "paybill"
           /\ t.kind = "resolve" =>
                /\ Pid(t) = t.payment /\ t.subscriber \in Subscribers
                /\ t.op \in Ops /\ t.reason \in Reasons
           /\ Pid(t) \in Pids
           /\ OpOf(t) \in Operations
<1>1. CASE t \in [kind: {"confirmation"}, msg: Messages]
  <2>1. t.kind = "confirmation" /\ t.msg \in Messages /\ t.msg \in Message
    BY <1>1, PaymentIntakeAssumption
  <2> QED BY <2>1, MessageParts DEF IsIntake, ProfileOf, Pid, OpOf, Operations, Pids, Profiles
<1>2. CASE t \in [kind: {"fake"}, msg: FakeCalls, op: Ops]
  <2>1. t.kind = "fake" /\ t.msg \in FakeCalls /\ t.msg \in Message /\ t.msg.amount # None /\ t.op \in Ops
    BY <1>2, PaymentIntakeAssumption
  <2> QED BY <2>1, MessageParts DEF IsIntake, ProfileOf, Pid, OpOf, Operations, Pids, Profiles
<1>3. CASE t \in [kind: {"resolve"}, payment: Pids, subscriber: Subscribers, op: Ops, reason: Reasons]
  <2>1. /\ t.kind = "resolve" /\ t.payment \in Pids /\ t.subscriber \in Subscribers
        /\ t.op \in Ops /\ t.reason \in Reasons
    BY <1>3
  <2> QED BY <2>1 DEF IsIntake, Pid, OpOf, Operations
<1> QED BY <1>1, <1>2, <1>3 DEF Task

-----------------------------------------------------------------------------
(* Type correctness, but for the range of balances, which takes the locks. *)
(* A worker past a statement has what it produced.                         *)

(* The rows of a call at its commit, by what became of its payment.        *)
Linking(t, d) == t.kind = "confirmation" /\ t.msg.amount # None /\ d = NoDraft

Opening(t, d) == IsIntake(t) /\ t.msg.amount # None /\ d = SetAside(t)

Crediting(t, d) ==
    /\ IsIntake(t) /\ t.msg.amount # None /\ t.msg.account \in Subscribers
    /\ d.payment = PaymentOf(t) /\ d.case = None
    /\ d.allocation = [payment |-> Pid(t), wallet |-> t.msg.account, op |-> OpOf(t),
                       amount |-> t.msg.amount]

Resolving(t, d) ==
    /\ t.kind = "resolve"
    /\ d.payment = None /\ d.case = ClosedCase(t)
    /\ d.allocation \in Allocation
    /\ d.allocation.payment = Pid(t) /\ d.allocation.wallet = t.subscriber
    /\ d.allocation.op = t.op

Drafts(t, d) == Linking(t, d) \/ Opening(t, d) \/ Crediting(t, d) \/ Resolving(t, d)

Kinds(step, t) ==
    /\ step \in {"capture", "lock_event"} => t.kind = "confirmation"
    /\ step \in {"lock_profile", "find_payment", "insert_payment", "match"} =>
         IsIntake(t) /\ t.msg.amount # None
    /\ step \in {"pick_case", "lock_case", "lock_payment", "lock_subscriber"} => t.kind = "resolve"
    /\ step = "credit" /\ IsIntake(t) => t.msg.amount # None /\ t.msg.account \in Subscribers

DraftAt(step, t, d) ==
    /\ step \notin {"match", "credit", "commit"} => d = NoDraft
    /\ step = "match" \/ (step = "credit" /\ IsIntake(t)) => d = Received(t)
    /\ step = "credit" /\ ~IsIntake(t) => d = NoDraft
    /\ step = "commit" => Drafts(t, d)

(* The rows a transaction holds, by what it is about to do.                *)
WalletOf(t) == IF IsIntake(t) THEN t.msg.account ELSE t.subscriber

Locked(step, t, d, held) ==
    /\ (step \in {"find_payment", "insert_payment", "match"}
          \/ (step \in {"credit", "commit"} /\ IsIntake(t))) =>
         ProfileRow(ProfileOf(t)) \in held
    /\ (step \in {"lock_payment", "lock_subscriber"}
          \/ (step \in {"credit", "commit"} /\ ~IsIntake(t))) =>
         CaseRow(Pid(t)) \in held
    /\ (step = "credit" \/ (step = "commit" /\ d.allocation # None)) =>
         SubscriberRow(WalletOf(t)) \in held

Ready(w) ==
    /\ pc[w] # "idle" => task[w] \in Task
    /\ Kinds(pc[w], task[w])
    /\ DraftAt(pc[w], task[w], draft[w])
    /\ Locked(pc[w], task[w], draft[w], rowLocks[w])

(* No row is locked twice.                                                 *)
Exclusive == \A v, w \in Workers : v # w => rowLocks[v] \cap rowLocks[w] = {}

RowsTyped ==
    /\ events \in [Transactions -> Evidence]
    /\ payments \subseteq Payment
    /\ allocations \subseteq Allocation
    /\ cases \subseteq Case
    /\ links \subseteq Link
    /\ balance \in [Subscribers -> Int]
    /\ elsewhere \subseteq Posting

AroundTyped ==
    /\ registered \subseteq Subscribers
    /\ active \subseteq Profiles
    /\ enabled \in BOOLEAN
    /\ acked \subseteq Messages
    /\ crashes \in 0..MaxCrashes

LocalTyped ==
    /\ pc \in [Workers -> Steps]
    /\ task \in [Workers -> Task \cup {None}]
    /\ rowLocks \in [Workers -> SUBSET Rows]
    /\ joined \in [Workers -> Allocation \cup {None}]
    /\ draft \in [Workers -> Draft]
    /\ answer \in [Workers -> Answered \cup {None}]

TypeInv ==
    RowsTyped /\ AroundTyped /\ LocalTyped /\ Exclusive /\ \A w \in Workers : Ready(w)

LEMMA PaymentTyped ==
    ASSUME NEW t \in Task, IsIntake(t), t.msg.amount # None
    PROVE  /\ PaymentOf(t) \in Payment
           /\ PaymentOf(t).id = Pid(t) /\ PaymentOf(t).amount = t.msg.amount
           /\ PaymentOf(t).account = t.msg.account
BY TaskParts DEF PaymentOf, Payment

LEMMA CasesTyped ==
    /\ \A pid \in Pids : OpenCase(pid) \in Case /\ OpenCase(pid).payment = pid /\ IsOpen(OpenCase(pid))
    /\ \A t \in Task : t.kind = "resolve" =>
         /\ ClosedCase(t) \in Case /\ ClosedCase(t).payment = Pid(t) /\ ~IsOpen(ClosedCase(t))
         /\ ClosedCase(t).op = t.op /\ ClosedCase(t).wallet = t.subscriber
         /\ ClosedCase(t).reason = t.reason
<1>1. ASSUME NEW pid \in Pids
      PROVE  OpenCase(pid) \in Case /\ OpenCase(pid).payment = pid /\ IsOpen(OpenCase(pid))
  BY DEF OpenCase, Case, IsOpen
<1>2. ASSUME NEW t \in Task, t.kind = "resolve"
      PROVE  /\ ClosedCase(t) \in Case /\ ClosedCase(t).payment = Pid(t) /\ ~IsOpen(ClosedCase(t))
             /\ ClosedCase(t).op = t.op /\ ClosedCase(t).wallet = t.subscriber
             /\ ClosedCase(t).reason = t.reason
  <2>1. /\ t.payment \in Pids /\ t.payment = Pid(t) /\ t.subscriber \in Subscribers
        /\ t.op \in Ops /\ t.reason \in Reasons
    BY <1>2, TaskParts
  <2> QED BY <2>1, NoneApart DEF ClosedCase, Case, IsOpen
<1> QED BY <1>1, <1>2

LEMMA AllocationTyped ==
    ASSUME NEW t \in Task, IsIntake(t), t.msg.amount # None, t.msg.account \in Subscribers
    PROVE  [payment |-> Pid(t), wallet |-> t.msg.account, op |-> OpOf(t), amount |-> t.msg.amount]
             \in Allocation
BY TaskParts DEF Allocation

LEMMA NothingDrafted == NoDraft \in Draft
BY DEF NoDraft, Draft

(* Every draft a call can have is one of rows.                             *)
LEMMA DraftsTyped ==
    ASSUME NEW t \in Task
    PROVE  /\ IsIntake(t) /\ t.msg.amount # None => Received(t) \in Draft /\ SetAside(t) \in Draft
           /\ \A a \in Allocation : IsIntake(t) /\ t.msg.amount # None =>
                [payment |-> PaymentOf(t), allocation |-> a, case |-> None] \in Draft
           /\ \A a \in Allocation : t.kind = "resolve" =>
                [payment |-> None, allocation |-> a, case |-> ClosedCase(t)] \in Draft
<1>1. Pid(t) \in Pids
  BY TaskParts
<1> QED BY <1>1, PaymentTyped, CasesTyped DEF Received, SetAside, Draft

(* Nothing of the other workers changes.                                   *)
Unaware(v) ==
    /\ pc'[v] = pc[v] /\ task'[v] = task[v] /\ rowLocks'[v] = rowLocks[v]
    /\ joined'[v] = joined[v] /\ draft'[v] = draft[v] /\ answer'[v] = answer[v]

Alone(w) == \A v \in Workers \ {w} : Unaware(v)

(* A worker's step, as far as its own variables go.                        *)
LEMMA StepTyped ==
    ASSUME TypeInv, NEW w \in Workers, RowsTyped', AroundTyped',
           NEW step \in Steps, pc' = [pc EXCEPT ![w] = step],
           NEW t \in Task \cup {None}, task' = [task EXCEPT ![w] = t],
           NEW held \in SUBSET Rows, rowLocks' = [rowLocks EXCEPT ![w] = held],
           \A v \in Workers \ {w} : held \cap rowLocks[v] = {},
           NEW a \in Allocation \cup {None}, joined' = [joined EXCEPT ![w] = a],
           NEW d \in Draft, draft' = [draft EXCEPT ![w] = d],
           NEW r \in Answered \cup {None}, answer' = [answer EXCEPT ![w] = r],
           step # "idle" => t \in Task, Kinds(step, t), DraftAt(step, t, d),
           Locked(step, t, d, held)
    PROVE  TypeInv' /\ Alone(w)
<1>1. LocalTyped'
  BY DEF TypeInv, LocalTyped
<1>2. Alone(w)
  BY DEF TypeInv, LocalTyped, Alone, Unaware
<1>3. pc'[w] = step /\ task'[w] = t /\ draft'[w] = d /\ rowLocks'[w] = held
  BY DEF TypeInv, LocalTyped
<1>4. Ready(w)'
  BY <1>3 DEF Ready
<1>5. ASSUME NEW v \in Workers \ {w} PROVE Ready(v)'
  BY <1>2, <1>5 DEF TypeInv, Alone, Unaware, Ready
<1>6. Exclusive'
  BY <1>2, <1>3 DEF TypeInv, Exclusive, Alone, Unaware
<1> QED BY <1>1, <1>2, <1>4, <1>5, <1>6 DEF TypeInv

(* Its shapes: a lock is taken, rows are drafted, the call just goes on,   *)
(* or the transaction ends.                                                *)
LEMMA LockTyped ==
    ASSUME TypeInv, NEW w \in Workers, NEW row \in Rows, NEW step \in Steps,
           task[w] \in Task, LockThen(w, row, step),
           Kinds(step, task[w]), DraftAt(step, task[w], draft[w]),
           Locked(step, task[w], draft[w], rowLocks[w] \cup {row})
    PROVE  TypeInv' /\ Alone(w)
<1> USE DEF LockThen, TakeLock, Goto, rows, setting
<1>1. RowsTyped' /\ AroundTyped'
  BY DEF TypeInv, RowsTyped, AroundTyped
<1>2. PICK held : held = rowLocks[w] \cup {row}
  OBVIOUS
<1>3. held \in SUBSET Rows /\ \A v \in Workers \ {w} : held \cap rowLocks[v] = {}
  BY <1>2 DEF TypeInv, LocalTyped, Exclusive, Free
<1>4. PICK t, a, d, r : t = task[w] /\ a = joined[w] /\ d = draft[w] /\ r = answer[w]
  OBVIOUS
<1>5. /\ pc' = [pc EXCEPT ![w] = step] /\ task' = [task EXCEPT ![w] = t]
      /\ rowLocks' = [rowLocks EXCEPT ![w] = held] /\ joined' = [joined EXCEPT ![w] = a]
      /\ draft' = [draft EXCEPT ![w] = d] /\ answer' = [answer EXCEPT ![w] = r]
  BY <1>2, <1>4 DEF TypeInv, LocalTyped
<1>6. /\ a \in Allocation \cup {None} /\ d \in Draft /\ r \in Answered \cup {None} /\ t \in Task
      /\ Kinds(step, t) /\ DraftAt(step, t, d) /\ Locked(step, t, d, held)
  BY <1>2, <1>4 DEF TypeInv, LocalTyped
<1> HIDE DEF LockThen, TakeLock, Goto, rows, setting
<1> QED BY <1>1, <1>3, <1>5, <1>6, StepTyped

LEMMA DraftTyped ==
    ASSUME TypeInv, NEW w \in Workers, NEW step \in Steps, NEW d \in Draft,
           task[w] \in Task, Goto(w, step), draft' = [draft EXCEPT ![w] = d],
           UNCHANGED <<rows, setting, acked, task, rowLocks, joined, answer, crashes>>,
           Kinds(step, task[w]), DraftAt(step, task[w], d),
           Locked(step, task[w], d, rowLocks[w])
    PROVE  TypeInv' /\ Alone(w)
<1> USE DEF Goto, rows, setting
<1>1. RowsTyped' /\ AroundTyped'
  BY DEF TypeInv, RowsTyped, AroundTyped
<1>2. PICK held : held = rowLocks[w]
  OBVIOUS
<1>3. held \in SUBSET Rows /\ \A v \in Workers \ {w} : held \cap rowLocks[v] = {}
  BY <1>2 DEF TypeInv, LocalTyped, Exclusive
<1>4. PICK t, a, r : t = task[w] /\ a = joined[w] /\ r = answer[w]
  OBVIOUS
<1>5. /\ pc' = [pc EXCEPT ![w] = step] /\ task' = [task EXCEPT ![w] = t]
      /\ rowLocks' = [rowLocks EXCEPT ![w] = held] /\ joined' = [joined EXCEPT ![w] = a]
      /\ answer' = [answer EXCEPT ![w] = r]
  BY <1>2, <1>4 DEF TypeInv, LocalTyped
<1>6. /\ a \in Allocation \cup {None} /\ r \in Answered \cup {None} /\ t \in Task
      /\ Kinds(step, t) /\ DraftAt(step, t, d) /\ Locked(step, t, d, held)
  BY <1>2, <1>4 DEF TypeInv, LocalTyped
<1> HIDE DEF Goto, rows, setting
<1> QED BY <1>1, <1>3, <1>5, <1>6, StepTyped

LEMMA GotoTyped ==
    ASSUME TypeInv, RowsTyped', NEW w \in Workers, NEW step \in Steps,
           task[w] \in Task, Goto(w, step), UNCHANGED <<setting, acked, local, crashes>>,
           Kinds(step, task[w]), DraftAt(step, task[w], draft[w]),
           Locked(step, task[w], draft[w], rowLocks[w])
    PROVE  TypeInv' /\ Alone(w)
<1> USE DEF Goto, setting, local
<1>1. AroundTyped'
  BY DEF TypeInv, AroundTyped
<1>2. PICK held : held = rowLocks[w]
  OBVIOUS
<1>3. held \in SUBSET Rows /\ \A v \in Workers \ {w} : held \cap rowLocks[v] = {}
  BY <1>2 DEF TypeInv, LocalTyped, Exclusive
<1>4. PICK t, a, d, r : t = task[w] /\ a = joined[w] /\ d = draft[w] /\ r = answer[w]
  OBVIOUS
<1>5. /\ pc' = [pc EXCEPT ![w] = step] /\ task' = [task EXCEPT ![w] = t]
      /\ rowLocks' = [rowLocks EXCEPT ![w] = held] /\ joined' = [joined EXCEPT ![w] = a]
      /\ draft' = [draft EXCEPT ![w] = d] /\ answer' = [answer EXCEPT ![w] = r]
  BY <1>2, <1>4 DEF TypeInv, LocalTyped
<1>6. /\ a \in Allocation \cup {None} /\ d \in Draft /\ r \in Answered \cup {None} /\ t \in Task
      /\ Kinds(step, t) /\ DraftAt(step, t, d) /\ Locked(step, t, d, held)
  BY <1>2, <1>4 DEF TypeInv, LocalTyped
<1> HIDE DEF Goto, setting, local
<1> QED BY <1>1, <1>3, <1>5, <1>6, StepTyped

LEMMA FinishTyped ==
    ASSUME TypeInv, RowsTyped', NEW w \in Workers, NEW how \in Answered,
           task[w] \in Task, Finish(w, how)
    PROVE  TypeInv' /\ Alone(w)
<1>1. AroundTyped'
  BY DEF TypeInv, AroundTyped, Finish, setting
<1>2. PICK t : t = task[w]
  OBVIOUS
<1>3. /\ pc' = [pc EXCEPT ![w] = "done"] /\ task' = [task EXCEPT ![w] = t]
      /\ rowLocks' = [rowLocks EXCEPT ![w] = {}] /\ joined' = [joined EXCEPT ![w] = None]
      /\ draft' = [draft EXCEPT ![w] = NoDraft] /\ answer' = [answer EXCEPT ![w] = how]
  BY <1>2 DEF TypeInv, LocalTyped, Finish, Goto
<1>4. Kinds("done", t) /\ DraftAt("done", t, NoDraft) /\ Locked("done", t, NoDraft, {})
  BY DEF Kinds, DraftAt, Locked
<1>5. "done" \in Steps /\ {} \in SUBSET Rows /\ \A v \in Workers \ {w} : {} \cap rowLocks[v] = {}
  BY DEF Steps
<1> QED BY <1>1, <1>2, <1>3, <1>4, <1>5, NothingDrafted, StepTyped

-----------------------------------------------------------------------------
(* What the rows say together, and what a call in progress may rely on.    *)

(* There is no trace of a payment, or it is there once and accounted for.  *)
Untouched(pid) == PaymentsWith(pid) = {} /\ AllocationsOf(pid) = {} /\ CasesOf(pid) = {}

Accounted(pid) ==
    \/ Untouched(pid)
    \/ \E p \in Payment :
         /\ PaymentsWith(pid) = {p} /\ p.id = pid
         /\ Matched(p) \/ Waiting(p) \/ Resolved(p)
         /\ \A a \in AllocationsOf(pid) : a.amount = p.amount

LinksSound ==
    /\ \A l \in links :
         /\ l.payment = <<"paybill", l.event>>
         /\ \E p \in payments :
              /\ p.id = l.payment
              /\ events[l.event] = [tx |-> l.event, amount |-> p.amount, account |-> p.account]
    /\ \A p \in payments : p.id[1] = "paybill" => \E l \in links : l.payment = p.id

(* Under its profile's lock: nothing of the payment is there yet.          *)
FindsNone(w) ==
    pc[w] \in {"insert_payment", "match"} \/ draft[w].payment # None =>
        PaymentsWith(Pid(task[w])) = {}

(* Only a link is missing: the payment is there.                           *)
FindsPayment(w) ==
    pc[w] = "commit" /\ draft[w] = NoDraft => PaymentOf(task[w]) \in payments

(* Evidence came first, and it is what is being processed.                 *)
HasEvidence(w) ==
    pc[w] \notin {"idle", "capture"} /\ task[w].kind = "confirmation" =>
        /\ events[task[w].msg.tx] # None
        /\ pc[w] # "done" => events[task[w].msg.tx] = task[w].msg

(* Under the lock of its case: it is still open.                           *)
FindsOpen(w) ==
    pc[w] \in {"lock_subscriber", "credit", "commit"} /\ task[w].kind = "resolve" =>
        CasesOf(Pid(task[w])) = {OpenCase(Pid(task[w]))} /\ AllocationsOf(Pid(task[w])) = {}

(* Under the lock of its subscriber: the wallet has room.                  *)
FindsRoom(w) ==
    draft[w].allocation # None =>
        balance[draft[w].allocation.wallet] + draft[w].allocation.amount \in 0..MaxMoney

CreditsAll(w) ==
    draft[w].allocation # None =>
        \A p \in PaymentsWith(Pid(task[w])) : draft[w].allocation.amount = p.amount

HasCase(w) ==
    pc[w] # "idle" /\ task[w].kind = "resolve" => CasesOf(Pid(task[w])) # {}

JoinSeen(w) ==
    pc[w] \in {"lock_case", "lock_payment"} /\ joined[w] # None =>
        joined[w] \in AllocationsOf(Pid(task[w]))

Settled(m) == LinksOf(m.tx) # {} \/ m.amount = None \/ events[m.tx] # m \/ ~enabled

Earned(w) ==
    pc[w] = "done" /\ task[w].kind = "confirmation" /\ answer[w] = "ok" => Settled(task[w].msg)

Known(w) ==
    /\ FindsNone(w) /\ FindsPayment(w) /\ HasEvidence(w) /\ FindsOpen(w) /\ FindsRoom(w)
    /\ CreditsAll(w) /\ HasCase(w) /\ JoinSeen(w) /\ Earned(w)

BookInv ==
    /\ balance \in [Subscribers -> 0..MaxMoney]
    /\ \A pid \in Pids : Accounted(pid)
    /\ LinksSound
    /\ \A w \in Workers : Known(w)

-----------------------------------------------------------------------------
(* Each step of a worker keeps TypeInv.                                    *)

LEMMA TaskAt ==
    ASSUME TypeInv, NEW w \in Workers, pc[w] # "idle"
    PROVE  task[w] \in Task
BY DEF TypeInv, Ready

LEMMA RowsKept ==
    ASSUME TypeInv, UNCHANGED rows
    PROVE  RowsTyped'
BY DEF TypeInv, RowsTyped, rows

LEMMA AcceptTyped ==
    ASSUME TypeInv, NEW w \in Workers, pc[w] # "idle", Accept(w) \/ Refuse(w)
    PROVE  TypeInv' /\ Alone(w)
<1>1. task[w] \in Task
  BY TaskAt
<1>2. RowsTyped'
  BY RowsKept DEF Accept, Refuse
<1> QED BY <1>1, <1>2, FinishTyped DEF Accept, Refuse, Answered

LEMMA StartTyped ==
    ASSUME TypeInv, NEW w \in Workers, NEW t \in Task, NEW step \in Steps, Start(w, t, step),
           step \in {"capture", "lock_profile", "pick_case"}, Kinds(step, t)
    PROVE  TypeInv' /\ Alone(w)
<1>1. RowsTyped' /\ AroundTyped'
  BY DEF TypeInv, RowsTyped, AroundTyped, Start, rows, setting
<1>2. PICK held : held = rowLocks[w]
  OBVIOUS
<1>3. held \in SUBSET Rows /\ \A v \in Workers \ {w} : held \cap rowLocks[v] = {}
  BY <1>2 DEF TypeInv, LocalTyped, Exclusive
<1>4. PICK a, d, r : a = joined[w] /\ d = draft[w] /\ r = answer[w]
  OBVIOUS
<1>5. /\ pc' = [pc EXCEPT ![w] = step] /\ task' = [task EXCEPT ![w] = t]
      /\ rowLocks' = [rowLocks EXCEPT ![w] = held] /\ joined' = [joined EXCEPT ![w] = a]
      /\ draft' = [draft EXCEPT ![w] = d] /\ answer' = [answer EXCEPT ![w] = r]
  BY <1>2, <1>4 DEF TypeInv, LocalTyped, Start, Goto
<1>6. a \in Allocation \cup {None} /\ d \in Draft /\ r \in Answered \cup {None}
  BY <1>4 DEF TypeInv, LocalTyped
<1>7. DraftAt(step, t, d) /\ Locked(step, t, d, held)
  BY <1>4 DEF TypeInv, Ready, DraftAt, Locked, Start
<1> QED BY <1>1, <1>3, <1>5, <1>6, <1>7, StepTyped

LEMMA SubmitTyped ==
    ASSUME TypeInv, NEW w \in Workers,
           EnterFake(w) \/ ResolveCase(w) \/ \E m \in Messages : Deliver(w, m)
    PROVE  TypeInv' /\ Alone(w)
<1>1. ASSUME NEW m \in Messages, Deliver(w, m) PROVE TypeInv' /\ Alone(w)
  <2>1. PICK t : t = [kind |-> "confirmation", msg |-> m]
    OBVIOUS
  <2>2. t \in Task /\ Kinds("capture", t)
    BY <2>1 DEF Task, Kinds
  <2> QED BY <1>1, <2>1, <2>2, StartTyped DEF Deliver, Steps
<1>2. ASSUME EnterFake(w) PROVE TypeInv' /\ Alone(w)
  <2>1. PICK m \in FakeCalls, o \in Ops :
          Start(w, [kind |-> "fake", msg |-> m, op |-> o], "lock_profile")
    BY <1>2 DEF EnterFake
  <2>2. PICK t : t = [kind |-> "fake", msg |-> m, op |-> o]
    OBVIOUS
  <2>3. t \in Task /\ Kinds("lock_profile", t)
    BY <2>2, PaymentIntakeAssumption DEF Task, Kinds, IsIntake
  <2> QED BY <2>1, <2>2, <2>3, StartTyped DEF Steps
<1>3. ASSUME ResolveCase(w) PROVE TypeInv' /\ Alone(w)
  <2>1. PICK c \in cases, s \in registered, o \in Ops, r \in Reasons :
          Start(w, [kind |-> "resolve", payment |-> c.payment, subscriber |-> s,
                    op |-> o, reason |-> r], "pick_case")
    BY <1>3 DEF ResolveCase
  <2>2. PICK t : t = [kind |-> "resolve", payment |-> c.payment, subscriber |-> s,
                      op |-> o, reason |-> r]
    OBVIOUS
  <2>3. c.payment \in Pids /\ s \in Subscribers
    BY DEF TypeInv, RowsTyped, AroundTyped, Case
  <2>4. t \in Task /\ Kinds("pick_case", t)
    BY <2>2, <2>3 DEF Task, Kinds
  <2> QED BY <2>1, <2>2, <2>4, StartTyped DEF Steps
<1> QED BY <1>1, <1>2, <1>3

LEMMA CaptureTyped ==
    ASSUME TypeInv, NEW w \in Workers, Capture(w)
    PROVE  TypeInv' /\ Alone(w)
<1>1. task[w] \in Task /\ task[w].kind = "confirmation" /\ draft[w] = NoDraft
  BY DEF TypeInv, Ready, Kinds, DraftAt, Capture
<1>2. task[w].msg \in Messages /\ task[w].msg.tx \in Transactions
  BY <1>1, TaskParts DEF IsIntake
<1>3. RowsTyped'
  BY <1>2 DEF TypeInv, RowsTyped, Capture, Evidence
<1>4. CASE Finish(w, "ok")
  BY <1>1, <1>3, <1>4, FinishTyped DEF Answered
<1>5. CASE Goto(w, "lock_event") /\ UNCHANGED <<setting, acked, local, crashes>>
  <2>1. /\ Kinds("lock_event", task[w]) /\ DraftAt("lock_event", task[w], draft[w])
        /\ Locked("lock_event", task[w], draft[w], rowLocks[w])
    BY <1>1 DEF Kinds, DraftAt, Locked
  <2> QED BY <1>1, <1>3, <1>5, <2>1, GotoTyped DEF Steps
<1> QED BY <1>4, <1>5 DEF Capture

LEMMA LockEventTyped ==
    ASSUME TypeInv, NEW w \in Workers, LockEvent(w)
    PROVE  TypeInv' /\ Alone(w)
<1>1. task[w] \in Task /\ task[w].kind = "confirmation" /\ draft[w] = NoDraft /\ pc[w] # "idle"
  BY DEF TypeInv, Ready, Kinds, DraftAt, LockEvent
<1>2. EventRow(task[w].msg.tx) \in Rows
  BY <1>1, TaskParts DEF IsIntake, EventRow, Rows
<1>3. CASE Accept(w)
  BY <1>1, <1>3, AcceptTyped
<1>4. CASE /\ task[w].msg.amount # None
           /\ LockThen(w, EventRow(task[w].msg.tx), "lock_profile")
  <2>1. /\ Kinds("lock_profile", task[w]) /\ DraftAt("lock_profile", task[w], draft[w])
        /\ Locked("lock_profile", task[w], draft[w], rowLocks[w] \cup {EventRow(task[w].msg.tx)})
    BY <1>1, <1>4 DEF Kinds, DraftAt, Locked, IsIntake
  <2> QED BY <1>1, <1>2, <1>4, <2>1, LockTyped DEF Steps
<1> QED BY <1>3, <1>4 DEF LockEvent

LEMMA LockProfileTyped ==
    ASSUME TypeInv, NEW w \in Workers, LockProfile(w)
    PROVE  TypeInv' /\ Alone(w)
<1>1. /\ task[w] \in Task /\ IsIntake(task[w]) /\ task[w].msg.amount # None
      /\ draft[w] = NoDraft /\ pc[w] # "idle"
  BY DEF TypeInv, Ready, Kinds, DraftAt, LockProfile
<1>2. PICK row : row = ProfileRow(ProfileOf(task[w]))
  OBVIOUS
<1>3. row \in Rows
  BY <1>1, <1>2, TaskParts DEF ProfileRow, Rows
<1>4. CASE Refuse(w)
  BY <1>1, <1>4, AcceptTyped
<1>5. CASE LockThen(w, row, "find_payment")
  <2>1. /\ Kinds("find_payment", task[w]) /\ DraftAt("find_payment", task[w], draft[w])
        /\ Locked("find_payment", task[w], draft[w], rowLocks[w] \cup {row})
    BY <1>1, <1>2 DEF Kinds, DraftAt, Locked
  <2> QED BY <1>1, <1>3, <1>5, <2>1, LockTyped DEF Steps
<1> QED BY <1>2, <1>4, <1>5 DEF LockProfile

LEMMA ReuseTyped ==
    ASSUME TypeInv, NEW w \in Workers, pc[w] \in {"find_payment", "insert_payment"}, Reuse(w)
    PROVE  TypeInv' /\ Alone(w)
<1>1. /\ task[w] \in Task /\ IsIntake(task[w]) /\ task[w].msg.amount # None
      /\ draft[w] = NoDraft /\ pc[w] # "idle" /\ ProfileRow(ProfileOf(task[w])) \in rowLocks[w]
  BY DEF TypeInv, Ready, Kinds, DraftAt, Locked
<1>2. PICK row : row = PaymentRow(Pid(task[w]))
  OBVIOUS
<1>3. row \in Rows
  BY <1>1, <1>2, TaskParts DEF PaymentRow, Rows
<1>4. CASE Refuse(w) \/ Accept(w)
  BY <1>1, <1>4, AcceptTyped
<1>5. CASE task[w].kind # "fake" /\ LockThen(w, row, "commit")
  <2>1. Kinds("commit", task[w])
    BY DEF Kinds
  <2>2. DraftAt("commit", task[w], draft[w])
    BY <1>1, <1>5 DEF DraftAt, Drafts, Linking, IsIntake
  <2>3. Locked("commit", task[w], draft[w], rowLocks[w] \cup {row})
    BY <1>1 DEF Locked, NoDraft
  <2> QED BY <1>1, <1>3, <1>5, <2>1, <2>2, <2>3, LockTyped DEF Steps
<1> QED BY <1>2, <1>4, <1>5 DEF Reuse

LEMMA FindPaymentTyped ==
    ASSUME TypeInv, NEW w \in Workers, FindPayment(w)
    PROVE  TypeInv' /\ Alone(w)
<1>1. /\ task[w] \in Task /\ IsIntake(task[w]) /\ task[w].msg.amount # None
      /\ draft[w] = NoDraft /\ pc[w] # "idle" /\ ProfileRow(ProfileOf(task[w])) \in rowLocks[w]
  BY DEF TypeInv, Ready, Kinds, DraftAt, Locked, FindPayment
<1>2. CASE Reuse(w)
  BY <1>2, ReuseTyped DEF FindPayment
<1>3. CASE Refuse(w)
  BY <1>1, <1>3, AcceptTyped
<1>4. CASE Goto(w, "insert_payment") /\ UNCHANGED <<rows, setting, acked, local, crashes>>
  <2>1. /\ Kinds("insert_payment", task[w]) /\ DraftAt("insert_payment", task[w], draft[w])
        /\ Locked("insert_payment", task[w], draft[w], rowLocks[w])
    BY <1>1 DEF Kinds, DraftAt, Locked
  <2>2. RowsTyped'
    BY <1>4, RowsKept
  <2> QED BY <1>1, <1>4, <2>1, <2>2, GotoTyped DEF Steps
<1> QED BY <1>2, <1>3, <1>4 DEF FindPayment

LEMMA InsertPaymentTyped ==
    ASSUME TypeInv, NEW w \in Workers, InsertPayment(w)
    PROVE  TypeInv' /\ Alone(w)
<1>1. /\ task[w] \in Task /\ IsIntake(task[w]) /\ task[w].msg.amount # None
      /\ draft[w] = NoDraft /\ ProfileRow(ProfileOf(task[w])) \in rowLocks[w]
  BY DEF TypeInv, Ready, Kinds, DraftAt, Locked, InsertPayment
<1>2. CASE Reuse(w)
  BY <1>2, ReuseTyped DEF InsertPayment
<1>3. CASE /\ draft' = [draft EXCEPT ![w] = Received(task[w])]
           /\ Goto(w, "match")
           /\ UNCHANGED <<rows, setting, acked, task, rowLocks, joined, answer, crashes>>
  <2>1. PICK d : d = Received(task[w])
    OBVIOUS
  <2>2. d \in Draft
    BY <1>1, <2>1, DraftsTyped
  <2>3. /\ Kinds("match", task[w]) /\ DraftAt("match", task[w], d)
        /\ Locked("match", task[w], d, rowLocks[w])
    BY <1>1, <2>1 DEF Kinds, DraftAt, Locked
  <2> QED BY <1>1, <1>3, <2>1, <2>2, <2>3, DraftTyped DEF Steps
<1> QED BY <1>2, <1>3 DEF InsertPayment

LEMMA MatchTyped ==
    ASSUME TypeInv, NEW w \in Workers, Match(w)
    PROVE  TypeInv' /\ Alone(w)
<1>1. /\ task[w] \in Task /\ IsIntake(task[w]) /\ task[w].msg.amount # None
      /\ draft[w] = Received(task[w]) /\ ProfileRow(ProfileOf(task[w])) \in rowLocks[w]
  BY DEF TypeInv, Ready, Kinds, DraftAt, Locked, Match
<1>2. PICK s : s = task[w].msg.account
  OBVIOUS
<1>3. CASE s \in registered /\ LockThen(w, SubscriberRow(s), "credit")
  <2>1. s \in Subscribers /\ SubscriberRow(s) \in Rows
    BY <1>3 DEF TypeInv, AroundTyped, SubscriberRow, Rows
  <2>2. /\ Kinds("credit", task[w]) /\ DraftAt("credit", task[w], draft[w])
        /\ Locked("credit", task[w], draft[w], rowLocks[w] \cup {SubscriberRow(s)})
    BY <1>1, <1>2, <2>1 DEF Kinds, DraftAt, Locked, WalletOf
  <2> QED BY <1>1, <1>3, <2>1, <2>2, LockTyped DEF Steps
<1>4. CASE /\ draft' = [draft EXCEPT ![w] = SetAside(task[w])]
           /\ Goto(w, "commit")
           /\ UNCHANGED <<rows, setting, acked, task, rowLocks, joined, answer, crashes>>
  <2>1. PICK d : d = SetAside(task[w])
    OBVIOUS
  <2>2. d \in Draft
    BY <1>1, <2>1, DraftsTyped
  <2>3. /\ Kinds("commit", task[w]) /\ DraftAt("commit", task[w], d)
        /\ Locked("commit", task[w], d, rowLocks[w])
    BY <1>1, <2>1 DEF Kinds, DraftAt, Drafts, Opening, Locked, SetAside
  <2> QED BY <1>1, <1>4, <2>1, <2>2, <2>3, DraftTyped DEF Steps
<1> QED BY <1>2, <1>3, <1>4 DEF Match

LEMMA PickCaseTyped ==
    ASSUME TypeInv, BookInv, NEW w \in Workers, PickCase(w)
    PROVE  TypeInv' /\ Alone(w)
<1>1. /\ task[w] \in Task /\ task[w].kind = "resolve" /\ draft[w] = NoDraft
      /\ Pid(task[w]) = task[w].payment /\ Pid(task[w]) \in Pids
  BY TaskParts DEF TypeInv, Ready, Kinds, DraftAt, PickCase
<1>2. PICK pid : pid = task[w].payment
  OBVIOUS
<1>3. CasesOf(pid) # {} /\ Accounted(pid) /\ pid \in Pids
  BY <1>1, <1>2 DEF BookInv, Known, HasCase, PickCase
<1>4. (\E c \in CasesOf(pid) : IsOpen(c)) \/ AllocationsOf(pid) # {}
  <2>1. PICK p \in Payment : p.id = pid /\ (Matched(p) \/ Waiting(p) \/ Resolved(p))
    BY <1>3 DEF Accounted, Untouched
  <2>2. CASE Matched(p)
    BY <1>3, <2>1, <2>2 DEF Matched
  <2>3. CASE Waiting(p)
    BY <1>3, <2>1, <2>3, CasesTyped DEF Waiting
  <2>4. CASE Resolved(p)
    BY <2>1, <2>4 DEF Resolved
  <2> QED BY <2>1, <2>2, <2>3, <2>4
<1>5. PICK a : a = IF \E c \in CasesOf(pid) : IsOpen(c)
                   THEN None ELSE CHOOSE x \in AllocationsOf(pid) : TRUE
  OBVIOUS
<1>6. a \in Allocation \cup {None}
  BY <1>4, <1>5 DEF TypeInv, RowsTyped, AllocationsOf
<1>7. PICK t, held, d, r : t = task[w] /\ held = rowLocks[w] /\ d = draft[w] /\ r = answer[w]
  OBVIOUS
<1>8. /\ pc' = [pc EXCEPT ![w] = "lock_case"] /\ task' = [task EXCEPT ![w] = t]
      /\ rowLocks' = [rowLocks EXCEPT ![w] = held] /\ joined' = [joined EXCEPT ![w] = a]
      /\ draft' = [draft EXCEPT ![w] = d] /\ answer' = [answer EXCEPT ![w] = r]
  BY <1>2, <1>5, <1>7 DEF TypeInv, LocalTyped, PickCase, Goto
<1>9. /\ t \in Task /\ held \in SUBSET Rows /\ d \in Draft /\ r \in Answered \cup {None}
      /\ \A v \in Workers \ {w} : held \cap rowLocks[v] = {}
  BY <1>1, <1>7 DEF TypeInv, LocalTyped, Exclusive
<1>10. Kinds("lock_case", t) /\ DraftAt("lock_case", t, d) /\ Locked("lock_case", t, d, held)
  BY <1>1, <1>7 DEF Kinds, DraftAt, Locked
<1>11. RowsTyped' /\ AroundTyped'
  BY DEF TypeInv, RowsTyped, AroundTyped, PickCase, rows, setting
<1> QED BY <1>6, <1>8, <1>9, <1>10, <1>11, StepTyped DEF Steps

LEMMA LockCaseTyped ==
    ASSUME TypeInv, NEW w \in Workers, LockCase(w)
    PROVE  TypeInv' /\ Alone(w)
<1>1. /\ task[w] \in Task /\ task[w].kind = "resolve" /\ draft[w] = NoDraft
      /\ Pid(task[w]) = task[w].payment /\ Pid(task[w]) \in Pids
  BY TaskParts DEF TypeInv, Ready, Kinds, DraftAt, LockCase
<1>2. PICK row : row = CaseRow(task[w].payment)
  OBVIOUS
<1>3. row \in Rows
  BY <1>1, <1>2 DEF CaseRow, Rows
<1>4. /\ Kinds("lock_payment", task[w]) /\ DraftAt("lock_payment", task[w], draft[w])
      /\ Locked("lock_payment", task[w], draft[w], rowLocks[w] \cup {row})
  BY <1>1, <1>2 DEF Kinds, DraftAt, Locked
<1> QED BY <1>1, <1>2, <1>3, <1>4, LockTyped DEF Steps, LockCase

LEMMA LockPaymentTyped ==
    ASSUME TypeInv, NEW w \in Workers, LockPayment(w)
    PROVE  TypeInv' /\ Alone(w)
<1>1. /\ task[w] \in Task /\ task[w].kind = "resolve" /\ draft[w] = NoDraft /\ pc[w] # "idle"
      /\ Pid(task[w]) = task[w].payment /\ Pid(task[w]) \in Pids
      /\ CaseRow(Pid(task[w])) \in rowLocks[w]
  BY TaskParts DEF TypeInv, Ready, Kinds, DraftAt, Locked, LockPayment
<1>2. PICK row : row = PaymentRow(task[w].payment)
  OBVIOUS
<1>3. row \in Rows
  BY <1>1, <1>2 DEF PaymentRow, Rows
<1>4. CASE Accept(w) \/ Refuse(w)
  BY <1>1, <1>4, AcceptTyped
<1>5. CASE LockThen(w, row, "lock_subscriber")
  <2>1. /\ Kinds("lock_subscriber", task[w]) /\ DraftAt("lock_subscriber", task[w], draft[w])
        /\ Locked("lock_subscriber", task[w], draft[w], rowLocks[w] \cup {row})
    BY <1>1 DEF Kinds, DraftAt, Locked
  <2> QED BY <1>1, <1>3, <1>5, <2>1, LockTyped DEF Steps
<1> QED BY <1>2, <1>4, <1>5 DEF LockPayment

LEMMA LockSubscriberTyped ==
    ASSUME TypeInv, NEW w \in Workers, LockSubscriber(w)
    PROVE  TypeInv' /\ Alone(w)
<1>1. /\ task[w] \in Task /\ task[w].kind = "resolve" /\ draft[w] = NoDraft
      /\ task[w].subscriber \in Subscribers /\ ~IsIntake(task[w])
      /\ CaseRow(Pid(task[w])) \in rowLocks[w]
  BY TaskParts DEF TypeInv, Ready, Kinds, DraftAt, Locked, LockSubscriber
<1>2. PICK row : row = SubscriberRow(task[w].subscriber)
  OBVIOUS
<1>3. row \in Rows
  BY <1>1, <1>2 DEF SubscriberRow, Rows
<1>4. /\ Kinds("credit", task[w]) /\ DraftAt("credit", task[w], draft[w])
      /\ Locked("credit", task[w], draft[w], rowLocks[w] \cup {row})
  BY <1>1, <1>2 DEF Kinds, DraftAt, Locked, WalletOf
<1> QED BY <1>1, <1>2, <1>3, <1>4, LockTyped DEF Steps, LockSubscriber

(* The allocation of a call that got as far as its wallet.                 *)
LEMMA AllocationMade ==
    ASSUME TypeInv, BookInv, NEW w \in Workers, pc[w] = "credit",
           NEW a, a = NewAllocation(task[w])
    PROVE  /\ a \in Allocation /\ a.payment = Pid(task[w]) /\ a.op = OpOf(task[w])
           /\ a.wallet = WalletOf(task[w])
           /\ IsIntake(task[w]) => a.amount = task[w].msg.amount
           /\ ~IsIntake(task[w]) => \A p \in PaymentsWith(Pid(task[w])) : a.amount = p.amount
<1>1. PICK t : t = task[w]
  OBVIOUS
<1>2. t \in Task /\ Kinds("credit", t)
  BY <1>1 DEF TypeInv, Ready
<1>3. CASE IsIntake(t)
  <2>1. t.msg.amount # None /\ t.msg.account \in Subscribers
    BY <1>2, <1>3 DEF Kinds
  <2>2. a = [payment |-> Pid(t), wallet |-> t.msg.account, op |-> OpOf(t), amount |-> t.msg.amount]
    BY <1>1, <1>3 DEF NewAllocation
  <2>3. a \in Allocation
    BY <1>2, <1>3, <2>1, <2>2, AllocationTyped
  <2> QED BY <1>1, <1>3, <2>2, <2>3 DEF WalletOf
<1>4. CASE ~IsIntake(t)
  <2>1. /\ t.kind = "resolve" /\ Pid(t) = t.payment /\ Pid(t) \in Pids
        /\ t.subscriber \in Subscribers /\ OpOf(t) \in Operations
    BY <1>2, <1>4, TaskParts
  <2>2. CasesOf(Pid(t)) # {} /\ Accounted(Pid(t))
    BY <1>1, <2>1 DEF BookInv, Known, HasCase
  <2>3. PICK p \in Payment : PaymentsWith(Pid(t)) = {p}
    BY <2>2 DEF Accounted, Untouched
  <2>4. (CHOOSE q \in PaymentsWith(t.payment) : TRUE) = p
    BY <2>1, <2>3
  <2>5. a = [payment |-> Pid(t), wallet |-> t.subscriber, op |-> OpOf(t), amount |-> p.amount]
    BY <1>1, <1>4, <2>4 DEF NewAllocation
  <2>6. a \in Allocation
    BY <2>1, <2>5 DEF Allocation, Payment
  <2> QED BY <1>1, <1>4, <2>3, <2>5, <2>6 DEF WalletOf
<1> QED BY <1>3, <1>4

LEMMA CreditTyped ==
    ASSUME TypeInv, BookInv, NEW w \in Workers, Credit(w)
    PROVE  TypeInv' /\ Alone(w)
<1>1. PICK t, a, held : t = task[w] /\ a = NewAllocation(task[w]) /\ held = rowLocks[w]
  OBVIOUS
<1>2. pc[w] = "credit" /\ t \in Task /\ Kinds("credit", t) /\ Locked("credit", t, draft[w], held)
  BY <1>1 DEF TypeInv, Ready, Credit
<1>3. /\ a \in Allocation /\ a.payment = Pid(t) /\ a.op = OpOf(t) /\ a.wallet = WalletOf(t)
      /\ IsIntake(t) => a.amount = t.msg.amount
  BY <1>1, <1>2, AllocationMade
<1>4. CASE Refuse(w)
  BY <1>2, <1>4, AcceptTyped
<1>5. CASE /\ draft' = [draft EXCEPT ![w] = Credited(t)]
           /\ Goto(w, "commit")
           /\ UNCHANGED <<rows, setting, acked, task, rowLocks, joined, answer, crashes>>
  <2>1. PICK d : d = Credited(t)
    OBVIOUS
  <2>2. d.allocation = a
    BY <1>1, <2>1 DEF Credited
  <2>3. ASSUME IsIntake(t) PROVE d \in Draft /\ Drafts(t, d)
    <3>1. d = [payment |-> PaymentOf(t), allocation |-> a, case |-> None]
      BY <1>1, <2>1, <2>3 DEF Credited
    <3>2. t.msg.amount # None /\ t.msg.account \in Subscribers
      BY <1>2, <2>3 DEF Kinds
    <3>3. a = [payment |-> Pid(t), wallet |-> t.msg.account, op |-> OpOf(t), amount |-> t.msg.amount]
      BY <1>1, <2>3 DEF NewAllocation
    <3>4. d \in Draft /\ Drafts(t, d)
      BY <1>2, <1>3, <2>3, <3>1, <3>2, <3>3, DraftsTyped DEF Drafts, Crediting
    <3> QED BY <3>4
  <2>4. ASSUME ~IsIntake(t) PROVE d \in Draft /\ Drafts(t, d)
    <3>1. d = [payment |-> None, allocation |-> a, case |-> ClosedCase(t)]
      BY <1>1, <2>1, <2>4 DEF Credited
    <3>2. t.kind = "resolve"
      BY <1>2, <2>4, TaskParts
    <3>3. d \in Draft /\ Drafts(t, d)
      BY <1>2, <1>3, <2>4, <3>1, <3>2, DraftsTyped
         DEF Drafts, Resolving, WalletOf, OpOf
    <3> QED BY <3>3
  <2>5. Kinds("commit", t) /\ DraftAt("commit", t, d)
    BY <2>3, <2>4 DEF Kinds, DraftAt
  <2>6. Locked("commit", t, d, held)
    BY <1>2 DEF Locked
  <2> QED BY <1>1, <1>2, <1>5, <2>1, <2>3, <2>4, <2>5, <2>6, DraftTyped DEF Steps
<1> QED BY <1>1, <1>4, <1>5 DEF Credit

(* What a commit writes, by what became of the payment.                    *)
Writes(t, d, pid) ==
    /\ payments' = payments \cup ({d.payment} \ {None})
    /\ allocations' = allocations \cup ({d.allocation} \ {None})
    /\ cases' = IF d.case = None THEN cases ELSE (cases \ CasesOf(pid)) \cup {d.case}
    /\ links' = links \cup (IF t.kind = "confirmation"
                            THEN {[event |-> t.msg.tx, payment |-> pid]} ELSE {})
    /\ balance' = IF d.allocation = None THEN balance
                  ELSE [balance EXCEPT ![d.allocation.wallet] = @ + d.allocation.amount]
    /\ events' = events /\ elsewhere' = elsewhere

LEMMA CommitRows ==
    ASSUME TypeInv, NEW w \in Workers, Commit(w),
           NEW t, t = task[w], NEW d, d = draft[w], NEW pid, pid = Pid(t)
    PROVE  /\ t \in Task /\ Drafts(t, d) /\ d \in Draft /\ pid \in Pids
           /\ Writes(t, d, pid)
           /\ Locked("commit", t, d, rowLocks[w])
<1>1. t \in Task /\ Drafts(t, d) /\ d \in Draft /\ Locked("commit", t, d, rowLocks[w])
  BY DEF TypeInv, LocalTyped, Ready, DraftAt, Commit
<1>2. Writes(t, d, pid)
  BY DEF Writes, Commit
<1> QED BY <1>1, <1>2, TaskParts

LEMMA CommitTyped ==
    ASSUME TypeInv, NEW w \in Workers, Commit(w)
    PROVE  TypeInv' /\ Alone(w)
<1>1. PICK t, d, pid : t = task[w] /\ d = draft[w] /\ pid = Pid(t)
  OBVIOUS
<1>2. /\ t \in Task /\ Drafts(t, d) /\ d \in Draft /\ pid \in Pids
      /\ Writes(t, d, pid)
  BY <1>1, CommitRows
<1>3. /\ d.payment \in Payment \cup {None} /\ d.allocation \in Allocation \cup {None}
      /\ d.case \in Case \cup {None}
  BY <1>2 DEF Draft
<1>4. payments' \subseteq Payment /\ allocations' \subseteq Allocation /\ cases' \subseteq Case
  BY <1>2, <1>3 DEF TypeInv, RowsTyped, Writes
<1>5. links' \subseteq Link
  <2>1. t.kind = "confirmation" => t.msg.tx \in Transactions
    BY <1>2, TaskParts DEF IsIntake
  <2> QED BY <1>2, <2>1 DEF TypeInv, RowsTyped, Writes, Link
<1>6. balance' \in [Subscribers -> Int]
  <2>1. balance \in [Subscribers -> Int]
    BY DEF TypeInv, RowsTyped
  <2>2. ASSUME d.allocation # None PROVE balance' \in [Subscribers -> Int]
    <3>1. d.allocation.amount \in Int /\ d.allocation.wallet \in Subscribers
      BY <1>3, <2>2, PaymentIntakeAssumption DEF Allocation, Money
    <3>2. PICK s, n : s = d.allocation.wallet /\ n = d.allocation.amount
      OBVIOUS
    <3>3. balance' = [balance EXCEPT ![s] = @ + n]
      BY <1>2, <2>2, <3>2 DEF Writes
    <3> QED BY <2>1, <3>1, <3>2, <3>3
  <2> QED BY <1>2, <2>1, <2>2 DEF Writes
<1>7. RowsTyped'
  BY <1>2, <1>4, <1>5, <1>6 DEF TypeInv, RowsTyped, Writes
<1> QED BY <1>1, <1>2, <1>7, FinishTyped DEF Commit, Answered

LEMMA RespondTyped ==
    ASSUME TypeInv, NEW w \in Workers, Respond(w)
    PROVE  TypeInv' /\ Alone(w)
<1>1. RowsTyped'
  BY RowsKept DEF Respond
<1>2. AroundTyped'
  <2>1. task[w].kind = "confirmation" => task[w].msg \in Messages
    BY TaskAt, TaskParts DEF Respond
  <2> QED BY <2>1 DEF TypeInv, AroundTyped, Respond, setting
<1>3. PICK held, a, d : held = rowLocks[w] /\ a = joined[w] /\ d = draft[w]
  OBVIOUS
<1>4. /\ pc' = [pc EXCEPT ![w] = "idle"] /\ task' = [task EXCEPT ![w] = None]
      /\ rowLocks' = [rowLocks EXCEPT ![w] = held] /\ joined' = [joined EXCEPT ![w] = a]
      /\ draft' = [draft EXCEPT ![w] = d] /\ answer' = [answer EXCEPT ![w] = None]
  BY <1>3 DEF TypeInv, LocalTyped, Respond, Goto
<1>5. /\ held \in SUBSET Rows /\ d \in Draft /\ a \in Allocation \cup {None}
      /\ \A v \in Workers \ {w} : held \cap rowLocks[v] = {}
  BY <1>3 DEF TypeInv, LocalTyped, Exclusive
<1>6. Kinds("idle", None) /\ DraftAt("idle", None, d) /\ Locked("idle", None, d, held)
  BY <1>3 DEF TypeInv, Ready, Kinds, DraftAt, Locked, Respond
<1> QED BY <1>1, <1>2, <1>4, <1>5, <1>6, StepTyped DEF Steps

(* Every step of a call.                                                   *)
LEMMA ProceedTyped ==
    ASSUME TypeInv, BookInv, NEW w \in Workers, Proceed(w)
    PROVE  TypeInv' /\ Alone(w)
BY CaptureTyped, LockEventTyped, LockProfileTyped, FindPaymentTyped, InsertPaymentTyped,
   MatchTyped, PickCaseTyped, LockCaseTyped, LockPaymentTyped, LockSubscriberTyped,
   CreditTyped, CommitTyped, RespondTyped DEF Proceed

-----------------------------------------------------------------------------
(* So does what happens around the calls.                                  *)

(* A stopped worker is idle and the others go on.                          *)
LEMMA StopTyped ==
    ASSUME TypeInv, NEW ws \in SUBSET Workers, Stop(ws), enabled' \in BOOLEAN
    PROVE  /\ TypeInv'
           /\ \A v \in ws : pc'[v] = "idle" /\ draft'[v] = NoDraft /\ answer'[v] = None
           /\ \A v \in Workers \ ws : Unaware(v)
<1>1. RowsTyped'
  BY RowsKept DEF Stop
<1>2. AroundTyped'
  BY PaymentIntakeAssumption DEF TypeInv, AroundTyped, Stop
<1>3. LocalTyped'
  <2>1. pc' \in [Workers -> Steps] /\ task' \in [Workers -> Task \cup {None}]
    BY DEF TypeInv, LocalTyped, Stop, Steps
  <2>2. rowLocks' \in [Workers -> SUBSET Rows]
    BY DEF TypeInv, LocalTyped, Stop
  <2>3. /\ joined' \in [Workers -> Allocation \cup {None}]
        /\ answer' \in [Workers -> Answered \cup {None}]
    BY DEF TypeInv, LocalTyped, Stop
  <2>4. draft' \in [Workers -> Draft]
    BY NothingDrafted DEF TypeInv, LocalTyped, Stop
  <2> QED BY <2>1, <2>2, <2>3, <2>4 DEF LocalTyped
<1>4. /\ \A v \in ws : /\ pc'[v] = "idle" /\ draft'[v] = NoDraft /\ answer'[v] = None
                       /\ task'[v] = None /\ rowLocks'[v] = {}
      /\ \A v \in Workers \ ws : Unaware(v)
  BY DEF Stop, Unaware
<1>5. ASSUME NEW v \in Workers PROVE Ready(v)'
  <2>1. CASE v \in ws
    BY <1>4, <2>1 DEF Ready, Kinds, DraftAt, Locked
  <2>2. CASE v \notin ws
    BY <1>4, <2>2 DEF TypeInv, Ready, Unaware
  <2> QED BY <2>1, <2>2
<1>6. Exclusive'
  <2>1. \A v \in Workers : rowLocks'[v] \in {rowLocks[v], {}}
    BY <1>4 DEF Unaware
  <2> QED BY <2>1 DEF TypeInv, Exclusive
<1> QED BY <1>1, <1>2, <1>3, <1>4, <1>5, <1>6 DEF TypeInv

(* The calls in progress do not notice.                                    *)
LEMMA AroundStepTyped ==
    ASSUME TypeInv, RowsTyped', AroundTyped', UNCHANGED <<pc, local>>
    PROVE  TypeInv'
<1> USE DEF local
<1>1. LocalTyped' /\ Exclusive'
  BY DEF TypeInv, LocalTyped, Exclusive
<1>2. ASSUME NEW v \in Workers PROVE Ready(v)'
  BY DEF TypeInv, Ready
<1> QED BY <1>1, <1>2 DEF TypeInv

LEMMA EnvironmentTyped ==
    ASSUME TypeInv, Environment
    PROVE  TypeInv'
<1>1. ASSUME Redeploy PROVE TypeInv'
  BY <1>1, StopTyped DEF Redeploy, TypeInv, AroundTyped
<1>2. ASSUME SyncProfile PROVE TypeInv'
  <2>1. RowsTyped' /\ AroundTyped'
    BY <1>2, RowsKept DEF TypeInv, AroundTyped, SyncProfile, Profiles
  <2> QED BY <1>2, <2>1, AroundStepTyped DEF SyncProfile
<1>3. ASSUME NEW profile \in Profiles, Deactivate(profile) PROVE TypeInv'
  <2>1. RowsTyped' /\ AroundTyped'
    BY <1>3, RowsKept DEF TypeInv, AroundTyped, Deactivate
  <2> QED BY <1>3, <2>1, AroundStepTyped DEF Deactivate
<1>4. ASSUME NEW s \in Subscribers, Register(s) PROVE TypeInv'
  <2>1. RowsTyped' /\ AroundTyped'
    BY <1>4, RowsKept DEF TypeInv, AroundTyped, Register
  <2> QED BY <1>4, <2>1, AroundStepTyped DEF Register
<1>5. ASSUME NEW s \in Subscribers, NEW o \in Ops, NEW b \in 0..MaxMoney, PostElsewhere(s, o, b)
      PROVE  TypeInv'
  <2>1. RowsTyped' /\ AroundTyped'
    <3>1. b - balance[s] \in Int
      BY PaymentIntakeAssumption DEF TypeInv, RowsTyped
    <3>2. [op |-> o, wallet |-> s, amount |-> b - balance[s]] \in Posting
      BY <3>1 DEF Posting
    <3> QED BY <1>5, <3>2, PaymentIntakeAssumption
            DEF TypeInv, RowsTyped, AroundTyped, PostElsewhere, setting
  <2> QED BY <1>5, <2>1, AroundStepTyped DEF PostElsewhere
<1> QED BY <1>1, <1>2, <1>3, <1>4, <1>5 DEF Environment

LEMMA InitTyped == Init => TypeInv
<1> SUFFICES ASSUME Init PROVE TypeInv
  OBVIOUS
<1>1. RowsTyped
  BY PaymentIntakeAssumption DEF Init, RowsTyped, Evidence
<1>2. AroundTyped
  BY PaymentIntakeAssumption DEF Init, AroundTyped
<1>3. LocalTyped
  BY NothingDrafted DEF Init, LocalTyped, Steps
<1>4. Exclusive
  BY DEF Init, Exclusive
<1>5. \A w \in Workers : Ready(w)
  BY DEF Init, Ready, Kinds, DraftAt, Locked
<1> QED BY <1>1, <1>2, <1>3, <1>4, <1>5 DEF TypeInv

-----------------------------------------------------------------------------
(* What a step leaves of the book, and of what other calls know.           *)

SameBook(pid) ==
    /\ PaymentsWith(pid)' = PaymentsWith(pid)
    /\ AllocationsOf(pid)' = AllocationsOf(pid)
    /\ CasesOf(pid)' = CasesOf(pid)

(* Evidence is never replaced.                                             *)
EvidenceKept == \A tx \in Transactions : events[tx] # None => events'[tx] = events[tx]

(* What a call relies on, of its payment and of its wallet.                *)
Relies(v) ==
    \/ pc[v] \in {"insert_payment", "match"}
    \/ draft[v].payment # None
    \/ pc[v] \in {"lock_subscriber", "credit", "commit"} /\ task[v].kind = "resolve"

Undisturbed(v) ==
    /\ Relies(v) => SameBook(Pid(task[v]))
    /\ draft[v].allocation # None =>
         balance'[draft[v].allocation.wallet] = balance[draft[v].allocation.wallet]

LEMMA AccountedKept ==
    ASSUME NEW pid \in Pids, Accounted(pid), SameBook(pid)
    PROVE  Accounted(pid)'
<1>1. CASE Untouched(pid)
  BY <1>1 DEF Untouched, Accounted, SameBook
<1>2. CASE \E p \in Payment :
             /\ PaymentsWith(pid) = {p} /\ p.id = pid
             /\ Matched(p) \/ Waiting(p) \/ Resolved(p)
             /\ \A a \in AllocationsOf(pid) : a.amount = p.amount
  <2>1. PICK p \in Payment :
             /\ PaymentsWith(pid) = {p} /\ p.id = pid
             /\ Matched(p) \/ Waiting(p) \/ Resolved(p)
             /\ \A a \in AllocationsOf(pid) : a.amount = p.amount
    BY <1>2
  <2>2. Matched(p) => Matched(p)'
    <3>1. \A a : AllocationsOf(pid)' = {a} => a \in allocations'
      BY DEF AllocationsOf
    <3> QED BY <2>1, <3>1 DEF Matched, SameBook
  <2>3. Waiting(p) => Waiting(p)'
    BY <2>1 DEF Waiting, SameBook
  <2>4. Resolved(p) => Resolved(p)'
    <3>1. \A a : AllocationsOf(pid)' = {a} => a \in allocations'
      BY DEF AllocationsOf
    <3>2. \A c : CasesOf(pid)' = {c} => c \in cases'
      BY DEF CasesOf
    <3> QED BY <2>1, <3>1, <3>2 DEF Resolved, SameBook
  <2> QED BY <2>1, <2>2, <2>3, <2>4 DEF Accounted, SameBook
<1> QED BY <1>1, <1>2 DEF Accounted

(* A call that is not disturbed still knows what it knew.                  *)
LEMMA StillKnown ==
    ASSUME TypeInv, NEW v \in Workers, Known(v), Unaware(v), Undisturbed(v), EvidenceKept,
           payments \subseteq payments', allocations \subseteq allocations', links \subseteq links',
           \A pid \in Pids : CasesOf(pid) # {} => CasesOf(pid)' # {},
           enabled' = enabled
    PROVE  Known(v)'
<1> USE DEF Unaware
<1>1. FindsNone(v)'
  BY DEF Known, FindsNone, Undisturbed, Relies, SameBook
<1>2. FindsPayment(v)'
  BY DEF Known, FindsPayment
<1>3. pc[v] # "idle" => task[v] \in Task
  BY TaskAt
<1>4. pc[v] # "idle" /\ task[v].kind = "confirmation" => task[v].msg.tx \in Transactions
  BY <1>3, TaskParts DEF IsIntake
<1>5. HasEvidence(v)'
  BY <1>4 DEF Known, HasEvidence, EvidenceKept
<1>6. FindsOpen(v)'
  BY DEF Known, FindsOpen, Undisturbed, Relies, SameBook
<1>7. FindsRoom(v)'
  BY DEF Known, FindsRoom, Undisturbed
<1>8. draft[v].allocation # None => Relies(v)
  <2>1. ASSUME draft[v].allocation # None PROVE Relies(v)
    <3>1. pc[v] \in Steps /\ Ready(v) /\ pc[v] \in {"match", "credit", "commit"}
      BY <2>1 DEF TypeInv, LocalTyped, Ready, DraftAt, NoDraft
    <3>2. pc[v] = "commit" /\ Drafts(task[v], draft[v])
      BY <2>1, <3>1 DEF Ready, DraftAt, NoDraft, Received
    <3>3. CASE Resolving(task[v], draft[v])
      BY <3>2, <3>3 DEF Resolving, Relies
    <3>4. CASE Crediting(task[v], draft[v])
      <4>1. PaymentOf(task[v]) # None
        BY <1>3, <3>2, <3>4, PaymentTyped, NoneApart DEF Crediting
      <4> QED BY <3>4, <4>1 DEF Crediting, Relies
    <3> QED BY <2>1, <3>2, <3>3, <3>4 DEF Drafts, Linking, Opening, NoDraft, SetAside
  <2> QED BY <2>1
<1>9. CreditsAll(v)'
  BY <1>8 DEF Known, CreditsAll, Undisturbed, SameBook
<1>10. HasCase(v)'
  BY <1>3, TaskParts DEF Known, HasCase
<1>11. JoinSeen(v)'
  BY DEF Known, JoinSeen, AllocationsOf
<1>12. Earned(v)'
  BY <1>4 DEF Known, Earned, HasEvidence, Settled, LinksOf, EvidenceKept
<1> QED BY <1>1, <1>2, <1>5, <1>6, <1>7, <1>9, <1>10, <1>11, <1>12 DEF Known

(* A step that writes no row but evidence leaves the book as it is.        *)
LEMMA BookKept ==
    ASSUME TypeInv, BookInv, EvidenceKept,
           UNCHANGED <<payments, allocations, cases, links, balance>>
    PROVE  /\ balance' \in [Subscribers -> 0..MaxMoney]
           /\ \A pid \in Pids : Accounted(pid)' /\ SameBook(pid)
           /\ LinksSound'
           /\ \A v \in Workers : Unaware(v) /\ enabled' = enabled => Known(v)'
<1>1. balance' \in [Subscribers -> 0..MaxMoney]
  BY DEF BookInv
<1>2. \A pid : SameBook(pid)
  BY DEF SameBook, PaymentsWith, AllocationsOf, CasesOf
<1>3. \A pid \in Pids : Accounted(pid)'
  BY <1>2, AccountedKept DEF BookInv
<1>4. LinksSound'
  <2>1. ASSUME NEW l \in links
        PROVE  /\ l.payment = <<"paybill", l.event>>
               /\ \E p \in payments :
                    /\ p.id = l.payment
                    /\ events'[l.event] =
                         [tx |-> l.event, amount |-> p.amount, account |-> p.account]
    <3>1. PICK p \in payments :
            /\ p.id = l.payment
            /\ events[l.event] = [tx |-> l.event, amount |-> p.amount, account |-> p.account]
      BY DEF BookInv, LinksSound
    <3>2. l.event \in Transactions /\ p \in Payment
      BY DEF TypeInv, RowsTyped, Link
    <3>3. [tx |-> l.event, amount |-> p.amount, account |-> p.account] \in Message
      BY <3>2 DEF Payment, Message
    <3>4. events'[l.event] = events[l.event]
      BY <3>1, <3>2, <3>3, NoneApart DEF EvidenceKept
    <3> QED BY <3>1, <3>4 DEF BookInv, LinksSound
  <2> QED BY <2>1 DEF BookInv, LinksSound
<1>5. ASSUME NEW v \in Workers, Unaware(v), enabled' = enabled PROVE Known(v)'
  <2>1. Undisturbed(v)
    BY <1>2 DEF Undisturbed
  <2>2. \A pid \in Pids : CasesOf(pid) # {} => CasesOf(pid)' # {}
    BY <1>2 DEF SameBook
  <2>3. Known(v)
    BY DEF BookInv
  <2>4. payments \subseteq payments' /\ allocations \subseteq allocations' /\ links \subseteq links'
    OBVIOUS
  <2> QED BY <1>5, <2>1, <2>2, <2>3, <2>4, StillKnown
<1> QED BY <1>1, <1>2, <1>3, <1>4, <1>5

LEMMA ReadKeepsBook ==
    ASSUME TypeInv, BookInv, NEW w \in Workers, Alone(w), EvidenceKept, Known(w)',
           UNCHANGED <<payments, allocations, cases, links, balance, enabled>>
    PROVE  BookInv'
BY BookKept DEF BookInv, Alone

-----------------------------------------------------------------------------
(* Steps that write no row, but drafts and evidence.                       *)

LEMMA EndKnown ==
    ASSUME TypeInv, NEW w \in Workers, NEW how \in Answered, Finish(w, how),
           NEW t \in Task, t = task[w],
           t.kind = "confirmation" => events'[t.msg.tx] # None,
           t.kind = "confirmation" /\ how = "ok" => Settled(t.msg)',
           t.kind = "resolve" => CasesOf(Pid(t))' # {}
    PROVE  Known(w)'
<1>1. pc'[w] = "done" /\ task'[w] = t /\ draft'[w] = NoDraft /\ answer'[w] = how
  BY DEF TypeInv, LocalTyped, Finish, Goto
<1>2. draft'[w].payment = None /\ draft'[w].allocation = None
  BY <1>1 DEF NoDraft
<1> QED BY <1>1, <1>2 DEF Known, FindsNone, FindsPayment, HasEvidence, FindsOpen, FindsRoom,
                          CreditsAll, HasCase, JoinSeen, Earned

(* A refused call changes nothing; one that is accepted without a commit   *)
(* had been answered before.                                               *)
LEMMA AcceptKeepsBook ==
    ASSUME TypeInv, BookInv, NEW w \in Workers, pc[w] \notin {"idle", "capture"},
           \/ Refuse(w)
           \/ Accept(w) /\ (task[w].kind = "confirmation" => Settled(task[w].msg))
    PROVE  BookInv'
<1>1. PICK t : t = task[w]
  OBVIOUS
<1>2. t \in Task /\ Known(w) /\ Alone(w)
  BY <1>1, TaskAt, AcceptTyped DEF BookInv
<1>3. PICK how \in Answered : Finish(w, how)
                              /\ (t.kind = "confirmation" /\ how = "ok" => Settled(t.msg))
  BY <1>1 DEF Accept, Refuse, Answered
<1>4. UNCHANGED rows /\ enabled' = enabled
  BY <1>3 DEF Accept, Refuse, Finish, setting
<1>5. t.kind = "confirmation" => events'[t.msg.tx] # None
  BY <1>1, <1>2, <1>4 DEF Known, HasEvidence, rows
<1>6. t.kind = "confirmation" /\ how = "ok" => Settled(t.msg)'
  BY <1>3, <1>4 DEF Settled, LinksOf, rows
<1>7. t.kind = "resolve" => CasesOf(Pid(t))' # {}
  BY <1>1, <1>2, <1>4 DEF Known, HasCase, CasesOf, rows
<1>8. Known(w)'
  BY <1>1, <1>2, <1>3, <1>5, <1>6, <1>7, EndKnown
<1> QED BY <1>2, <1>4, <1>8, ReadKeepsBook DEF EvidenceKept, rows

(* A call that goes on without having written a row keeps what it knows,   *)
(* and has to know what its next statement relies on.                      *)
LEMMA OnKeepsBook ==
    ASSUME TypeInv, BookInv, NEW w \in Workers, Alone(w), UNCHANGED <<rows, enabled>>,
           pc[w] \notin {"idle", "capture"}, pc'[w] \notin {"idle", "capture", "done"},
           pc[w] # "done", task'[w] = task[w],
           FindsNone(w)', FindsPayment(w)', FindsOpen(w)', FindsRoom(w)', CreditsAll(w)',
           JoinSeen(w)'
    PROVE  BookInv'
<1>1. PICK t : t = task[w] /\ t = task'[w]
  OBVIOUS
<1>2. Known(w)
  BY DEF BookInv
<1>3. HasEvidence(w)'
  BY <1>1, <1>2 DEF Known, HasEvidence, rows
<1>4. HasCase(w)'
  BY <1>1, <1>2 DEF Known, HasCase, CasesOf, rows
<1>5. Earned(w)'
  BY DEF Earned
<1>6. Known(w)'
  BY <1>3, <1>4, <1>5 DEF Known
<1> QED BY <1>6, ReadKeepsBook DEF EvidenceKept, rows

LEMMA StartKeepsBook ==
    ASSUME TypeInv, BookInv, NEW w \in Workers, NEW t \in Task, NEW step \in Steps,
           Start(w, t, step), step \in {"capture", "lock_profile", "pick_case"}, Kinds(step, t),
           t.kind = "confirmation" => step = "capture",
           t.kind = "resolve" => CasesOf(Pid(t)) # {}
    PROVE  BookInv'
<1>1. pc'[w] = step /\ task'[w] = t /\ draft'[w] = draft[w] /\ draft[w] = NoDraft
  BY DEF TypeInv, LocalTyped, Ready, DraftAt, Start, Goto
<1>2. draft'[w].payment = None /\ draft'[w].allocation = None
  BY <1>1 DEF NoDraft
<1>3. CasesOf(Pid(t))' = CasesOf(Pid(t))
  BY DEF Start, rows, CasesOf
<1>4. Known(w)'
  BY <1>1, <1>2, <1>3 DEF Known, FindsNone, FindsPayment, HasEvidence, FindsOpen, FindsRoom,
                          CreditsAll, HasCase, JoinSeen, Earned
<1>5. Alone(w)
  BY StartTyped
<1>6. UNCHANGED <<rows, enabled>>
  BY DEF Start, setting
<1> QED BY <1>4, <1>5, <1>6, ReadKeepsBook DEF EvidenceKept, rows

LEMMA SubmitKeepsBook ==
    ASSUME TypeInv, BookInv, NEW w \in Workers,
           EnterFake(w) \/ ResolveCase(w) \/ \E m \in Messages : Deliver(w, m)
    PROVE  BookInv'
<1>1. ASSUME NEW m \in Messages, Deliver(w, m) PROVE BookInv'
  <2>1. PICK t : t = [kind |-> "confirmation", msg |-> m]
    OBVIOUS
  <2>2. t \in Task /\ Kinds("capture", t) /\ t.kind # "resolve"
    BY <2>1 DEF Task, Kinds
  <2> QED BY <1>1, <2>1, <2>2, StartKeepsBook DEF Deliver, Steps
<1>2. ASSUME EnterFake(w) PROVE BookInv'
  <2>1. PICK m \in FakeCalls, o \in Ops :
          Start(w, [kind |-> "fake", msg |-> m, op |-> o], "lock_profile")
    BY <1>2 DEF EnterFake
  <2>2. PICK t : t = [kind |-> "fake", msg |-> m, op |-> o]
    OBVIOUS
  <2>3. t \in Task /\ Kinds("lock_profile", t) /\ t.kind = "fake"
    BY <2>2, PaymentIntakeAssumption DEF Task, Kinds, IsIntake
  <2> QED BY <2>1, <2>2, <2>3, StartKeepsBook DEF Steps
<1>3. ASSUME ResolveCase(w) PROVE BookInv'
  <2>1. PICK c \in cases, s \in registered, o \in Ops, r \in Reasons :
          Start(w, [kind |-> "resolve", payment |-> c.payment, subscriber |-> s,
                    op |-> o, reason |-> r], "pick_case")
    BY <1>3 DEF ResolveCase
  <2>2. PICK t : t = [kind |-> "resolve", payment |-> c.payment, subscriber |-> s,
                      op |-> o, reason |-> r]
    OBVIOUS
  <2>3. c.payment \in Pids /\ s \in Subscribers
    BY DEF TypeInv, RowsTyped, AroundTyped, Case
  <2>4. t \in Task /\ Kinds("pick_case", t) /\ t.kind = "resolve" /\ Pid(t) = c.payment
    BY <2>2, <2>3 DEF Task, Kinds, Pid, IsIntake
  <2>5. CasesOf(Pid(t)) # {}
    BY <2>4 DEF CasesOf
  <2> QED BY <2>1, <2>2, <2>4, <2>5, StartKeepsBook DEF Steps
<1> QED BY <1>1, <1>2, <1>3

LEMMA CaptureKeepsBook ==
    ASSUME TypeInv, BookInv, NEW w \in Workers, Capture(w)
    PROVE  BookInv'
<1>1. PICK t, m : t = task[w] /\ m = t.msg
  OBVIOUS
<1>2. t \in Task /\ t.kind = "confirmation" /\ draft[w] = NoDraft /\ Alone(w)
  BY <1>1, CaptureTyped DEF TypeInv, Ready, Kinds, DraftAt, Capture
<1>3. m \in Messages /\ m \in Message /\ m.tx \in Transactions /\ m # None
  BY <1>1, <1>2, TaskParts, NoneApart DEF IsIntake
<1>4. events' = [events EXCEPT ![m.tx] = IF @ = None THEN m ELSE @]
  BY <1>1 DEF Capture
<1>5. EvidenceKept /\ events'[m.tx] = (IF events[m.tx] = None THEN m ELSE events[m.tx])
  BY <1>3, <1>4 DEF EvidenceKept, TypeInv, RowsTyped
<1>6. UNCHANGED <<payments, allocations, cases, links, balance, enabled>>
  BY DEF Capture, Finish, setting
<1>7. CASE Finish(w, "ok") /\ (events[m.tx] \notin {None, m} \/ ~enabled)
  <2>1. Settled(m)'
    BY <1>5, <1>6, <1>7 DEF Settled
  <2>2. Known(w)'
    BY <1>1, <1>2, <1>3, <1>5, <1>7, <2>1, EndKnown DEF Answered
  <2> QED BY <1>2, <1>5, <1>6, <2>2, ReadKeepsBook
<1>8. CASE /\ Goto(w, "lock_event") /\ UNCHANGED <<setting, acked, local, crashes>>
           /\ events[m.tx] \in {None, m}
  <2>1. pc'[w] = "lock_event" /\ task'[w] = t /\ draft'[w] = NoDraft
    BY <1>1, <1>2, <1>8 DEF TypeInv, LocalTyped, Goto, local
  <2>2. draft'[w].payment = None /\ draft'[w].allocation = None
    BY <2>1 DEF NoDraft
  <2>3. Known(w)'
    BY <1>1, <1>2, <1>3, <1>5, <1>8, <2>1, <2>2
       DEF Known, FindsNone, FindsPayment, HasEvidence, FindsOpen, FindsRoom,
           CreditsAll, HasCase, JoinSeen, Earned
  <2> QED BY <1>2, <1>5, <1>6, <2>3, ReadKeepsBook
<1> QED BY <1>1, <1>7, <1>8 DEF Capture

(* A lock is taken, or rows are drafted, and the call goes on.             *)
LEMMA LockMoves ==
    ASSUME TypeInv, NEW w \in Workers, NEW row, NEW step, LockThen(w, row, step)
    PROVE  /\ pc'[w] = step /\ task'[w] = task[w] /\ draft'[w] = draft[w]
           /\ joined'[w] = joined[w] /\ UNCHANGED <<rows, enabled>>
BY DEF TypeInv, LocalTyped, LockThen, Goto, setting

LEMMA DraftMoves ==
    ASSUME TypeInv, NEW w \in Workers, NEW step, NEW d,
           Goto(w, step), draft' = [draft EXCEPT ![w] = d],
           UNCHANGED <<rows, setting, acked, task, rowLocks, joined, answer, crashes>>
    PROVE  /\ pc'[w] = step /\ task'[w] = task[w] /\ draft'[w] = d
           /\ joined'[w] = joined[w] /\ UNCHANGED <<rows, enabled>>
BY DEF TypeInv, LocalTyped, Goto, setting

LEMMA LockEventKeepsBook ==
    ASSUME TypeInv, BookInv, NEW w \in Workers, LockEvent(w)
    PROVE  BookInv'
<1>1. pc[w] = "lock_event" /\ draft[w] = NoDraft /\ Alone(w)
  BY LockEventTyped DEF TypeInv, Ready, DraftAt, LockEvent
<1>2. CASE Accept(w) /\ (LinksOf(task[w].msg.tx) # {} \/ task[w].msg.amount = None)
  BY <1>1, <1>2, AcceptKeepsBook DEF Settled
<1>3. CASE LockThen(w, EventRow(task[w].msg.tx), "lock_profile")
  <2>1. pc'[w] = "lock_profile" /\ task'[w] = task[w] /\ draft'[w] = NoDraft
        /\ UNCHANGED <<rows, enabled>>
    BY <1>1, <1>3, LockMoves
  <2>2. /\ FindsNone(w)' /\ FindsPayment(w)' /\ FindsOpen(w)' /\ FindsRoom(w)'
        /\ CreditsAll(w)' /\ JoinSeen(w)'
    BY <2>1 DEF FindsNone, FindsPayment, FindsOpen, FindsRoom, CreditsAll, JoinSeen, NoDraft
  <2> QED BY <1>1, <2>1, <2>2, OnKeepsBook
<1> QED BY <1>2, <1>3 DEF LockEvent

LEMMA LockProfileKeepsBook ==
    ASSUME TypeInv, BookInv, NEW w \in Workers, LockProfile(w)
    PROVE  BookInv'
<1>1. pc[w] = "lock_profile" /\ draft[w] = NoDraft /\ Alone(w)
  BY LockProfileTyped DEF TypeInv, Ready, DraftAt, LockProfile
<1>2. CASE Refuse(w)
  BY <1>1, <1>2, AcceptKeepsBook
<1>3. CASE LockThen(w, ProfileRow(ProfileOf(task[w])), "find_payment")
  <2>1. pc'[w] = "find_payment" /\ task'[w] = task[w] /\ draft'[w] = NoDraft
        /\ UNCHANGED <<rows, enabled>>
    BY <1>1, <1>3, LockMoves
  <2>2. /\ FindsNone(w)' /\ FindsPayment(w)' /\ FindsOpen(w)' /\ FindsRoom(w)'
        /\ CreditsAll(w)' /\ JoinSeen(w)'
    BY <2>1 DEF FindsNone, FindsPayment, FindsOpen, FindsRoom, CreditsAll, JoinSeen, NoDraft
  <2> QED BY <1>1, <2>1, <2>2, OnKeepsBook
<1> QED BY <1>2, <1>3 DEF LockProfile

LEMMA ReuseKeepsBook ==
    ASSUME TypeInv, BookInv, NEW w \in Workers, pc[w] \in {"find_payment", "insert_payment"},
           Reuse(w)
    PROVE  BookInv'
<1>1. draft[w] = NoDraft /\ Alone(w) /\ IsIntake(task[w])
  BY ReuseTyped DEF TypeInv, Ready, Kinds, DraftAt
<1>2. CASE Refuse(w) \/ (Accept(w) /\ task[w].kind = "fake")
  BY <1>1, <1>2, AcceptKeepsBook
<1>3. CASE /\ PaymentOf(task[w]) \in payments
           /\ LockThen(w, PaymentRow(Pid(task[w])), "commit")
  <2>1. pc'[w] = "commit" /\ task'[w] = task[w] /\ draft'[w] = NoDraft
        /\ UNCHANGED <<rows, enabled>>
    BY <1>1, <1>3, LockMoves
  <2>2. FindsPayment(w)'
    <3>1. PICK t : t = task[w] /\ t = task'[w]
      BY <2>1
    <3>2. PaymentOf(t) \in payments'
      BY <1>3, <2>1, <3>1 DEF rows
    <3> QED BY <3>1, <3>2 DEF FindsPayment
  <2>3. task'[w].kind # "resolve"
    BY <1>1, <2>1 DEF IsIntake
  <2>4. FindsNone(w)' /\ FindsOpen(w)' /\ FindsRoom(w)' /\ CreditsAll(w)' /\ JoinSeen(w)'
    BY <2>1, <2>3 DEF FindsNone, FindsOpen, FindsRoom, CreditsAll, JoinSeen, NoDraft
  <2> QED BY <1>1, <2>1, <2>2, <2>4, OnKeepsBook
<1> QED BY <1>2, <1>3 DEF Reuse

LEMMA FindPaymentKeepsBook ==
    ASSUME TypeInv, BookInv, NEW w \in Workers, FindPayment(w)
    PROVE  BookInv'
<1>1. pc[w] = "find_payment" /\ draft[w] = NoDraft /\ Alone(w)
  BY FindPaymentTyped DEF TypeInv, Ready, DraftAt, FindPayment
<1>2. CASE Reuse(w)
  BY <1>1, <1>2, ReuseKeepsBook
<1>3. CASE Refuse(w)
  BY <1>1, <1>3, AcceptKeepsBook
<1>4. CASE /\ PaymentsWith(Pid(task[w])) = {} /\ Goto(w, "insert_payment")
           /\ UNCHANGED <<rows, setting, acked, local, crashes>>
  <2>1. PICK t, pid : t = task[w] /\ pid = Pid(t)
    OBVIOUS
  <2>2. pc'[w] = "insert_payment" /\ task'[w] = t /\ draft'[w] = NoDraft
        /\ UNCHANGED <<rows, enabled>>
    BY <1>1, <1>4, <2>1 DEF TypeInv, LocalTyped, Goto, local, setting
  <2>3. PaymentsWith(pid)' = {}
    BY <1>4, <2>1 DEF PaymentsWith, rows
  <2>4. /\ FindsNone(w)' /\ FindsPayment(w)' /\ FindsOpen(w)' /\ FindsRoom(w)'
        /\ CreditsAll(w)' /\ JoinSeen(w)'
    BY <2>1, <2>2, <2>3
       DEF FindsNone, FindsPayment, FindsOpen, FindsRoom, CreditsAll, JoinSeen, NoDraft
  <2> QED BY <1>1, <2>1, <2>2, <2>4, OnKeepsBook
<1> QED BY <1>2, <1>3, <1>4 DEF FindPayment

LEMMA InsertPaymentKeepsBook ==
    ASSUME TypeInv, BookInv, NEW w \in Workers, InsertPayment(w)
    PROVE  BookInv'
<1>1. pc[w] = "insert_payment" /\ Alone(w)
  BY InsertPaymentTyped DEF InsertPayment
<1>2. CASE Reuse(w)
  BY <1>1, <1>2, ReuseKeepsBook
<1>3. CASE /\ draft' = [draft EXCEPT ![w] = Received(task[w])]
           /\ Goto(w, "match")
           /\ UNCHANGED <<rows, setting, acked, task, rowLocks, joined, answer, crashes>>
  <2>1. PICK t, pid, d : t = task[w] /\ pid = Pid(t) /\ d = Received(t)
    OBVIOUS
  <2>2. pc'[w] = "match" /\ task'[w] = t /\ draft'[w] = d /\ UNCHANGED <<rows, enabled>>
    BY <1>3, <2>1, DraftMoves
  <2>3. PaymentsWith(pid)' = {}
    BY <1>1, <2>1, <2>2 DEF BookInv, Known, FindsNone, PaymentsWith, rows
  <2>4. d.allocation = None
    BY <2>1 DEF Received
  <2>5. /\ FindsNone(w)' /\ FindsPayment(w)' /\ FindsOpen(w)' /\ FindsRoom(w)'
        /\ CreditsAll(w)' /\ JoinSeen(w)'
    BY <2>1, <2>2, <2>3, <2>4
       DEF FindsNone, FindsPayment, FindsOpen, FindsRoom, CreditsAll, JoinSeen
  <2> QED BY <1>1, <2>1, <2>2, <2>5, OnKeepsBook
<1> QED BY <1>2, <1>3 DEF InsertPayment

LEMMA MatchKeepsBook ==
    ASSUME TypeInv, BookInv, NEW w \in Workers, Match(w)
    PROVE  BookInv'
<1>1. PICK t, pid : t = task[w] /\ pid = Pid(t)
  OBVIOUS
<1>2. /\ pc[w] = "match" /\ Alone(w) /\ draft[w] = Received(t) /\ IsIntake(t)
      /\ t \in Task /\ t.msg.amount # None
  BY <1>1, MatchTyped DEF TypeInv, Ready, Kinds, DraftAt, Match
<1>3. PaymentsWith(pid) = {}
  BY <1>1, <1>2 DEF BookInv, Known, FindsNone
<1>4. CASE LockThen(w, SubscriberRow(t.msg.account), "credit")
  <2>1. pc'[w] = "credit" /\ task'[w] = t /\ draft'[w] = Received(t) /\ UNCHANGED <<rows, enabled>>
    BY <1>1, <1>2, <1>4, LockMoves
  <2>2. PaymentsWith(pid)' = {}
    BY <1>3, <2>1 DEF PaymentsWith, rows
  <2>3. /\ FindsNone(w)' /\ FindsPayment(w)' /\ FindsOpen(w)' /\ FindsRoom(w)'
        /\ CreditsAll(w)' /\ JoinSeen(w)'
    BY <1>1, <1>2, <2>1, <2>2
       DEF FindsNone, FindsPayment, FindsOpen, FindsRoom, CreditsAll, JoinSeen, Received, IsIntake
  <2> QED BY <1>1, <1>2, <2>1, <2>3, OnKeepsBook
<1>5. CASE /\ draft' = [draft EXCEPT ![w] = SetAside(t)]
           /\ Goto(w, "commit")
           /\ UNCHANGED <<rows, setting, acked, task, rowLocks, joined, answer, crashes>>
  <2>1. PICK d : d = SetAside(t)
    OBVIOUS
  <2>2. pc'[w] = "commit" /\ task'[w] = t /\ draft'[w] = d /\ UNCHANGED <<rows, enabled>>
    BY <1>1, <1>5, <2>1, DraftMoves
  <2>3. PaymentsWith(pid)' = {}
    BY <1>3, <2>2 DEF PaymentsWith, rows
  <2>4. d.allocation = None /\ d # NoDraft
    BY <1>2, <2>1, PaymentTyped, NoneApart DEF SetAside, NoDraft
  <2>5. /\ FindsNone(w)' /\ FindsPayment(w)' /\ FindsOpen(w)' /\ FindsRoom(w)'
        /\ CreditsAll(w)' /\ JoinSeen(w)'
    BY <1>1, <1>2, <2>2, <2>3, <2>4
       DEF FindsNone, FindsPayment, FindsOpen, FindsRoom, CreditsAll, JoinSeen, IsIntake
  <2> QED BY <1>1, <1>2, <2>2, <2>5, OnKeepsBook
<1> QED BY <1>1, <1>4, <1>5 DEF Match

LEMMA PickCaseKeepsBook ==
    ASSUME TypeInv, BookInv, NEW w \in Workers, PickCase(w)
    PROVE  BookInv'
<1>1. PICK t, pid, a : /\ t = task[w] /\ pid = t.payment
                       /\ a = IF \E c \in CasesOf(pid) : IsOpen(c)
                              THEN None ELSE CHOOSE x \in AllocationsOf(pid) : TRUE
  OBVIOUS
<1>2. /\ pc[w] = "pick_case" /\ Alone(w) /\ draft[w] = NoDraft /\ t.kind = "resolve"
      /\ t \in Task /\ pid = Pid(t) /\ pid \in Pids
  BY <1>1, PickCaseTyped, TaskParts DEF TypeInv, Ready, Kinds, DraftAt, PickCase
<1>3. /\ pc'[w] = "lock_case" /\ task'[w] = t /\ draft'[w] = NoDraft /\ joined'[w] = a
      /\ UNCHANGED <<rows, enabled>>
  BY <1>1, <1>2 DEF TypeInv, LocalTyped, PickCase, Goto, setting
<1>4. CasesOf(pid) # {} /\ Accounted(pid)
  BY <1>1, <1>2 DEF BookInv, Known, HasCase
<1>5. (\E c \in CasesOf(pid) : IsOpen(c)) \/ AllocationsOf(pid) # {}
  <2>1. PICK p \in Payment : p.id = pid /\ (Matched(p) \/ Waiting(p) \/ Resolved(p))
    BY <1>4 DEF Accounted, Untouched
  <2> QED BY <1>2, <1>4, <2>1, CasesTyped DEF Matched, Waiting, Resolved
<1>6. a # None => a \in AllocationsOf(pid)'
  BY <1>1, <1>3, <1>5 DEF AllocationsOf, rows
<1>7. /\ FindsNone(w)' /\ FindsPayment(w)' /\ FindsOpen(w)' /\ FindsRoom(w)'
      /\ CreditsAll(w)' /\ JoinSeen(w)'
  BY <1>2, <1>3, <1>6
     DEF FindsNone, FindsPayment, FindsOpen, FindsRoom, CreditsAll, JoinSeen, NoDraft
<1> QED BY <1>1, <1>2, <1>3, <1>7, OnKeepsBook

LEMMA LockCaseKeepsBook ==
    ASSUME TypeInv, BookInv, NEW w \in Workers, LockCase(w)
    PROVE  BookInv'
<1>1. PICK t, pid, a : t = task[w] /\ pid = Pid(t) /\ a = joined[w]
  OBVIOUS
<1>2. pc[w] = "lock_case" /\ Alone(w) /\ draft[w] = NoDraft
  BY LockCaseTyped DEF TypeInv, Ready, DraftAt, LockCase
<1>3. /\ pc'[w] = "lock_payment" /\ task'[w] = t /\ draft'[w] = NoDraft /\ joined'[w] = a
      /\ UNCHANGED <<rows, enabled>>
  BY <1>1, <1>2, LockMoves DEF LockCase
<1>4. a # None => a \in AllocationsOf(pid)'
  BY <1>1, <1>2, <1>3 DEF BookInv, Known, JoinSeen, AllocationsOf, rows
<1>5. /\ FindsNone(w)' /\ FindsPayment(w)' /\ FindsOpen(w)' /\ FindsRoom(w)'
      /\ CreditsAll(w)' /\ JoinSeen(w)'
  BY <1>1, <1>3, <1>4
     DEF FindsNone, FindsPayment, FindsOpen, FindsRoom, CreditsAll, JoinSeen, NoDraft
<1> QED BY <1>1, <1>2, <1>3, <1>5, OnKeepsBook

(* An open case without a credit: the payment waits.                       *)
LEMMA OpenMeansWaiting ==
    ASSUME NEW pid \in Pids, Accounted(pid), NEW c \in CasesOf(pid), IsOpen(c),
           AllocationsOf(pid) = {}
    PROVE  CasesOf(pid) = {OpenCase(pid)}
<1>1. PICK p \in Payment : p.id = pid /\ (Matched(p) \/ Waiting(p) \/ Resolved(p))
  BY DEF Accounted, Untouched
<1>2. ~Matched(p) /\ ~Resolved(p)
  BY <1>1 DEF Matched, Resolved
<1> QED BY <1>1, <1>2 DEF Waiting

LEMMA LockPaymentKeepsBook ==
    ASSUME TypeInv, BookInv, NEW w \in Workers, LockPayment(w)
    PROVE  BookInv'
<1>1. PICK t, pid : t = task[w] /\ pid = t.payment
  OBVIOUS
<1>2. /\ pc[w] = "lock_payment" /\ Alone(w) /\ draft[w] = NoDraft /\ t.kind = "resolve"
      /\ t \in Task /\ pid = Pid(t) /\ pid \in Pids
  BY <1>1, LockPaymentTyped, TaskParts DEF TypeInv, Ready, Kinds, DraftAt, LockPayment
<1>3. CASE Accept(w) \/ Refuse(w)
  BY <1>1, <1>2, <1>3, AcceptKeepsBook
<1>4. CASE /\ \E c \in CasesOf(pid) : IsOpen(c)
           /\ AllocationsOf(pid) = {}
           /\ LockThen(w, PaymentRow(pid), "lock_subscriber")
  <2>1. pc'[w] = "lock_subscriber" /\ task'[w] = t /\ draft'[w] = NoDraft
        /\ UNCHANGED <<rows, enabled>>
    BY <1>1, <1>2, <1>4, LockMoves
  <2>2. CasesOf(pid) = {OpenCase(pid)}
    BY <1>2, <1>4, OpenMeansWaiting DEF BookInv
  <2>3. CasesOf(pid)' = {OpenCase(pid)} /\ AllocationsOf(pid)' = {}
    BY <1>4, <2>1, <2>2 DEF CasesOf, AllocationsOf, rows
  <2>4. /\ FindsNone(w)' /\ FindsPayment(w)' /\ FindsOpen(w)' /\ FindsRoom(w)'
        /\ CreditsAll(w)' /\ JoinSeen(w)'
    BY <1>1, <1>2, <2>1, <2>3
       DEF FindsNone, FindsPayment, FindsOpen, FindsRoom, CreditsAll, JoinSeen, NoDraft
  <2> QED BY <1>1, <1>2, <2>1, <2>4, OnKeepsBook
<1> QED BY <1>1, <1>3, <1>4 DEF LockPayment

LEMMA LockSubscriberKeepsBook ==
    ASSUME TypeInv, BookInv, NEW w \in Workers, LockSubscriber(w)
    PROVE  BookInv'
<1>1. PICK t, pid : t = task[w] /\ pid = Pid(t)
  OBVIOUS
<1>2. pc[w] = "lock_subscriber" /\ Alone(w) /\ draft[w] = NoDraft /\ t.kind = "resolve"
  BY <1>1, LockSubscriberTyped DEF TypeInv, Ready, Kinds, DraftAt, LockSubscriber
<1>3. pc'[w] = "credit" /\ task'[w] = t /\ draft'[w] = NoDraft /\ UNCHANGED <<rows, enabled>>
  BY <1>1, <1>2, LockMoves DEF LockSubscriber
<1>4. CasesOf(pid) = {OpenCase(pid)} /\ AllocationsOf(pid) = {}
  BY <1>1, <1>2 DEF BookInv, Known, FindsOpen
<1>5. CasesOf(pid)' = {OpenCase(pid)} /\ AllocationsOf(pid)' = {}
  BY <1>3, <1>4 DEF CasesOf, AllocationsOf, rows
<1>6. /\ FindsNone(w)' /\ FindsPayment(w)' /\ FindsOpen(w)' /\ FindsRoom(w)'
      /\ CreditsAll(w)' /\ JoinSeen(w)'
  BY <1>1, <1>2, <1>3, <1>5
     DEF FindsNone, FindsPayment, FindsOpen, FindsRoom, CreditsAll, JoinSeen, NoDraft
<1> QED BY <1>1, <1>2, <1>3, <1>6, OnKeepsBook

LEMMA CreditKeepsBook ==
    ASSUME TypeInv, BookInv, NEW w \in Workers, Credit(w)
    PROVE  BookInv'
<1>1. PICK t, pid, a : t = task[w] /\ pid = Pid(t) /\ a = NewAllocation(t)
  OBVIOUS
<1>2. /\ pc[w] = "credit" /\ Alone(w) /\ t \in Task /\ Known(w)
      /\ DraftAt("credit", t, draft[w]) /\ Kinds("credit", t)
  BY <1>1, CreditTyped DEF TypeInv, Ready, Credit, BookInv
<1>3. CASE Refuse(w)
  BY <1>2, <1>3, AcceptKeepsBook
<1>4. CASE /\ BalanceAllowed(balance[a.wallet] + a.amount)
           /\ draft' = [draft EXCEPT ![w] = Credited(t)]
           /\ Goto(w, "commit")
           /\ UNCHANGED <<rows, setting, acked, task, rowLocks, joined, answer, crashes>>
  <2>1. PICK d : d = Credited(t)
    OBVIOUS
  <2>2. pc'[w] = "commit" /\ task'[w] = t /\ draft'[w] = d /\ UNCHANGED <<rows, enabled>>
    BY <1>1, <1>4, <2>1, DraftMoves
  <2>3. d.allocation = a /\ a \in Allocation /\ a # None /\ d # NoDraft
    BY <1>1, <1>2, <2>1, AllocationMade, NoneApart DEF Credited, NoDraft
  <2>4. FindsPayment(w)'
    BY <2>2, <2>3 DEF FindsPayment
  <2>5. FindsRoom(w)'
    <3>1. balance'[a.wallet] = balance[a.wallet]
      BY <2>2 DEF rows
    <3> QED BY <1>4, <2>2, <2>3, <3>1 DEF FindsRoom, BalanceAllowed
  <2>6. JoinSeen(w)'
    BY <2>2 DEF JoinSeen
  <2>7. /\ PaymentsWith(pid)' = PaymentsWith(pid) /\ CasesOf(pid)' = CasesOf(pid)
        /\ AllocationsOf(pid)' = AllocationsOf(pid)
    BY <2>2 DEF PaymentsWith, CasesOf, AllocationsOf, rows
  <2>8. FindsNone(w)' /\ FindsOpen(w)' /\ CreditsAll(w)'
    <3>1. CASE IsIntake(t)
      <4>1. draft[w].payment # None
        BY <1>2, <3>1, PaymentTyped, NoneApart DEF DraftAt, Kinds, Received
      <4>2. PaymentsWith(pid)' = {}
        BY <1>1, <1>2, <2>7, <4>1 DEF Known, FindsNone
      <4> QED BY <1>1, <2>2, <3>1, <4>2 DEF FindsNone, FindsOpen, CreditsAll, IsIntake
    <3>2. CASE ~IsIntake(t)
      <4>1. t.kind = "resolve" /\ d.payment = None
        BY <1>2, <2>1, <3>2, TaskParts DEF Credited
      <4>2. CasesOf(pid)' = {OpenCase(pid)} /\ AllocationsOf(pid)' = {}
        BY <1>1, <1>2, <2>7, <4>1 DEF Known, FindsOpen
      <4>3. \A p \in PaymentsWith(pid)' : a.amount = p.amount
        BY <1>1, <1>2, <2>7, <3>2, AllocationMade
      <4> QED BY <1>1, <2>2, <2>3, <4>1, <4>2, <4>3 DEF FindsNone, FindsOpen, CreditsAll
    <3> QED BY <3>1, <3>2
  <2> QED BY <1>1, <1>2, <2>2, <2>4, <2>5, <2>6, <2>8, OnKeepsBook
<1> QED BY <1>1, <1>3, <1>4 DEF Credit

LEMMA RespondKeepsBook ==
    ASSUME TypeInv, BookInv, NEW w \in Workers, Respond(w)
    PROVE  BookInv'
<1>1. pc'[w] = "idle" /\ draft'[w] = NoDraft /\ Alone(w)
  BY RespondTyped DEF TypeInv, LocalTyped, Ready, DraftAt, Respond, Goto
<1>2. draft'[w].payment = None /\ draft'[w].allocation = None
  BY <1>1 DEF NoDraft
<1>3. Known(w)'
  BY <1>1, <1>2 DEF Known, FindsNone, FindsPayment, HasEvidence, FindsOpen, FindsRoom,
                    CreditsAll, HasCase, JoinSeen, Earned
<1>4. UNCHANGED <<rows, enabled>>
  BY DEF Respond, setting
<1> QED BY <1>1, <1>3, <1>4, ReadKeepsBook DEF EvidenceKept, rows

-----------------------------------------------------------------------------
(* A commit.  It writes about its own payment only, which no other call    *)
(* is working on, and into a wallet that no other call is about to credit. *)

LEMMA DraftParts ==
    ASSUME NEW t \in Task, NEW d, Drafts(t, d), NEW pid, pid = Pid(t)
    PROVE  /\ d.payment # None =>
                /\ IsIntake(t) /\ d.payment = PaymentOf(t) /\ d.payment \in Payment
                /\ d.payment.id = pid
           /\ d.allocation # None =>
                /\ d.allocation \in Allocation /\ d.allocation.payment = pid
                /\ d.allocation.wallet = WalletOf(t)
                /\ IsIntake(t) => d.allocation.amount = t.msg.amount /\ d.payment # None
           /\ d.case # None => d.case \in Case /\ d.case.payment = pid
           /\ t.kind = "resolve" => Resolving(t, d)
<1>1. CASE Linking(t, d)
  BY <1>1 DEF Linking, NoDraft
<1>2. CASE Opening(t, d)
  <2>1. PaymentOf(t) \in Payment /\ PaymentOf(t).id = pid /\ OpenCase(pid) \in Case
        /\ OpenCase(pid).payment = pid /\ t.kind # "resolve"
    BY <1>2, PaymentTyped, CasesTyped, TaskParts DEF Opening
  <2> QED BY <1>2, <2>1 DEF Opening, SetAside
<1>3. CASE Crediting(t, d)
  <2>1. PaymentOf(t) \in Payment /\ PaymentOf(t).id = pid /\ t.kind # "resolve"
        /\ d.allocation \in Allocation /\ PaymentOf(t) # None
    BY <1>3, PaymentTyped, AllocationTyped, TaskParts, NoneApart DEF Crediting
  <2> QED BY <1>3, <2>1 DEF Crediting, WalletOf
<1>4. CASE Resolving(t, d)
  <2>1. ClosedCase(t) \in Case /\ ClosedCase(t).payment = pid /\ ~IsIntake(t)
    BY <1>4, CasesTyped, TaskParts DEF Resolving
  <2> QED BY <1>4, <2>1 DEF Resolving, WalletOf
<1> QED BY <1>1, <1>2, <1>3, <1>4 DEF Drafts

LEMMA CommitElsewhere ==
    ASSUME TypeInv, NEW w \in Workers, Commit(w), NEW pid \in Pids, pid # Pid(task[w])
    PROVE  SameBook(pid)
<1>1. PICK t, d, q : t = task[w] /\ d = draft[w] /\ q = Pid(t)
  OBVIOUS
<1>2. t \in Task /\ Drafts(t, d) /\ Writes(t, d, q)
  BY <1>1, CommitRows
<1>3. /\ d.payment # None => d.payment.id = q
      /\ d.allocation # None => d.allocation.payment = q
      /\ d.case # None => d.case.payment = q
  BY <1>1, <1>2, DraftParts
<1>4. PaymentsWith(pid)' = PaymentsWith(pid)
  BY <1>1, <1>2, <1>3 DEF Writes, PaymentsWith
<1>5. AllocationsOf(pid)' = AllocationsOf(pid)
  BY <1>1, <1>2, <1>3 DEF Writes, AllocationsOf
<1>6. CasesOf(pid)' = CasesOf(pid)
  BY <1>1, <1>2, <1>3 DEF Writes, CasesOf
<1> QED BY <1>4, <1>5, <1>6 DEF SameBook

(* What becomes of the payment itself.                                     *)
LEMMA CommitBooks ==
    ASSUME TypeInv, BookInv, NEW w \in Workers, Commit(w),
           NEW t, t = task[w], NEW d, d = draft[w], NEW pid, pid = Pid(t)
    PROVE  /\ Linking(t, d) => SameBook(pid) /\ PaymentOf(t) \in payments
           /\ Opening(t, d) =>
                /\ Untouched(pid)
                /\ PaymentsWith(pid)' = {PaymentOf(t)} /\ AllocationsOf(pid)' = {}
                /\ CasesOf(pid)' = {OpenCase(pid)}
           /\ Crediting(t, d) =>
                /\ Untouched(pid)
                /\ PaymentsWith(pid)' = {PaymentOf(t)} /\ AllocationsOf(pid)' = {d.allocation}
                /\ CasesOf(pid)' = {}
           /\ Resolving(t, d) =>
                /\ CasesOf(pid) = {OpenCase(pid)} /\ AllocationsOf(pid) = {}
                /\ PaymentsWith(pid)' = PaymentsWith(pid)
                /\ AllocationsOf(pid)' = {d.allocation}
                /\ CasesOf(pid)' = {ClosedCase(t)}
<1>1. /\ t \in Task /\ Drafts(t, d) /\ Writes(t, d, pid) /\ pid \in Pids
      /\ Known(w) /\ Accounted(pid) /\ pc[w] = "commit"
  BY CommitRows DEF BookInv, Commit
<1>2. ASSUME Linking(t, d) PROVE SameBook(pid) /\ PaymentOf(t) \in payments
  <2>1. d.payment = None /\ d.allocation = None /\ d.case = None /\ d = NoDraft
    BY <1>2 DEF Linking, NoDraft
  <2>2. SameBook(pid)
    BY <1>1, <2>1 DEF Writes, SameBook, PaymentsWith, AllocationsOf, CasesOf
  <2> QED BY <1>1, <2>1, <2>2 DEF Known, FindsPayment
<1>3. d.payment # None => Untouched(pid)
  <2>1. d.payment # None => PaymentsWith(pid) = {}
    BY <1>1 DEF Known, FindsNone
  <2> QED BY <1>1, <2>1 DEF Accounted
<1>4. ASSUME Opening(t, d)
      PROVE  /\ Untouched(pid)
             /\ PaymentsWith(pid)' = {PaymentOf(t)} /\ AllocationsOf(pid)' = {}
             /\ CasesOf(pid)' = {OpenCase(pid)}
  <2>1. /\ d.payment = PaymentOf(t) /\ d.allocation = None /\ d.case = OpenCase(pid)
        /\ PaymentOf(t) # None /\ PaymentOf(t).id = pid
        /\ OpenCase(pid) # None /\ OpenCase(pid).payment = pid
    BY <1>1, <1>4, PaymentTyped, CasesTyped, NoneApart DEF Opening, SetAside
  <2>2. Untouched(pid)
    BY <1>3, <2>1
  <2>3. PaymentsWith(pid)' = {PaymentOf(t)}
    BY <1>1, <2>1, <2>2 DEF Writes, Untouched, PaymentsWith
  <2>4. AllocationsOf(pid)' = {}
    BY <1>1, <2>1, <2>2 DEF Writes, Untouched, AllocationsOf
  <2>5. CasesOf(pid)' = {OpenCase(pid)}
    BY <1>1, <2>1, <2>2 DEF Writes, Untouched, CasesOf
  <2> QED BY <2>2, <2>3, <2>4, <2>5
<1>5. ASSUME Crediting(t, d)
      PROVE  /\ Untouched(pid)
             /\ PaymentsWith(pid)' = {PaymentOf(t)} /\ AllocationsOf(pid)' = {d.allocation}
             /\ CasesOf(pid)' = {}
  <2>1. /\ d.payment = PaymentOf(t) /\ d.case = None
        /\ PaymentOf(t) # None /\ PaymentOf(t).id = pid
        /\ d.allocation # None /\ d.allocation.payment = pid
    BY <1>1, <1>5, PaymentTyped, AllocationTyped, NoneApart DEF Crediting
  <2>2. Untouched(pid)
    BY <1>3, <2>1
  <2>3. PaymentsWith(pid)' = {PaymentOf(t)}
    BY <1>1, <2>1, <2>2 DEF Writes, Untouched, PaymentsWith
  <2>4. AllocationsOf(pid)' = {d.allocation}
    BY <1>1, <2>1, <2>2 DEF Writes, Untouched, AllocationsOf
  <2>5. CasesOf(pid)' = {}
    BY <1>1, <2>1, <2>2 DEF Writes, Untouched, CasesOf
  <2> QED BY <2>2, <2>3, <2>4, <2>5
<1>6. ASSUME Resolving(t, d)
      PROVE  /\ CasesOf(pid) = {OpenCase(pid)} /\ AllocationsOf(pid) = {}
             /\ PaymentsWith(pid)' = PaymentsWith(pid)
             /\ AllocationsOf(pid)' = {d.allocation}
             /\ CasesOf(pid)' = {ClosedCase(t)}
  <2>1. /\ t.kind = "resolve" /\ d.payment = None /\ d.case = ClosedCase(t)
        /\ ClosedCase(t) # None /\ ClosedCase(t).payment = pid
        /\ d.allocation # None /\ d.allocation.payment = pid
    BY <1>1, <1>6, CasesTyped, NoneApart DEF Resolving
  <2>2. CasesOf(pid) = {OpenCase(pid)} /\ AllocationsOf(pid) = {}
    BY <1>1, <2>1 DEF Known, FindsOpen
  <2>3. PaymentsWith(pid)' = PaymentsWith(pid)
    BY <1>1, <2>1 DEF Writes, PaymentsWith
  <2>4. AllocationsOf(pid)' = {d.allocation}
    BY <1>1, <2>1, <2>2 DEF Writes, AllocationsOf
  <2>5. CasesOf(pid)' = {ClosedCase(t)}
    BY <1>1, <2>1 DEF Writes, CasesOf
  <2> QED BY <2>2, <2>3, <2>4, <2>5
<1> QED BY <1>2, <1>4, <1>5, <1>6

LEMMA CommitAccounts ==
    ASSUME TypeInv, BookInv, NEW w \in Workers, Commit(w)
    PROVE  \A pid \in Pids : Accounted(pid)' /\ (CasesOf(pid) # {} => CasesOf(pid)' # {})
<1> SUFFICES ASSUME NEW pid \in Pids
             PROVE  Accounted(pid)' /\ (CasesOf(pid) # {} => CasesOf(pid)' # {})
  OBVIOUS
<1>1. PICK t, d : t = task[w] /\ d = draft[w]
  OBVIOUS
<1>2. t \in Task /\ Drafts(t, d) /\ Accounted(pid) /\ Known(w) /\ pc[w] = "commit"
  BY <1>1, CommitRows DEF BookInv, Commit
<1>3. CASE SameBook(pid)
  BY <1>2, <1>3, AccountedKept DEF SameBook
<1>4. CASE Opening(t, d) /\ pid = Pid(t)
  <2>1. /\ Untouched(pid) /\ PaymentsWith(pid)' = {PaymentOf(t)} /\ AllocationsOf(pid)' = {}
        /\ CasesOf(pid)' = {OpenCase(pid)}
    BY <1>1, <1>4, CommitBooks
  <2>2. PaymentOf(t) \in Payment /\ PaymentOf(t).id = pid
    BY <1>2, <1>4, PaymentTyped DEF Opening
  <2>3. PICK p : p = PaymentOf(t)
    OBVIOUS
  <2>4. Waiting(p)'
    BY <2>1, <2>2, <2>3 DEF Waiting
  <2> QED BY <2>1, <2>2, <2>3, <2>4 DEF Accounted
<1>5. CASE Crediting(t, d) /\ pid = Pid(t)
  <2>1. /\ Untouched(pid) /\ PaymentsWith(pid)' = {PaymentOf(t)}
        /\ AllocationsOf(pid)' = {d.allocation} /\ CasesOf(pid)' = {}
    BY <1>1, <1>5, CommitBooks
  <2>2. /\ PaymentOf(t) \in Payment /\ PaymentOf(t).id = pid
        /\ PaymentOf(t).amount = t.msg.amount /\ PaymentOf(t).account = t.msg.account
        /\ d.allocation.wallet = t.msg.account /\ d.allocation.amount = t.msg.amount
    BY <1>2, <1>5, PaymentTyped DEF Crediting
  <2>3. PICK p, a : p = PaymentOf(t) /\ a = d.allocation
    OBVIOUS
  <2>4. a \in allocations'
    BY <2>1, <2>3 DEF AllocationsOf
  <2>5. Matched(p)'
    BY <2>1, <2>2, <2>3, <2>4 DEF Matched
  <2> QED BY <2>1, <2>2, <2>3, <2>5 DEF Accounted, Untouched
<1>6. CASE Resolving(t, d) /\ pid = Pid(t)
  <2>1. /\ CasesOf(pid) = {OpenCase(pid)} /\ AllocationsOf(pid) = {}
        /\ PaymentsWith(pid)' = PaymentsWith(pid)
        /\ AllocationsOf(pid)' = {d.allocation} /\ CasesOf(pid)' = {ClosedCase(t)}
    BY <1>1, <1>6, CommitBooks
  <2>2. PICK p \in Payment : PaymentsWith(pid) = {p} /\ p.id = pid
    BY <1>2, <2>1 DEF Accounted, Untouched
  <2>3. /\ t.kind = "resolve" /\ d.allocation # None
        /\ d.allocation.wallet = t.subscriber /\ d.allocation.op = t.op
    BY <1>6, NoneApart DEF Resolving
  <2>4. d.allocation.amount = p.amount
    BY <1>1, <1>2, <1>6, <2>2, <2>3 DEF Known, CreditsAll
  <2>5. /\ ~IsOpen(ClosedCase(t)) /\ ClosedCase(t).op = t.op /\ ClosedCase(t).wallet = t.subscriber
    BY <1>2, <2>3, CasesTyped
  <2>6. PICK c, a : c = ClosedCase(t) /\ a = d.allocation
    OBVIOUS
  <2>7. c \in cases' /\ a \in allocations'
    BY <2>1, <2>6 DEF CasesOf, AllocationsOf
  <2>8. IsOpen(c)' = IsOpen(c)
    BY DEF IsOpen
  <2>9. Resolved(p)'
    BY <2>1, <2>2, <2>3, <2>5, <2>6, <2>7, <2>8 DEF Resolved
  <2> QED BY <2>1, <2>2, <2>4, <2>6, <2>9 DEF Accounted
<1>7. CASE Linking(t, d) /\ pid = Pid(t)
  BY <1>1, <1>3, <1>7, CommitBooks
<1>8. CASE pid # Pid(t)
  BY <1>1, <1>3, <1>8, CommitElsewhere
<1> QED BY <1>2, <1>4, <1>5, <1>6, <1>7, <1>8 DEF Drafts

(* What a call that relies on the book, or drafts a credit, has locked.    *)
LEMMA DraftLocks ==
    ASSUME TypeInv, NEW v \in Workers, draft[v].allocation # None
    PROVE  /\ pc[v] = "commit" /\ task[v] \in Task /\ Drafts(task[v], draft[v])
           /\ SubscriberRow(draft[v].allocation.wallet) \in rowLocks[v]
<1>1. Ready(v) /\ pc[v] \in Steps
  BY DEF TypeInv, LocalTyped
<1>2. pc[v] = "commit"
  BY <1>1 DEF Ready, DraftAt, NoDraft, Received
<1>3. PICK t, d, pid : t = task[v] /\ d = draft[v] /\ pid = Pid(t)
  OBVIOUS
<1>4. t \in Task /\ Drafts(t, d) /\ Locked("commit", t, d, rowLocks[v])
  BY <1>1, <1>2, <1>3 DEF Ready, DraftAt
<1>5. d.allocation.wallet = WalletOf(t) /\ SubscriberRow(WalletOf(t)) \in rowLocks[v]
  BY <1>3, <1>4, DraftParts DEF Locked
<1> QED BY <1>2, <1>3, <1>4, <1>5

LEMMA RelianceLocks ==
    ASSUME TypeInv, NEW v \in Workers, Relies(v), NEW t, t = task[v]
    PROVE  /\ pc[v] # "idle" /\ t \in Task
           /\ \/ /\ IsIntake(t)
                 /\ pc[v] \in {"insert_payment", "match"} \/ draft[v].payment # None
                 /\ ProfileRow(ProfileOf(t)) \in rowLocks[v]
              \/ /\ t.kind = "resolve" /\ pc[v] \in {"lock_subscriber", "credit", "commit"}
                 /\ CaseRow(Pid(t)) \in rowLocks[v]
<1>1. Ready(v) /\ pc[v] \in Steps
  BY DEF TypeInv, LocalTyped
<1>2. draft[v].payment # None => pc[v] \in {"match", "credit", "commit"}
  BY <1>1 DEF Ready, DraftAt, NoDraft
<1>3. pc[v] # "idle" /\ t \in Task
  BY <1>1, <1>2 DEF Relies, Ready
<1>4. CASE pc[v] \in {"insert_payment", "match"}
  BY <1>1, <1>3, <1>4 DEF Ready, Kinds, Locked
<1>5. CASE pc[v] \in {"lock_subscriber", "credit", "commit"} /\ t.kind = "resolve"
  BY <1>1, <1>3, <1>5, TaskParts DEF Ready, Locked
<1>6. CASE draft[v].payment # None /\ pc[v] \in {"credit", "commit"}
  <2>1. IsIntake(t)
    <3>1. CASE pc[v] = "credit"
      BY <1>1, <1>6, <3>1 DEF Ready, DraftAt, NoDraft
    <3>2. CASE pc[v] = "commit"
      <4>1. PICK d, pid : d = draft[v] /\ pid = Pid(t)
        OBVIOUS
      <4>2. Drafts(t, d)
        BY <1>1, <3>2, <4>1 DEF Ready, DraftAt
      <4> QED BY <1>3, <1>6, <4>1, <4>2, DraftParts
    <3> QED BY <1>6, <3>1, <3>2
  <2> QED BY <1>1, <1>3, <1>6, <2>1 DEF Ready, Locked
<1> QED BY <1>2, <1>4, <1>5, <1>6 DEF Relies

LEMMA CommitUndisturbs ==
    ASSUME TypeInv, BookInv, NEW w \in Workers, Commit(w), NEW v \in Workers \ {w}
    PROVE  Undisturbed(v)
<1>1. PICK t, d, pid, u : t = task[w] /\ d = draft[w] /\ pid = Pid(t) /\ u = task[v]
  OBVIOUS
<1>2. /\ t \in Task /\ Drafts(t, d) /\ Writes(t, d, pid) /\ pid \in Pids
      /\ Locked("commit", t, d, rowLocks[w])
  BY <1>1, CommitRows
<1>3. Known(v) /\ Accounted(pid) /\ rowLocks[v] \cap rowLocks[w] = {}
  BY <1>2 DEF TypeInv, Exclusive, BookInv
<1>4. ASSUME Relies(v) PROVE SameBook(Pid(u))
  <2>1. /\ u \in Task
        /\ \/ /\ IsIntake(u)
              /\ pc[v] \in {"insert_payment", "match"} \/ draft[v].payment # None
              /\ ProfileRow(ProfileOf(u)) \in rowLocks[v]
           \/ /\ u.kind = "resolve" /\ pc[v] \in {"lock_subscriber", "credit", "commit"}
              /\ CaseRow(Pid(u)) \in rowLocks[v]
    BY <1>1, <1>4, RelianceLocks
  <2>2. CASE Pid(u) # pid
    BY <1>1, <2>1, <2>2, TaskParts, CommitElsewhere
  <2>3. CASE Linking(t, d) /\ Pid(u) = pid
    BY <1>1, <2>3, CommitBooks
  <2>4. ASSUME IsIntake(u), Pid(u) = pid,
               pc[v] \in {"insert_payment", "match"} \/ draft[v].payment # None,
               ProfileRow(ProfileOf(u)) \in rowLocks[v]
        PROVE  Linking(t, d)
    <3>1. PaymentsWith(pid) = {}
      BY <1>1, <1>3, <2>4 DEF Known, FindsNone
    <3>2. Untouched(pid)
      BY <1>3, <3>1 DEF Accounted
    <3>3. ~Resolving(t, d)
      BY <1>1, <3>2, CommitBooks DEF Untouched
    <3>4. ~(Opening(t, d) \/ Crediting(t, d))
      <4>1. SUFFICES ASSUME IsIntake(t) PROVE FALSE
        BY DEF Opening, Crediting
      <4>2. ProfileOf(u) = ProfileOf(t)
        BY <1>1, <1>2, <2>1, <2>4, <4>1 DEF Pid
      <4> QED BY <1>2, <1>3, <2>4, <4>1, <4>2 DEF Locked
    <3> QED BY <1>2, <3>3, <3>4 DEF Drafts
  <2>5. ASSUME u.kind = "resolve", pc[v] \in {"lock_subscriber", "credit", "commit"},
               CaseRow(Pid(u)) \in rowLocks[v], Pid(u) = pid
        PROVE  Linking(t, d)
    <3>1. CasesOf(pid) # {}
      BY <1>1, <1>3, <2>5 DEF Known, FindsOpen
    <3>2. ~Opening(t, d) /\ ~Crediting(t, d)
      BY <1>1, <3>1, CommitBooks DEF Untouched
    <3>3. ~Resolving(t, d)
      BY <1>1, <1>2, <1>3, <2>5 DEF Resolving, Locked, IsIntake
    <3> QED BY <1>2, <3>2, <3>3 DEF Drafts
  <2> QED BY <2>1, <2>2, <2>3, <2>4, <2>5
<1>5. ASSUME draft[v].allocation # None
      PROVE  balance'[draft[v].allocation.wallet] = balance[draft[v].allocation.wallet]
  <2>1. PICK s : s = draft[v].allocation.wallet
    OBVIOUS
  <2>2. SubscriberRow(s) \in rowLocks[v]
    BY <1>5, <2>1, DraftLocks
  <2>3. d.allocation # None => d.allocation.wallet # s
    BY <1>1, <1>3, <2>2, DraftLocks
  <2>4. balance'[s] = balance[s]
    <3>1. CASE d.allocation = None
      BY <1>2, <3>1 DEF Writes
    <3>2. CASE d.allocation # None
      <4>1. PICK x, n : x = d.allocation.wallet /\ n = d.allocation.amount
        OBVIOUS
      <4>2. balance' = [balance EXCEPT ![x] = @ + n] /\ x # s
        BY <1>2, <2>3, <3>2, <4>1 DEF Writes
      <4>3. s \in Subscribers
        <5>1. draft[v] \in Draft
          BY DEF TypeInv, LocalTyped
        <5> QED BY <1>5, <2>1, <5>1 DEF Draft, Allocation
      <4> QED BY <4>2, <4>3 DEF BookInv
    <3> QED BY <3>1, <3>2
  <2> QED BY <2>1, <2>4
<1> QED BY <1>1, <1>4, <1>5 DEF Undisturbed

LEMMA CommitLinks ==
    ASSUME TypeInv, BookInv, NEW w \in Workers, Commit(w)
    PROVE  LinksSound'
<1>1. PICK t, d, pid : t = task[w] /\ d = draft[w] /\ pid = Pid(t)
  OBVIOUS
<1>2. /\ t \in Task /\ Drafts(t, d) /\ Writes(t, d, pid) /\ pid \in Pids
      /\ Known(w) /\ pc[w] = "commit" /\ LinksSound
  BY <1>1, CommitRows DEF BookInv, Commit
<1>3. payments \subseteq payments' /\ links \subseteq links' /\ events' = events
  BY <1>2 DEF Writes
<1>4. ASSUME t.kind = "confirmation"
      PROVE  /\ pid = <<"paybill", t.msg.tx>>
             /\ PaymentOf(t) \in payments' /\ PaymentOf(t).id = pid
             /\ events[t.msg.tx] = [tx |-> t.msg.tx, amount |-> PaymentOf(t).amount,
                                    account |-> PaymentOf(t).account]
  <2>1. IsIntake(t) /\ t.msg \in Message /\ pid = <<"paybill", t.msg.tx>>
    BY <1>1, <1>2, <1>4, TaskParts
  <2>2. t.msg.amount # None
    BY <1>2, <1>4 DEF Drafts, Linking, Opening, Crediting, Resolving
  <2>3. /\ PaymentOf(t) \in Payment /\ PaymentOf(t).id = pid
        /\ PaymentOf(t).amount = t.msg.amount /\ PaymentOf(t).account = t.msg.account
    BY <1>1, <1>2, <2>1, <2>2, PaymentTyped
  <2>4. events[t.msg.tx] = t.msg
    BY <1>1, <1>2, <1>4 DEF Known, HasEvidence
  <2>5. PaymentOf(t) \in payments'
    <3>1. CASE Linking(t, d)
      BY <1>1, <1>3, <3>1, CommitBooks
    <3>2. CASE Opening(t, d) \/ Crediting(t, d)
      <4>1. PaymentsWith(pid)' = {PaymentOf(t)}
        BY <1>1, <3>2, CommitBooks
      <4> QED BY <4>1 DEF PaymentsWith
    <3> QED BY <1>2, <1>4, <3>1, <3>2 DEF Drafts, Resolving
  <2> QED BY <2>1, <2>3, <2>4, <2>5, MessageParts
<1>5. ASSUME NEW l \in links'
      PROVE  /\ l.payment = <<"paybill", l.event>>
             /\ \E p \in payments' :
                  /\ p.id = l.payment
                  /\ events'[l.event] =
                       [tx |-> l.event, amount |-> p.amount, account |-> p.account]
  <2>1. CASE l \in links
    BY <1>2, <1>3, <2>1 DEF LinksSound
  <2>2. CASE t.kind = "confirmation" /\ l = [event |-> t.msg.tx, payment |-> pid]
    BY <1>3, <1>4, <2>2
  <2> QED BY <1>2, <2>1, <2>2 DEF Writes
<1>6. ASSUME NEW p \in payments', p.id[1] = "paybill"
      PROVE  \E l \in links' : l.payment = p.id
  <2>1. CASE p \in payments
    BY <1>2, <1>3, <1>6, <2>1 DEF LinksSound
  <2>2. CASE p = d.payment /\ d.payment # None
    <3>1. IsIntake(t) /\ p.id = pid
      BY <1>1, <1>2, <2>2, DraftParts
    <3>2. t.kind = "confirmation"
      BY <1>1, <1>2, <1>6, <3>1, TaskParts DEF IsIntake
    <3>3. [event |-> t.msg.tx, payment |-> pid] \in links'
      BY <1>2, <3>2 DEF Writes
    <3> QED BY <3>1, <3>3
  <2> QED BY <1>2, <2>1, <2>2 DEF Writes
<1> QED BY <1>5, <1>6 DEF LinksSound

LEMMA CommitKeepsBook ==
    ASSUME TypeInv, BookInv, NEW w \in Workers, Commit(w)
    PROVE  BookInv'
<1>1. PICK t, d, pid : t = task[w] /\ d = draft[w] /\ pid = Pid(t)
  OBVIOUS
<1>2. /\ t \in Task /\ Drafts(t, d) /\ d \in Draft /\ Writes(t, d, pid) /\ pid \in Pids
      /\ Known(w) /\ pc[w] = "commit" /\ Alone(w) /\ Finish(w, "ok")
  BY <1>1, CommitRows, CommitTyped DEF BookInv, Commit
<1>3. /\ payments \subseteq payments' /\ allocations \subseteq allocations' /\ links \subseteq links'
      /\ events' = events /\ enabled' = enabled
  BY <1>2 DEF Writes, Finish, setting
<1>4. balance' \in [Subscribers -> 0..MaxMoney]
  <2>1. CASE d.allocation = None
    BY <1>2, <2>1 DEF Writes, BookInv
  <2>2. CASE d.allocation # None
    <3>1. PICK s, n : s = d.allocation.wallet /\ n = d.allocation.amount
      OBVIOUS
    <3>2. balance' = [balance EXCEPT ![s] = @ + n]
      BY <1>2, <2>2, <3>1 DEF Writes
    <3>3. balance[s] + n \in 0..MaxMoney
      BY <1>1, <1>2, <2>2, <3>1 DEF Known, FindsRoom
    <3> QED BY <3>2, <3>3 DEF BookInv
  <2> QED BY <2>1, <2>2
<1>5. \A q \in Pids : Accounted(q)' /\ (CasesOf(q) # {} => CasesOf(q)' # {})
  BY CommitAccounts
<1>6. LinksSound'
  BY CommitLinks
<1>7. Known(w)'
  <2>1. t.kind = "confirmation" => events'[t.msg.tx] # None
    BY <1>1, <1>2, <1>3 DEF Known, HasEvidence
  <2>2. t.kind = "confirmation" => Settled(t.msg)'
    <3>1. t.kind = "confirmation" => [event |-> t.msg.tx, payment |-> pid] \in links'
      BY <1>2 DEF Writes
    <3> QED BY <3>1 DEF Settled, LinksOf
  <2>3. t.kind = "resolve" => CasesOf(Pid(t))' # {}
    BY <1>1, <1>2, <1>5 DEF Known, HasCase
  <2> QED BY <1>1, <1>2, <2>1, <2>2, <2>3, EndKnown DEF Answered
<1>8. ASSUME NEW v \in Workers \ {w} PROVE Known(v)'
  <2>1. Unaware(v) /\ Undisturbed(v) /\ Known(v) /\ EvidenceKept
    BY <1>2, <1>3, CommitUndisturbs DEF Alone, BookInv, EvidenceKept
  <2> QED BY <1>3, <1>5, <2>1, StillKnown
<1> QED BY <1>4, <1>5, <1>6, <1>7, <1>8 DEF BookInv

-----------------------------------------------------------------------------
(* What happens around the calls.                                          *)

LEMMA StopKeepsBook ==
    ASSUME TypeInv, BookInv, NEW ws \in SUBSET Workers, Stop(ws), enabled' \in BOOLEAN,
           enabled' = enabled \/ ws = Workers
    PROVE  BookInv'
<1>1. /\ \A v \in ws : pc'[v] = "idle" /\ draft'[v] = NoDraft
      /\ \A v \in Workers \ ws : Unaware(v)
  BY StopTyped
<1>2. UNCHANGED <<payments, allocations, cases, links, balance>> /\ EvidenceKept
  BY DEF Stop, rows, EvidenceKept
<1>3. ASSUME NEW v \in Workers PROVE Known(v)'
  <2>1. CASE v \in ws
    <3>1. pc'[v] = "idle" /\ draft'[v].payment = None /\ draft'[v].allocation = None
      BY <1>1, <2>1 DEF NoDraft
    <3> QED BY <3>1 DEF Known, FindsNone, FindsPayment, HasEvidence, FindsOpen, FindsRoom,
                        CreditsAll, HasCase, JoinSeen, Earned
  <2>2. CASE v \notin ws
    BY <1>1, <1>2, <2>2, BookKept
  <2> QED BY <2>1, <2>2
<1> QED BY <1>2, <1>3, BookKept DEF BookInv

LEMMA AroundKeepsBook ==
    ASSUME TypeInv, BookInv, UNCHANGED <<rows, enabled, pc, local>>
    PROVE  BookInv'
<1>1. UNCHANGED <<payments, allocations, cases, links, balance>> /\ EvidenceKept
  BY DEF rows, EvidenceKept
<1>2. \A v \in Workers : Unaware(v)
  BY DEF Unaware, local
<1> QED BY <1>1, <1>2, BookKept DEF BookInv

LEMMA PostElsewhereKeepsBook ==
    ASSUME TypeInv, BookInv, NEW s \in Subscribers, NEW o \in Ops, NEW b \in 0..MaxMoney,
           PostElsewhere(s, o, b)
    PROVE  BookInv'
<1>1. /\ UNCHANGED <<payments, allocations, cases, links, events, enabled>>
      /\ balance' = [balance EXCEPT ![s] = b]
      /\ \A v \in Workers : Unaware(v)
  BY DEF PostElsewhere, setting, local, Unaware
<1>2. balance' \in [Subscribers -> 0..MaxMoney]
  BY <1>1 DEF BookInv
<1>3. \A pid : SameBook(pid)
  BY <1>1 DEF SameBook, PaymentsWith, AllocationsOf, CasesOf
<1>4. \A pid \in Pids : Accounted(pid)' /\ (CasesOf(pid) # {} => CasesOf(pid)' # {})
  BY <1>3, AccountedKept DEF BookInv, SameBook
<1>5. LinksSound'
  BY <1>1 DEF BookInv, LinksSound
<1>6. ASSUME NEW v \in Workers PROVE Known(v)'
  <2>1. Undisturbed(v)
    <3>1. ASSUME draft[v].allocation # None
          PROVE  balance'[draft[v].allocation.wallet] = balance[draft[v].allocation.wallet]
      <4>1. PICK x : x = draft[v].allocation.wallet
        OBVIOUS
      <4>2. SubscriberRow(x) \in rowLocks[v] /\ x # s
        BY <3>1, <4>1, DraftLocks DEF PostElsewhere
      <4>3. draft[v] \in Draft
        BY DEF TypeInv, LocalTyped
      <4>4. x \in Subscribers
        BY <3>1, <4>1, <4>3 DEF Draft, Allocation
      <4>5. balance'[x] = balance[x]
        BY <1>1, <4>2, <4>4 DEF BookInv
      <4> QED BY <4>1, <4>5
    <3> QED BY <1>3, <3>1 DEF Undisturbed
  <2>2. EvidenceKept /\ Known(v)
    BY <1>1 DEF EvidenceKept, BookInv
  <2>3. payments \subseteq payments' /\ allocations \subseteq allocations' /\ links \subseteq links'
    BY <1>1
  <2> QED BY <1>1, <1>4, <2>1, <2>2, <2>3, StillKnown
<1> QED BY <1>2, <1>4, <1>5, <1>6 DEF BookInv

-----------------------------------------------------------------------------
(* The inductive invariant.                                                *)

Inv == TypeInv /\ BookInv

LEMMA InitInv == Init => Inv
<1> SUFFICES ASSUME Init PROVE Inv
  OBVIOUS
<1>1. balance \in [Subscribers -> 0..MaxMoney]
  BY PaymentIntakeAssumption DEF Init
<1>2. ASSUME NEW pid \in Pids PROVE Accounted(pid)
  BY DEF Init, Accounted, Untouched, PaymentsWith, AllocationsOf, CasesOf
<1>3. LinksSound
  BY DEF Init, LinksSound
<1>4. ASSUME NEW w \in Workers PROVE Known(w)
  <2>1. pc[w] = "idle" /\ draft[w].payment = None /\ draft[w].allocation = None
    BY DEF Init, NoDraft
  <2> QED BY <2>1 DEF Known, FindsNone, FindsPayment, HasEvidence, FindsOpen, FindsRoom,
                      CreditsAll, HasCase, JoinSeen, Earned
<1> QED BY <1>1, <1>2, <1>3, <1>4, InitTyped DEF Inv, BookInv

LEMMA ProceedInv ==
    ASSUME Inv, NEW w \in Workers, Proceed(w)
    PROVE  Inv' /\ Alone(w)
<1>1. TypeInv' /\ Alone(w)
  BY ProceedTyped DEF Inv
<1>2. BookInv'
  BY CaptureKeepsBook, LockEventKeepsBook, LockProfileKeepsBook, FindPaymentKeepsBook,
     InsertPaymentKeepsBook, MatchKeepsBook, PickCaseKeepsBook, LockCaseKeepsBook,
     LockPaymentKeepsBook, LockSubscriberKeepsBook, CreditKeepsBook, CommitKeepsBook,
     RespondKeepsBook DEF Proceed, Inv
<1> QED BY <1>1, <1>2 DEF Inv

LEMMA EnvironmentInv ==
    ASSUME Inv, Environment
    PROVE  Inv'
<1>1. TypeInv'
  BY EnvironmentTyped DEF Inv
<1>2. ASSUME Redeploy PROVE BookInv'
  BY <1>2, StopKeepsBook DEF Redeploy, Inv, TypeInv, AroundTyped
<1>3. ASSUME SyncProfile \/ (\E profile \in Profiles : Deactivate(profile))
               \/ (\E s \in Subscribers : Register(s))
      PROVE  BookInv'
  BY <1>3, AroundKeepsBook DEF SyncProfile, Deactivate, Register, Inv
<1>4. ASSUME NEW s \in Subscribers, NEW o \in Ops, NEW b \in 0..MaxMoney, PostElsewhere(s, o, b)
      PROVE  BookInv'
  BY <1>4, PostElsewhereKeepsBook DEF Inv
<1> QED BY <1>1, <1>2, <1>3, <1>4 DEF Environment, Inv

LEMMA NextInv == Inv /\ [Next]_vars => Inv'
<1> SUFFICES ASSUME Inv, [Next]_vars PROVE Inv'
  OBVIOUS
<1>1. ASSUME NEW w \in Workers,
             EnterFake(w) \/ ResolveCase(w) \/ \E m \in Messages : Deliver(w, m)
      PROVE  Inv'
  BY <1>1, SubmitTyped, SubmitKeepsBook DEF Inv
<1>2. ASSUME NEW w \in Workers, Proceed(w) PROVE Inv'
  BY <1>2, ProceedInv
<1>3. ASSUME NEW w \in Workers, Crash(w) PROVE Inv'
  <2>1. enabled' = enabled /\ enabled \in BOOLEAN /\ Stop({w}) /\ {w} \in SUBSET Workers
    BY <1>3 DEF Crash, Inv, TypeInv, AroundTyped
  <2>2. TypeInv'
    BY <2>1, StopTyped DEF Inv
  <2>3. BookInv'
    BY <2>1, StopKeepsBook DEF Inv
  <2> QED BY <2>2, <2>3 DEF Inv
<1>4. ASSUME Environment PROVE Inv'
  BY <1>4, EnvironmentInv
<1>5. ASSUME UNCHANGED vars PROVE Inv'
  <2>1. RowsTyped' /\ AroundTyped'
    BY <1>5 DEF vars, rows, setting, local, Inv, TypeInv, RowsTyped, AroundTyped
  <2>2. TypeInv'
    BY <1>5, <2>1, AroundStepTyped DEF vars, Inv
  <2>3. BookInv'
    BY <1>5, AroundKeepsBook DEF vars, setting, Inv
  <2> QED BY <2>2, <2>3 DEF Inv
<1> QED BY <1>1, <1>2, <1>3, <1>4, <1>5 DEF Next

LEMMA AlwaysInv == Spec => []Inv
BY InitInv, NextInv, PTL DEF Spec

-----------------------------------------------------------------------------
(* Every variable keeps the kind of value the code gives it, and no wallet *)
(* goes below zero or above the largest amount.                            *)
THEOREM TypeCorrect == Spec => []TypeOK
<1>1. Inv => TypeOK
  BY DEF Inv, TypeInv, RowsTyped, AroundTyped, LocalTyped, BookInv, TypeOK
<1> QED BY <1>1, AlwaysInv, PTL

(* Every received payment is accounted for, exactly one way and in full,   *)
(* whichever calls run at once, repeat each other or die.                  *)
THEOREM ReceivedIsAccounted == Spec => []PaymentsAccounted
<1>1. Inv => PaymentsAccounted
  <2> SUFFICES ASSUME Inv PROVE PaymentsAccounted
    OBVIOUS
  <2>1. \A pid \in Pids : Accounted(pid)
    BY DEF Inv, BookInv
  <2>2. ASSUME NEW p \in payments
        PROVE  /\ Matched(p) \/ Waiting(p) \/ Resolved(p)
               /\ \A a \in AllocationsOf(p.id) : a.amount = p.amount
    <3>1. p.id \in Pids /\ p \in PaymentsWith(p.id)
      BY DEF Inv, TypeInv, RowsTyped, Payment, PaymentsWith
    <3>2. PICK q \in Payment :
            /\ PaymentsWith(p.id) = {q}
            /\ Matched(q) \/ Waiting(q) \/ Resolved(q)
            /\ \A a \in AllocationsOf(p.id) : a.amount = q.amount
      BY <2>1, <3>1 DEF Accounted, Untouched
    <3>3. p = q
      BY <3>1, <3>2
    <3> QED BY <3>2, <3>3
  <2>3. ASSUME NEW a \in allocations PROVE PaymentsWith(a.payment) # {}
    <3>1. a.payment \in Pids /\ a \in AllocationsOf(a.payment)
      BY DEF Inv, TypeInv, RowsTyped, Allocation, AllocationsOf
    <3> QED BY <2>1, <3>1 DEF Accounted, Untouched
  <2>4. ASSUME NEW c \in cases PROVE PaymentsWith(c.payment) # {}
    <3>1. c.payment \in Pids /\ c \in CasesOf(c.payment)
      BY DEF Inv, TypeInv, RowsTyped, Case, CasesOf
    <3> QED BY <2>1, <3>1 DEF Accounted, Untouched
  <2> QED BY <2>2, <2>3, <2>4 DEF PaymentsAccounted
<1> QED BY <1>1, AlwaysInv, PTL

(* Every Paybill payment is linked to the captured event it came from and  *)
(* says what the event says.                                               *)
THEOREM MoneyFollowsEvidence == Spec => []EvidenceMatches
<1>1. Inv => EvidenceMatches
  <2> SUFFICES ASSUME Inv, NEW p \in payments, p.id[1] = "paybill"
               PROVE  /\ \E l \in links : l.payment = p.id
                      /\ \A l \in links : l.payment = p.id =>
                           events[l.event] = [tx |-> p.id[2], amount |-> p.amount,
                                              account |-> p.account]
    BY DEF EvidenceMatches
  <2>1. \E l \in links : l.payment = p.id
    BY DEF Inv, BookInv, LinksSound
  <2>2. ASSUME NEW l \in links, l.payment = p.id
        PROVE  events[l.event] = [tx |-> p.id[2], amount |-> p.amount, account |-> p.account]
    <3>1. PICK q \in payments :
            /\ q.id = l.payment
            /\ events[l.event] = [tx |-> l.event, amount |-> q.amount, account |-> q.account]
      BY DEF Inv, BookInv, LinksSound
    <3>2. p \in PaymentsWith(p.id) /\ q \in PaymentsWith(p.id) /\ p.id \in Pids
      BY <2>2, <3>1 DEF PaymentsWith, Inv, TypeInv, RowsTyped, Payment
    <3>3. p = q
      BY <3>2 DEF Inv, BookInv, Accounted, Untouched
    <3>4. p.id[2] = l.event
      BY <2>2 DEF Inv, BookInv, LinksSound
    <3> QED BY <3>1, <3>3, <3>4
  <2> QED BY <2>1, <2>2
<1> QED BY <1>1, AlwaysInv, PTL

(* An insert never finds that another transaction won: the lock of the     *)
(* profile keeps every other call with this payment out.                   *)
THEOREM InsertsNeverRace == Spec => []InsertsAlone
<1>1. Inv => InsertsAlone
  <2> SUFFICES ASSUME Inv, NEW w \in Workers, pc[w] = "insert_payment"
               PROVE  /\ PaymentsWith(Pid(task[w])) = {}
                      /\ \A v \in Workers : draft[v].payment # None =>
                           draft[v].payment.id # Pid(task[w])
    BY DEF InsertsAlone
  <2>1. PICK t, pid : t = task[w] /\ pid = Pid(t)
    OBVIOUS
  <2>2. PaymentsWith(pid) = {} /\ Relies(w) /\ TypeInv
    BY <2>1 DEF Inv, BookInv, Known, FindsNone, Relies
  <2>3. IsIntake(t) /\ t \in Task /\ ProfileRow(ProfileOf(t)) \in rowLocks[w]
    BY <2>1, <2>2, RelianceLocks
  <2>4. ASSUME NEW v \in Workers, draft[v].payment # None PROVE draft[v].payment.id # pid
    <3>1. Ready(v) /\ pc[v] \in {"match", "credit", "commit"} /\ Relies(v)
      BY <2>2, <2>4 DEF TypeInv, LocalTyped, Ready, DraftAt, NoDraft, Relies
    <3>2. PICK u, d, q : u = task[v] /\ d = draft[v] /\ q = Pid(u)
      OBVIOUS
    <3>3. u \in Task /\ d.payment.id = q /\ IsIntake(u) /\ ProfileRow(ProfileOf(u)) \in rowLocks[v]
      <4>1. CASE pc[v] = "commit"
        <5>1. u \in Task /\ Drafts(u, d)
          BY <3>1, <3>2, <4>1 DEF Ready, DraftAt
        <5>2. IsIntake(u) /\ d.payment.id = q
          BY <2>4, <3>2, <5>1, DraftParts
        <5> QED BY <3>1, <3>2, <4>1, <5>1, <5>2 DEF Ready, Locked
      <4>2. CASE pc[v] \in {"match", "credit"}
        <5>1. u \in Task /\ IsIntake(u) /\ d = Received(u) /\ u.msg.amount # None
          BY <2>4, <3>1, <3>2, <4>2 DEF Ready, Kinds, DraftAt, NoDraft
        <5>2. d.payment.id = q
          BY <3>2, <5>1, PaymentTyped DEF Received
        <5> QED BY <3>1, <3>2, <4>2, <5>1, <5>2 DEF Ready, Locked
      <4> QED BY <3>1, <4>1, <4>2
    <3>4. v # w
      BY <3>1
    <3>5. ProfileOf(u) # ProfileOf(t)
      BY <2>2, <2>3, <3>3, <3>4 DEF TypeInv, Exclusive
    <3> QED BY <2>1, <2>3, <3>2, <3>3, <3>5 DEF Pid
  <2> QED BY <2>1, <2>2, <2>4
<1> QED BY <1>1, AlwaysInv, PTL

-----------------------------------------------------------------------------
(* Steps, by what they may change.                                         *)

LEMMA OnlyRespondAcks ==
    ASSUME [Next]_vars, acked' # acked
    PROVE  \E w \in Workers : Respond(w)
<1> USE DEF Accept, Refuse, Finish, LockThen, setting, vars
<1>1. ASSUME NEW w \in Workers, Proceed(w), acked' # acked PROVE Respond(w)
  <2>1. ~Reuse(w)
    BY <1>1 DEF Reuse
  <2> QED BY <1>1, <2>1
     DEF Proceed, Capture, LockEvent, LockProfile, FindPayment, InsertPayment, Match, PickCase,
         LockCase, LockPayment, LockSubscriber, Credit, Commit
<1>2. ASSUME NEW w \in Workers,
             EnterFake(w) \/ ResolveCase(w) \/ \E m \in Messages : Deliver(w, m)
      PROVE  acked' = acked
  BY <1>2 DEF EnterFake, ResolveCase, Deliver, Start
<1>3. ASSUME NEW w \in Workers, Crash(w) PROVE acked' = acked
  BY <1>3 DEF Crash, Stop
<1>4. ASSUME Environment PROVE acked' = acked
  BY <1>4 DEF Environment, Redeploy, Stop, SyncProfile, Deactivate, Register, PostElsewhere
<1> QED BY <1>1, <1>2, <1>3, <1>4 DEF Next

LEMMA OnlyCommitsBook ==
    ASSUME [Next]_vars, UNCHANGED <<payments, allocations>> => FALSE
    PROVE  \E w \in Workers : Commit(w)
<1> USE DEF Accept, Refuse, LockThen, rows, vars
<1>1. ASSUME NEW w \in Workers, Proceed(w), ~Commit(w) PROVE UNCHANGED <<payments, allocations>>
  <2>1. Reuse(w) => UNCHANGED <<payments, allocations>>
    BY DEF Reuse
  <2> QED BY <1>1, <2>1
     DEF Proceed, Capture, LockEvent, LockProfile, FindPayment, InsertPayment, Match, PickCase,
         LockCase, LockPayment, LockSubscriber, Credit, Respond
<1>2. ASSUME NEW w \in Workers,
             EnterFake(w) \/ ResolveCase(w) \/ \E m \in Messages : Deliver(w, m)
      PROVE  UNCHANGED <<payments, allocations>>
  BY <1>2 DEF EnterFake, ResolveCase, Deliver, Start
<1>3. ASSUME NEW w \in Workers, Crash(w) PROVE UNCHANGED <<payments, allocations>>
  BY <1>3 DEF Crash, Stop
<1>4. ASSUME Environment PROVE UNCHANGED <<payments, allocations>>
  BY <1>4 DEF Environment, Redeploy, Stop, SyncProfile, Deactivate, Register, PostElsewhere
<1> QED BY <1>1, <1>2, <1>3, <1>4 DEF Next

(* A confirmation is acknowledged only when the provider need not send it  *)
(* again.                                                                  *)
THEOREM AcknowledgedIsSettled == Spec => AcksEarned
<1>1. Inv /\ [Next]_vars =>
        \A m \in acked' \ acked :
          \/ LinksOf(m.tx) # {}
          \/ m.amount = None
          \/ events[m.tx] # m
          \/ ~enabled
  <2> SUFFICES ASSUME Inv, [Next]_vars, NEW m \in acked' \ acked PROVE Settled(m)
    BY DEF Settled
  <2>1. PICK w \in Workers : Respond(w)
    BY OnlyRespondAcks
  <2>2. m = task[w].msg /\ task[w].kind = "confirmation" /\ answer[w] = "ok" /\ pc[w] = "done"
    BY <2>1 DEF Respond
  <2> QED BY <2>2 DEF Inv, BookInv, Known, Earned
<1> QED BY <1>1, AlwaysInv, PTL DEF Spec, AcksEarned

(* A call that is refused when it resolves a case.                         *)
LEMMA ResolutionRefused ==
    ASSUME Inv, [Next]_vars, NEW w \in Workers, task[w] # None, task[w].kind = "resolve",
           answer[w] = None, answer'[w] = "refused"
    PROVE  (LockPayment(w) /\ Refuse(w)) \/ Credit(w)
<1>1. "refused" # None /\ "refused" # "ok"
  BY NoneApart DEF Answered
<1>2. ~Unaware(w)
  BY <1>1 DEF Unaware
<1>3. ~(Accept(w) \/ Finish(w, "ok"))
  BY <1>1 DEF Accept, Finish, Inv, TypeInv, LocalTyped
<1>4. answer' # answer
  BY <1>1
<1>5. ~IsIntake(task[w])
  BY DEF IsIntake
<1>6. Proceed(w)
  <2>1. ASSUME NEW v \in Workers,
               EnterFake(v) \/ ResolveCase(v) \/ \E m \in Messages : Deliver(v, m)
        PROVE  FALSE
    BY <1>4, <2>1 DEF EnterFake, ResolveCase, Deliver, Start
  <2>2. ASSUME NEW v \in Workers, Crash(v) PROVE FALSE
    BY <1>1, <2>2 DEF Crash, Stop
  <2>3. ~UNCHANGED vars
    BY <1>4 DEF vars, local
  <2>4. ~Environment
    BY <1>1, <1>4 DEF Environment, Redeploy, Stop, SyncProfile, Deactivate, Register,
                      PostElsewhere, local
  <2>5. ASSUME NEW v \in Workers \ {w}, Proceed(v) PROVE FALSE
    BY <1>2, <2>5, ProceedInv DEF Alone
  <2> QED BY <2>1, <2>2, <2>3, <2>4, <2>5 DEF Next
<1>7. pc[w] \in {"pick_case", "lock_case", "lock_payment", "lock_subscriber", "credit",
                 "commit", "done", "idle"}
  BY <1>5 DEF Inv, TypeInv, LocalTyped, Ready, Kinds, Steps
<1>8. ~(PickCase(w) \/ LockCase(w) \/ LockSubscriber(w))
  BY <1>4 DEF PickCase, LockCase, LockSubscriber, LockThen
<1>9. ~Commit(w)
  BY <1>3 DEF Commit
<1>10. ~Respond(w)
  BY <1>1 DEF Respond, Inv, TypeInv, LocalTyped
<1>11. ASSUME LockPayment(w) PROVE Refuse(w)
  BY <1>3, <1>4, <1>11 DEF LockPayment, LockThen
<1>12. LockPayment(w) \/ Credit(w)
  BY <1>6, <1>7, <1>8, <1>9, <1>10
     DEF Proceed, Capture, LockEvent, LockProfile, FindPayment, InsertPayment, Match
<1> QED BY <1>11, <1>12

(* Resolving a case again in the same way succeeds, also for a call that   *)
(* waited for the case while the first one committed.                      *)
THEOREM RepeatedResolutionsSucceed == Spec => ResolutionsReplayed
<1>1. Inv /\ [Next]_vars =>
        \A w \in Workers :
          /\ task[w] # None
          /\ task[w].kind = "resolve"
          /\ answer[w] = None
          /\ answer'[w] = "refused"
          => ~ \E c \in CasesOf(task[w].payment) :
                 \E a \in AllocationsOf(task[w].payment) : Repeats(task[w], c, a)
  <2> SUFFICES ASSUME Inv, [Next]_vars, NEW w \in Workers, task[w] # None,
                      task[w].kind = "resolve", answer[w] = None, answer'[w] = "refused",
                      NEW c \in CasesOf(task[w].payment),
                      NEW a \in AllocationsOf(task[w].payment), Repeats(task[w], c, a)
               PROVE  FALSE
    OBVIOUS
  <2>1. PICK t, pid : t = task[w] /\ pid = t.payment
    OBVIOUS
  <2>2. (LockPayment(w) /\ Refuse(w)) \/ Credit(w)
    BY ResolutionRefused
  <2>3. t \in Task /\ pid = Pid(t) /\ pid \in Pids /\ Known(w) /\ Accounted(pid)
    BY <2>1, <2>2, TaskAt, TaskParts DEF LockPayment, Credit, Inv, BookInv
  <2>4. CASE Credit(w)
    BY <2>1, <2>3, <2>4 DEF Credit, Known, FindsOpen
  <2>5. CASE LockPayment(w) /\ Refuse(w)
    <3>1. PICK b \in CasesOf(pid) :
            \/ ~IsOpen(b) /\ ~ \E x \in Resolution(w) : Repeats(t, b, x)
            \/ IsOpen(b)
      <4>1. ~Accept(w)
        BY DEF Accept, Finish, Inv, TypeInv, LocalTyped
      <4>2. PICK b \in CasesOf(pid) :
              IF ~IsOpen(b)
              THEN IF \E x \in Resolution(w) : Repeats(t, b, x) THEN Accept(w) ELSE Refuse(w)
              ELSE TRUE
        BY <2>1, <2>5 DEF LockPayment
      <4> QED BY <4>1, <4>2
    <3>2. c \in CasesOf(pid) /\ a \in AllocationsOf(pid) /\ Repeats(t, c, a)
      BY <2>1
    <3>3. PICK p \in Payment :
            p.id = pid /\ (Matched(p) \/ Waiting(p) \/ Resolved(p))
      BY <2>3, <3>2 DEF Accounted, Untouched
    <3>4. Resolved(p)
      BY <3>2, <3>3 DEF Matched, Waiting
    <3>5. b = c /\ ~IsOpen(b) /\ AllocationsOf(pid) = {a}
      BY <3>2, <3>3, <3>4 DEF Resolved
    <3>6. a \in Resolution(w)
      <4>1. CASE joined[w] # None
        BY <2>1, <2>3, <2>5, <3>5, <4>1 DEF Known, JoinSeen, LockPayment, Resolution
      <4>2. CASE joined[w] = None
        BY <2>1, <3>2, <4>2 DEF Resolution, Repeats
      <4> QED BY <4>1, <4>2
    <3> QED BY <3>1, <3>2, <3>5, <3>6
  <2> QED BY <2>2, <2>4, <2>5
<1> QED BY <1>1, AlwaysInv, PTL DEF Spec, ResolutionsReplayed

-----------------------------------------------------------------------------
(* The committed rows, seen as a payment book.                             *)

CreditOf(a) == [wallet |-> a.wallet, amount |-> a.amount]

LEMMA BookingsAre ==
    /\ Bookings = [pid \in Pids |-> Booked(pid)]
    /\ Bookings' = [pid \in Pids |-> Booked(pid)']
BY DEF Bookings

LEMMA BookedWith ==
    ASSUME NEW pid, NEW p, PaymentsWith(pid) = {p}
    PROVE  Booked(pid) = [amount |-> p.amount, account |-> p.account,
                          credits |-> {CreditOf(a) : a \in AllocationsOf(pid)}]
BY DEF Booked, CreditOf

LEMMA BookedThen ==
    ASSUME NEW pid, NEW p, PaymentsWith(pid)' = {p}
    PROVE  Booked(pid)' = [amount |-> p.amount, account |-> p.account,
                           credits |-> {CreditOf(a) : a \in AllocationsOf(pid)'}]
BY DEF Booked, CreditOf

LEMMA BookedSame ==
    ASSUME NEW pid, PaymentsWith(pid)' = PaymentsWith(pid),
           AllocationsOf(pid)' = AllocationsOf(pid)
    PROVE  Booked(pid)' = Booked(pid)
BY DEF Booked

(* A commit books its payment, credits it late, or adds nothing.           *)
LEMMA CommitReceives ==
    ASSUME Inv, NEW w \in Workers, Commit(w)
    PROVE  [Book!Next]_Bookings
<1>1. PICK t, d, pid : t = task[w] /\ d = draft[w] /\ pid = Pid(t)
  OBVIOUS
<1>2. /\ t \in Task /\ Drafts(t, d) /\ pid \in Pids /\ Accounted(pid) /\ Known(w) /\ TypeInv
      /\ BookInv
  BY <1>1, CommitRows DEF Inv, BookInv
<1>3. \A q \in Pids \ {pid} : Booked(q)' = Booked(q)
  BY <1>1, <1>2, CommitElsewhere, BookedSame DEF SameBook
<1>4. \A b : Booked(pid)' = b => Bookings' = [Bookings EXCEPT ![pid] = b]
  BY <1>2, <1>3, BookingsAre
<1>5. Bookings[pid] = Booked(pid)
  BY <1>2, BookingsAre
<1>6. CASE Linking(t, d)
  <2>1. Booked(pid)' = Booked(pid)
    BY <1>1, <1>2, <1>6, CommitBooks, BookedSame DEF SameBook
  <2> QED BY <1>3, <2>1, BookingsAre
<1>7. ASSUME IsIntake(t), t.msg.amount # None, Untouched(pid),
             PaymentsWith(pid)' = {PaymentOf(t)},
             NEW cs, cs = {CreditOf(a) : a \in AllocationsOf(pid)'},
             cs \in {{}, {[wallet |-> t.msg.account, amount |-> t.msg.amount]}},
             t.msg.account = None => cs = {}
      PROVE  Book!Next
  <2>1. /\ t.msg.amount \in Money /\ t.msg.account \in Subscribers \cup {None}
        /\ PaymentOf(t).amount = t.msg.amount /\ PaymentOf(t).account = t.msg.account
    BY <1>2, <1>7, TaskParts, PaymentTyped
  <2>2. PICK p : p = PaymentOf(t)
    OBVIOUS
  <2>3. Booked(pid)' = [amount |-> t.msg.amount, account |-> t.msg.account, credits |-> cs]
    BY <1>7, <2>1, <2>2, BookedThen
  <2>4. Bookings' = [Bookings EXCEPT ![pid] =
          [amount |-> t.msg.amount, account |-> t.msg.account, credits |-> cs]]
    BY <1>4, <2>3
  <2>5. Bookings[pid] = None
    BY <1>5, <1>7 DEF Booked, Untouched
  <2>6. Book!Receive(pid, t.msg.amount, t.msg.account)
    BY <1>7, <2>4, <2>5 DEF Book!Receive, Book!Credit
  <2> QED BY <1>2, <2>1, <2>6 DEF Book!Next, Money
<1>8. CASE Opening(t, d)
  <2>1. /\ Untouched(pid) /\ PaymentsWith(pid)' = {PaymentOf(t)} /\ AllocationsOf(pid)' = {}
        /\ IsIntake(t) /\ t.msg.amount # None
    BY <1>1, <1>2, <1>8, CommitBooks DEF Opening
  <2>2. {CreditOf(a) : a \in AllocationsOf(pid)'} = {}
    BY <2>1
  <2> QED BY <1>7, <2>1, <2>2
<1>9. CASE Crediting(t, d)
  <2>1. /\ Untouched(pid) /\ PaymentsWith(pid)' = {PaymentOf(t)}
        /\ AllocationsOf(pid)' = {d.allocation}
        /\ IsIntake(t) /\ t.msg.amount # None /\ t.msg.account \in Subscribers
        /\ d.allocation.wallet = t.msg.account /\ d.allocation.amount = t.msg.amount
    BY <1>1, <1>2, <1>9, CommitBooks DEF Crediting
  <2>2. {CreditOf(a) : a \in AllocationsOf(pid)'} =
          {[wallet |-> t.msg.account, amount |-> t.msg.amount]}
    BY <2>1 DEF CreditOf
  <2>3. t.msg.account # None
    BY <2>1, NoneApart
  <2> QED BY <1>7, <2>1, <2>2, <2>3
<1>10. CASE Resolving(t, d)
  <2>1. /\ CasesOf(pid) # {} /\ AllocationsOf(pid) = {}
        /\ PaymentsWith(pid)' = PaymentsWith(pid)
        /\ AllocationsOf(pid)' = {d.allocation}
    BY <1>1, <1>2, <1>10, CommitBooks
  <2>2. PICK p \in Payment : PaymentsWith(pid) = {p}
    BY <1>2, <2>1 DEF Accounted, Untouched
  <2>3. /\ t.subscriber \in Subscribers /\ d.allocation # None
        /\ d.allocation.wallet = t.subscriber /\ d.allocation.amount = p.amount
    BY <1>1, <1>2, <1>10, <2>2, TaskParts, NoneApart DEF Resolving, Known, CreditsAll
  <2>4. Booked(pid) = [amount |-> p.amount, account |-> p.account, credits |-> {}]
    BY <2>1, <2>2, BookedWith
  <2>5. Booked(pid)' = [amount |-> p.amount, account |-> p.account,
                        credits |-> {[wallet |-> t.subscriber, amount |-> p.amount]}]
    <3>1. {CreditOf(a) : a \in AllocationsOf(pid)'} =
            {[wallet |-> t.subscriber, amount |-> p.amount]}
      BY <2>1, <2>3 DEF CreditOf
    <3> QED BY <2>1, <2>2, <3>1, BookedThen
  <2>6. Booked(pid) # None
    <3>1. Booked(pid) \in [amount: Money, account: Subscribers \cup {None},
                           credits: SUBSET [wallet: Subscribers, amount: Money]]
      BY <2>4 DEF Payment
    <3> QED BY <3>1, PaymentIntakeAssumption
  <2>7. Bookings' = [Bookings EXCEPT ![pid] =
          [amount |-> p.amount, account |-> p.account,
           credits |-> {[wallet |-> t.subscriber, amount |-> p.amount]}]]
    BY <1>4, <2>5
  <2>8. Book!Assign(pid, t.subscriber)
    <3>1. PICK b, cs : /\ b = Bookings[pid]
                       /\ cs = {[wallet |-> t.subscriber, amount |-> p.amount]}
      OBVIOUS
    <3>2. b = [amount |-> p.amount, account |-> p.account, credits |-> {}]
      BY <1>5, <2>4, <3>1
    <3>3. [b EXCEPT !.credits = cs] = [amount |-> p.amount, account |-> p.account, credits |-> cs]
      BY <3>2
    <3>4. Bookings' = [Bookings EXCEPT ![pid].credits = cs]
      BY <2>7, <3>1, <3>3
    <3>5. Bookings[pid] # None /\ Bookings[pid].credits = {}
      BY <1>5, <2>6, <3>1, <3>2
    <3>6. cs = {Book!Credit(t.subscriber, Bookings[pid].amount)}
      BY <3>1, <3>2 DEF Book!Credit
    <3> QED BY <3>4, <3>5, <3>6 DEF Book!Assign
  <2> QED BY <1>2, <2>3, <2>8 DEF Book!Next
<1> QED BY <1>2, <1>6, <1>8, <1>9, <1>10 DEF Drafts

(* The committed rows are a payment book: no payment is received twice or  *)
(* changed, and no credit is repeated, moved or taken back.                *)
THEOREM PaymentIntakeImplementsBook == Spec => ImplementsBook
<1>1. Init => Book!Init
  BY DEF Init, Book!Init, Bookings, Booked, PaymentsWith
<1>2. Inv /\ [Next]_vars => [Book!Next]_Bookings
  <2> SUFFICES ASSUME Inv, [Next]_vars PROVE [Book!Next]_Bookings
    OBVIOUS
  <2>1. CASE UNCHANGED <<payments, allocations>>
    <3>1. \A pid : Booked(pid)' = Booked(pid)
      BY <2>1, BookedSame DEF PaymentsWith, AllocationsOf
    <3> QED BY <3>1, BookingsAre
  <2>2. CASE ~UNCHANGED <<payments, allocations>>
    BY <2>2, OnlyCommitsBook, CommitReceives
  <2> QED BY <2>1, <2>2
<1> QED BY <1>1, <1>2, AlwaysInv, PTL DEF Spec, ImplementsBook, Book!Spec

-----------------------------------------------------------------------------
(* The committed rows, seen as an account.  An identifier that an open     *)
(* transaction is about to spend is spent by no row, and by no other open  *)
(* transaction: the unique indexes make the second one wait.               *)

Unspent(w) ==
    LET a == draft[w].allocation IN
    a # None =>
        /\ ~OpUsed(a.op)
        /\ \A v \in Workers \ {w} :
             draft[v].allocation # None => draft[v].allocation.op # a.op

SpentInv == \A w \in Workers : Unspent(w)

(* Nothing is spent, and no open transaction is about to spend more.       *)
LEMMA NothingSpent ==
    ASSUME SpentInv, UNCHANGED <<allocations, elsewhere>>,
           \A v \in Workers : draft'[v].allocation \in {None, draft[v].allocation}
    PROVE  SpentInv'
<1>1. \A o : OpUsed(o)' <=> OpUsed(o)
  BY DEF OpUsed
<1> QED BY <1>1 DEF SpentInv, Unspent

LEMMA CreditSpends ==
    ASSUME Inv, SpentInv, NEW w \in Workers, Credit(w)
    PROVE  SpentInv'
<1>1. draft \in [Workers -> Draft] /\ NoDraft.allocation = None
  BY DEF Inv, TypeInv, LocalTyped, NoDraft
<1>2. UNCHANGED <<allocations, elsewhere>>
  BY DEF Credit, Refuse, rows
<1>3. CASE Refuse(w)
  BY <1>1, <1>2, <1>3, NothingSpent DEF Refuse, Finish
<1>4. CASE ~Refuse(w)
  <2>1. PICK a, d : a = NewAllocation(task[w]) /\ d = Credited(task[w])
    OBVIOUS
  <2>2. /\ ~OpUsed(a.op) /\ ~DraftedElsewhere(w, a.op, a.payment)
        /\ draft' = [draft EXCEPT ![w] = d]
    BY <1>4, <2>1 DEF Credit
  <2>3. d.allocation = a
    BY <2>1 DEF Credited
  <2>4. \A o : OpUsed(o)' <=> OpUsed(o)
    BY <1>2 DEF OpUsed
  <2>5. draft'[w] = d /\ \A v \in Workers \ {w} : draft'[v] = draft[v]
    BY <1>1, <2>2
  <2>6. \A v \in Workers \ {w} :
          draft[v].allocation # None => draft[v].allocation.op # a.op
    BY <2>2 DEF DraftedElsewhere
  <2> QED BY <2>2, <2>3, <2>4, <2>5, <2>6 DEF SpentInv, Unspent
<1> QED BY <1>3, <1>4

LEMMA CommitSpends ==
    ASSUME Inv, SpentInv, NEW w \in Workers, Commit(w)
    PROVE  SpentInv'
<1>1. draft \in [Workers -> Draft] /\ NoDraft.allocation = None
  BY DEF Inv, TypeInv, LocalTyped, NoDraft
<1>2. /\ draft'[w].allocation = None
      /\ \A v \in Workers \ {w} : draft'[v] = draft[v]
  BY <1>1 DEF Commit, Finish
<1>3. PICK a : a = draft[w].allocation
  OBVIOUS
<1>4. allocations' = allocations \cup ({a} \ {None}) /\ elsewhere' = elsewhere
  BY <1>3 DEF Commit
<1>5. \A o : OpUsed(o)' => OpUsed(o) \/ (a # None /\ a.op = o)
  BY <1>4 DEF OpUsed
<1> QED BY <1>2, <1>3, <1>5 DEF SpentInv, Unspent

LEMMA PostElsewhereSpends ==
    ASSUME Inv, SpentInv, NEW s \in Subscribers, NEW o \in Ops, NEW b \in 0..MaxMoney,
           PostElsewhere(s, o, b)
    PROVE  SpentInv'
<1>1. PICK e : e = [op |-> o, wallet |-> s, amount |-> b - balance[s]]
  OBVIOUS
<1>2. e.op = o /\ allocations' = allocations /\ elsewhere' = elsewhere \cup {e} /\ draft' = draft
  BY <1>1 DEF PostElsewhere, local
<1>3. \A x : OpUsed(x)' => OpUsed(x) \/ x = o
  BY <1>2 DEF OpUsed
<1>4. \A v \in Workers : draft[v].allocation # None => draft[v].allocation.op # o
  BY DEF PostElsewhere
<1> QED BY <1>2, <1>3, <1>4 DEF SpentInv, Unspent

(* Every other step of a worker drops its draft or leaves what it credits. *)
LEMMA ElseSpendsNothing ==
    ASSUME Inv, NEW w \in Workers, Proceed(w), ~Credit(w), ~Commit(w)
    PROVE  /\ UNCHANGED <<allocations, elsewhere, balance>>
           /\ \A v \in Workers : draft'[v].allocation \in {None, draft[v].allocation}
<1>1. draft \in [Workers -> Draft] /\ NoDraft.allocation = None
  BY DEF Inv, TypeInv, LocalTyped, NoDraft
<1>2. \A t : Received(t).allocation = None /\ SetAside(t).allocation = None
  BY DEF Received, SetAside
<1> USE DEF rows, local, LockThen, Accept, Refuse, Finish
<1>3. ASSUME Capture(w) \/ LockEvent(w) \/ LockProfile(w)
      PROVE  /\ UNCHANGED <<allocations, elsewhere, balance>>
             /\ \A v \in Workers : draft'[v].allocation \in {None, draft[v].allocation}
  BY <1>1, <1>3 DEF Capture, LockEvent, LockProfile
<1>4. ASSUME FindPayment(w) \/ InsertPayment(w)
      PROVE  /\ UNCHANGED <<allocations, elsewhere, balance>>
             /\ \A v \in Workers : draft'[v].allocation \in {None, draft[v].allocation}
  BY <1>1, <1>2, <1>4 DEF FindPayment, InsertPayment, Reuse
<1>5. ASSUME Match(w) \/ PickCase(w) \/ LockCase(w)
      PROVE  /\ UNCHANGED <<allocations, elsewhere, balance>>
             /\ \A v \in Workers : draft'[v].allocation \in {None, draft[v].allocation}
  BY <1>1, <1>2, <1>5 DEF Match, PickCase, LockCase
<1>6. ASSUME LockPayment(w) \/ LockSubscriber(w) \/ Respond(w)
      PROVE  /\ UNCHANGED <<allocations, elsewhere, balance>>
             /\ \A v \in Workers : draft'[v].allocation \in {None, draft[v].allocation}
  BY <1>1, <1>6 DEF LockPayment, LockSubscriber, Respond
<1> HIDE DEF rows, local, LockThen, Accept, Refuse, Finish
<1> QED BY <1>3, <1>4, <1>5, <1>6 DEF Proceed

(* And so does what is not a worker's.                                     *)
LEMMA AroundSpendsNothing ==
    ASSUME Inv, Next, ~(\E w \in Workers : Proceed(w)),
           ~(\E s \in Subscribers, o \in Ops, b \in 0..MaxMoney : PostElsewhere(s, o, b))
    PROVE  /\ UNCHANGED <<allocations, elsewhere, balance>>
           /\ \A v \in Workers : draft'[v].allocation \in {None, draft[v].allocation}
<1>1. NoDraft.allocation = None
  BY DEF NoDraft
<1>2. ASSUME NEW w \in Workers,
             EnterFake(w) \/ ResolveCase(w) \/ (\E m \in Messages : Deliver(w, m)) \/ Crash(w)
      PROVE  /\ UNCHANGED <<allocations, elsewhere, balance>>
             /\ \A v \in Workers : draft'[v].allocation \in {None, draft[v].allocation}
  BY <1>1, <1>2 DEF EnterFake, ResolveCase, Deliver, Start, Crash, Stop, rows
<1>3. ASSUME Environment
      PROVE  /\ UNCHANGED <<allocations, elsewhere, balance>>
             /\ \A v \in Workers : draft'[v].allocation \in {None, draft[v].allocation}
  BY <1>1, <1>3 DEF Environment, Redeploy, Stop, SyncProfile, Deactivate, Register, rows, local
<1> QED BY <1>2, <1>3 DEF Next

LEMMA NextSpends == Inv /\ SpentInv /\ [Next]_vars => SpentInv'
<1> SUFFICES ASSUME Inv, SpentInv, [Next]_vars PROVE SpentInv'
  OBVIOUS
<1>1. CASE UNCHANGED vars
  BY <1>1, NothingSpent DEF vars, rows, local
<1>2. CASE Next
  BY <1>2, CreditSpends, CommitSpends, PostElsewhereSpends, NothingSpent,
     ElseSpendsNothing, AroundSpendsNothing
<1> QED BY <1>1, <1>2

LEMMA AlwaysSpent == Spec => []SpentInv
<1>1. Init => SpentInv
  BY DEF Init, SpentInv, Unspent, NoDraft
<1> QED BY <1>1, NextSpends, AlwaysInv, PTL DEF Spec

(* A row with an identifier of its own is a move of the account.           *)
LEMMA RowMoves ==
    ASSUME NEW e, e.op \in Operations, e.wallet \in Subscribers, e.amount \in -MaxMoney..MaxMoney,
           ~OpUsed(e.op), balance[e.wallet] + e.amount \in 0..MaxMoney,
           balance' = [balance EXCEPT ![e.wallet] = @ + e.amount],
           allocations' \cup elsewhere' = (allocations \cup elsewhere) \cup {e}
    PROVE  Abstract!Next
<1>1. PICK m : m = MoveOf(e)
  OBVIOUS
<1>2. /\ m.op = e.op /\ m.subscriber = e.wallet /\ m.delta = e.amount /\ m.undoes = None
      /\ m = [op |-> e.op, subscriber |-> e.wallet, delta |-> e.amount, undoes |-> None]
  BY <1>1 DEF MoveOf
<1>3. \A n \in Moves : n.op # m.op
  BY <1>2 DEF Moves, MoveOf, OpUsed
<1>4. Moves' = Moves \cup {m}
  BY <1>1 DEF Moves, MoveOf
<1>5. Abstract!Apply(m)
  BY <1>2, <1>3, <1>4 DEF Abstract!Apply
<1> QED BY <1>2, <1>5 DEF Abstract!Next

LEMMA CommitMoves ==
    ASSUME Inv, SpentInv, NEW w \in Workers, Commit(w)
    PROVE  [Abstract!Next]_<<balance, Moves>>
<1>1. PICK a : a = draft[w].allocation
  OBVIOUS
<1>2. /\ allocations' = allocations \cup ({a} \ {None}) /\ elsewhere' = elsewhere
      /\ balance' = IF a = None THEN balance ELSE [balance EXCEPT ![a.wallet] = @ + a.amount]
  BY <1>1 DEF Commit
<1>3. CASE a = None
  <2>1. UNCHANGED <<allocations, elsewhere, balance>>
    BY <1>2, <1>3
  <2> QED BY <2>1 DEF Moves, MoveOf
<1>4. CASE a # None
  <2>1. a \in Allocation
    BY <1>1, <1>4 DEF Inv, TypeInv, LocalTyped, Draft
  <2>2. a.op \in Operations /\ a.wallet \in Subscribers /\ a.amount \in -MaxMoney..MaxMoney
    BY <2>1, PaymentIntakeAssumption DEF Allocation, Money
  <2>3. ~OpUsed(a.op)
    BY <1>1, <1>4 DEF SpentInv, Unspent
  <2>4. balance[a.wallet] + a.amount \in 0..MaxMoney
    BY <1>1, <1>4 DEF Inv, BookInv, Known, FindsRoom
  <2>5. allocations' \cup elsewhere' = (allocations \cup elsewhere) \cup {a}
    BY <1>2, <1>4
  <2> QED BY <1>2, <1>4, <2>2, <2>3, <2>4, <2>5, RowMoves
<1> QED BY <1>3, <1>4

LEMMA PostElsewhereMoves ==
    ASSUME Inv, NEW s \in Subscribers, NEW o \in Ops, NEW b \in 0..MaxMoney,
           PostElsewhere(s, o, b)
    PROVE  Abstract!Next
<1>1. PICK e : e = [op |-> o, wallet |-> s, amount |-> b - balance[s]]
  OBVIOUS
<1>2. e.op = o /\ e.wallet = s /\ e.amount = b - balance[s]
  BY <1>1
<1>3. balance \in [Subscribers -> 0..MaxMoney] /\ MaxMoney \in Nat
  BY PaymentIntakeAssumption DEF Inv, BookInv
<1>4. e.amount \in -MaxMoney..MaxMoney /\ balance[s] + e.amount = b
  BY <1>2, <1>3
<1>5. balance' = [balance EXCEPT ![s] = @ + e.amount]
  <2>1. balance' = [balance EXCEPT ![s] = b]
    BY DEF PostElsewhere
  <2> QED BY <1>4, <2>1
<1>6. allocations' \cup elsewhere' = (allocations \cup elsewhere) \cup {e} /\ ~OpUsed(o)
  BY <1>1 DEF PostElsewhere
<1>7. o \in Operations
  BY DEF Operations
<1> QED BY <1>2, <1>4, <1>5, <1>6, <1>7, RowMoves

(* Payments and what other services post are one account: an identifier    *)
(* moves a wallet once, and no wallet leaves its range.                    *)
THEOREM PaymentIntakeImplementsAccount == Spec => ImplementsAccount
<1>1. Init => Abstract!Init
  BY DEF Init, Abstract!Init, Moves
<1>2. Inv /\ SpentInv /\ [Next]_vars => [Abstract!Next]_<<balance, Moves>>
  <2> SUFFICES ASSUME Inv, SpentInv, [Next]_vars PROVE [Abstract!Next]_<<balance, Moves>>
    OBVIOUS
  <2>1. CASE UNCHANGED <<allocations, elsewhere, balance>>
    BY <2>1 DEF Moves, MoveOf
  <2>2. CASE UNCHANGED vars
    BY <2>1, <2>2 DEF vars, rows
  <2>3. ASSUME NEW w \in Workers, Credit(w) PROVE UNCHANGED <<allocations, elsewhere, balance>>
    BY <2>3 DEF Credit, Refuse, rows
  <2>4. CASE Next
    BY <2>1, <2>3, <2>4, CommitMoves, PostElsewhereMoves, ElseSpendsNothing, AroundSpendsNothing
  <2> QED BY <2>2, <2>4
<1> QED BY <1>1, <1>2, AlwaysInv, AlwaysSpent, PTL DEF Spec, ImplementsAccount, Abstract!Spec

(* The wallets therefore hold what the rows moved, whichever services ran  *)
(* at once, repeated each other or died: the balance of a subscriber is    *)
(* the sum of its credits and of what other services posted, and no        *)
(* identifier stands for two rows.                                         *)
Kept == INSTANCE AccountProofs WITH Ops <- Operations, moves <- Moves

THEOREM IntakeKeepsPromises == Spec => []Kept!Promises
<1>1. MaxMoney \in Nat /\ Kept!Spec => []Kept!Promises
  BY Kept!PromisesKept
<1>2. MaxMoney \in Nat
  BY PaymentIntakeAssumption
<1>3. Abstract!Init => Kept!Init
  BY DEF Abstract!Init, Kept!Init
<1>4. [Abstract!Next]_<<balance, Moves>> => [Kept!Next]_<<balance, Moves>>
  BY DEF Abstract!Next, Kept!Next, Abstract!Apply, Kept!Apply,
         Abstract!Undoable, Kept!Undoable
<1>5. Abstract!Spec => Kept!Spec
  BY <1>3, <1>4, PTL DEF Abstract!Spec, Kept!Spec
<1> QED
  BY <1>1, <1>2, <1>5, PaymentIntakeImplementsAccount, PTL DEF ImplementsAccount

=============================================================================
