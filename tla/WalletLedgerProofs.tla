------------------------- MODULE WalletLedgerProofs -------------------------
(***************************************************************************)
(* Proofs about WalletLedger, for every set of workers, subscribers,       *)
(* identifiers, reasons and amounts, and every money limit.                *)
(***************************************************************************)
EXTENDS WalletLedger, TLAPS

-----------------------------------------------------------------------------
(* The last row of a wallet.  LatestEntry chooses one; that there is one   *)
(* to choose is an invariant (rows are only ever added one at a time).     *)

IsLast(e, rows, s) ==
    /\ e \in rows
    /\ e.wallet = s
    /\ \A f \in rows : f.wallet = s => f.seq <= e.seq

HasRows(rows, s) == \E e \in rows : e.wallet = s

HaveLast(rows) == \A s \in Subscribers : HasRows(rows, s) => \E e \in rows : IsLast(e, rows, s)

(* LatestEntry returns the last row of a wallet that has rows, else None.  *)
LEMMA LatestEntryFound ==
    ASSUME NEW rows, NEW s \in Subscribers, HaveLast(rows)
    PROVE  /\ HasRows(rows, s) => IsLast(LatestEntry(rows, s), rows, s)
           /\ ~HasRows(rows, s) => LatestEntry(rows, s) = None
<1> DEFINE own == {e \in rows : e.wallet = s}
<1>1. CASE HasRows(rows, s)
  <2>1. PICK l \in rows : IsLast(l, rows, s)
    BY <1>1 DEF HaveLast
  <2>2. l \in own /\ \A f \in own : f.seq <= l.seq
    BY <2>1 DEF IsLast
  <2>3. LatestEntry(rows, s) = CHOOSE e \in own : \A f \in own : f.seq <= e.seq
    BY <2>2 DEF LatestEntry
  <2>4. /\ LatestEntry(rows, s) \in own
        /\ \A f \in own : f.seq <= LatestEntry(rows, s).seq
    BY <2>2, <2>3
  <2> QED
    BY <1>1, <2>4 DEF IsLast
<1>2. CASE ~HasRows(rows, s)
  <2>1. own = {}
    BY <1>2 DEF HasRows
  <2> QED
    BY <1>2, <2>1 DEF LatestEntry
<1> QED
  BY <1>1, <1>2

(* Adding one row keeps a last row in every wallet.                        *)
LEMMA AddKeepsLast ==
    ASSUME NEW rows \in SUBSET Entry, HaveLast(rows), NEW e \in Entry
    PROVE  HaveLast(rows \cup {e})
<1> SUFFICES ASSUME NEW s \in Subscribers, HasRows(rows \cup {e}, s)
             PROVE  \E l \in rows \cup {e} : IsLast(l, rows \cup {e}, s)
  BY DEF HaveLast
<1>0. \A f \in rows \cup {e} : f.seq \in Nat
  BY DEF Entry
<1>1. CASE ~HasRows(rows, s)
  <2>1. e.wallet = s /\ \A f \in rows \cup {e} : f.wallet = s => f = e
    BY <1>1 DEF HasRows
  <2> QED
    BY <2>1, <1>0 DEF IsLast
<1>2. CASE HasRows(rows, s)
  <2>1. PICK l \in rows : IsLast(l, rows, s)
    BY <1>2 DEF HaveLast
  <2>2. CASE e.wallet = s /\ l.seq <= e.seq
    BY <2>1, <2>2, <1>0 DEF IsLast
  <2>3. CASE ~(e.wallet = s /\ l.seq <= e.seq)
    BY <2>1, <2>3, <1>0 DEF IsLast
  <2> QED
    BY <2>2, <2>3
<1> QED
  BY <1>1, <1>2

(* A row of one wallet does not change what is last in another.            *)
LEMMA AddElsewhere ==
    ASSUME NEW rows, NEW e, NEW s, e.wallet # s
    PROVE  LatestEntry(rows \cup {e}, s) = LatestEntry(rows, s)
<1> DEFINE Own(R) == {f \in R : f.wallet = s}
           Last(own) == IF own = {} THEN None ELSE CHOOSE l \in own : \A f \in own : f.seq <= l.seq
<1>1. Own(rows \cup {e}) = Own(rows)
  OBVIOUS
<1>2. /\ LatestEntry(rows, s) = Last(Own(rows))
      /\ LatestEntry(rows \cup {e}, s) = Last(Own(rows \cup {e}))
  BY DEF LatestEntry
<1> HIDE DEF Own, Last
<1> QED
  BY <1>1, <1>2

-----------------------------------------------------------------------------
(* Type correctness.  TypeOK alone is not inductive: a worker computes its *)
(* draft from the call it serves and from its latest entry, and these must *)
(* be there when it does.                                                  *)

Drafted == {"full_clean", "insert", "commit"}

WorkersReady ==
    \A w \in Workers :
        /\ pc[w] # "idle" => req[w] \in Request
        /\ pc[w] = "lock_target" => req[w].type = "reversal"
        /\ pc[w] \in Drafted =>
             /\ draft[w] \in Entry
             /\ draft[w] = NewEntry(w)

TypeInv == TypeOK /\ HaveLast(entries) /\ WorkersReady

(* A call asks for something well-formed.                                  *)
LEMMA CallsTyped ==
    ASSUME entries \subseteq Entry
    PROVE  Adjustments \cup Reversals(entries) \subseteq Request
<1>1. Adjustments \subseteq Request
  BY WalletLedgerAssumption
     DEF Adjustments, Request, Directions, ManualTypes, ManualEntryType
<1>2. Reversals(entries) \subseteq Request
  BY LedgerAssumption DEF Reversals, Request, Entry, Directions, OppositeDirection
<1> QED
  BY <1>1, <1>2

(* What the service computes is a row, when the balance is in range.       *)
LEMMA NewEntryTyped ==
    ASSUME NEW w \in Workers, TypeInv, pc[w] # "idle",
           BalanceAllowed(NewEntry(w).balance_after)
    PROVE  NewEntry(w) \in Entry
<1>1. req[w] \in Request /\ latest[w] \in Entry \cup {None}
  BY DEF TypeInv, TypeOK, WorkersReady
<1>2. NewEntry(w).balance_after \in Balances
  <2>1. CurrentBalance(latest[w]) \in Int /\ req[w].amount \in Int
    BY <1>1, LedgerAssumption DEF CurrentBalance, Entry, Request, Balances, Money
  <2>2. NewEntry(w).balance_after \in Int
    BY <2>1 DEF NewEntry, ResultingBalance
  <2> QED
    BY <2>2, LedgerAssumption DEF BalanceAllowed, Balances
<1>3. NewEntry(w).seq \in Nat \ {0}
  BY <1>1 DEF NewEntry, NextSequence, Entry
<1>4. NewEntry(w).previous \in Ops \cup {None}
  BY <1>1 DEF NewEntry, Entry
<1> QED
  BY <1>1, <1>2, <1>3, <1>4 DEF NewEntry, Entry, Request, EntryTypes

(* Ending a transaction, with or without its rows.                         *)
LEMMA FinishTyped ==
    ASSUME TypeInv, NEW w \in Workers, pc[w] # "idle",
           NEW answer \in Accepted \cup Refused, Finish(w, answer),
           entries' \subseteq Entry, wallets' \subseteq Subscribers, HaveLast(entries')
    PROVE  TypeInv'
<1>1. TypeOK'
  BY DEF TypeInv, TypeOK, Finish, Goto, Steps
<1>2. WorkersReady'
  BY DEF TypeInv, TypeOK, WorkersReady, Drafted, Finish, Goto, NewEntry
<1> QED
  BY <1>1, <1>2 DEF TypeInv, HaveLast, HasRows, IsLast

LEMMA ReturnTyped ==
    ASSUME TypeInv, NEW w \in Workers, pc[w] # "idle",
           NEW answer \in Accepted \cup Refused, Return(w, answer)
    PROVE  TypeInv'
BY FinishTyped DEF TypeInv, TypeOK, Return

LEMMA CheckExistingTyped ==
    ASSUME TypeInv, NEW w \in Workers, pc[w] # "idle",
           NEW step \in {"lock_subscriber", "build"}, CheckExisting(w, step)
    PROVE  TypeInv'
<1>1. CASE \E e \in UsesOf(req[w].op) :
             Return(w, IF Answers(req[w], e) THEN "replayed" ELSE "operation_conflict")
  BY <1>1, ReturnTyped DEF Accepted, Refused
<1>2. CASE /\ Goto(w, step)
           /\ UNCHANGED <<entries, wallets, req, rowLocks, newWallet, latest, draft, reply>>
  BY <1>2 DEF TypeInv, TypeOK, WorkersReady, Drafted, Goto, Steps, NewEntry, HaveLast, HasRows,
              IsLast
<1> QED
  BY <1>1, <1>2 DEF CheckExisting

(* A step that only moves one worker on, and does not touch its call, its  *)
(* latest entry or its draft.                                              *)
LEMMA MoveTyped ==
    ASSUME TypeInv, NEW w \in Workers, pc[w] # "idle",
           NEW step \in Steps \ Drafted, Goto(w, step),
           step = "lock_target" => req[w].type = "reversal",
           UNCHANGED <<entries, wallets, req, latest, draft, reply>>,
           rowLocks' \in [Workers -> SUBSET Rows], newWallet' \in [Workers -> BOOLEAN]
    PROVE  TypeInv'
<1>1. TypeOK'
  BY DEF TypeInv, TypeOK, Goto
<1>2. WorkersReady'
  BY DEF TypeInv, TypeOK, WorkersReady, Drafted, Goto, NewEntry
<1> QED
  BY <1>1, <1>2 DEF TypeInv, HaveLast, HasRows, IsLast

(* The locks a worker takes are on rows of the database.                   *)
LEMMA TakeLockTyped ==
    ASSUME TypeInv, NEW w \in Workers, NEW row \in Rows, TakeLock(w, row)
    PROVE  rowLocks' \in [Workers -> SUBSET Rows]
BY DEF TypeInv, TypeOK, TakeLock

LEMMA RowsTyped ==
    /\ \A s \in Subscribers : SubscriberRow(s) \in Rows /\ WalletRow(s) \in Rows
    /\ \A o \in Ops : EntryRow(o) \in Rows
BY DEF SubscriberRow, WalletRow, EntryRow, Rows

LEMMA ProceedTyped ==
    ASSUME TypeInv, NEW w \in Workers, Proceed(w)
    PROVE  TypeInv'
<1> USE DEF TypeInv
<1>0. pc[w] # "idle"
  BY DEF Proceed, FirstCheck, LockSubscriber, LockWallet, CreateWallet, PickLatest,
         LockLatest, LockTarget, Recheck, Build, FullClean, Insert, Commit, Respond
<1>a. req[w] \in Request /\ latest[w] \in Entry \cup {None}
  BY <1>0 DEF WorkersReady, TypeOK
<1>1. CASE FirstCheck(w)
  BY <1>0, <1>1, CheckExistingTyped DEF FirstCheck
<1>2. CASE LockSubscriber(w)
  <2>1. rowLocks' \in [Workers -> SUBSET Rows]
    BY <1>a, <1>2, TakeLockTyped, RowsTyped DEF LockSubscriber, Request
  <2> QED
    BY <1>0, <1>2, <2>1, MoveTyped DEF LockSubscriber, Drafted, Steps, TypeOK
<1>3. CASE LockWallet(w)
  <2>1. rowLocks' \in [Workers -> SUBSET Rows]
    BY <1>a, <1>3, TakeLockTyped, RowsTyped DEF LockWallet, Request, TypeOK
  <2> QED
    BY <1>0, <1>3, <2>1, MoveTyped DEF LockWallet, Drafted, Steps, TypeOK
<1>4. CASE CreateWallet(w)
  <2>1. CASE req[w].wallet \in wallets
    BY <1>0, <1>4, <2>1, ReturnTyped DEF CreateWallet, Refused
  <2>2. CASE req[w].wallet \notin wallets
    BY <1>0, <1>4, <2>2, MoveTyped DEF CreateWallet, Drafted, Steps, TypeOK
  <2> QED
    BY <2>1, <2>2
<1>5. CASE PickLatest(w)
  <2>1. LatestEntry(entries, req[w].wallet) \in Entry \cup {None}
    BY <1>a, LatestEntryFound DEF TypeOK, Request, IsLast
  <2>2. TypeOK'
    BY <1>5, <2>1 DEF PickLatest, Goto, TypeOK, Steps
  <2>3. WorkersReady'
    BY <1>0, <1>5 DEF PickLatest, Goto, TypeOK, WorkersReady, Drafted, NewEntry
  <2> QED
    BY <1>5, <2>2, <2>3 DEF PickLatest, HaveLast, HasRows, IsLast
<1>6. CASE LockLatest(w)
  <2>1. rowLocks' \in [Workers -> SUBSET Rows]
    BY <1>a, <1>6, TakeLockTyped, RowsTyped DEF LockLatest, Entry, TypeOK
  <2> QED
    BY <1>0, <1>6, <2>1, MoveTyped DEF LockLatest, Drafted, Steps, TypeOK
<1>7. CASE LockTarget(w)
  <2>1. EntryRow(req[w].reverses) \in Rows
    BY <1>7, <1>a, RowsTyped DEF LockTarget, WorkersReady, Request
  <2>2. rowLocks' \in [Workers -> SUBSET Rows]
    BY <1>a, <1>7, <2>1, TakeLockTyped DEF LockTarget
  <2> QED
    BY <1>0, <1>7, <2>2, MoveTyped DEF LockTarget, Drafted, Steps, TypeOK
<1>8. CASE Recheck(w)
  BY <1>0, <1>8, CheckExistingTyped DEF Recheck
<1>9. CASE Build(w)
  <2>1. CASE \E answer \in Refused : Return(w, answer)
    BY <1>0, <2>1, ReturnTyped
  <2>2. CASE /\ BalanceAllowed(NewEntry(w).balance_after)
             /\ draft' = [draft EXCEPT ![w] = NewEntry(w)]
             /\ Goto(w, "full_clean")
             /\ UNCHANGED <<entries, wallets, req, rowLocks, newWallet, latest, reply>>
    <3>1. NewEntry(w) \in Entry
      BY <1>0, <2>2, NewEntryTyped
    <3>2. TypeOK'
      BY <2>2, <3>1 DEF Goto, TypeOK, Steps
    <3>3. WorkersReady'
      BY <1>0, <2>2, <3>1 DEF Goto, TypeOK, WorkersReady, NewEntry
    <3> QED
      BY <2>2, <3>2, <3>3 DEF HaveLast, HasRows, IsLast
  <2> QED
    BY <1>9, <2>1, <2>2 DEF Build, Refused
<1>10. CASE FullClean(w) \/ Insert(w)
  <2>1. CASE \E answer \in Refused : Return(w, answer)
    BY <1>0, <2>1, ReturnTyped
  <2>2. ASSUME NEW step \in {"insert", "commit"}, pc[w] \in {"full_clean", "insert"},
               Goto(w, step),
               UNCHANGED <<entries, wallets, req, rowLocks, newWallet, latest, draft, reply>>
        PROVE  TypeInv'
    <3>1. TypeOK'
      BY <2>2 DEF Goto, TypeOK, Steps
    <3>2. WorkersReady'
      BY <2>2 DEF Goto, TypeOK, WorkersReady, Drafted, NewEntry
    <3> QED
      BY <2>2, <3>1, <3>2 DEF HaveLast, HasRows, IsLast
  <2> QED
    BY <1>10, <2>1, <2>2 DEF FullClean, Insert, Refused
<1>11. CASE Commit(w)
  <2>1. draft[w] \in Entry
    BY <1>11 DEF Commit, WorkersReady, Drafted
  <2>2. entries' \subseteq Entry /\ HaveLast(entries')
    BY <1>11, <2>1, AddKeepsLast DEF Commit, TypeOK
  <2>3. wallets' \subseteq Subscribers
    BY <1>11, <1>a DEF Commit, TypeOK, Request
  <2> QED
    BY <1>0, <1>11, <2>2, <2>3, FinishTyped DEF Commit, Accepted
<1>12. CASE Respond(w)
  <2>1. TypeOK'
    BY <1>12 DEF Respond, Goto, TypeOK, Steps
  <2>2. WorkersReady'
    BY <1>12 DEF Respond, Goto, TypeOK, WorkersReady, Drafted, NewEntry
  <2> QED
    BY <1>12, <2>1, <2>2 DEF Respond, HaveLast, HasRows, IsLast
<1> QED
  BY <1>1, <1>2, <1>3, <1>4, <1>5, <1>6, <1>7, <1>8, <1>9, <1>10, <1>11, <1>12 DEF Proceed

LEMMA SubmitTyped ==
    ASSUME TypeInv, NEW w \in Workers, Submit(w)
    PROVE  TypeInv'
<1>1. PICK r \in Adjustments \cup Reversals(entries) : req' = [req EXCEPT ![w] = r]
  BY DEF Submit
<1>2. r \in Request
  BY <1>1, CallsTyped DEF TypeInv, TypeOK
<1>3. TypeOK'
  BY <1>1, <1>2 DEF TypeInv, TypeOK, Submit, Goto, Steps
<1>4. WorkersReady'
  BY <1>1, <1>2 DEF TypeInv, TypeOK, WorkersReady, Drafted, Submit, Goto, NewEntry
<1> QED
  BY <1>3, <1>4 DEF TypeInv, Submit, HaveLast, HasRows, IsLast

LEMMA CrashTyped ==
    ASSUME TypeInv, NEW w \in Workers, Crash(w)
    PROVE  TypeInv'
<1>1. TypeOK'
  BY DEF TypeInv, TypeOK, Crash, Goto, Steps
<1>2. WorkersReady'
  BY DEF TypeInv, TypeOK, WorkersReady, Drafted, Crash, Goto, NewEntry
<1> QED
  BY <1>1, <1>2 DEF TypeInv, Crash, HaveLast, HasRows, IsLast

(* The row another service adds is a row.                                  *)
LEMMA EntryElsewhereTyped ==
    ASSUME TypeInv, NEW s \in Subscribers, NEW o \in Ops, NEW a \in Amounts,
           NEW r \in Reasons, NEW type \in EntryTypes, NEW d \in Directions,
           BalanceAllowed(EntryElsewhere(s, o, type, d, a, r).balance_after)
    PROVE  EntryElsewhere(s, o, type, d, a, r) \in Entry
<1> DEFINE last == LatestEntry(entries, s)
           e == EntryElsewhere(s, o, type, d, a, r)
<1>1. last \in Entry \cup {None}
  BY LatestEntryFound DEF TypeInv, TypeOK, IsLast
<1>2. a \in Money
  BY WalletLedgerAssumption
<1>3. e.balance_after \in Balances
  <2>1. CurrentBalance(last) \in Int /\ a \in Int
    BY <1>1, <1>2, LedgerAssumption DEF CurrentBalance, Entry, Balances, Money
  <2>2. e.balance_after = ResultingBalance(CurrentBalance(last), d, a)
    BY DEF EntryElsewhere
  <2>3. e.balance_after \in Int
    BY <2>1, <2>2 DEF ResultingBalance
  <2> QED
    BY <2>3, LedgerAssumption DEF BalanceAllowed, Balances
<1>4. e.seq \in Nat \ {0} /\ e.previous \in Ops \cup {None}
  BY <1>1 DEF EntryElsewhere, NextSequence, Entry
<1> QED
  BY <1>2, <1>3, <1>4 DEF EntryElsewhere, Entry

LEMMA ElsewhereTyped ==
    ASSUME TypeInv, Elsewhere
    PROVE  TypeInv'
<1>1. PICK s \in Subscribers, o \in Ops, a \in Amounts, r \in Reasons :
         PaymentCredit(s, o, a, r) \/ BillingCharge(s, o, a, r)
  BY DEF Elsewhere
<1>2. PICK type \in EntryTypes, d \in Directions : PostElsewhere(s, o, type, d, a, r)
  BY <1>1 DEF PaymentCredit, BillingCharge, EntryTypes, Directions
<1> DEFINE e == EntryElsewhere(s, o, type, d, a, r)
<1>3. /\ entries' = entries \cup {e}
      /\ BalanceAllowed(e.balance_after)
      /\ UNCHANGED <<pc, req, rowLocks, newWallet, latest, draft, reply>>
  BY <1>2 DEF PostElsewhere, IsClean
<1>4. e \in Entry
  BY <1>3, EntryElsewhereTyped
<1>5. HaveLast(entries')
  BY <1>3, <1>4, AddKeepsLast DEF TypeInv, TypeOK
<1>6. wallets' \subseteq Subscribers
  BY <1>1 DEF PaymentCredit, BillingCharge, TypeInv, TypeOK
<1>7. TypeOK'
  BY <1>3, <1>4, <1>6 DEF TypeInv, TypeOK
<1>8. WorkersReady'
  BY <1>3 DEF TypeInv, TypeOK, WorkersReady, NewEntry
<1> QED
  BY <1>5, <1>7, <1>8 DEF TypeInv

LEMMA TypeInvInit == Init => TypeInv
BY DEF Init, TypeInv, TypeOK, HaveLast, HasRows, WorkersReady, Drafted, Steps

LEMMA TypeInvStep == TypeInv /\ [Next]_vars => TypeInv'
<1>1. ASSUME TypeInv, UNCHANGED vars PROVE TypeInv'
  BY <1>1 DEF vars, TypeInv, TypeOK, HaveLast, HasRows, IsLast, WorkersReady, Drafted, NewEntry
<1> QED
  BY <1>1, SubmitTyped, ProceedTyped, CrashTyped, ElsewhereTyped DEF Next

LEMMA TypeInvHolds == Spec => []TypeInv
BY TypeInvInit, TypeInvStep, PTL DEF Spec

(* Every variable keeps its type, whatever the workers and the other       *)
(* services do: balances in particular stay between 0 and the money limit. *)
THEOREM TypeCorrect == Spec => []TypeOK
<1>1. TypeInv => TypeOK
  BY DEF TypeInv
<1> QED
  BY <1>1, TypeInvHolds, PTL

-----------------------------------------------------------------------------
(* The chain.  A row is checked before it is inserted and becomes visible  *)
(* when its transaction commits: in between, the unique index keeps every  *)
(* other transaction from taking its keys.                                 *)

Apart(e, f) == ~SameOperation(e, f) /\ ~SamePlace(e, f)

CommittedClean ==
    /\ \A e \in entries : IsClean(e, entries)
    /\ \A e, f \in entries : e # f => Apart(e, f)

InsertedClean ==
    \A w \in Workers :
        /\ pc[w] \in {"insert", "commit"} => IsClean(draft[w], entries)
        /\ pc[w] = "commit" =>
             /\ \A f \in entries : Apart(draft[w], f)
             /\ \A v \in Workers \ {w} : pc[v] = "commit" => Apart(draft[w], draft[v])

ChainInv == CommittedClean /\ InsertedClean

(* More committed rows do not make a clean row unclean.                    *)
LEMMA CleanMonotone ==
    ASSUME NEW rows, NEW more, rows \subseteq more, NEW e, IsClean(e, rows)
    PROVE  IsClean(e, more)
BY DEF IsClean, ContinuesChain, ReversalMatches

(* Steps that commit and insert nothing.                                   *)
LEMMA QuietKeepsChain ==
    ASSUME ChainInv, entries' = entries,
           \A v \in Workers : pc'[v] \in {"insert", "commit"} =>
              pc'[v] = pc[v] /\ draft'[v] = draft[v]
    PROVE  ChainInv'
BY DEF ChainInv, CommittedClean, InsertedClean

(* A clean row that clashes with no other keeps the chain.                 *)
LEMMA AddKeepsChain ==
    ASSUME ChainInv, NEW e, entries' = entries \cup {e}, IsClean(e, entries),
           \A f \in entries : Apart(e, f),
           \A v \in Workers : pc'[v] \in {"insert", "commit"} =>
              /\ pc'[v] = pc[v] /\ draft'[v] = draft[v]
              /\ pc[v] = "commit" => Apart(draft[v], e)
    PROVE  ChainInv'
<1>1. \A f : IsClean(f, entries) => IsClean(f, entries')
  BY CleanMonotone
<1>2. CommittedClean'
  <2>1. \A f \in entries : Apart(f, e)
    BY DEF Apart, SameOperation, SamePlace
  <2> QED
    BY <1>1, <2>1 DEF ChainInv, CommittedClean
<1>3. InsertedClean'
  BY <1>1 DEF ChainInv, InsertedClean
<1> QED
  BY <1>2, <1>3 DEF ChainInv

LEMMA FullCleanKeepsChain ==
    ASSUME TypeInv, ChainInv, NEW w \in Workers, FullClean(w)
    PROVE  ChainInv'
<1>1. CASE \E answer \in Refused : Return(w, answer)
  BY <1>1, QuietKeepsChain DEF Return, Finish, Goto, TypeInv, TypeOK
<1>2. CASE /\ IsClean(draft[w], entries)
           /\ Goto(w, "insert")
           /\ UNCHANGED <<entries, wallets, req, rowLocks, newWallet, latest, draft, reply>>
  BY <1>2 DEF ChainInv, CommittedClean, InsertedClean, Goto, TypeInv, TypeOK
<1> QED
  BY <1>1, <1>2 DEF FullClean, Refused

LEMMA InsertKeepsChain ==
    ASSUME TypeInv, ChainInv, NEW w \in Workers, Insert(w)
    PROVE  ChainInv'
<1>1. CASE \E answer \in Refused : Return(w, answer)
  BY <1>1, QuietKeepsChain DEF Return, Finish, Goto, TypeInv, TypeOK
<1>2. CASE /\ \A f \in entries : Apart(draft[w], f)
           /\ Goto(w, "commit")
           /\ UNCHANGED <<entries, wallets, req, rowLocks, newWallet, latest, draft, reply>>
  <2>1. \A v \in Workers \ {w} : pc[v] = "commit" => Apart(draft[w], draft[v])
    BY DEF Insert, Uncommitted, Apart
  <2>2. \A v \in Workers \ {w} : pc[v] = "commit" => Apart(draft[v], draft[w])
    BY <2>1 DEF Apart, SameOperation, SamePlace
  <2>3. pc[w] = "insert"
    BY DEF Insert
  <2> QED
    BY <1>2, <2>1, <2>2, <2>3
       DEF ChainInv, CommittedClean, InsertedClean, Goto, TypeInv, TypeOK
<1> QED
  BY <1>1, <1>2 DEF Insert, Refused, Apart

LEMMA CommitKeepsChain ==
    ASSUME TypeInv, ChainInv, NEW w \in Workers, Commit(w)
    PROVE  ChainInv'
<1>1. IsClean(draft[w], entries) /\ \A f \in entries : Apart(draft[w], f)
  BY DEF Commit, ChainInv, InsertedClean
<1>2. \A v \in Workers : pc'[v] \in {"insert", "commit"} =>
        /\ pc'[v] = pc[v] /\ draft'[v] = draft[v]
        /\ pc[v] = "commit" => Apart(draft[v], draft[w])
  BY DEF Commit, Finish, Goto, TypeInv, TypeOK, ChainInv, InsertedClean
<1> QED
  BY <1>1, <1>2, AddKeepsChain DEF Commit

LEMMA ElsewhereKeepsChain ==
    ASSUME TypeInv, ChainInv, Elsewhere
    PROVE  ChainInv'
<1>1. PICK s \in Subscribers, o \in Ops, a \in Amounts, r \in Reasons :
         PaymentCredit(s, o, a, r) \/ BillingCharge(s, o, a, r)
  BY DEF Elsewhere
<1>2. PICK type \in EntryTypes, d \in Directions : PostElsewhere(s, o, type, d, a, r)
  BY <1>1 DEF PaymentCredit, BillingCharge, EntryTypes, Directions
<1> DEFINE e == EntryElsewhere(s, o, type, d, a, r)
<1>3. \A v \in Workers : pc[v] = "commit" => Apart(draft[v], e)
  <2>1. \A v \in Workers : pc[v] = "commit" => draft[v] \in Uncommitted(Workers)
    BY DEF Uncommitted
  <2> QED
    BY <1>2, <2>1 DEF PostElsewhere, Apart, SameOperation, SamePlace
<1> HIDE DEF e
<1> QED
  BY <1>2, <1>3, AddKeepsChain DEF PostElsewhere, e, Apart

LEMMA ChainInvStep == TypeInv /\ ChainInv /\ [Next]_vars => ChainInv'
<1> SUFFICES ASSUME TypeInv, ChainInv, [Next]_vars PROVE ChainInv'
  OBVIOUS
<1>1. CASE UNCHANGED vars
  BY <1>1, QuietKeepsChain DEF vars
<1>2. ASSUME NEW w \in Workers, Submit(w) \/ Crash(w) \/ Respond(w) PROVE ChainInv'
  BY <1>2, QuietKeepsChain DEF Submit, Crash, Respond, Goto, TypeInv, TypeOK
<1>3. ASSUME NEW w \in Workers, FirstCheck(w) \/ Recheck(w) PROVE ChainInv'
  BY <1>3, QuietKeepsChain
     DEF FirstCheck, Recheck, CheckExisting, Return, Finish, Goto, TypeInv, TypeOK
<1>4. ASSUME NEW w \in Workers,
             LockSubscriber(w) \/ LockWallet(w) \/ PickLatest(w) \/ LockLatest(w) \/ LockTarget(w)
      PROVE ChainInv'
  BY <1>4, QuietKeepsChain
     DEF LockSubscriber, LockWallet, PickLatest, LockLatest, LockTarget, Goto, TypeInv, TypeOK
<1>5. ASSUME NEW w \in Workers, CreateWallet(w) \/ Build(w) PROVE ChainInv'
  BY <1>5, QuietKeepsChain
     DEF CreateWallet, Build, Return, Finish, Goto, TypeInv, TypeOK
<1> QED
  BY <1>1, <1>2, <1>3, <1>4, <1>5, FullCleanKeepsChain, InsertKeepsChain,
     CommitKeepsChain, ElsewhereKeepsChain
     DEF Next, Proceed

LEMMA ChainInvHolds == Spec => []ChainInv
<1>1. Init => ChainInv
  BY DEF Init, ChainInv, CommittedClean, InsertedClean
<1> QED
  BY <1>1, ChainInvStep, TypeInvHolds, PTL DEF Spec

(* The rows of every wallet form one chain with the right balances.        *)
THEOREM ChainCorrect == Spec => []LedgerChain
<1>1. TypeInv /\ ChainInv => LedgerChain
  <2> SUFFICES ASSUME TypeInv, ChainInv PROVE RowsDistinct /\ RowsLinked
    BY DEF LedgerChain
  <2>1. RowsDistinct
    BY DEF ChainInv, CommittedClean, Apart, SameOperation, SamePlace, RowsDistinct
  <2>2. \A e \in entries : ContinuesChain(e, entries) /\ e \in Entry
    BY DEF ChainInv, CommittedClean, IsClean, TypeInv, TypeOK
  <2>3. ASSUME NEW b \in Int, NEW d \in Directions, NEW a \in Int
        PROVE  ResultingBalance(b, d, a) = b + Signed(d, a)
    BY <2>3 DEF ResultingBalance, Signed, Directions
  <2>4. \A e \in Entry : /\ e.seq \in Int /\ e.amount \in Int /\ e.balance_after \in Int
                         /\ e.direction \in Directions /\ Signed(e.direction, e.amount) \in Int
    BY LedgerAssumption DEF Entry, Money, Balances, Signed
  <2>5. ASSUME NEW e \in entries
        PROVE  \/ /\ e.seq = 1
                  /\ e.previous = None
                  /\ e.balance_after = Signed(e.direction, e.amount)
               \/ \E p \in entries :
                    /\ p.op = e.previous
                    /\ p.wallet = e.wallet
                    /\ e.seq = p.seq + 1
                    /\ e.balance_after = p.balance_after + Signed(e.direction, e.amount)
    <3>1. CASE /\ e.seq = 1
               /\ e.previous = None
               /\ e.balance_after = ResultingBalance(0, e.direction, e.amount)
      BY <3>1, <2>2, <2>4, <2>3
    <3>2. ASSUME NEW p \in entries,
                 p.op = e.previous, p.wallet = e.wallet, p.seq = e.seq - 1,
                 e.balance_after = ResultingBalance(p.balance_after, e.direction, e.amount)
          PROVE  /\ e.seq = p.seq + 1
                 /\ e.balance_after = p.balance_after + Signed(e.direction, e.amount)
      BY <3>2, <2>2, <2>3, <2>4
    <3> QED
      BY <2>2, <3>1, <3>2 DEF ContinuesChain
  <2> QED
    BY <2>1, <2>5 DEF RowsLinked
<1> QED
  BY <1>1, TypeInvHolds, ChainInvHolds, PTL

(* Every reversal undoes one manual row of its wallet, and no row twice.   *)
THEOREM ReversalsCorrect == Spec => []ReversalsSound
<1>1. TypeInv /\ ChainInv => ReversalsSound
  <2> SUFFICES ASSUME TypeInv, ChainInv, NEW e \in entries, e.reverses # None
               PROVE  /\ \E t \in entries :
                           /\ t.op = e.reverses
                           /\ t.wallet = e.wallet
                           /\ t.type \in ManualTypes
                           /\ Signed(t.direction, t.amount) = -Signed(e.direction, e.amount)
                      /\ \A f \in entries : f.reverses = e.reverses => f = e
    BY DEF ReversalsSound
  <2>1. ReversalMatches(e, entries)
    BY DEF ChainInv, CommittedClean, IsClean
  <2>2. PICK t \in entries : /\ t.op = e.reverses
                             /\ t.wallet = e.wallet
                             /\ t.type \in ManualTypes
                             /\ t.amount = e.amount
                             /\ e.direction = OppositeDirection(t.direction)
    BY <2>1 DEF ReversalMatches
  <2>3. t.amount \in Int /\ t.direction \in Directions
    BY LedgerAssumption DEF TypeInv, TypeOK, Entry, Money
  <2>4. Signed(t.direction, t.amount) = -Signed(e.direction, e.amount)
    BY <2>2, <2>3 DEF Signed, OppositeDirection, Directions
  <2>5. \A f \in entries : f.reverses = e.reverses => f = e
    BY DEF ChainInv, CommittedClean, Apart, SamePlace
  <2> QED
    BY <2>2, <2>4, <2>5
<1> QED
  BY <1>1, TypeInvHolds, ChainInvHolds, PTL

-----------------------------------------------------------------------------
(* The locks.  A worker past lock_subscriber holds its subscriber's row,   *)
(* so that nobody else adds rows to that wallet before it has finished.    *)

AfterSubscriber == {"lock_wallet", "create_wallet", "pick_latest"} \cup UsesLatest

LocksExclusive ==
    \A v, w \in Workers : v # w => rowLocks[v] \cap rowLocks[w] = {}

HoldsSubscriber(w) ==
    pc[w] \in AfterSubscriber => SubscriberRow(req[w].wallet) \in rowLocks[w]

WalletIsNew(w) ==
    newWallet[w] \/ pc[w] = "create_wallet" =>
        pc[w] \in AfterSubscriber /\ req[w].wallet \notin wallets

CallSound(w) ==
    pc[w] # "idle" =>
        IF req[w].type = "reversal"
        THEN \E t \in entries :
               /\ t.op = req[w].reverses
               /\ t.wallet = req[w].wallet
               /\ t.amount = req[w].amount
               /\ req[w].direction = OppositeDirection(t.direction)
        ELSE req[w].type = ManualEntryType(req[w].direction)

HasLatest(w) ==
    pc[w] \in UsesLatest => latest[w] = LatestEntry(entries, req[w].wallet)

DraftFits(w) ==
    pc[w] \in Drafted =>
        /\ IsClean(draft[w], entries)
        /\ \A f \in entries : ~SamePlace(draft[w], f)

(* Since the second lookup no row of the wallet has the identifier.        *)
OwnUnused(w) ==
    pc[w] \in {"build"} \cup Drafted =>
        \A f \in entries : f.wallet = req[w].wallet => f.op # req[w].op

OnlyLost(w) ==
    /\ reply[w] \notin {"invalid", "has_wallet"}
    /\ reply[w] = "stale" => pc[w] = "done" /\ LostIdentifier(req[w])

Sound(w) ==
    /\ HoldsSubscriber(w)
    /\ WalletIsNew(w)
    /\ CallSound(w)
    /\ HasLatest(w)
    /\ DraftFits(w)
    /\ OwnUnused(w)
    /\ OnlyLost(w)

LockInv == LocksExclusive /\ \A w \in Workers : Sound(w)

(* Two workers past lock_subscriber serve different subscribers.           *)
LEMMA OneWorkerPerWallet ==
    ASSUME LockInv, NEW v \in Workers, NEW w \in Workers, v # w,
           pc[v] \in AfterSubscriber, pc[w] \in AfterSubscriber
    PROVE  req[v].wallet # req[w].wallet
BY DEF LockInv, LocksExclusive, Sound, HoldsSubscriber

(* Clean rows of different wallets never compete for a place: what a row   *)
(* follows or reverses belongs to its own wallet.                          *)
LEMMA WalletsApart ==
    ASSUME NEW rows, \A p, q \in rows : p.op = q.op => p = q,
           NEW e \in Entry, NEW f \in Entry, IsClean(e, rows), IsClean(f, rows),
           e.wallet # f.wallet
    PROVE  ~SamePlace(e, f)
<1>1. e.previous # None => e.previous # f.previous
  BY DEF IsClean, ContinuesChain
<1>2. e.reverses # None => e.reverses # f.reverses
  BY DEF IsClean, ReversalMatches
<1> QED
  BY <1>1, <1>2 DEF SamePlace

(* The row built from the wallet's last row fits the ledger.               *)
LEMMA FreshRowFits ==
    ASSUME TypeInv, ChainInv, NEW w \in Workers, Sound(w),
           pc[w] = "build", BalanceAllowed(NewEntry(w).balance_after),
           \A t \in UsesOf(req[w].reverses) : t.type \in ManualTypes,
           ~AlreadyReversed(req[w])
    PROVE  /\ IsClean(NewEntry(w), entries)
           /\ \A f \in entries : ~SamePlace(NewEntry(w), f)
<1> DEFINE e == NewEntry(w)
           s == req[w].wallet
<1>0. /\ req[w] \in Request /\ entries \subseteq Entry
      /\ latest[w] = LatestEntry(entries, s)
  BY DEF TypeInv, TypeOK, WorkersReady, Sound, HasLatest, UsesLatest
<1>1. /\ HasRows(entries, s) => IsLast(latest[w], entries, s)
      /\ ~HasRows(entries, s) => latest[w] = None
  BY <1>0, LatestEntryFound DEF TypeInv, Request
<1>2. latest[w] # None => IsLast(latest[w], entries, s) /\ latest[w] \in Entry
  BY <1>0, <1>1 DEF IsLast
<1>3. latest[w] = None => ~HasRows(entries, s)
  BY <1>0, <1>1, WalletLedgerAssumption DEF IsLast
<1>4. TypeMatchesDirection(e)
  BY <1>0 DEF Sound, CallSound, TypeMatchesDirection, NewEntry, ManualEntryType, Request,
              Directions
<1>5. ContinuesChain(e, entries)
  <2>1. CASE latest[w] = None
    BY <2>1 DEF ContinuesChain, NewEntry, NextSequence, CurrentBalance
  <2>2. CASE latest[w] # None
    <3>1. latest[w] \in entries /\ latest[w].wallet = s /\ latest[w].seq \in Int
      BY <1>2, <2>2 DEF IsLast, Entry
    <3>2. e.seq - 1 = latest[w].seq
      BY <2>2, <3>1 DEF NewEntry, NextSequence
    <3> QED
      BY <2>2, <3>1, <3>2 DEF ContinuesChain, NewEntry, CurrentBalance
  <2> QED
    BY <2>1, <2>2
<1>6. ReversalMatches(e, entries)
  <2>1. CASE req[w].type = "reversal"
    <3>1. PICK t \in entries : /\ t.op = req[w].reverses
                               /\ t.wallet = s
                               /\ t.amount = req[w].amount
                               /\ req[w].direction = OppositeDirection(t.direction)
      BY <2>1 DEF Sound, CallSound
    <3>2. t.type \in ManualTypes
      BY <3>1 DEF UsesOf
    <3> QED
      BY <2>1, <3>1, <3>2 DEF ReversalMatches, NewEntry
  <2>2. CASE req[w].type # "reversal"
    BY <1>0, <2>2 DEF ReversalMatches, NewEntry, Request
  <2> QED
    BY <2>1, <2>2
<1>7. ASSUME NEW f \in entries PROVE ~SamePlace(e, f)
  <2>0. f \in Entry /\ f.seq \in Int
    BY <1>0 DEF Entry
  <2>1. f.wallet = s => f.seq < e.seq
    <3>1. CASE latest[w] = None
      BY <3>1, <1>3 DEF HasRows
    <3>2. CASE latest[w] # None
      BY <3>2, <1>2, <2>0 DEF IsLast, NewEntry, NextSequence, Entry
    <3> QED
      BY <3>1, <3>2
  <2>2. e.wallet = s /\ e.seq \in Int
    BY <1>0, <1>2 DEF NewEntry, NextSequence, Entry
  <2>3. e.previous # None => e.previous # f.previous
    <3> SUFFICES ASSUME e.previous # None, f.previous = e.previous PROVE FALSE
      OBVIOUS
    <3>1. latest[w] # None /\ e.previous = latest[w].op
      BY DEF NewEntry
    <3>2. ContinuesChain(f, entries)
      BY DEF ChainInv, CommittedClean, IsClean
    <3>3. PICK p \in entries : p.op = f.previous /\ p.wallet = f.wallet /\ p.seq = f.seq - 1
      BY <3>2 DEF ContinuesChain
    <3>4. p = latest[w]
      BY <3>1, <3>3, <1>2 DEF ChainInv, CommittedClean, Apart, SameOperation, IsLast
    <3>5. f.wallet = s /\ f.seq = latest[w].seq + 1 /\ e.seq = latest[w].seq + 1
      BY <3>1, <3>3, <3>4, <1>2, <2>0 DEF IsLast, NewEntry, NextSequence, Entry
    <3> QED
      BY <3>5, <2>1, <2>0
  <2>4. e.reverses # None => e.reverses # f.reverses
    BY DEF AlreadyReversed, NewEntry
  <2> QED
    BY <2>0, <2>1, <2>2, <2>3, <2>4 DEF SamePlace
<1> QED
  BY <1>4, <1>5, <1>6, <1>7 DEF IsClean

(* A step of one worker that commits nothing: the others are as sound as   *)
(* they were, and it remains to look at that worker.                       *)
Others(w) ==
    \A v \in Workers \ {w} :
        /\ pc'[v] = pc[v] /\ req'[v] = req[v] /\ rowLocks'[v] = rowLocks[v]
        /\ newWallet'[v] = newWallet[v] /\ latest'[v] = latest[v]
        /\ draft'[v] = draft[v] /\ reply'[v] = reply[v]

LEMMA OneWorkerMoves ==
    ASSUME LockInv, NEW w \in Workers, UNCHANGED <<entries, wallets>>, Others(w),
           Sound(w)', \A v \in Workers \ {w} : rowLocks'[w] \cap rowLocks[v] = {}
    PROVE  LockInv'
<1>1. ASSUME NEW v \in Workers \ {w} PROVE Sound(v)'
  BY <1>1 DEF LockInv, Others, Sound, HoldsSubscriber, WalletIsNew, CallSound,
              HasLatest, DraftFits, OwnUnused, OnlyLost, LostIdentifier
<1>2. LocksExclusive'
  BY DEF LockInv, LocksExclusive, Others
<1> QED
  BY <1>1, <1>2 DEF LockInv

(* A call that ends without a commit, and late only for a lost identifier. *)
LEMMA ReturnKeepsLocks ==
    ASSUME TypeInv, LockInv, NEW w \in Workers, pc[w] # "idle",
           NEW answer, Return(w, answer), answer \notin {"invalid", "has_wallet"},
           answer = "stale" => LostIdentifier(req[w])
    PROVE  LockInv'
<1>1. Others(w)
  BY DEF Others, Return, Finish, Goto, TypeInv, TypeOK
<1>2. Sound(w)'
  BY DEF LockInv, Sound, HoldsSubscriber, WalletIsNew, CallSound, HasLatest, DraftFits,
         OwnUnused, OnlyLost, LostIdentifier,
         AfterSubscriber, UsesLatest, Drafted, Return, Finish, Goto, TypeInv, TypeOK
<1>3. rowLocks'[w] = {}
  BY DEF Return, Finish, TypeInv, TypeOK
<1> QED
  BY <1>1, <1>2, <1>3, OneWorkerMoves DEF Return

LEMMA CheckExistingKeepsLocks ==
    ASSUME TypeInv, LockInv, NEW w \in Workers, NEW step, CheckExisting(w, step),
           \/ pc[w] = "first_check" /\ step = "lock_subscriber"
           \/ pc[w] = "recheck" /\ step = "build"
    PROVE  LockInv'
<1>1. CASE \E e \in UsesOf(req[w].op) :
             Return(w, IF Answers(req[w], e) THEN "replayed" ELSE "operation_conflict")
  BY <1>1, ReturnKeepsLocks
<1>2. CASE /\ UsesOf(req[w].op) = {}
           /\ Goto(w, step)
           /\ UNCHANGED <<entries, wallets, req, rowLocks, newWallet, latest, draft, reply>>
  <2>1. Others(w)
    BY <1>2 DEF Others, Goto, TypeInv, TypeOK
  <2>2. Sound(w)'
    BY <1>2 DEF UsesOf, LockInv, Sound, HoldsSubscriber, WalletIsNew, CallSound,
                HasLatest, DraftFits, OwnUnused, OnlyLost, LostIdentifier,
                AfterSubscriber, UsesLatest, Drafted, Goto, TypeInv, TypeOK
  <2> QED
    BY <1>2, <2>1, <2>2, OneWorkerMoves DEF LockInv, LocksExclusive
<1> QED
  BY <1>1, <1>2 DEF CheckExisting

(* Taking a lock that was free leaves every row with one holder at most.   *)
LEMMA TakeLockExclusive ==
    ASSUME TypeInv, LockInv, NEW w \in Workers, NEW row, TakeLock(w, row)
    PROVE  /\ \A v \in Workers \ {w} : rowLocks'[w] \cap rowLocks[v] = {} /\ rowLocks'[v] = rowLocks[v]
           /\ rowLocks[w] \subseteq rowLocks'[w]
           /\ row \in rowLocks'[w]
BY DEF TakeLock, Free, LockInv, LocksExclusive, TypeInv, TypeOK

LEMMA LockingKeepsLocks ==
    ASSUME TypeInv, LockInv, NEW w \in Workers,
           LockSubscriber(w) \/ LockWallet(w) \/ LockLatest(w) \/ LockTarget(w)
    PROVE  LockInv'
<1>1. /\ Others(w)
      /\ UNCHANGED <<entries, wallets, req, newWallet, latest, draft, reply>>
  BY DEF LockSubscriber, LockWallet, LockLatest, LockTarget, TakeLock, Goto, Others,
         TypeInv, TypeOK
<1>2. /\ \A v \in Workers \ {w} : rowLocks'[w] \cap rowLocks[v] = {}
      /\ rowLocks[w] \subseteq rowLocks'[w]
  BY TakeLockExclusive DEF LockSubscriber, LockWallet, LockLatest, LockTarget,
                           LockInv, LocksExclusive
<1>3. Sound(w)'
  <2>1. CASE LockSubscriber(w)
    <3>1. SubscriberRow(req[w].wallet) \in rowLocks'[w] /\ pc'[w] = "lock_wallet"
      BY <2>1, TakeLockExclusive DEF LockSubscriber, Goto, TypeInv, TypeOK
    <3> QED
      BY <1>1, <2>1, <3>1
         DEF LockInv, Sound, HoldsSubscriber, WalletIsNew, CallSound, HasLatest, DraftFits,
             OwnUnused, OnlyLost, LostIdentifier,
             AfterSubscriber, UsesLatest, Drafted, LockSubscriber
  <2>2. CASE LockWallet(w)
    BY <1>1, <1>2, <2>2
       DEF LockInv, Sound, HoldsSubscriber, WalletIsNew, CallSound, HasLatest, DraftFits,
           OwnUnused, OnlyLost, LostIdentifier,
           AfterSubscriber, UsesLatest, Drafted, LockWallet, Goto, TypeInv, TypeOK
  <2>3. CASE LockLatest(w) \/ LockTarget(w)
    BY <1>1, <1>2, <2>3
       DEF LockInv, Sound, HoldsSubscriber, WalletIsNew, CallSound, HasLatest, DraftFits,
           OwnUnused, OnlyLost, LostIdentifier,
           AfterSubscriber, UsesLatest, Drafted, LockLatest, LockTarget, Goto, TypeInv, TypeOK
  <2> QED
    BY <2>1, <2>2, <2>3
<1> QED
  BY <1>1, <1>2, <1>3, OneWorkerMoves

LEMMA SubmitKeepsLocks ==
    ASSUME TypeInv, LockInv, NEW w \in Workers, Submit(w)
    PROVE  LockInv'
<1>1. PICK r \in Adjustments \cup Reversals(entries) : req' = [req EXCEPT ![w] = r]
  BY DEF Submit
<1>2. Others(w) /\ UNCHANGED <<entries, wallets, rowLocks>>
  BY DEF Submit, Goto, Others, TypeInv, TypeOK
<1>3. CallSound(w)'
  <2>1. CASE r \in Adjustments
    BY <1>1, <2>1 DEF Adjustments, CallSound, ManualEntryType, Submit, TypeInv, TypeOK
  <2>2. CASE r \in Reversals(entries)
    BY <1>1, <2>2 DEF Reversals, CallSound, Submit, TypeInv, TypeOK
  <2> QED
    BY <1>1, <2>1, <2>2
<1>4. Sound(w)'
  BY <1>3 DEF LockInv, Sound, HoldsSubscriber, WalletIsNew, HasLatest, DraftFits, OwnUnused,
              OnlyLost, LostIdentifier,
              AfterSubscriber, UsesLatest, Drafted, Submit, Goto, TypeInv, TypeOK
<1> QED
  BY <1>2, <1>4, OneWorkerMoves DEF LockInv, LocksExclusive

LEMMA CreateWalletKeepsLocks ==
    ASSUME TypeInv, LockInv, NEW w \in Workers, CreateWallet(w)
    PROVE  LockInv'
<1>1. /\ req[w].wallet \notin wallets
      /\ newWallet' = [newWallet EXCEPT ![w] = TRUE]
      /\ Goto(w, "pick_latest")
      /\ UNCHANGED <<entries, wallets, req, rowLocks, latest, draft, reply>>
  BY DEF CreateWallet, LockInv, Sound, WalletIsNew
<1>2. Others(w)
  BY <1>1 DEF Others, Goto, TypeInv, TypeOK
<1>3. Sound(w)'
  BY <1>1 DEF CreateWallet, LockInv, Sound, HoldsSubscriber, WalletIsNew, CallSound,
              HasLatest, DraftFits, OwnUnused, OnlyLost, LostIdentifier, AfterSubscriber,
              UsesLatest, Drafted, Goto, TypeInv, TypeOK
<1> QED
  BY <1>1, <1>2, <1>3, OneWorkerMoves DEF LockInv, LocksExclusive

LEMMA PickLatestKeepsLocks ==
    ASSUME TypeInv, LockInv, NEW w \in Workers, PickLatest(w)
    PROVE  LockInv'
<1>1. Others(w) /\ UNCHANGED <<entries, wallets, req, rowLocks, newWallet, draft, reply>>
  BY DEF PickLatest, Others, Goto, TypeInv, TypeOK
<1>2. HasLatest(w)'
  BY DEF PickLatest, HasLatest, TypeInv, TypeOK
<1>3. Sound(w)'
  BY <1>1, <1>2 DEF PickLatest, LockInv, Sound, HoldsSubscriber, WalletIsNew, CallSound,
                    DraftFits, OwnUnused, OnlyLost, LostIdentifier, AfterSubscriber,
                    UsesLatest, Drafted, Goto, TypeInv, TypeOK
<1> QED
  BY <1>1, <1>3, OneWorkerMoves DEF LockInv, LocksExclusive

LEMMA BuildKeepsLocks ==
    ASSUME TypeInv, ChainInv, LockInv, NEW w \in Workers, Build(w)
    PROVE  LockInv'
<1>1. CASE \E answer \in {"irreversible", "already_reversed", "balance"} : Return(w, answer)
  BY <1>1, ReturnKeepsLocks DEF Build
<1>2. CASE /\ \A t \in UsesOf(req[w].reverses) : t.type \in ManualTypes
           /\ ~AlreadyReversed(req[w])
           /\ BalanceAllowed(NewEntry(w).balance_after)
           /\ draft' = [draft EXCEPT ![w] = NewEntry(w)]
           /\ Goto(w, "full_clean")
           /\ UNCHANGED <<entries, wallets, req, rowLocks, newWallet, latest, reply>>
  <2>1. /\ IsClean(NewEntry(w), entries)
        /\ \A f \in entries : ~SamePlace(NewEntry(w), f)
    BY <1>2, FreshRowFits DEF Build, LockInv
  <2>2. DraftFits(w)'
    BY <1>2, <2>1 DEF DraftFits, TypeInv, TypeOK
  <2>3. Others(w)
    BY <1>2 DEF Others, Goto, TypeInv, TypeOK
  <2>4. Sound(w)'
    BY <1>2, <2>2 DEF Build, LockInv, Sound, HoldsSubscriber, WalletIsNew, CallSound,
                      HasLatest, OwnUnused, OnlyLost, LostIdentifier, AfterSubscriber,
                      UsesLatest, Drafted, Goto, TypeInv, TypeOK
  <2> QED
    BY <1>2, <2>3, <2>4, OneWorkerMoves DEF LockInv, LocksExclusive
<1> QED
  BY <1>1, <1>2 DEF Build

LEMMA SavingKeepsLocks ==
    ASSUME TypeInv, LockInv, NEW w \in Workers, NEW step \in {"insert", "commit"},
           pc[w] \in {"full_clean", "insert"}, Goto(w, step),
           UNCHANGED <<entries, wallets, req, rowLocks, newWallet, latest, draft, reply>>
    PROVE  LockInv'
<1>1. Others(w)
  BY DEF Others, Goto, TypeInv, TypeOK
<1>2. Sound(w)'
  BY DEF LockInv, Sound, HoldsSubscriber, WalletIsNew, CallSound, HasLatest, DraftFits,
         OwnUnused, OnlyLost, LostIdentifier, AfterSubscriber, UsesLatest, Drafted, Goto,
         TypeInv, TypeOK
<1> QED
  BY <1>1, <1>2, OneWorkerMoves DEF LockInv, LocksExclusive

LEMMA FullCleanKeepsLocks ==
    ASSUME TypeInv, LockInv, NEW w \in Workers, FullClean(w)
    PROVE  LockInv'
<1>1. pc[w] = "full_clean"
  BY DEF FullClean
<1>2. IsClean(draft[w], entries) /\ \A f \in entries : ~SamePlace(draft[w], f)
  BY <1>1 DEF LockInv, Sound, DraftFits, Drafted
<1>3. CASE Return(w, "operation_conflict")
  BY <1>1, <1>3, ReturnKeepsLocks
<1>4. CASE /\ Goto(w, "insert")
           /\ UNCHANGED <<entries, wallets, req, rowLocks, newWallet, latest, draft, reply>>
  BY <1>1, <1>4, SavingKeepsLocks
<1> QED
  BY <1>2, <1>3, <1>4 DEF FullClean

(* A row committed meanwhile can only share the identifier, and then it is *)
(* in another wallet: nobody else adds rows to this one.                   *)
LEMMA InsertKeepsLocks ==
    ASSUME TypeInv, LockInv, NEW w \in Workers, Insert(w)
    PROVE  LockInv'
<1>1. pc[w] = "insert"
  BY DEF Insert
<1>2. /\ \A f \in entries : ~SamePlace(draft[w], f)
      /\ \A f \in entries : f.wallet = req[w].wallet => f.op # req[w].op
      /\ draft[w].op = req[w].op
  <2>1. draft[w] = NewEntry(w)
    BY <1>1 DEF TypeInv, WorkersReady, Drafted
  <2> QED
    BY <1>1, <2>1 DEF NewEntry, LockInv, Sound, DraftFits, OwnUnused, Drafted
<1>3. CASE /\ \E f \in entries : SameOperation(draft[w], f)
           /\ Return(w, "stale")
  BY <1>1, <1>2, <1>3, ReturnKeepsLocks DEF SameOperation, LostIdentifier
<1>4. CASE /\ Goto(w, "commit")
           /\ UNCHANGED <<entries, wallets, req, rowLocks, newWallet, latest, draft, reply>>
  BY <1>1, <1>4, SavingKeepsLocks
<1> QED
  BY <1>2, <1>3, <1>4 DEF Insert

(* A row of another wallet does not disturb a worker.                      *)
SameWorker(v) ==
    /\ pc'[v] = pc[v] /\ req'[v] = req[v] /\ rowLocks'[v] = rowLocks[v]
    /\ newWallet'[v] = newWallet[v] /\ latest'[v] = latest[v]
    /\ draft'[v] = draft[v] /\ reply'[v] = reply[v]

LEMMA AddedRowKeepsSound ==
    ASSUME TypeInv, ChainInv, NEW v \in Workers, Sound(v), SameWorker(v),
           NEW e \in Entry, IsClean(e, entries), entries' = entries \cup {e},
           wallets' \subseteq wallets \cup {e.wallet},
           pc[v] \in AfterSubscriber => req[v].wallet # e.wallet
    PROVE  Sound(v)'
<1>1. HoldsSubscriber(v)' /\ WalletIsNew(v)' /\ OnlyLost(v)'
  BY DEF Sound, SameWorker, HoldsSubscriber, WalletIsNew, OnlyLost, LostIdentifier
<1>2. CallSound(v)'
  BY DEF Sound, SameWorker, CallSound
<1>3. HasLatest(v)'
  BY AddElsewhere DEF Sound, SameWorker, HasLatest, AfterSubscriber
<1>4. DraftFits(v)'
  <2> SUFFICES ASSUME pc[v] \in Drafted
               PROVE  /\ IsClean(draft[v], entries')
                      /\ \A f \in entries' : ~SamePlace(draft[v], f)
    BY DEF DraftFits, SameWorker
  <2>1. IsClean(draft[v], entries) /\ \A f \in entries : ~SamePlace(draft[v], f)
    BY DEF Sound, DraftFits
  <2>2. draft[v] \in Entry /\ draft[v].wallet # e.wallet
    <3>1. draft[v] \in Entry /\ draft[v] = NewEntry(v)
      BY DEF TypeInv, WorkersReady
    <3>2. NewEntry(v).wallet = req[v].wallet
      BY DEF NewEntry
    <3>3. pc[v] \in AfterSubscriber
      BY DEF AfterSubscriber, UsesLatest, Drafted
    <3> QED
      BY <3>1, <3>2, <3>3
  <2>3. \A p, q \in entries : p.op = q.op => p = q
    BY DEF ChainInv, CommittedClean, Apart, SameOperation
  <2>4. ~SamePlace(draft[v], e)
    BY <2>1, <2>2, <2>3, WalletsApart
  <2>5. IsClean(draft[v], entries')
    BY <2>1, CleanMonotone
  <2> QED
    BY <2>1, <2>4, <2>5
<1>5. OwnUnused(v)'
  BY DEF Sound, SameWorker, OwnUnused, AfterSubscriber, UsesLatest, Drafted
<1> QED
  BY <1>1, <1>2, <1>3, <1>4, <1>5 DEF Sound

LEMMA CommitKeepsLocks ==
    ASSUME TypeInv, ChainInv, LockInv, NEW w \in Workers, Commit(w)
    PROVE  LockInv'
<1>1. /\ draft[w] \in Entry
      /\ draft[w].wallet = req[w].wallet
      /\ IsClean(draft[w], entries)
  <2>1. draft[w] \in Entry /\ draft[w] = NewEntry(w)
    BY DEF Commit, TypeInv, WorkersReady, Drafted
  <2>2. NewEntry(w).wallet = req[w].wallet
    BY DEF NewEntry
  <2>3. IsClean(draft[w], entries)
    BY DEF Commit, ChainInv, InsertedClean
  <2> QED
    BY <2>1, <2>2, <2>3
<1>2. ASSUME NEW v \in Workers \ {w} PROVE Sound(v)'
  <2>1. SameWorker(v)
    BY DEF Commit, Finish, Goto, SameWorker, TypeInv, TypeOK
  <2>2. pc[v] \in AfterSubscriber => req[v].wallet # draft[w].wallet
    BY <1>1, OneWorkerPerWallet DEF Commit, AfterSubscriber, UsesLatest, Drafted
  <2>3. wallets' \subseteq wallets \cup {draft[w].wallet} /\ entries' = entries \cup {draft[w]}
    BY <1>1 DEF Commit
  <2> QED
    BY <1>1, <2>1, <2>2, <2>3, AddedRowKeepsSound DEF LockInv
<1>3. Sound(w)'
  <2>1. CallSound(w) /\ entries \subseteq entries' /\ req' = req /\ pc[w] = "commit"
    BY DEF LockInv, Sound, Commit, Finish
  <2>2. CallSound(w)'
    BY <2>1 DEF CallSound
  <2> QED
    BY <2>2 DEF Sound, HoldsSubscriber, WalletIsNew, HasLatest, DraftFits,
                OwnUnused, OnlyLost, AfterSubscriber, UsesLatest, Drafted, Commit, Finish, Goto,
                TypeInv, TypeOK
<1>4. LocksExclusive'
  BY DEF LockInv, LocksExclusive, Commit, Finish, TypeInv, TypeOK
<1> QED
  BY <1>2, <1>3, <1>4 DEF LockInv

LEMMA LeavingKeepsLocks ==
    ASSUME TypeInv, LockInv, NEW w \in Workers, Respond(w) \/ Crash(w)
    PROVE  LockInv'
<1>1. Others(w) /\ UNCHANGED <<entries, wallets>> /\ rowLocks'[w] \subseteq rowLocks[w]
  BY DEF Respond, Crash, Goto, Others, TypeInv, TypeOK
<1>2. pc'[w] = "idle" /\ reply'[w] = None /\ newWallet'[w] \in {FALSE, newWallet[w]}
  BY DEF Respond, Crash, Goto, TypeInv, TypeOK
<1>3. ~newWallet'[w]
  BY DEF Respond, Crash, TypeInv, TypeOK, LockInv, Sound, WalletIsNew, AfterSubscriber,
         UsesLatest, Drafted
<1>4. reply'[w] \notin {"stale", "invalid", "has_wallet"}
  BY <1>2, ReplyAssumption DEF Refused
<1>5. Sound(w)'
  BY <1>2, <1>3, <1>4 DEF Sound, HoldsSubscriber, WalletIsNew, CallSound, HasLatest, DraftFits,
                          OwnUnused, OnlyLost, LostIdentifier,
                    AfterSubscriber, UsesLatest, Drafted
<1> QED
  BY <1>1, <1>5, OneWorkerMoves DEF LockInv, LocksExclusive

LEMMA ElsewhereKeepsLocks ==
    ASSUME TypeInv, ChainInv, LockInv, Elsewhere
    PROVE  LockInv'
<1>1. PICK s \in Subscribers, o \in Ops, a \in Amounts, r \in Reasons :
         PaymentCredit(s, o, a, r) \/ BillingCharge(s, o, a, r)
  BY DEF Elsewhere
<1>2. PICK type \in EntryTypes, d \in Directions : PostElsewhere(s, o, type, d, a, r)
  BY <1>1 DEF PaymentCredit, BillingCharge, EntryTypes, Directions
<1> DEFINE e == EntryElsewhere(s, o, type, d, a, r)
<1>3. /\ entries' = entries \cup {e}
      /\ IsClean(e, entries)
      /\ Unlocked(s)
      /\ UNCHANGED <<pc, req, rowLocks, newWallet, latest, draft, reply>>
  BY <1>2 DEF PostElsewhere
<1>4. e \in Entry /\ e.wallet = s
  BY <1>3, EntryElsewhereTyped DEF IsClean, EntryElsewhere
<1>5. wallets' \subseteq wallets \cup {s}
  BY <1>1 DEF PaymentCredit, BillingCharge
<1> HIDE DEF e
<1>6. ASSUME NEW v \in Workers PROVE Sound(v)'
  <2>1. pc[v] \in AfterSubscriber => req[v].wallet # e.wallet
    BY <1>3, <1>4 DEF Unlocked, LockInv, Sound, HoldsSubscriber
  <2>2. SameWorker(v)
    BY <1>3 DEF SameWorker
  <2> QED
    BY <1>3, <1>4, <1>5, <2>1, <2>2, AddedRowKeepsSound DEF LockInv
<1>7. LocksExclusive'
  BY <1>3 DEF LockInv, LocksExclusive
<1> QED
  BY <1>6, <1>7 DEF LockInv

LEMMA LockInvStep == TypeInv /\ ChainInv /\ LockInv /\ [Next]_vars => LockInv'
<1> SUFFICES ASSUME TypeInv, ChainInv, LockInv, [Next]_vars PROVE LockInv'
  OBVIOUS
<1>1. CASE UNCHANGED vars
  BY <1>1 DEF vars, LockInv, LocksExclusive, Sound, HoldsSubscriber, WalletIsNew, CallSound,
              HasLatest, DraftFits, OwnUnused, OnlyLost, LostIdentifier
<1>2. ASSUME NEW w \in Workers, FirstCheck(w) \/ Recheck(w) PROVE LockInv'
  BY <1>2, CheckExistingKeepsLocks DEF FirstCheck, Recheck
<1>3. ASSUME NEW w \in Workers, Proceed(w) PROVE LockInv'
  BY <1>2, <1>3, LockingKeepsLocks, CreateWalletKeepsLocks, PickLatestKeepsLocks,
     BuildKeepsLocks, FullCleanKeepsLocks, InsertKeepsLocks, CommitKeepsLocks,
     LeavingKeepsLocks DEF Proceed
<1> QED
  BY <1>1, <1>3, SubmitKeepsLocks, LeavingKeepsLocks, ElsewhereKeepsLocks DEF Next

LEMMA LockInvHolds == Spec => []LockInv
<1>1. Init => LockInv
  <2> SUFFICES ASSUME Init PROVE LockInv
    OBVIOUS
  <2>1. LocksExclusive
    BY DEF Init, LocksExclusive
  <2>2. \A w \in Workers : Sound(w)
    BY ReplyAssumption DEF Refused, Init, Sound, HoldsSubscriber, WalletIsNew, CallSound,
                           HasLatest,
       DraftFits, OwnUnused, OnlyLost, AfterSubscriber, UsesLatest, Drafted
  <2> QED
    BY <2>1, <2>2 DEF LockInv
<1> QED
  BY <1>1, LockInvStep, TypeInvHolds, ChainInvHolds, PTL DEF Spec

(* The latest entry a worker computes from is never stale.                 *)
THEOREM FreshLatest == Spec => []LatestIsFresh
<1>1. LockInv => LatestIsFresh
  BY DEF LockInv, Sound, HasLatest, LatestIsFresh
<1> QED
  BY <1>1, LockInvHolds, PTL

(* The locks suffice: no caller finds that somebody else made the wallet,  *)
(* or the row its own should follow, and a posting comes too late only     *)
(* because its identifier was spent on another wallet.                     *)
THEOREM DefencesNeverAct == Spec => []DefencesIdle
<1>1. LockInv => DefencesIdle
  BY DEF LockInv, Sound, OnlyLost, DefencesIdle
<1> QED
  BY <1>1, LockInvHolds, PTL

-----------------------------------------------------------------------------
(* Refinement.  A committed row is one move of the abstract account; every *)
(* other step leaves the account alone.                                    *)

(* A row at the end of its wallet's chain is the wallet's new last row.    *)
LEMMA AddedRowIsLatest ==
    ASSUME TypeInv, NEW e \in Entry,
           e.seq = NextSequence(LatestEntry(entries, e.wallet))
    PROVE  LatestEntry(entries \cup {e}, e.wallet) = e
<1> DEFINE s == e.wallet
           rows == entries \cup {e}
<1>1. s \in Subscribers /\ \A f \in rows : f.seq \in Int
  BY DEF Entry, TypeInv, TypeOK
<1>2. \A f \in entries : f.wallet = s => f.seq < e.seq
  <2>1. CASE HasRows(entries, s)
    <3>1. IsLast(LatestEntry(entries, s), entries, s)
      BY <2>1, <1>1, LatestEntryFound DEF TypeInv
    <3>2. LatestEntry(entries, s) # None
      BY <3>1, WalletLedgerAssumption DEF IsLast, TypeInv, TypeOK
    <3> QED
      BY <3>1, <3>2, <1>1 DEF IsLast, NextSequence
  <2>2. CASE ~HasRows(entries, s)
    BY <2>2 DEF HasRows
  <2> QED
    BY <2>1, <2>2
<1>3. IsLast(LatestEntry(rows, s), rows, s)
  <2>1. HaveLast(rows)
    BY AddKeepsLast DEF TypeInv, TypeOK
  <2>2. HasRows(rows, s)
    BY DEF HasRows
  <2> QED
    BY <2>1, <2>2, <1>1, LatestEntryFound
<1> QED
  BY <1>1, <1>2, <1>3 DEF IsLast

LEMMA RowIsMove ==
    ASSUME TypeInv, ChainInv, NEW e \in Entry,
           IsClean(e, entries), \A f \in entries : Apart(e, f),
           e.seq = NextSequence(LatestEntry(entries, e.wallet)),
           e.balance_after =
              ResultingBalance(BalanceOf(e.wallet), e.direction, e.amount),
           entries' = entries \cup {e}
    PROVE  Abstract!Next
<1> DEFINE m == MoveOf(e)
           s == e.wallet
<1>1. /\ s \in Subscribers /\ e.op \in Ops /\ e.reverses \in Ops \cup {None}
      /\ e.amount \in 1..MaxMoney /\ e.direction \in Directions /\ MaxMoney \in Nat
      /\ e.balance_after \in 0..MaxMoney
  BY LedgerAssumption DEF Entry, Money, Balances
<1>2. m.delta \in -MaxMoney..MaxMoney
  BY <1>1 DEF MoveOf, Signed
<1>3. m = [op |-> m.op, subscriber |-> m.subscriber, delta |-> m.delta, undoes |-> m.undoes]
  BY DEF MoveOf
<1>4. \A n \in {MoveOf(f) : f \in entries} : n.op # m.op
  BY DEF MoveOf, Apart, SameOperation
<1>5. m.undoes # None => \E n \in {MoveOf(f) : f \in entries} :
         /\ Abstract!Undoable(n, m.undoes)
         /\ n.subscriber = m.subscriber
         /\ m.delta = -n.delta
  <2>0. m.undoes = e.reverses /\ m.subscriber = s /\ m.delta = Signed(e.direction, e.amount)
    BY DEF MoveOf
  <2> HIDE DEF m
  <2> HAVE m.undoes # None
  <2>1. PICK t \in entries : /\ t.op = e.reverses
                             /\ t.wallet = s
                             /\ t.type \in ManualTypes
                             /\ t.amount = e.amount
                             /\ e.direction = OppositeDirection(t.direction)
    BY <2>0 DEF IsClean, ReversalMatches
  <2>2. t.reverses = None
    BY <2>1 DEF ChainInv, CommittedClean, IsClean, ReversalMatches, ManualTypes
  <2>3. \A f \in entries : f.reverses # e.reverses
    BY <2>0 DEF Apart, SamePlace
  <2>4. Abstract!Undoable(MoveOf(t), e.reverses)
    BY <2>1, <2>2, <2>3 DEF MoveOf, Abstract!Undoable
  <2>5. Signed(e.direction, e.amount) = -Signed(t.direction, t.amount)
    BY <1>1, <2>1 DEF TypeInv, TypeOK, Entry, Signed, OppositeDirection, Directions
  <2>6. MoveOf(t).subscriber = t.wallet /\ MoveOf(t).delta = Signed(t.direction, t.amount)
    BY DEF MoveOf
  <2>7. MoveOf(t) \in {MoveOf(f) : f \in entries}
    OBVIOUS
  <2> HIDE DEF s
  <2> WITNESS MoveOf(t) \in {MoveOf(f) : f \in entries}
  <2> QED
    BY <2>0, <2>1, <2>4, <2>5, <2>6
<1>6. BalanceOf(s) \in Int
  BY <1>1, LatestEntryFound, LedgerAssumption
     DEF BalanceOf, CurrentBalance, TypeInv, TypeOK, IsLast, Entry, Balances
<1>7. e.balance_after = BalanceOf(s) + m.delta
  BY <1>1, <1>6 DEF ResultingBalance, MoveOf, Signed
<1>8. [x \in Subscribers |-> BalanceOf(x)]' =
        [[x \in Subscribers |-> BalanceOf(x)] EXCEPT ![s] = @ + m.delta]
  <2>1. LatestEntry(entries', s) = e
    BY AddedRowIsLatest
  <2>2. CurrentBalance(e) = e.balance_after
    BY WalletLedgerAssumption DEF CurrentBalance
  <2>3. BalanceOf(s)' = BalanceOf(s) + m.delta
    BY <1>7, <2>1, <2>2 DEF BalanceOf
  <2>4. \A x \in Subscribers : x # s => BalanceOf(x)' = BalanceOf(x)
    BY AddElsewhere DEF BalanceOf
  <2> QED
    BY <1>1, <2>3, <2>4
<1>9. {MoveOf(f) : f \in entries}' = {MoveOf(f) : f \in entries} \cup {m}
  BY DEF MoveOf
<1>10. m.subscriber = s /\ m.op = e.op /\ m.undoes = e.reverses
  BY DEF MoveOf
<1> HIDE DEF m
<1>11. Abstract!Apply(m)
  BY <1>1, <1>4, <1>5, <1>7, <1>8, <1>9, <1>10 DEF Abstract!Apply
<1>12. Abstract!Apply([op |-> m.op, subscriber |-> m.subscriber, delta |-> m.delta,
                       undoes |-> m.undoes])
  BY <1>3, <1>11
<1> QED
  BY <1>1, <1>2, <1>10, <1>12 DEF Abstract!Next

LEMMA StepIsMove ==
    ASSUME TypeInv, ChainInv, LockInv, [Next]_vars
    PROVE  Abstract!Next \/ UNCHANGED <<[s \in Subscribers |-> BalanceOf(s)],
                                        {MoveOf(e) : e \in entries}>>
<1>1. CASE entries' = entries
  BY <1>1 DEF BalanceOf, MoveOf
<1>2. ASSUME NEW w \in Workers, Commit(w) PROVE Abstract!Next
  <2>1. draft[w] \in Entry /\ draft[w] = NewEntry(w)
    BY <1>2 DEF Commit, TypeInv, WorkersReady, Drafted
  <2>2. IsClean(draft[w], entries) /\ \A f \in entries : Apart(draft[w], f)
    BY <1>2 DEF Commit, ChainInv, InsertedClean
  <2>3. latest[w] = LatestEntry(entries, req[w].wallet)
    BY <1>2 DEF Commit, LockInv, Sound, HasLatest, UsesLatest
  <2>4. /\ NewEntry(w).wallet = req[w].wallet
        /\ NewEntry(w).seq = NextSequence(latest[w])
        /\ NewEntry(w).balance_after =
             ResultingBalance(CurrentBalance(latest[w]), NewEntry(w).direction, NewEntry(w).amount)
    BY DEF NewEntry
  <2> QED
    BY <1>2, <2>1, <2>2, <2>3, <2>4, RowIsMove DEF Commit, BalanceOf
<1>3. ASSUME Elsewhere PROVE Abstract!Next
  <2>1. PICK s \in Subscribers, o \in Ops, a \in Amounts, r \in Reasons :
           PaymentCredit(s, o, a, r) \/ BillingCharge(s, o, a, r)
    BY <1>3 DEF Elsewhere
  <2>2. PICK type \in EntryTypes, d \in Directions : PostElsewhere(s, o, type, d, a, r)
    BY <2>1 DEF PaymentCredit, BillingCharge, EntryTypes, Directions
  <2> DEFINE e == EntryElsewhere(s, o, type, d, a, r)
  <2>3. /\ entries' = entries \cup {e}
        /\ IsClean(e, entries)
        /\ \A f \in entries : Apart(e, f)
    BY <2>2 DEF PostElsewhere, Apart
  <2>4. e \in Entry
    BY <2>3, EntryElsewhereTyped DEF IsClean
  <2>5. /\ e.wallet = s
        /\ e.seq = NextSequence(LatestEntry(entries, s))
        /\ e.balance_after = ResultingBalance(BalanceOf(s), e.direction, e.amount)
    BY DEF EntryElsewhere, BalanceOf
  <2> HIDE DEF e
  <2> QED
    BY <2>3, <2>4, <2>5, RowIsMove
<1>4. ASSUME NEW w \in Workers,
             Submit(w) \/ Crash(w) \/ (Proceed(w) /\ ~Commit(w))
      PROVE  entries' = entries
  BY <1>4 DEF Submit, Crash, Proceed, FirstCheck, LockSubscriber, LockWallet, CreateWallet,
              PickLatest, LockLatest, LockTarget, Recheck, Build, FullClean, Insert, Respond,
              CheckExisting, Return
<1> QED
  BY <1>1, <1>2, <1>3, <1>4 DEF Next, vars

(* The rows of the ledger are an account that applies every operation      *)
(* identifier at most once, never overdraws, and undoes a move at most     *)
(* once: the posting services implement Account.                           *)
THEOREM LedgerImplementsAccount == Spec => ImplementsAccount
<1>1. Init => Abstract!Init
  <2> SUFFICES ASSUME Init PROVE Abstract!Init
    OBVIOUS
  <2>1. \A s \in Subscribers : BalanceOf(s) = 0
    BY DEF Init, BalanceOf, LatestEntry, CurrentBalance
  <2>2. {MoveOf(e) : e \in entries} = {}
    BY DEF Init
  <2> QED
    BY <2>1, <2>2 DEF Abstract!Init
<1>2. TypeInv /\ ChainInv /\ LockInv /\ [Next]_vars
        => [Abstract!Next]_<<[s \in Subscribers |-> BalanceOf(s)], {MoveOf(e) : e \in entries}>>
  BY StepIsMove
<1> QED
  BY <1>1, <1>2, TypeInvHolds, ChainInvHolds, LockInvHolds, PTL
     DEF Spec, ImplementsAccount, Abstract!Spec

(* What the account promises, the ledger therefore keeps, whatever the     *)
(* workers and the other services interleave: the balance on the last row  *)
(* of a wallet is the sum of the signed amounts of all its rows, and a     *)
(* reversal takes back one row of its wallet, once.                        *)
Kept == INSTANCE AccountProofs WITH
    balance <- [s \in Subscribers |-> BalanceOf(s)],
    moves <- {MoveOf(e) : e \in entries}

THEOREM LedgerKeepsPromises == Spec => []Kept!Promises
<1>1. MaxMoney \in Nat /\ Kept!Spec => []Kept!Promises
  BY Kept!PromisesKept
<1>2. MaxMoney \in Nat
  BY LedgerAssumption
<1>3. Abstract!Init => Kept!Init
  BY DEF Abstract!Init, Kept!Init
<1>4. [Abstract!Next]_<<[s \in Subscribers |-> BalanceOf(s)], {MoveOf(e) : e \in entries}>>
        => [Kept!Next]_<<[s \in Subscribers |-> BalanceOf(s)], {MoveOf(e) : e \in entries}>>
  BY DEF Abstract!Next, Kept!Next, Abstract!Apply, Kept!Apply,
         Abstract!Undoable, Kept!Undoable
<1>5. Abstract!Spec => Kept!Spec
  BY <1>3, <1>4, PTL DEF Abstract!Spec, Kept!Spec
<1> QED
  BY <1>1, <1>2, <1>5, LedgerImplementsAccount, PTL DEF ImplementsAccount

-----------------------------------------------------------------------------
(* Answers.  From its second lookup on, a worker knows that no committed   *)
(* row answers its call, and its lock on the subscriber keeps it so.       *)

NotAnswered(w) ==
    pc[w] \in {"build"} \cup Drafted => \A e \in entries : ~Answers(req[w], e)

AnswerStands(w) ==
    /\ reply[w] # None => pc[w] = "done"
    /\ reply[w] \in Accepted => \E e \in entries : Answers(req[w], e)

AnswerInv == \A w \in Workers : NotAnswered(w) /\ AnswerStands(w)

(* A worker that a step leaves alone, when rows are only added, and none   *)
(* to its wallet while it holds the subscriber.                            *)
LEMMA LeftAlone ==
    ASSUME AnswerInv, NEW v \in Workers, SameWorker(v), entries \subseteq entries',
           pc[v] \in AfterSubscriber =>
              \A e \in entries' \ entries : e.wallet # req[v].wallet
    PROVE  NotAnswered(v)' /\ AnswerStands(v)'
<1>1. NotAnswered(v)'
  BY DEF AnswerInv, NotAnswered, SameWorker, Answers, AfterSubscriber, UsesLatest, Drafted
<1>2. AnswerStands(v)'
  BY DEF AnswerInv, AnswerStands, SameWorker
<1> QED
  BY <1>1, <1>2

(* The lookup answers a retry, and refuses only what no row answers.       *)
LEMMA LookupAnswers ==
    ASSUME TypeInv, ChainInv, AnswerInv, NEW w \in Workers, NEW step,
           CheckExisting(w, step), pc[w] # "done",
           step \in {"lock_subscriber", "build"}
    PROVE  /\ NotAnswered(w)' /\ AnswerStands(w)'
           /\ reply'[w] \in Refused => \A e \in entries : ~Answers(req[w], e)
<1>1. CASE /\ UsesOf(req[w].op) = {}
           /\ Goto(w, step)
           /\ UNCHANGED <<entries, wallets, req, rowLocks, newWallet, latest, draft, reply>>
  <2>1. \A e \in entries : ~Answers(req[w], e)
    BY <1>1 DEF UsesOf, Answers
  <2>2. reply[w] = None /\ None \notin Accepted
    BY ReplyAssumption DEF AnswerInv, AnswerStands
  <2>3. reply'[w] = None /\ UNCHANGED <<entries, req>>
    BY <1>1, <2>2
  <2>4. NotAnswered(w)' /\ AnswerStands(w)'
    BY <2>1, <2>2, <2>3 DEF NotAnswered, AnswerStands, Answers
  <2> QED
    BY <2>1, <2>4
<1>2. ASSUME NEW e \in UsesOf(req[w].op),
             Return(w, IF Answers(req[w], e) THEN "replayed" ELSE "operation_conflict")
      PROVE  /\ NotAnswered(w)' /\ AnswerStands(w)'
             /\ reply'[w] \in Refused => \A f \in entries : ~Answers(req[w], f)
  <2>1. e \in entries /\ \A f \in entries : f.op = req[w].op => f = e
    BY <1>2 DEF UsesOf, ChainInv, CommittedClean, Apart, SameOperation
  <2>2. /\ reply'[w] = IF Answers(req[w], e) THEN "replayed" ELSE "operation_conflict"
        /\ pc'[w] = "done"
        /\ UNCHANGED <<entries, req>>
    BY <1>2 DEF Return, Finish, Goto, TypeInv, TypeOK
  <2> QED
    BY <2>1, <2>2 DEF NotAnswered, AnswerStands, Answers, Accepted, Refused, Drafted
<1> QED
  BY <1>1, <1>2 DEF CheckExisting

(* Every step that adds no rows and moves one worker.                      *)
LEMMA AnswerStep ==
    ASSUME TypeInv, ChainInv, LockInv, AnswerInv, [Next]_vars
    PROVE  /\ AnswerInv'
           /\ \A w \in Workers : reply[w] = None /\ reply'[w] \in Refused
                => \A e \in entries : ~Answers(req[w], e)
<1> DEFINE Refuses(w) == reply[w] = None /\ reply'[w] \in Refused
                            => \A e \in entries : ~Answers(req[w], e)
           Good(w) == NotAnswered(w)' /\ AnswerStands(w)' /\ Refuses(w)
<1> SUFFICES \A w \in Workers : Good(w)
  BY DEF AnswerInv
<1>0. None \notin Refused /\ None \notin Accepted
  BY ReplyAssumption
<1>1. ASSUME NEW v \in Workers, SameWorker(v), entries \subseteq entries',
             pc[v] \in AfterSubscriber =>
               \A e \in entries' \ entries : e.wallet # req[v].wallet
      PROVE  Good(v)
  BY <1>0, <1>1, LeftAlone DEF SameWorker
<1>2. CASE UNCHANGED vars
  BY <1>1, <1>2 DEF vars, SameWorker
<1>3. ASSUME NEW w \in Workers, Submit(w) \/ Proceed(w) \/ Crash(w), ~Commit(w)
      PROVE  entries' = entries /\ \A v \in Workers \ {w} : SameWorker(v)
  BY <1>3 DEF Submit, Crash, Proceed, FirstCheck, LockSubscriber, LockWallet, CreateWallet,
              PickLatest, LockLatest, LockTarget, Recheck, Build, FullClean, Insert, Respond,
              CheckExisting, Return, Finish, Goto, TakeLock, SameWorker, TypeInv, TypeOK
<1>4. ASSUME NEW w \in Workers, Submit(w) \/ Crash(w) \/ Respond(w)
      PROVE  Good(w)
  <2>1. reply'[w] \in {reply[w], None} /\ pc'[w] \in {"idle", "first_check"}
    BY <1>4 DEF Submit, Crash, Respond, Goto, TypeInv, TypeOK
  <2>2. reply'[w] = None
    BY <1>4 DEF Submit, Crash, Respond, Goto, TypeInv, TypeOK, AnswerInv, AnswerStands
  <2> QED
    BY <1>0, <2>1, <2>2 DEF NotAnswered, AnswerStands, Drafted
<1>5. ASSUME NEW w \in Workers, FirstCheck(w) \/ Recheck(w) PROVE Good(w)
  BY <1>5, LookupAnswers DEF FirstCheck, Recheck
<1>6. ASSUME NEW w \in Workers,
             \/ LockSubscriber(w) \/ LockWallet(w) \/ PickLatest(w)
             \/ LockLatest(w) \/ LockTarget(w)
      PROVE  Good(w)
  <2>1. reply'[w] = reply[w] /\ pc[w] # "done" /\ pc'[w] \notin {"build"} \cup Drafted
    BY <1>6 DEF LockSubscriber, LockWallet, PickLatest, LockLatest, LockTarget, Goto,
                Drafted, TypeInv, TypeOK
  <2> QED
    BY <1>0, <2>1 DEF NotAnswered, AnswerStands, AnswerInv
<1>7. ASSUME NEW w \in Workers, CreateWallet(w) PROVE Good(w)
  <2>1. reply'[w] = reply[w] /\ pc[w] # "done" /\ pc'[w] = "pick_latest"
    BY <1>7 DEF CreateWallet, Goto, TypeInv, TypeOK, LockInv, Sound, WalletIsNew
  <2> QED
    BY <1>0, <2>1 DEF NotAnswered, AnswerStands, AnswerInv, Drafted
<1>8. ASSUME NEW w \in Workers, Build(w) \/ FullClean(w) \/ Insert(w) PROVE Good(w)
  <2>1. \A e \in entries : ~Answers(req[w], e)
    BY <1>8 DEF Build, FullClean, Insert, AnswerInv, NotAnswered, Drafted
  <2>2. reply[w] = None
    BY <1>8 DEF Build, FullClean, Insert, AnswerInv, AnswerStands
  <2>3. UNCHANGED <<entries, req>> /\ reply'[w] \notin Accepted
    BY <1>0, <1>8, <2>2 DEF Build, FullClean, Insert, Return, Finish, TypeInv, TypeOK, Accepted
  <2>4. reply'[w] # None => pc'[w] = "done"
    BY <1>8, <2>2 DEF Build, FullClean, Insert, Return, Finish, Goto, TypeInv, TypeOK
  <2> QED
    BY <2>1, <2>3, <2>4 DEF NotAnswered, AnswerStands, Answers
<1>9. ASSUME NEW w \in Workers, Commit(w) PROVE \A v \in Workers : Good(v)
  <2>1. draft[w] \in Entry /\ draft[w] = NewEntry(w)
    BY <1>9 DEF Commit, TypeInv, WorkersReady, Drafted
  <2>2. draft[w].wallet = req[w].wallet /\ Answers(req[w], draft[w])
    BY <2>1 DEF NewEntry, Answers
  <2>3. reply'[w] = "posted" /\ pc'[w] = "done" /\ req'[w] = req[w]
    BY <1>9 DEF Commit, Finish, Goto, TypeInv, TypeOK
  <2>4. entries' = entries \cup {draft[w]}
    BY <1>9 DEF Commit
  <2>5. Good(w)
    BY <2>2, <2>3, <2>4 DEF NotAnswered, AnswerStands, Answers, Refused, Drafted
  <2>6. ASSUME NEW v \in Workers \ {w} PROVE Good(v)
    <3>1. SameWorker(v)
      BY <1>9 DEF Commit, Finish, Goto, SameWorker, TypeInv, TypeOK
    <3>2. pc[v] \in AfterSubscriber => req[v].wallet # draft[w].wallet
      BY <1>9, <2>2, OneWorkerPerWallet DEF Commit, AfterSubscriber, UsesLatest
    <3> QED
      BY <1>1, <2>4, <3>1, <3>2
  <2> QED
    BY <2>5, <2>6
<1>10. ASSUME Elsewhere PROVE \A v \in Workers : Good(v)
  <2>1. PICK s \in Subscribers, o \in Ops, a \in Amounts, r \in Reasons :
           PaymentCredit(s, o, a, r) \/ BillingCharge(s, o, a, r)
    BY <1>10 DEF Elsewhere
  <2>2. PICK type \in EntryTypes, d \in Directions : PostElsewhere(s, o, type, d, a, r)
    BY <2>1 DEF PaymentCredit, BillingCharge, EntryTypes, Directions
  <2>3. /\ \A v \in Workers : SameWorker(v)
        /\ entries \subseteq entries'
        /\ \A e \in entries' \ entries : e.wallet = s
    BY <2>2 DEF PostElsewhere, EntryElsewhere, SameWorker
  <2>4. \A v \in Workers : pc[v] \in AfterSubscriber => req[v].wallet # s
    BY <2>2 DEF PostElsewhere, Unlocked, LockInv, Sound, HoldsSubscriber
  <2> QED
    BY <1>1, <2>3, <2>4
<1>11. ASSUME NEW w \in Workers, Submit(w) \/ Proceed(w) \/ Crash(w)
       PROVE  \A v \in Workers : Good(v)
  <2>1. CASE Commit(w)
    BY <1>9, <2>1
  <2>2. CASE ~Commit(w)
    <3>1. Good(w)
      BY <1>11, <2>2, <1>4, <1>5, <1>6, <1>7, <1>8 DEF Proceed
    <3> QED
      BY <1>1, <1>3, <1>11, <2>2, <3>1
  <2> QED
    BY <2>1, <2>2
<1> QED
  BY <1>2, <1>10, <1>11 DEF Next

LEMMA AnswerInvHolds == Spec => []AnswerInv
<1>1. Init => AnswerInv
  BY ReplyAssumption DEF Init, AnswerInv, NotAnswered, AnswerStands, Drafted
<1>2. TypeInv /\ ChainInv /\ LockInv /\ AnswerInv /\ [Next]_vars => AnswerInv'
  BY AnswerStep
<1> QED
  BY <1>1, <1>2, TypeInvHolds, ChainInvHolds, LockInvHolds, PTL DEF Spec

(* A caller told that its call took effect finds its row in the ledger.    *)
THEOREM AnswersAreTrue == Spec => []AnswersTrue
<1>1. AnswerInv => AnswersTrue
  BY DEF AnswerInv, AnswerStands, AnswersTrue
<1> QED
  BY <1>1, AnswerInvHolds, PTL

(* A call that repeats a committed one is never refused.                   *)
THEOREM RetriesAreReplayed == Spec => RetriesReplayed
<1>1. TypeInv /\ ChainInv /\ LockInv /\ AnswerInv /\ [Next]_vars
        => [\A w \in Workers : reply[w] = None /\ reply'[w] \in Refused
              => \A e \in entries : ~Answers(req[w], e)]_vars
  BY AnswerStep
<1> QED
  BY <1>1, TypeInvHolds, ChainInvHolds, LockInvHolds, AnswerInvHolds, PTL
     DEF Spec, RetriesReplayed

-----------------------------------------------------------------------------
(* Refusals for the balance.  Only Build gives one, from the latest entry  *)
(* the worker read; the locks keep that entry the wallet's last.           *)

LEMMA BalanceRefusal ==
    ASSUME TypeInv, LockInv, [Next]_vars, NEW w \in Workers,
           reply[w] = None, reply'[w] = "balance"
    PROVE  /\ pc[w] = "build"
           /\ ~BalanceAllowed(NewEntry(w).balance_after)
<1>0. "balance" # None
  BY ReplyAssumption DEF Refused
<1>1. PICK v \in Workers : Submit(v) \/ Proceed(v) \/ Crash(v)
  BY <1>0 DEF Next, vars, Elsewhere, PaymentCredit, BillingCharge, PostElsewhere
<1>2. Build(v)
  BY <1>0, <1>1
     DEF Submit, Crash, Proceed, FirstCheck, LockSubscriber, LockWallet, CreateWallet,
         PickLatest, LockLatest, LockTarget, Recheck, FullClean, Insert, Commit, Respond,
         CheckExisting, Return, Finish, TypeInv, TypeOK
<1>3. v = w /\ ~BalanceAllowed(NewEntry(v).balance_after)
  BY <1>0, <1>2 DEF Build, Return, Finish, TypeInv, TypeOK
<1> QED
  BY <1>2, <1>3 DEF Build

(* A posting is refused for the balance only when it really would leave    *)
(* the range, counted from the wallet's balance at that moment.            *)
THEOREM RefusalsAtLimit == Spec => RefusedAtLimit
<1>1. ASSUME TypeInv, LockInv, [Next]_vars, NEW w \in Workers,
             reply[w] = None, reply'[w] = "balance"
      PROVE  BalanceOf(req[w].wallet) + Signed(req[w].direction, req[w].amount) \notin Balances
  <2>1. pc[w] = "build" /\ ~BalanceAllowed(NewEntry(w).balance_after)
    BY <1>1, BalanceRefusal
  <2>2. latest[w] = LatestEntry(entries, req[w].wallet)
    BY <1>1, <2>1 DEF LockInv, Sound, HasLatest, UsesLatest
  <2>3. /\ NewEntry(w).balance_after =
             ResultingBalance(BalanceOf(req[w].wallet), req[w].direction, req[w].amount)
        /\ req[w] \in Request
        /\ BalanceOf(req[w].wallet) \in Int
    BY <1>1, <2>1, <2>2, LedgerAssumption
       DEF NewEntry, BalanceOf, CurrentBalance, TypeInv, TypeOK, WorkersReady, Entry, Balances
  <2>4. req[w].direction \in Directions /\ req[w].amount \in Int
    BY <2>3, LedgerAssumption DEF Request, Money
  <2> QED
    BY <2>1, <2>3, <2>4, LedgerAssumption
       DEF ResultingBalance, Signed, Directions, BalanceAllowed, Balances
<1>2. TypeInv /\ LockInv /\ [Next]_vars
        => [\A w \in Workers : reply[w] = None /\ reply'[w] = "balance"
              => BalanceOf(req[w].wallet) + Signed(req[w].direction, req[w].amount)
                   \notin Balances]_vars
  BY <1>1
<1> QED
  BY <1>2, TypeInvHolds, LockInvHolds, PTL DEF Spec, RefusedAtLimit

=============================================================================
