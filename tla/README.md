# SuperSurf billing: a verification project

TLA+ models of the SuperSurf billing application (Django on PostgreSQL), the
TLC configurations that check them on small instances, and TLAPS proofs about the
wallet ledger, payments, billing, the registry, the order of row locks and the staff
roles. Paths are relative to the repository root; "the services" are the functions of `billing/services.py`,
`subscribers/services.py` and `users/services.py`.

## 1. Inventory

The program is a set of web pages over one PostgreSQL database. Several web
workers serve requests at once. Each service function is `transaction.atomic`
and runs at READ COMMITTED: a statement sees what was committed when it began,
and rows are locked with `select_for_update()`. Nothing else is shared: no
cache, no queue, and the only background task is a ping. So the hard part of
this code is what two transactions do to each other between two statements,
what a retry finds when the first attempt is still open, and what is left when
a worker dies.

| Component | State | Operations | Interacts with | What makes it correct | Status |
|---|---|---|---|---|---|
| Wallet ledger | `Wallet`, `LedgerEntry` (append-only, chained) | manual credit/debit, reversal, wallet creation; credits and charges from other services | payments and billing post to it; subscriber row is the common lock | one chain with running balances; one row per identifier; one reversal per row; balances in range | modelled |
| Payments, allocations, unmatched cases | `PaymentProviderProfile`, `Payment`, `PaymentAllocation`, `UnmatchedPaymentCase` | fake payment, Paybill ingestion, resolution | wallet ledger, registry, callbacks | a provider transaction is booked once, all of it, to one wallet | modelled |
| M-PESA callback evidence | `MpesaCallbackEvent`, `MpesaCallbackPaymentLink` | capture, processing, acknowledgement | the provider (retries), payments | the first payload counts; nothing unsettled is acknowledged; retries end | partly |
| Package subscriptions | `Subscription` | assign, change, end | catalogue, registry, periods | at most one active; sold as offered | modelled |
| Billing periods, wallet-funded renewals | `BillingPeriod`, `BillingCharge` | activate, renew, each plain or funded | subscriptions, wallet ledger, the clock | one chain of paid time; a charge has its period; nothing billed to what is switched off | modelled |
| Package catalogue | `Plan` | create, edit, switch | subscriptions copy its terms | - | partly |
| Subscriber registry | `Subscriber`, `Service`, `SubscriberSequence` | register, edit, switch on/off, number allocation | everything refers to it | numbers in order, without gaps, to the last of 99; no edit or switch undone | modelled |
| Row locks across the services | PostgreSQL's row locks and unique keys | the services of every component | all of them lock rows of the others | only role assignments deadlock; every other call ends, also behind them | modelled |
| Staff roles | `User.groups` | assign roles | audit (foreign key) | an Owner remains; decisions are not stale | partly |
| Audit trail | audit events | record | written in the transaction of the action | commits and rolls back with it | partly |
| Money | - | parse and format amounts | forms | - | not modelled |
| Organization, branding, settings; pages, forms, admin; background tasks; deployment | | | | | not modelled |

`PROJECT.json` lists for each component the source files, for each modelled
definition the lines it stands for, and the hazards at the lines where they bite.

## 2. Modules

| Module | Models | Role |
|---|---|---|
| `Ledger` | ledger rows, balance arithmetic, `LedgerEntry.clean` and the table's constraints | data, shared |
| `Account` | - | abstract: each identifier moves one account once; what follows for its users (`Promises`) |
| `AccountProofs` | - | theorem about `Account`, used for each module that implements it |
| `WalletLedger` | `post_manual_wallet_adjustment`, `reverse_ledger_entry`, statement by statement | core; implements `Account` |
| `WalletLedgerProofs` | - | theorems about `WalletLedger` |
| `PaymentBook` | - | abstract: a payment is received once and goes to one wallet |
| `PaymentIntake` | callback view, capture, `process_mpesa_paybill_confirmation_event`, `ingest_fake_payment`, `resolve_unmatched_payment`, `sync_mpesa_paybill_profile` | implements `PaymentBook` and `Account` |
| `PaymentIntakeProofs` | - | theorems about `PaymentIntake` |
| `PaidTime` | - | abstract: paid time grows one period at a time |
| `ServiceBilling` | subscriptions, activation and renewal, plain and funded | implements `PaidTime` |
| `ServiceBillingProofs` | - | theorems about `ServiceBilling` |
| `StaffRoles` | `assign_roles_to_user` with its locks | stand-alone |
| `StaffRolesProofs` | - | theorems about `StaffRoles` |
| `Numbering` | - | abstract: each series hands out its smallest unused number |
| `Registry` | `create_*`, `update_*`, `set_*_active` of `subscribers/services.py`, statement by statement | implements `Numbering` |
| `RegistryProofs` | - | theorems about `Registry` |
| `LockOrder` | every service of the program as the sequence of rows it locks | composes the lock behaviour of all components |
| `LockOrderProofs` | - | theorems about `LockOrder` |
| `FiniteFacts` | - | lemmas: a set of naturals has a least one, a family of finite sets a smallest one; what a sum over a finite set is |
| `MC...` | - | constants, symmetry and small definitions for TLC |

### How the models read

* A **step** is one SQL statement that reads, locks or writes, named in `pc`.
  What a transaction wrote lives in `draft` until `Commit` adds it to the
  committed rows in one step. Where several statements only read rows that the
  transaction has locked, nobody can tell them apart, and they are one step.
* **Row locks** are `rowLocks[w]`, kept to the end of the transaction.
  `SELECT ... FOR UPDATE` is enabled when no other worker holds the row.
* **Unique indexes**: an insert waits while another open transaction has the
  same key (`DraftedElsewhere`, `Uncommitted`, `HoldsPeriodKey`, ...) and is then
  accepted or refused by what was committed.
* **Saves**: every model's `save` is a `full_clean`, which sees the rows committed
  by then, followed by the insert. `WalletLedger` and `ServiceBilling` have a step
  for each, because the services answer them differently: an identifier that
  `full_clean` finds belongs to "a different ledger entry", one that the index
  refuses makes the form stale. In `WalletLedger` every constraint is modelled, and
  `DefencesIdle` shows that those on wallets and chains never act and the one on
  identifiers only where the identifier was spent on another wallet. In
  `ServiceBilling` the constraints on (service, sequence) and on a single active
  subscription are left out on purpose: the locks alone must keep the rows apart.
* **Data** are names: identifiers, reasons and references are model values, an
  amount is a small number of minor units, a fingerprint comparison is the
  equality of what it is computed from.
* **Crashes** end a worker's transaction at any step. In `PaymentIntake` the
  callback is two transactions, so a crash can fall between them; a redeployment
  stops all workers and may flip `MPESA_PAYBILL_INGESTION_ENABLED`, which no
  running process changes.
* **Other components** appear where they meet the modelled one: as atomic steps
  that need the rows they lock to be unlocked (`PaymentCredit` and `BillingCharge` in
  `WalletLedger`, `PostElsewhere`, `MoneyElsewhere`, `SetServiceActive`, ...).
  That is sound because those services take the same subscriber lock before they
  touch a wallet; their own statements are modelled in their own module. What
  an atomic step hides, that services wait for each other's rows, is the subject
  of `LockOrder`.
* **`LockOrder`** forgets the data and keeps the waiting: a call is the row locks
  its transaction asks for, in order (`program`), and how many were granted
  (`got`). Each program is the longest path of its service; a call that stops
  earlier is a `Stop`. Rows that only change under the lock of another row (the
  entries of a wallet) are one row. Unique keys are rows that an insert locks.
* **Audit rows** are written in the same transaction and no step can separate
  them from it, so they are left out, except in `StaffRoles` and `LockOrder`: there
  the foreign key on the actor takes `FOR KEY SHARE` on the user row, which can
  wait for a role assignment of that user and deadlock. Django declares foreign
  keys `DEFERRABLE INITIALLY DEFERRED`, so the lock is asked for at the commit.

Facts of the code that shaped the models:

* `resolve_unmatched_payment` locks the case with
  `select_for_update(of=("self",)).select_related("resolution_allocation")`.
  PostgreSQL re-reads the locked row after a wait but does not redo the outer
  join, so the joined allocation may be missing for a case that reads as
  resolved. The second lookup by operation identifier is what makes a repeated
  resolution succeed (`PickCase`, `Resolution`; property `ResolutionsReplayed`).
* The provider profile's lock serialises all ingestion of one provider, so the
  savepoint that recovers from a lost insert race is never needed
  (`InsertsAlone`).
* `PaymentAllocation.clean` guards a branch with `self.pk is None`, which a
  UUID default makes unreachable; the model has no such branch.
* No view passes `effective_at`, so a period starts at the time the service
  reads under its locks; another worker's clock may have moved on by the commit.
* Validation and STK callbacks are stored and lead nowhere.
* `synchronize` of the Paybill profile activates it; deactivation is possible at
  any time and no payment prevents it.
* `assign_roles_to_user` counts the remaining Owners with
  `select_for_update()...distinct().count()`. Django wraps a distinct count in a
  subquery and drops the lock clause: the count locks nothing. `is_active`
  changes through no page. The permission check is cached for the request, the
  check that the actor is an Owner is read anew.
* `_lock_sequence` answers an `IntegrityError` of its insert with another query
  in the same transaction, which PostgreSQL has aborted by then. The path is never
  reached (`NoDuplicates`): the migration seeds the account sequence, and a
  subscriber's sequence is only made under the subscriber's lock.
* The loop of `allocate_account_number` has no limit; a seventh digit is refused by
  the field's validation when the subscriber is saved.
* `update_subscriber` and `update_service` save every column of the row they locked,
  the switches only `is_active`.

## 3. Runs

Deadlock is checked in every run but `roles_any`. Sizes are distinct states.

| Run | Instance | Checks | Shows |
|---|---|---|---|
| `wallet` | 2 workers, 2 wallets, 3 identifiers, amount 1, limit 2; 435k | `TypeOK` `LedgerChain` `ReversalsSound` `LatestIsFresh` `DefencesIdle` `AnswersTrue` `RetriesReplayed` `RefusedAtLimit` `ImplementsAccount` | rows stay one chain, reversals stay single, what was read under locks is not stale, nobody makes a wallet twice or comes too late for the next row but for an identifier spent elsewhere, an accepted call has its row, a repeat is never refused, no movement is refused short of the limit, the rows are an `Account` |
| `payment_confirm` | 2 workers, 2 subscribers, a payment and a changed payload, 1 stop; fair; 246k | `TypeOK` `PaymentsAccounted` `EvidenceMatches` `AcksEarned` `RetriesEnd` | money follows the first evidence all or nothing; acknowledgements are earned; retries end |
| `payment_resolve` | 2 workers, 2 identifiers, unmatched and unusable confirmations, two fake payments of one transaction, movements by other services; 322k | `InsertsAlone` `ResolutionsReplayed` `ImplementsBook` `ImplementsAccount` | concurrent and repeated resolutions book once; the payments are a `PaymentBook`; with the movements of other services they are an `Account`, an identifier being spent once across payments, wallets and services |
| `billing_periods` | 1 service, 3 identifiers, times 0-3, grace 2, 1 switch; 282k | `PeriodsChained` `ImplementsPaidTime` | one chain of paid time before, in and after grace, no two periods of which overlap |
| `billing_subscriptions` | 2 packages, 2 terms, 2 subscriptions, 1 switch; 2.1M | `OneActive` `EligibleWhenBilled` `SoldAsOffered` | nothing is sold or billed that was switched off, edited or ended meanwhile |
| `billing_wallet` | 2 services on 1 wallet and 1 on another, funded calls, 2 identifiers, 1 other movement; 642k | `TypeOK` `WalletsAddUp` `ChargesBacked` `PeriodsPaid` `RefusalsTrue` | no lost update on a wallet; every charge has its period and price, also when an identifier is reused for another service or wallet; a save that fails late leaves no unpaid period; past the unlocked lookups no refusal hits a call that is done |
| `roles_any` | 2 workers, 3 staff, any role sets; 1.9M | `RolesFresh` `CountsOvertaken` `DeadlocksAreMutual` | decisions are made on the roles that are replaced; only the demotion of another Owner, with no requested role in common, overtakes a count of Owners; role rows never cause a deadlock |
| `registry` | 2 workers, 2 accounts of 2 services, with and without imported rows, 2 changes; 330k | `TypeOK` `SequencesExact` `NoDuplicates` `FullIsFull` `NothingUndone` `SwitchesReal` `ImplementsNumbering` | numbers are handed out in order and to the last one whatever dies or is refused; no edit or switch is lost or audited in vain |
| `lock_order` | 3 workers, of which one only assigns roles; 2 staff, of which one calls the other services; one of everything else; fair; 114k | `DeadlocksAmongRoleChanges` `CallsEnd` | every pair of calls at once, next to a role assignment: role assignments alone deadlock, and all other calls end, also those that wait for their actor's row behind an assignment that waits itself or is part of a deadlock |
| `billing_duplicates` | 2 workers, activate and end | `RetriesReplayed` **violated** | finding 1 |
| `billing_funded_duplicates` | 2 workers, funded activation | `ConflictsTrue` **violated** | finding 2 |
| `roles_owners` | 2 workers, 2 Owners | `OwnerRemains` **violated** | finding 3 |

**Bounds.** Two workers suffice for a race between two statements; a third
actor is present as the atomic steps of other services. Three identifiers give an
adjustment, its reversal and a third call that repeats or competes; two give a
retry and a conflict. Amount 1 under limit 2 reaches both ends of the range:
an overdraft is refused of an empty wallet, an overflow of a third credit, and a
second credit is not. Other amounts are left to the proofs. Two accounts of two services fill
every series: 99 and 999999 are what the limits stand for. In
`lock_order` the third worker (`Clerks`) is the one a deadlock of role changes needs
besides an ordered call that waits behind it, and only one staff member
(`Operators`) calls the other services; TLC sees one service and one subscriber
there. Circles of more calls, and calls for several services or subscribers, are
left to the proof of `DeadlockFree` (section 4), which has no such bounds. `MaxTime` 3 with duration 1 and grace
2 puts a renewal before expiry, on it, inside the grace, on its end and after
it. The one stop of `payment_confirm` falls at any statement of any call
(`payment_resolve` has none: a resolution is one transaction, and a rollback of it
leaves what was there before the call); one switch suffices to
disturb a call at any statement, and a second one would only undo it. The
bounds `MaxCrashes`, `MaxTime`, `MaxSubscriptions`, `MaxSwitches`, `MaxMoney`
are conjuncts of guards and named in the modules. Only `MaxMoney` is also a
limit of the code (`MAX_MONEY_MINOR`).

The type invariants of `StaffRoles` and `LockOrder` are in no run: they are proved
(`TypeCorrect`). `RefusalsTrue` runs with funded calls at one time, `billing_wallet`;
its theorem covers plain calls and every time.

**Symmetry** (workers, identifiers) is used in runs without fairness only, and
where no identifier or worker is named.

**Stopping.** In `roles_any` staff may end with neither an Owner nor an
Administrator, and then nobody may assign roles: the system stops, as the code
would. All other systems can always go on.

### Fairness

Two runs assume fairness. In both a worker that serves a call keeps running, and
no operator must act, no clock must move and no worker must crash.

`PaymentIntake`: `SF_vars(Proceed(w))` for every worker. PostgreSQL queues the
waiters of a row or key, so a waiter is not passed for ever by newcomers; weak
fairness would not do for a statement whose lock is taken and released again and
again by other calls. The provider's repetition of each unacknowledged
confirmation is fair too (`Retry`), as that is what a provider's retry means; it is
the assumption under which `RetriesEnd` asks something. `RetriesEnd` is stated
under the condition that ingestion stays on, the profile stays active and the
wallet has room: without these the code answers with an error each time, on
purpose.

`LockOrder`: strong fairness of `Acquire` for the same reason, but for one kind of
request. `FOR KEY SHARE` locks of a row are shared and do not queue behind a
waiting `FOR UPDATE`, so a role assignment may be overtaken for ever by calls of
the staff member it is about (`Overtakable`); `CallsEnd` therefore says nothing of
role assignments, and everything of the calls that may wait for one. The
deadlock detector (`BreakDeadlock`) is fair because PostgreSQL runs it after a
second of waiting.

### Findings

1. *A duplicate activation can be refused.* `docs/implementation/phase-5-billing-periods.md:85`
   promises the original period to a duplicate. The service asserts eligibility
   after its wait for the lock and before the second lookup of the identifier;
   if the subscription was ended or the service switched off between the
   original's commit and that point, the duplicate is refused
   (`billing/services.py:1852`). `RefusalsTrue` shows that no other refusal under the
   locks hits a call that is done.
2. *A funded duplicate can be called a conflict.* The first lookup of a funded
   call reads charges and then periods in separate statements
   (`billing/services.py:468`). If the original commits between them, the
   duplicate sees its period but not its charge and is told the identifier
   belongs to a different period; `docs/implementation/phase-7-wallet-funded-renewals.md:79`
   promises the existing charge. Nothing is billed twice. `RefusalsTrue`
   shows that this lookup is the only place where it can happen: everywhere else,
   up to the unique indexes, a conflict is only answered to calls that are not done.
3. *The final Owner can be removed.* Two Owners who give up the role at once each
   count the other (`users/services.py:100`), against
   `users/services.py:109` and `tests/test_phase_1_1_security.py:173`. In the run's
   instance the two calls request no role in common; a role in common would make
   one wait for the other's commit. `CountsOvertaken` says that this is the only way:
   the last Owner goes only by a call whose count was overtaken, and always by the
   demotion of another Owner that shares no requested role with it.

### Mutants

Every property of a passing run has a mutant in `PROJECT.json`: a definition is
replaced by a faulty variant that stands above it in the module (comment
"Mutation: ..."), such as a dropped `FOR UPDATE`, a lookup not repeated, or a
start date off by one rule, and the run then finds the property violated.

## 4. Proofs

### The abstract account

`AccountProofs` has one theorem, for any accounts, identifiers and money limit:

| Theorem | Statement |
|---|---|
| `PromisesKept` | `MaxMoney \in Nat /\ Spec => []Promises` |

`Promises` is what the users of a ledger rely on and no single row shows: a
balance is the sum of all moves of its account (`AddsUp`), an identifier stands for
one move (`AppliedOnce`), a move is undone at most once, by the opposite move of the
same account (`UndoneOnce`), and no account is overdrawn (`InRange`). Whatever
implements `Account` inherits it: `WalletLedger` and `PaymentIntake` do.

Sums are `SumFunctionOnSet` of the library, a fold, which is a `CHOOSE` of a
function that satisfies a recursive equation. `FiniteFacts` shows that such a
function exists and that all of them agree (`AddersAgree`), by looking at a smallest
set on which they would not, and from it that one more element adds its value
(`SumOneMore`).

### The wallet ledger

`WalletLedgerProofs` proves the following for every set of workers, subscribers,
identifiers and reasons, and every money limit:

| Theorem | Statement |
|---|---|
| `TypeCorrect` | `Spec => []TypeOK` |
| `ChainCorrect` | `Spec => []LedgerChain` |
| `ReversalsCorrect` | `Spec => []ReversalsSound` |
| `FreshLatest` | `Spec => []LatestIsFresh` |
| `DefencesNeverAct` | `Spec => []DefencesIdle` |
| `RefusalsAtLimit` | `Spec => RefusedAtLimit` |
| `AnswersAreTrue` | `Spec => []AnswersTrue` |
| `RetriesAreReplayed` | `Spec => RetriesReplayed` |
| `LedgerImplementsAccount` | `Spec => ImplementsAccount` |
| `LedgerKeepsPromises` | `Spec => []Kept!Promises` |

Assumptions: the money limit is positive, the amounts used are within it, and
`None` is not an identifier, a row or a reply (`LedgerAssumption`,
`WalletLedgerAssumption`, `ReplyAssumption`).

The argument has four layers, each an invariant used by the next:

1. `TypeInv`: types, plus two facts types alone do not give. Every wallet with
   rows has a last one (`HaveLast`), needed because the code's
   `order_by(...).first()` is a `CHOOSE` whose value is known only if a maximum
   exists, and there is no induction over finite sets to supply it;
   and a worker past a statement has what the statement produced
   (`WorkersReady`).
2. `ChainInv`: every committed row passed the model's and the table's checks
   against the other committed rows (`CommittedClean`), and a row that is inserted
   but not committed does so too (`InsertedClean`). `LedgerChain` alone is not
   inductive: it says nothing of the row about to be committed.
   `ReversalsSound` follows from the same checks.
3. `LockInv`: no row is locked twice, and a worker past the subscriber's lock
   holds it, its `latest` is the wallet's last row, and the row it builds follows
   on that (`Sound`). Hence at most one worker at a time is inside a wallet,
   `LatestIsFresh` and `RefusedAtLimit` hold, and a row built under the locks
   satisfies every constraint of the chain (`FreshRowFits`). Identifiers are
   not under these locks: the row can still lose its identifier, to a row of
   another wallet only, and that is all `DefencesIdle` leaves to the index.
4. `AnswerInv`: a worker past its second lookup knows no committed row answers
   its call, and a replied call has its row.

The refinement uses `HaveLast`, `CommittedClean` and `Sound`: the only step that
changes committed rows adds one that is the latest of its wallet, which is one
`Apply` of `Account`; all others stutter (`RowIsMove`, `StepIsMove`). With
`PromisesKept`, a wallet's balance, which the code takes from its last row, is the sum
of all signed amounts in its rows (`LedgerKeepsPromises`).

### Payments

`PaymentIntakeProofs` proves every safety property of the payment runs, for any
workers, subscribers, transactions, confirmations, operators' calls and bounds:

| Theorem | Statement |
|---|---|
| `TypeCorrect` | `Spec => []TypeOK` |
| `ReceivedIsAccounted` | `Spec => []PaymentsAccounted` |
| `MoneyFollowsEvidence` | `Spec => []EvidenceMatches` |
| `InsertsNeverRace` | `Spec => []InsertsAlone` |
| `AcknowledgedIsSettled` | `Spec => AcksEarned` |
| `RepeatedResolutionsSucceed` | `Spec => ResolutionsReplayed` |
| `PaymentIntakeImplementsBook` | `Spec => ImplementsBook` |
| `PaymentIntakeImplementsAccount` | `Spec => ImplementsAccount` |
| `IntakeKeepsPromises` | `Spec => []Kept!Promises` |

Assumptions: the money limit is positive, operators enter payments with an
amount, and `None` is none of the rows, tasks and answers it stands next to
(`PaymentIntakeAssumption`).

1. `TypeInv`: types but for the range of balances; no row is locked twice
   (`Exclusive`); and what a call past a statement has (`Ready`): the kind of task
   that gets there, the rows it drafted (`Drafts`) and the rows it locked
   (`Locked`).
2. `BookInv`: of each payment there is no trace, or it is there once and accounted
   for (`Accounted`); links lead from the right event to the right payment
   (`LinksSound`); and what a call found out is still so (`Known`). Under the
   lock of its profile a payment that was not there is still not there
   (`FindsNone`), under the lock of its case a case that was open still is
   (`FindsOpen`), under the lock of its subscriber the wallet still has room
   (`FindsRoom`), and evidence once captured is what is processed
   (`HasEvidence`). `PaymentsAccounted` alone is not inductive: it says nothing of
   what is about to be committed.
3. Only a commit writes payments, allocations and cases, and only of its own
   payment (`CommitElsewhere`). No other call relies on that payment's rows then
   (`CommitUndisturbs`): an intake would hold the same profile, a resolution the
   same case, and an intake and a resolution of one payment exclude each other
   because the one found nothing and the other a case. What a commit leaves is
   accounted for (`CommitBooks`, `CommitAccounts`).
4. The two invariants need each other. The types use that a resolution's payment
   exists and that a resolved case has an allocation, since both are picked with
   `CHOOSE` in the model as they are with `.get()` in the code; so they are one
   induction (`Inv`).

The refinement of the book is `CommitReceives`: a commit is one `Receive`, one
`Assign` or, for a link, nothing. Up to here the proofs use neither the lock of the
payment row nor the unique indexes: the locks of profile, case and subscriber are
enough.

They are not enough for identifiers. Two resolutions of payments to different
subscribers share no row, and each finds the identifier unused. `SpentInv` says
that the identifier an open transaction is about to spend is spent by no committed
row and no other open transaction; the unique index establishes it at the
insert, where the second call waits. So a commit is one `Apply` of the account
(`CommitMoves`), as is a movement of another service (`PostElsewhereMoves`), and a
balance is the sum of the allocations and of what other services posted.

### Billing

`ServiceBillingProofs` proves, for any workers, services and owners, any packages
and terms, any kinds of calls, identifiers and bounds:

| Theorem | Statement |
|---|---|
| `TypeCorrect` | `Spec => []TypeOK` |
| `OneIsActive` | `Spec => []OneActive` |
| `SoldAsItIsOffered` | `Spec => SoldAsOffered` |
| `PeriodsAreChained` | `Spec => []PeriodsChained` |
| `OnlyEligibleBilled` | `Spec => EligibleWhenBilled` |
| `ChargesAreBacked` | `Spec => []ChargesBacked` |
| `WalletsAlwaysAddUp` | `Spec => []WalletsAddUp` |
| `RefusalsAreTrue` | `Spec => RefusalsTrue` |
| `AllPeriodsPaid` | `Spec => []PeriodsPaid` |
| `ServiceBillingImplementsPaidTime` | `Spec => ImplementsPaidTime` |

Assumptions: every service has a subscriber, a package costs something within the
money limit and lasts some time, and `None` is none of the rows, calls and names
it stands next to (`ServiceBillingAssumption`).

1. `TypeInv`: types; a service has finitely many subscriptions and, if it has
   periods, a last one (its number would otherwise be the value of a `CHOOSE`
   nobody knows); a worker past a statement has what it produced (`Ready`),
   and an open transaction's rows are of the kind its call writes (`Drafts`).
2. `LockInv`: a row is locked by one worker, and a call past a lock holds it
   (`Holds`). So two calls past the service's lock are for different services
   (`OneOnService`). To state this once for all, `StepEffects` reduces the
   statements to seven that go on and one kind that ends or has not begun.
3. `KnownInv`: what a call read under its locks is still so (`Known`): service and
   subscriber are active, the subscription it bills is the active one, its
   period extends the latest one, the package it sells is on sale on these terms.
   Each holds because whoever disturbs it needs a row the call holds (`OthersKnow`,
   `AroundKnows`). The locks do not cover the identifiers of other services:
   two inserted periods differ in theirs only because the unique index makes
   one wait (`OpsApart`). What the saves find can therefore only belong to other
   services, and a refusal there never hits a call that is done (`NotAnswered`).
4. Only a commit changes the rows that billing is about (`OnlyCommitsBill`), and the
   properties compare what it writes with what the call still knows
   (`PeriodCommit`, `AssignmentCommit`). A new period has the largest number of its
   service (`NewIsLast`), hence is what `PaidTime` sees of it (`CommitExtends`).
   `PeriodsChained` speaks of any two periods of a service, the rules of the code only of
   neighbours; `ChainInv` adds that a period does not end before it starts.
5. `MoneyInv`: a wallet holds what was paid in less the sum of its charges, there
   are finitely many of them to add up, and a call that has drafted a charge knows
   what the wallet holds, since nobody else holds its subscriber's row
   (`PricesRight`). So the balance its ledger row leaves is the committed one less
   the price.

`RefusalsTrue` excepts two places, and neither can be dropped: `ConflictsTrue`,
without the exception of the unlocked lookup, is false of funded calls (finding 2),
and `RetriesReplayed`, without that of eligibility, of all (finding 1).

### The order of row locks

`LockOrderProofs` proves, for every set of workers, subscribers, services,
packages, staff, identifiers and lists of roles:

| Theorem | Statement |
|---|---|
| `TypeCorrect` | `Spec => []TypeOK` |
| `DeadlockFree` | `Spec => []DeadlocksAmongRoleChanges` |

Assumptions: every service has a subscriber, and roles are asked for by name
(`LockOrderAssumption`).

`TypeOK` is inductive and all the invariant that is needed: what a worker holds
is a prefix of its program. The rest is about the programs. Every class of rows
gets a rank (`Rank`), and each program but a role assignment `Ascends`: it asks
for rows of strictly rising ranks, a staff member's row being the last. This is
shown for the pieces the programs are made of and for their concatenations
(`Joined`, `ProgramsAscend`). A call of this kind that waits holds rows of lower
rank than the one it wants (`HeldBelowWanted`), and a role assignment never waits for
it, because the only row of a role assignment that it asks for is its last one
(`NeverBehindOrdered`). So in a circle each such call holds what another
such call wants, which is of lower rank than what it wants itself; the one that
wants the least rank (`LeastNatural`) has no such neighbour.

### The registry

`RegistryProofs` proves every property of the run `registry`, for every set of
workers, any numbers of accounts and services per account, any profiles and any
rows that were imported:

| Theorem | Statement |
|---|---|
| `TypeCorrect` | `Spec => []TypeOK` |
| `SequencesAreExact` | `Spec => []SequencesExact` |
| `DuplicatesNeverMet` | `Spec => []NoDuplicates` |
| `FullMeansFull` | `Spec => FullIsFull` |
| `NothingIsUndone` | `Spec => NothingUndone` |
| `SwitchesAreReal` | `Spec => SwitchesReal` |
| `RegistryImplementsNumbering` | `Spec => ImplementsNumbering` |

Assumptions: there is at least one account and one service number, imported rows
are references whose subscribers were imported too, and `None` is no number,
record or answer (`RegistryAssumption`).

1. `TypeInv`: types, and that a worker past a statement has what it produced.
2. `LockInv`: a row is locked by one worker (`Exclusive`), and a worker past a
   lock holds it (`Holds`).
3. `KnownInv`: what a worker has read is still so (`Known`). A registration past
   the lock of its sequence knows the sequence's number, and past the loop that
   its number is the smallest unused one from there on (`NextOf`). A
   change knows the record it is about to write. Each holds because whoever
   disturbs it must hold the same row: `OthersKnow` goes through the commits of the
   others, `StepKnows` through the worker's own statements.
4. With that, a commit hands out the number the sequence stood at or the next one
   that no imported row has (`CommitIssues`), and leaves the sequence right behind
   it (`CommitExact`). `SequencesExact` follows, and so does the refinement.

### Staff roles

`StaffRolesProofs` proves, for any staff, any roles and any order of their names:

| Theorem | Statement |
|---|---|
| `TypeCorrect` | `Spec => []TypeOK` |
| `FreshRoles` | `Spec => []RolesFresh` |
| `OnlyMutualDeadlocks` | `Spec => []DeadlocksAreMutual` |
| `OwnersOvertaken` | `Spec => CountsOvertaken` |

Assumptions: there are finitely many roles with an order, the Owner is one of
them, and `None` is none of the values it stands next to
(`StaffRolesAssumption`).

`LockInv` says that a call past its first statement holds the row of its target,
and that the role rows it holds come, by name, before those it has still to
lock. `RolesFresh` needs the first part: whoever replaces the
roles of the target would hold the same row. `DeadlocksAreMutual` needs the second: in a circle
without a call at its audit row, every call waits for a call that waits for a
role row, so a call that waits for a role row has a blocker that waits for
a later one (`BlockedByLaterName`); the call that waits for the last role has none.

`OwnerRemains` is false (finding 3). `CountsOvertaken` says how it can go wrong, and
that nothing else can: a call that demotes an Owner and has counted another one holds
the rows of its target and of every role requested of it. So whoever changes an Owner
meanwhile changes another person, was asked for none of these roles, and must
itself be a demotion that passed its count.

### What is only model-checked

Liveness (`CallsEnd`, `RetriesEnd`; fairness is out of the prover's reach).
Every other property of a passing run is proved. Of the three properties found
violated, `CountsOvertaken` and `RefusalsTrue` prove where, and only where, the
violation of `OwnerRemains` and `ConflictsTrue` lies; `RetriesReplayed` of billing
fails at the check of eligibility and in that same lookup, and nowhere else, which
is `RefusalsTrue` as well.

## 5. Not modelled, and why

* Money parsing and formatting: pure conversion, planned as operators.
* Sessions that a role assignment deletes, seeding, creation of the first Owner.
* Organization, branding and settings: two rows with one form, related to nothing
  else. The form's view locks nothing, and its audit row is written after the
  transaction; both are listed as hazards without a property, and planned.
* The creation of a package as data (`ServiceBilling` starts with packages that
  exist); its locks are in `LockOrder`.
* Pages, forms, admin, listing, the health task, deployment files, secret
  scanner: I/O and rendering; what a form lets through is the input of the
  modelled calls.
* Callback tokens, body limits and field extraction: they decide before any row
  is touched; a payload that cannot be booked is a message without an amount.
* Serialization failures and statement timeouts: READ COMMITTED raises none of
  the former, and a timeout is the crash of a transaction.

## 6. Plan

Done, in this order: the ledger with its abstract account and proofs; payment
intake with its abstract book; billing with its abstract paid time; staff roles;
the registry with its abstract numbering and proofs; the lock order of all
services, with its proof; the proofs about staff roles, billing and payments; sums of
money and the promises of the account.

Next:

1. `OrganizationSettings`: two edits of the same row at once, and the audit row
   that follows the transaction.
2. Sessions and seeding next to `StaffRoles`.
3. `Money`: parsing and formatting against a reference over bounded inputs.
