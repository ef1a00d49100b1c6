------------------------------ MODULE LockOrder ------------------------------
(***************************************************************************)
(* All the services of the program at once, as the row locks they take.    *)
(* Every service is one transaction, a fixed sequence of statements that   *)
(* may wait; here it is reduced to that sequence, its most complete form:  *)
(* where the code finds no row to lock, or returns early, it waits for     *)
(* less.  A lock is held until the transaction ends.                       *)
(*                                                                         *)
(* A row is locked FOR UPDATE, or by the insert of a unique key, which     *)
(* makes an insert of the same key wait; or FOR KEY SHARE, by a foreign    *)
(* key.  Django's foreign keys are checked when the transaction commits,   *)
(* and the only ones to a row that the transaction has neither locked nor  *)
(* inserted are those of the staff member who acts.                        *)
(***************************************************************************)
EXTENDS Naturals, Sequences

CONSTANTS
    Workers,
    Clerks,         \* those of them that are only asked to assign roles
    Subscribers, Services, Plans, Staff,
    Operators,      \* the staff who call the other services
    OwnerOf,        \* the subscriber of each service
    Transactions,   \* the providers' transaction numbers
    Events,         \* the stored M-PESA callbacks
    Ops,            \* operation identifiers
    Names,          \* package names
    RoleLists       \* what roles are asked for, in the order of their names

ASSUME LockOrderAssumption ==
    /\ Clerks \subseteq Workers
    /\ Operators \subseteq Staff
    /\ OwnerOf \in [Services -> Subscribers]
    /\ \A l \in RoleLists : l \in Seq(STRING)

VARIABLES
    program,    \* the requests of the call each worker runs; << >> when idle
    got         \* how many of them were granted

vars == <<program, got>>

Update(class, id) == [class |-> class, id |-> id, mode |-> "update"]
Share(u) == [class |-> "user", id |-> u, mode |-> "share"]

Fake == "fake"
Mpesa == "mpesa"
Payment(f, t) == Update("payment", <<f, t>>)

-----------------------------------------------------------------------------
(* The services of billing/services.py.  The rows that only change under   *)
(* the lock of another one, such as the entries of a wallet, are one row.  *)

PostEntry(s, o) ==
    <<Update("subscriber", s), Update("wallet", s), Update("entries", s),
      Update("entry_key", o)>>

\* Mutation: the actor's permission is checked under a lock of the staff row.
PostingByLockedActor(s, o, u) == PostEntry(s, o) \o <<Update("user", u)>>

(* post_manual_wallet_adjustment and reverse_ledger_entry.                 *)
Posting(s, o, u) == PostEntry(s, o) \o <<Share(u)>>

FakePayment(t, s, o, u) ==
    <<Update("profile", Fake), Payment(Fake, t)>> \o PostEntry(s, o)
        \o <<Update("allocation_key", o), Share(u)>>

(* The operation identifier of a confirmation is derived from its event.   *)
Confirmation(e, t, s) ==
    <<Update("event", e), Update("profile", Mpesa), Payment(Mpesa, t)>>
        \o PostEntry(s, e) \o <<Update("allocation_key", e)>>

Resolution(f, t, s, o, u) ==
    <<Update("case", <<f, t>>), Payment(f, t)>> \o PostEntry(s, o)
        \o <<Update("allocation_key", o), Share(u)>>

SyncProfile == <<Update("profile", Mpesa)>>

(* Service-first: service and subscriber, active subscription, package.    *)
ServiceRows(x) == <<Update("service", x), Update("subscriber", OwnerOf[x])>>

(* assign_package and change_subscription_package.                         *)
SellPackage(x, p, u) ==
    ServiceRows(x) \o <<Update("subscription", x), Update("plan", p), Share(u)>>

EndSubscription(x, u) == ServiceRows(x) \o <<Update("subscription", x), Share(u)>>

(* activate_billing_period and renew_billing_period.                       *)
PlainPeriod(x, o, u) ==
    ServiceRows(x) \o <<Update("subscription", x), Update("period", x),
                        Update("period_key", o), Share(u)>>

\* Mutation: the wallet is locked before its subscriber.
WalletFirst(x, o, u) ==
    <<Update("service", x), Update("wallet", OwnerOf[x]),
      Update("subscriber", OwnerOf[x]), Update("subscription", x),
      Update("period", x), Update("entries", OwnerOf[x]), Update("period_key", o),
      Update("entry_key", o), Update("charge_key", o), Share(u)>>

FundedPeriod(x, o, u) ==
    ServiceRows(x) \o
        <<Update("wallet", OwnerOf[x]), Update("subscription", x),
          Update("period", x), Update("entries", OwnerOf[x])>> \o
        <<Update("period_key", o), Update("entry_key", o), Update("charge_key", o),
          Share(u)>>

NewPackage(n, u) == <<Update("package_name", n), Share(u)>>

(* update_package, and set_package_active, which keeps the name.           *)
EditPackage(p, n, u) == <<Update("plan", p), Update("package_name", n), Share(u)>>

-----------------------------------------------------------------------------
(* The services of subscribers/services.py and users/services.py.          *)

NewSubscriber(u) == <<Update("sequence", "account"), Share(u)>>

NewService(s, u) == <<Update("subscriber", s), Update("sequence", s), Share(u)>>

(* update_subscriber and set_subscriber_active.                            *)
EditSubscriber(s, u) == <<Update("subscriber", s), Share(u)>>

(* update_service and set_service_active.                                  *)
EditService(x, u) == ServiceRows(x) \o <<Share(u)>>

(* assign_roles_to_user: the only one that locks a staff member's row.     *)
AssignRoles(u, l, a) ==
    <<Update("user", u)>> \o [i \in 1..Len(l) |-> Update("role", l[i])] \o <<Share(a)>>

OrderedPrograms ==
    {Posting(s, o, u) : s \in Subscribers, o \in Ops, u \in Operators}
    \cup {FakePayment(t, s, o, u) :
            t \in Transactions, s \in Subscribers, o \in Ops, u \in Operators}
    \cup {Confirmation(e, t, s) : e \in Events, t \in Transactions, s \in Subscribers}
    \cup {Resolution(f, t, s, o, u) :
            f \in {Fake, Mpesa}, t \in Transactions, s \in Subscribers, o \in Ops,
            u \in Operators}
    \cup {SyncProfile}
    \cup {SellPackage(x, p, u) : x \in Services, p \in Plans, u \in Operators}
    \cup {EndSubscription(x, u) : x \in Services, u \in Operators}
    \cup {PlainPeriod(x, o, u) : x \in Services, o \in Ops, u \in Operators}
    \cup {FundedPeriod(x, o, u) : x \in Services, o \in Ops, u \in Operators}
    \cup {NewPackage(n, u) : n \in Names, u \in Operators}
    \cup {EditPackage(p, n, u) : p \in Plans, n \in Names, u \in Operators}
    \cup {NewSubscriber(u) : u \in Operators}
    \cup {NewService(s, u) : s \in Subscribers, u \in Operators}
    \cup {EditSubscriber(s, u) : s \in Subscribers, u \in Operators}
    \cup {EditService(x, u) : x \in Services, u \in Operators}

RoleChanges == {AssignRoles(u, l, a) : u \in Staff, l \in RoleLists, a \in Staff}

Programs == OrderedPrograms \cup RoleChanges

-----------------------------------------------------------------------------
(* PostgreSQL's locks, and how it ends a deadlock.                         *)

Busy(w) == program[w] # << >>

Waiting(w) == got[w] < Len(program[w])

Wanted(w) == program[w][got[w] + 1]

Conflict(q, r) ==
    q.class = r.class /\ q.id = r.id /\ (q.mode = "update" \/ r.mode = "update")

(* v holds what w wants.                                                   *)
Blocks(v, w) ==
    /\ v # w
    /\ Waiting(w)
    /\ \E i \in 1..got[v] : Conflict(program[v][i], Wanted(w))

(* Workers that wait for each other in circles.                            *)
Deadlocked(S) ==
    /\ S # {}
    /\ \A w \in S : (\E v \in S : Blocks(v, w)) /\ (\E v \in S : Blocks(w, v))

(* A request that PostgreSQL may pass over for ever: newcomers that only   *)
(* want FOR KEY SHARE do not queue behind a FOR UPDATE of the same row.    *)
Overtakable(w) == Wanted(w).class = "user" /\ Wanted(w).mode = "update"

Start(w) ==
    /\ ~Busy(w)
    /\ \E p \in IF w \in Clerks THEN RoleChanges ELSE Programs :
          program' = [program EXCEPT ![w] = p]
    /\ UNCHANGED got

Acquire(w) ==
    /\ Waiting(w)
    /\ \A v \in Workers : ~Blocks(v, w)
    /\ got' = [got EXCEPT ![w] = @ + 1]
    /\ UNCHANGED program

End(w) ==
    /\ program' = [program EXCEPT ![w] = << >>]
    /\ got' = [got EXCEPT ![w] = 0]

(* Everything was granted: the transaction commits.                        *)
Finish(w) == Busy(w) /\ ~Waiting(w) /\ End(w)

(* An early return, a refusal, or the death of the worker, at any point.   *)
Stop(w) == Busy(w) /\ End(w)

BreakDeadlock(w) ==
    /\ \E S \in SUBSET Workers : w \in S /\ Deadlocked(S)
    /\ End(w)

Init ==
    /\ program = [w \in Workers |-> << >>]
    /\ got = [w \in Workers |-> 0]

Next ==
    \E w \in Workers :
        Start(w) \/ Acquire(w) \/ Finish(w) \/ Stop(w) \/ BreakDeadlock(w)

Spec == Init /\ [][Next]_vars

(* Workers keep running, and PostgreSQL serves the waiters of a row or an  *)
(* index key in the order they queued: strong fairness, except for a       *)
(* request that may be overtaken.  The deadlock detector runs after a      *)
(* second of waiting.  Nobody has to call, to give up or to die.           *)
Fairness ==
    \A w \in Workers :
        /\ SF_vars(Acquire(w) /\ ~Overtakable(w))
        /\ WF_vars(Finish(w))
        /\ WF_vars(BreakDeadlock(w))

FairSpec == Spec /\ Fairness

-----------------------------------------------------------------------------
(* A worker runs one of the programs, as far as its locks were granted,    *)
(* and an idle one holds nothing.                                          *)
TypeOK ==
    /\ program \in [Workers -> Programs \cup {<< >>}]
    /\ got \in [Workers -> Nat]
    /\ \A w \in Workers : got[w] <= Len(program[w])

(* The services agree on one order of the rows, across the applications    *)
(* they belong to: only the assignment of roles is ever part of a          *)
(* deadlock, and so is never to blame for the failure of another call.     *)
DeadlocksAmongRoleChanges ==
    \A S \in SUBSET Workers :
        Deadlocked(S) => \A w \in S : program[w] \in RoleChanges

(* Every other call ends.  Its audit row refers to the staff member who    *)
(* acts, and so waits for an assignment of roles to that person, which may *)
(* itself wait, or be caught in a deadlock with another assignment: it     *)
(* does not wait for ever, nor behind a duplicate of its own identifier.   *)
CallsEnd ==
    \A w \in Workers :
        program[w] \in OrderedPrograms ~> ~Busy(w)

=============================================================================
