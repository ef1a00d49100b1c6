------------------------------ MODULE Registry ------------------------------
(***************************************************************************)
(* The subscriber registry, from subscribers/services.py: registering      *)
(* subscribers and their services under numbers that are handed out in     *)
(* order, editing their profiles, switching them on and off.               *)
(*                                                                         *)
(* A reference <<k, n>> names a record.  Series 0 holds the subscribers,   *)
(* <<0, n>> being account SS00000n; series k holds the services of account *)
(* k, <<k, n>> being SS00000k-0n.  Each series has a SubscriberSequence    *)
(* row with the number to try next.  Every call is one transaction.        *)
(***************************************************************************)
EXTENDS Naturals

CONSTANTS
    Workers,        \* the web workers
    MaxAccount,     \* the last number six digits can show
    MaxService,     \* services an account can have
    Profiles,       \* what a form may say of a subscriber or a service
    NewProfiles,    \* bound: what it says of new ones
    Imports,        \* sets of references that may exist before the allocator runs
    MaxChanges,     \* bound: how many edits and switches are begun
    None

Accounts == 1..MaxAccount
Series == {0} \cup Accounts

Limit(k) == IF k = 0 THEN MaxAccount ELSE MaxService

References == UNION {{k} \X (1..Limit(k)) : k \in Series}

(* A set of records no service of which lacks its subscriber.              *)
Rooted(refs) == \A r \in refs : r[1] # 0 => <<0, r[1]>> \in refs

Record == [profile: Profiles, on: BOOLEAN]

(* The second of a unique key's writers fails; its transaction is lost.    *)
Answers == {"written", "full", "already", "duplicate"}

ASSUME RegistryAssumption ==
    /\ MaxAccount \in Nat \ {0}
    /\ MaxService \in Nat \ {0}
    /\ MaxChanges \in Nat
    /\ NewProfiles \subseteq Profiles
    /\ \A refs \in Imports : refs \subseteq References /\ Rooted(refs)
    /\ None \notin Nat /\ None \notin Record /\ None \notin Answers

VARIABLES
    records,        \* committed Subscriber and Service rows, or None
    nextValue,      \* committed SubscriberSequence rows, or None
    imported,       \* history: the references that existed at the start
    changes,        \* how many edits and switches were begun
    pc,             \* the statement each worker is about to run
    call,           \* the call it serves, or None
    rowLocks,       \* rows its transaction holds FOR UPDATE or has inserted
    draft,          \* what its transaction read and is about to write
    answer          \* how its call ended, None while it runs

rows == <<records, nextValue>>
around == <<imported, changes>>
vars == <<rows, around, pc, call, rowLocks, draft, answer>>

Steps ==
    {"idle", "lock_subscriber", "lock_sequence", "create_sequence", "allocate",
     "insert", "lock_record", "lock_owner", "write", "commit", "done"}

Call ==
    [kind: {"create"}, series: Series, profile: Profiles]
      \cup [kind: {"update"}, ref: References, profile: Profiles]
      \cup [kind: {"set_active"}, ref: References, on: BOOLEAN]

Draft == [number: Nat, record: Record \cup {None}]

NoDraft == [number |-> 0, record |-> None]

RecordRow(r) == <<"record", r>>
SequenceRow(k) == <<"sequence", k>>

Rows == ({"record"} \X References) \cup ({"sequence"} \X Series)

InUse == {r \in References : records[r] # None}

-----------------------------------------------------------------------------
(* Locks, and how a call ends.                                             *)

Free(row, w) == \A v \in Workers \ {w} : row \notin rowLocks[v]

Goto(w, step) == pc' = [pc EXCEPT ![w] = step]

Hold(w, row) == rowLocks' = [rowLocks EXCEPT ![w] = @ \cup {row}]

(* The transaction ends, with a commit or a rollback.                      *)
Finish(w, how) ==
    /\ Goto(w, "done")
    /\ answer' = [answer EXCEPT ![w] = how]
    /\ rowLocks' = [rowLocks EXCEPT ![w] = {}]
    /\ draft' = [draft EXCEPT ![w] = NoDraft]
    /\ UNCHANGED <<around, call>>

Refuse(w, how) == Finish(w, how) /\ UNCHANGED rows

Begin(w, c, step) ==
    /\ pc[w] = "idle"
    /\ call' = [call EXCEPT ![w] = c]
    /\ Goto(w, step)
    /\ UNCHANGED <<rows, imported, rowLocks, draft, answer>>

-----------------------------------------------------------------------------
(* Registering: create_subscriber for series 0, create_service for others. *)

SubmitCreate(w) ==
    \E k \in Series, p \in NewProfiles :
        /\ k # 0 => <<0, k>> \in InUse
        /\ Begin(w, [kind |-> "create", series |-> k, profile |-> p],
                 IF k = 0 THEN "lock_sequence" ELSE "lock_subscriber")
        /\ UNCHANGED changes

\* Mutation: services are numbered without their subscriber's lock.
ReadSubscriber(w) ==
    /\ pc[w] = "lock_subscriber"
    /\ Goto(w, "lock_sequence")
    /\ UNCHANGED <<rows, around, call, rowLocks, draft, answer>>

LockSubscriber(w) ==
    LET row == RecordRow(<<0, call[w].series>>) IN
    /\ pc[w] = "lock_subscriber"
    /\ Free(row, w)
    /\ Hold(w, row)
    /\ Goto(w, "lock_sequence")
    /\ UNCHANGED <<rows, around, call, draft, answer>>

(* A SELECT ... FOR UPDATE sees committed rows only: a sequence that       *)
(* another open transaction has just inserted does not exist yet.          *)
LockSequence(w) ==
    LET k == call[w].series IN
    /\ pc[w] = "lock_sequence"
    /\ IF nextValue[k] = None
       THEN Goto(w, "create_sequence") /\ UNCHANGED <<rowLocks, draft>>
       ELSE /\ Free(SequenceRow(k), w)
            /\ Hold(w, SequenceRow(k))
            /\ draft' = [draft EXCEPT ![w].number = nextValue[k]]
            /\ Goto(w, "allocate")
    /\ UNCHANGED <<rows, around, call, answer>>

\* Mutation: a new sequence begins with 0.
CreateSequenceAtZero(w) ==
    LET k == call[w].series IN
    /\ pc[w] = "create_sequence"
    /\ IF nextValue[k] # None
       THEN Refuse(w, "duplicate")
       ELSE /\ Free(SequenceRow(k), w)
            /\ Hold(w, SequenceRow(k))
            /\ Goto(w, "allocate")
            /\ UNCHANGED <<rows, around, call, draft, answer>>

(* The INSERT waits for another transaction's row of the same key.  If     *)
(* that was committed, it fails; the SELECT that the code tries next runs  *)
(* in the failed transaction, and PostgreSQL refuses it.                   *)
CreateSequence(w) ==
    LET k == call[w].series IN
    /\ pc[w] = "create_sequence"
    /\ IF nextValue[k] # None
       THEN Refuse(w, "duplicate")
       ELSE /\ Free(SequenceRow(k), w)
            /\ Hold(w, SequenceRow(k))
            /\ draft' = [draft EXCEPT ![w].number = 1]
            /\ Goto(w, "allocate")
            /\ UNCHANGED <<rows, around, call, answer>>

(* The numbers a series has left, from the one its sequence shows.         *)
Vacant(k, first) == {n \in first..Limit(k) : <<k, n>> \notin InUse}

\* Mutation: the last number of a series is never used.
AllocateShort(w) ==
    LET left == Vacant(call[w].series, draft[w].number) IN
    /\ pc[w] = "allocate"
    /\ IF left \ {Limit(call[w].series)} = {}
       THEN Refuse(w, "full")
       ELSE \E n \in left :
              /\ \A m \in left : n <= m
              /\ draft' = [draft EXCEPT ![w].number = n]
              /\ Goto(w, "insert")
              /\ UNCHANGED <<rows, around, call, rowLocks, answer>>

(* Both loops walk past numbers in use.  The services' stops at the limit; *)
(* the accounts' goes on to a seventh digit, which full_clean refuses.     *)
Allocate(w) ==
    LET left == Vacant(call[w].series, draft[w].number) IN
    /\ pc[w] = "allocate"
    /\ IF left = {}
       THEN Refuse(w, "full")
       ELSE \E n \in left :
              /\ \A m \in left : n <= m
              /\ draft' = [draft EXCEPT ![w].number = n]
              /\ Goto(w, "insert")
              /\ UNCHANGED <<rows, around, call, rowLocks, answer>>

(* The unique indexes on account_number and service_reference.             *)
Insert(w) ==
    LET r == <<call[w].series, draft[w].number>> IN
    /\ pc[w] = "insert"
    /\ IF r \in InUse
       THEN Refuse(w, "duplicate")
       ELSE /\ Free(RecordRow(r), w)
            /\ Hold(w, RecordRow(r))
            /\ draft' = [draft EXCEPT ![w].record = [profile |-> call[w].profile, on |-> TRUE]]
            /\ Goto(w, "commit")
            /\ UNCHANGED <<rows, around, call, answer>>

-----------------------------------------------------------------------------
(* Editing (update_subscriber, update_service) and switching               *)
(* (set_subscriber_active, set_service_active).                            *)

Change == changes < MaxChanges /\ changes' = changes + 1

SubmitUpdate(w) ==
    \E r \in InUse, p \in Profiles :
        /\ Change
        /\ Begin(w, [kind |-> "update", ref |-> r, profile |-> p], "lock_record")

SubmitSetActive(w) ==
    \E r \in InUse, on \in BOOLEAN :
        /\ Change
        /\ Begin(w, [kind |-> "set_active", ref |-> r, on |-> on], "lock_record")

NextAfterRecord(r) == IF r[1] = 0 THEN "write" ELSE "lock_owner"

\* Mutation: the record is read without FOR UPDATE.
ReadRecord(w) ==
    LET r == call[w].ref IN
    /\ pc[w] = "lock_record"
    /\ draft' = [draft EXCEPT ![w].record = records[r]]
    /\ Goto(w, NextAfterRecord(r))
    /\ UNCHANGED <<rows, around, call, rowLocks, answer>>

LockRecord(w) ==
    LET r == call[w].ref IN
    /\ pc[w] = "lock_record"
    /\ Free(RecordRow(r), w)
    /\ Hold(w, RecordRow(r))
    /\ draft' = [draft EXCEPT ![w].record = records[r]]
    /\ Goto(w, NextAfterRecord(r))
    /\ UNCHANGED <<rows, around, call, answer>>

(* A service comes with its subscriber in one statement, which locks both. *)
LockOwner(w) ==
    LET row == RecordRow(<<0, call[w].ref[1]>>) IN
    /\ pc[w] = "lock_owner"
    /\ Free(row, w)
    /\ Hold(w, row)
    /\ Goto(w, "write")
    /\ UNCHANGED <<rows, around, call, draft, answer>>

Asked(record, c) ==
    IF c.kind = "update" THEN [record EXCEPT !.profile = c.profile]
    ELSE [record EXCEPT !.on = c.on]

\* Mutation: a record that is so already is switched again.
WriteAnyway(w) ==
    LET c == call[w] IN
    /\ pc[w] = "write"
    /\ draft' = [draft EXCEPT ![w].record = Asked(@, c)]
    /\ Goto(w, "commit")
    /\ UNCHANGED <<rows, around, call, rowLocks, answer>>

Write(w) ==
    LET c == call[w] IN
    /\ pc[w] = "write"
    /\ IF c.kind = "set_active" /\ draft[w].record.on = c.on
       THEN Refuse(w, "already")
       ELSE /\ draft' = [draft EXCEPT ![w].record = Asked(@, c)]
            /\ Goto(w, "commit")
            /\ UNCHANGED <<rows, around, call, rowLocks, answer>>

-----------------------------------------------------------------------------
(* COMMIT, the answer, and death.                                          *)

Target(w) ==
    IF call[w].kind = "create" THEN <<call[w].series, draft[w].number>> ELSE call[w].ref

(* An edit saves every column; a switch names the one it changes.          *)
Saved(w) ==
    IF call[w].kind = "set_active"
    THEN [records[call[w].ref] EXCEPT !.on = draft[w].record.on]
    ELSE draft[w].record

\* Mutation: the sequence is not advanced.
CommitRecord(w) ==
    /\ pc[w] = "commit"
    /\ records' = [records EXCEPT ![Target(w)] = Saved(w)]
    /\ nextValue' = IF call[w].kind = "create"
                    THEN [nextValue EXCEPT ![call[w].series] = draft[w].number]
                    ELSE nextValue
    /\ Finish(w, "written")

Commit(w) ==
    /\ pc[w] = "commit"
    /\ records' = [records EXCEPT ![Target(w)] = Saved(w)]
    /\ nextValue' = IF call[w].kind = "create"
                    THEN [nextValue EXCEPT ![call[w].series] = draft[w].number + 1]
                    ELSE nextValue
    /\ Finish(w, "written")

Respond(w) ==
    /\ pc[w] = "done"
    /\ Goto(w, "idle")
    /\ call' = [call EXCEPT ![w] = None]
    /\ answer' = [answer EXCEPT ![w] = None]
    /\ UNCHANGED <<rows, around, rowLocks, draft>>

\* Mutation: what a sequence has handed out outlives a rollback.
CrashBurnsNumber(w) ==
    /\ pc[w] \notin {"idle", "done"}
    /\ Goto(w, "idle")
    /\ call' = [call EXCEPT ![w] = None]
    /\ rowLocks' = [rowLocks EXCEPT ![w] = {}]
    /\ draft' = [draft EXCEPT ![w] = NoDraft]
    /\ nextValue' = IF call[w].kind = "create" /\ draft[w].number > 0
                    THEN [nextValue EXCEPT ![call[w].series] = draft[w].number + 1]
                    ELSE nextValue
    /\ UNCHANGED <<records, around, answer>>

(* The worker dies: PostgreSQL rolls its transaction back.                 *)
Crash(w) ==
    /\ pc[w] \notin {"idle", "done"}
    /\ Goto(w, "idle")
    /\ call' = [call EXCEPT ![w] = None]
    /\ rowLocks' = [rowLocks EXCEPT ![w] = {}]
    /\ draft' = [draft EXCEPT ![w] = NoDraft]
    /\ UNCHANGED <<rows, around, answer>>

-----------------------------------------------------------------------------
(* The migration seeds the account sequence; other sequences are made when *)
(* they are first needed.  Rows written past the allocator may be there.   *)
Init ==
    /\ imported \in Imports
    /\ \E p \in NewProfiles :
         records = [r \in References |->
                      IF r \in imported THEN [profile |-> p, on |-> TRUE] ELSE None]
    /\ nextValue = [k \in Series |-> IF k = 0 THEN 1 ELSE None]
    /\ changes = 0
    /\ pc = [w \in Workers |-> "idle"]
    /\ call = [w \in Workers |-> None]
    /\ rowLocks = [w \in Workers |-> {}]
    /\ draft = [w \in Workers |-> NoDraft]
    /\ answer = [w \in Workers |-> None]

Next ==
    \E w \in Workers :
        \/ SubmitCreate(w) \/ LockSubscriber(w) \/ LockSequence(w) \/ CreateSequence(w)
        \/ Allocate(w) \/ Insert(w)
        \/ SubmitUpdate(w) \/ SubmitSetActive(w)
        \/ LockRecord(w) \/ LockOwner(w) \/ Write(w)
        \/ Commit(w) \/ Respond(w) \/ Crash(w)

Spec == Init /\ [][Next]_vars

-----------------------------------------------------------------------------
(* Every variable keeps the kind of value the code gives it.               *)
TypeOK ==
    /\ records \in [References -> Record \cup {None}]
    /\ nextValue \in [Series -> Nat \cup {None}]
    /\ imported \subseteq References
    /\ changes \in Nat
    /\ pc \in [Workers -> Steps]
    /\ call \in [Workers -> Call \cup {None}]
    /\ rowLocks \in [Workers -> SUBSET Rows]
    /\ draft \in [Workers -> Draft]
    /\ answer \in [Workers -> Answers \cup {None}]

(* A sequence is never behind and never ahead of its records: whatever     *)
(* workers died or were refused on the way, it has skipped no number that  *)
(* is free, and shows none it gave away ("never reused by the allocator",  *)
(* phase-3-subscriber-registry.md).                                        *)
SequencesExact ==
    \A k \in Series :
        LET next == IF nextValue[k] = None THEN 1 ELSE nextValue[k] IN
        /\ \A n \in 1..(next - 1) : <<k, n>> \in InUse
        /\ \A n \in next..Limit(k) : <<k, n>> \in InUse => <<k, n>> \in imported

(* The unique indexes never have to stop a registration, and the fallback  *)
(* of _lock_sequence, which could not work, is never reached.              *)
NoDuplicates == \A w \in Workers : answer[w] # "duplicate"

(* "A subscriber can have at most 99 services" is only said to one that    *)
(* has them all: rollbacks and imported rows cost no number.               *)
FullIsFull ==
    [][\A w \in Workers :
         answer[w] = None /\ answer'[w] = "full"
           => \A n \in 1..Limit(call[w].series) : <<call[w].series, n>> \in InUse]_vars

(* No edit undoes a switch that committed while it waited, no switch       *)
(* undoes an edit, and nothing else changes a record ("Services remain     *)
(* unchanged"): a step changes one field of one record, to what was asked. *)
AsAsked(r) ==
    \E w \in Workers :
        /\ pc[w] = "commit" /\ Target(w) = r
        /\ \/ /\ call[w].kind = "update"
              /\ records'[r] = [records[r] EXCEPT !.profile = call[w].profile]
           \/ /\ call[w].kind = "set_active"
              /\ records'[r] = [records[r] EXCEPT !.on = call[w].on]

NothingUndone ==
    [][\A r \in InUse : records'[r] # records[r] => AsAsked(r)]_vars

(* A switch that is reported and audited did happen: of two operators who  *)
(* switch the same record the same way, one is told so.                    *)
SwitchesReal ==
    [][\A w \in Workers :
         call[w] # None /\ call[w].kind = "set_active" /\ answer[w] = None
             /\ answer'[w] = "written"
           => records[call[w].ref].on # call[w].on]_vars

(* The numbers in use are handed out as the abstract numbering does.       *)
Numbers == INSTANCE Numbering WITH used <- InUse, Openings <- Imports

ImplementsNumbering == Numbers!Spec

=============================================================================
