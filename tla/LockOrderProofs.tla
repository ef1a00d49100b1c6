-------------------------- MODULE LockOrderProofs --------------------------
(***************************************************************************)
(* Proofs about LockOrder, for any numbers of workers and rows.  The       *)
(* programs are checked piece by piece: but for the assignment of roles    *)
(* they ask for rows in the order of their classes, a staff member's row   *)
(* last.                                                                   *)
(***************************************************************************)
EXTENDS LockOrder, FiniteFacts, SequenceTheorems, TLAPS

(* The order of the classes of rows.                                       *)
Rank ==
    [event |-> 1, profile |-> 2, case |-> 3, payment |-> 4, service |-> 5,
     subscriber |-> 6, sequence |-> 7, wallet |-> 8, subscription |-> 9,
     period |-> 10, entries |-> 11, plan |-> 12, package_name |-> 13,
     period_key |-> 14, entry_key |-> 15, allocation_key |-> 16, charge_key |-> 17,
     user |-> 18]

Ids ==
    Subscribers \cup Services \cup Plans \cup Staff \cup Events \cup Ops \cup Names
        \cup ({Fake, Mpesa} \X Transactions) \cup {Fake, Mpesa, "account"}

Request == [class : DOMAIN Rank, id : Ids, mode : {"update", "share"}]

(* The requests of p come in the order of their classes, the first of rank *)
(* lo or more and the last of rank hi or less.                             *)
Ascends(p, lo, hi) ==
    /\ p \in Seq(Request)
    /\ \A i \in 1..Len(p) : Rank[p[i].class] \in lo..hi
    /\ \A i, j \in 1..Len(p) : i < j => Rank[p[i].class] < Rank[p[j].class]

LEMMA RequestType ==
    /\ \A class \in DOMAIN Rank, id \in Ids : Update(class, id) \in Request
    /\ \A u \in Staff : Share(u) \in Request
<1>1. \A class \in DOMAIN Rank, id \in Ids : Update(class, id) \in Request
  BY DEF Update, Request
<1>2. Staff \subseteq Ids
  BY DEF Ids
<1>3. \A u \in Staff : Share(u) \in Request
  BY <1>2 DEF Share, Request, Rank
<1> QED BY <1>1, <1>3

LEMMA IdsOfRows ==
    /\ Subscribers \subseteq Ids /\ Services \subseteq Ids /\ Plans \subseteq Ids
    /\ Staff \subseteq Ids /\ Events \subseteq Ids /\ Ops \subseteq Ids /\ Names \subseteq Ids
    /\ {Fake, Mpesa} \X Transactions \subseteq Ids
    /\ {Fake, Mpesa, "account"} \subseteq Ids
BY DEF Ids

(* What comes after p ranks higher.                                        *)
LEMMA Joined ==
    ASSUME NEW p, NEW q, NEW a \in Nat, NEW b \in Nat, NEW c \in Nat, NEW d \in Nat,
           Ascends(p, a, b), Ascends(q, c, d), a <= c, b < c, b <= d
    PROVE  Ascends(p \o q, a, d)
<1> DEFINE r == p \o q
<1>1. /\ r \in Seq(Request)
      /\ Len(r) = Len(p) + Len(q)
      /\ \A i \in 1..Len(p) + Len(q) :
            r[i] = IF i <= Len(p) THEN p[i] ELSE q[i - Len(p)]
  BY ConcatProperties DEF Ascends
<1>2. Len(p) \in Nat /\ Len(q) \in Nat
  BY DEF Ascends
<1>3. \A i \in 1..Len(r) :
        \/ i \in 1..Len(p) /\ r[i] = p[i]
        \/ i - Len(p) \in 1..Len(q) /\ r[i] = q[i - Len(p)] /\ i > Len(p)
  <2> HIDE DEF r
  <2> QED BY <1>1, <1>2
<1> HIDE DEF r
<1>4. \A i \in 1..Len(p) : Rank[p[i].class] \in a..b
  BY DEF Ascends
<1>5. \A i \in 1..Len(q) : Rank[q[i].class] \in c..d
  BY DEF Ascends
<1>6. ASSUME NEW i \in 1..Len(r)
      PROVE  Rank[r[i].class] \in a..d
  <2>1. CASE i \in 1..Len(p) /\ r[i] = p[i]
    BY <1>4, <2>1
  <2>2. CASE i - Len(p) \in 1..Len(q) /\ r[i] = q[i - Len(p)]
    <3>1. Rank[r[i].class] \in c..d
      BY <1>5, <2>2
    <3> QED BY <3>1
  <2> QED BY <1>3, <2>1, <2>2
<1>7. ASSUME NEW i \in 1..Len(r), NEW j \in 1..Len(r), i < j
      PROVE  Rank[r[i].class] < Rank[r[j].class]
  <2>1. CASE j \in 1..Len(p) /\ r[j] = p[j]
    <3>1. i \in 1..Len(p) /\ r[i] = p[i]
      BY <1>3, <1>2, <1>7, <2>1
    <3> QED BY <1>7, <2>1, <3>1 DEF Ascends
  <2>2. CASE j - Len(p) \in 1..Len(q) /\ r[j] = q[j - Len(p)] /\ j > Len(p)
    <3>1. CASE i \in 1..Len(p) /\ r[i] = p[i]
      BY <1>4, <1>5, <2>2, <3>1
    <3>2. CASE i - Len(p) \in 1..Len(q) /\ r[i] = q[i - Len(p)]
      <4>1. i - Len(p) < j - Len(p)
        BY <1>7, <1>2
      <4> QED BY <2>2, <3>2, <4>1 DEF Ascends
    <3> QED BY <1>3, <3>1, <3>2
  <2> QED BY <1>3, <2>1, <2>2
<1> QED BY <1>1, <1>6, <1>7 DEF Ascends, r

-----------------------------------------------------------------------------
(* The pieces the programs are made of.                                    *)

LEMMA TheActor ==
    ASSUME NEW u \in Staff
    PROVE  Ascends(<<Share(u)>>, 18, 18)
BY RequestType, IdsOfRows DEF Ascends, Update, Share, Rank

LEMMA PostEntryAscends ==
    ASSUME NEW s \in Subscribers, NEW o \in Ops \cup Events
    PROVE  Ascends(PostEntry(s, o), 6, 15)
BY RequestType, IdsOfRows DEF Ascends, PostEntry, Update, Share, Rank

LEMMA FakeReceived ==
    ASSUME NEW t \in Transactions
    PROVE  Ascends(<<Update("profile", Fake), Payment(Fake, t)>>, 2, 4)
BY RequestType, IdsOfRows DEF Ascends, Update, Share, Rank, Payment

LEMMA Allocated ==
    ASSUME NEW o \in Ops, NEW u \in Staff
    PROVE  Ascends(<<Update("allocation_key", o), Share(u)>>, 16, 18)
BY RequestType, IdsOfRows DEF Ascends, Update, Share, Rank

LEMMA Confirmed ==
    ASSUME NEW e \in Events, NEW t \in Transactions
    PROVE  Ascends(<<Update("event", e), Update("profile", Mpesa), Payment(Mpesa, t)>>, 1, 4)
BY RequestType, IdsOfRows DEF Ascends, Update, Share, Rank, Payment

LEMMA ConfirmedAllocation ==
    ASSUME NEW e \in Events
    PROVE  Ascends(<<Update("allocation_key", e)>>, 16, 16)
BY RequestType, IdsOfRows DEF Ascends, Update, Share, Rank

LEMMA CaseOpened ==
    ASSUME NEW f \in {Fake, Mpesa}, NEW t \in Transactions
    PROVE  Ascends(<<Update("case", <<f, t>>), Payment(f, t)>>, 3, 4)
BY RequestType, IdsOfRows DEF Ascends, Update, Share, Rank, Payment

LEMMA ServiceLocked ==
    ASSUME NEW x \in Services
    PROVE  Ascends(ServiceRows(x), 5, 6)
<1>1. OwnerOf[x] \in Subscribers
  BY LockOrderAssumption
<1> QED BY <1>1, RequestType, IdsOfRows DEF Ascends, Update, Share, Rank, ServiceRows

LEMMA Sold ==
    ASSUME NEW x \in Services, NEW p \in Plans, NEW u \in Staff
    PROVE  Ascends(<<Update("subscription", x), Update("plan", p), Share(u)>>, 9, 18)
BY RequestType, IdsOfRows DEF Ascends, Update, Share, Rank

LEMMA Ended ==
    ASSUME NEW x \in Services, NEW u \in Staff
    PROVE  Ascends(<<Update("subscription", x), Share(u)>>, 9, 18)
BY RequestType, IdsOfRows DEF Ascends, Update, Share, Rank

LEMMA PeriodAdded ==
    ASSUME NEW x \in Services, NEW o \in Ops, NEW u \in Staff
    PROVE  Ascends(<<Update("subscription", x), Update("period", x),
                     Update("period_key", o), Share(u)>>, 9, 18)
BY RequestType, IdsOfRows DEF Ascends, Update, Share, Rank

LEMMA FundedRows ==
    ASSUME NEW x \in Services
    PROVE  Ascends(<<Update("wallet", OwnerOf[x]), Update("subscription", x),
                     Update("period", x), Update("entries", OwnerOf[x])>>, 8, 11)
<1>1. OwnerOf[x] \in Subscribers
  BY LockOrderAssumption
<1> QED BY <1>1, RequestType, IdsOfRows DEF Ascends, Update, Share, Rank

LEMMA FundedKeys ==
    ASSUME NEW o \in Ops, NEW u \in Staff
    PROVE  Ascends(<<Update("period_key", o), Update("entry_key", o),
                     Update("charge_key", o), Share(u)>>, 14, 18)
BY RequestType, IdsOfRows DEF Ascends, Update, Share, Rank

-----------------------------------------------------------------------------
(* The programs.                                                           *)

LEMMA Widened ==
    ASSUME NEW p, NEW a \in 1..18, NEW b \in 1..18, Ascends(p, a, b)
    PROVE  Ascends(p, 1, 18)
<1>1. a..b \subseteq 1..18
  OBVIOUS
<1> QED BY <1>1 DEF Ascends

LEMMA PaymentsAscend ==
    /\ \A s \in Subscribers, o \in Ops, u \in Staff : Ascends(Posting(s, o, u), 6, 18)
    /\ \A t \in Transactions, s \in Subscribers, o \in Ops, u \in Staff :
          Ascends(FakePayment(t, s, o, u), 2, 18)
    /\ \A e \in Events, t \in Transactions, s \in Subscribers :
          Ascends(Confirmation(e, t, s), 1, 16)
    /\ \A f \in {Fake, Mpesa}, t \in Transactions, s \in Subscribers, o \in Ops,
          u \in Staff : Ascends(Resolution(f, t, s, o, u), 3, 18)
<1>1. ASSUME NEW s \in Subscribers, NEW o \in Ops, NEW u \in Staff
      PROVE  Ascends(Posting(s, o, u), 6, 18)
  BY PostEntryAscends, TheActor, Joined DEF Posting
<1>2. ASSUME NEW t \in Transactions, NEW s \in Subscribers, NEW o \in Ops, NEW u \in Staff
      PROVE  Ascends(FakePayment(t, s, o, u), 2, 18)
  <2>1. Ascends(<<Update("profile", Fake), Payment(Fake, t)>> \o PostEntry(s, o), 2, 15)
    BY FakeReceived, PostEntryAscends, Joined
  <2> QED BY <2>1, Allocated, Joined DEF FakePayment
<1>3. ASSUME NEW e \in Events, NEW t \in Transactions, NEW s \in Subscribers
      PROVE  Ascends(Confirmation(e, t, s), 1, 16)
  <2>1. Ascends(<<Update("event", e), Update("profile", Mpesa), Payment(Mpesa, t)>>
                  \o PostEntry(s, e), 1, 15)
    BY Confirmed, PostEntryAscends, Joined
  <2> QED BY <2>1, ConfirmedAllocation, Joined DEF Confirmation
<1>4. ASSUME NEW f \in {Fake, Mpesa}, NEW t \in Transactions, NEW s \in Subscribers,
             NEW o \in Ops, NEW u \in Staff
      PROVE  Ascends(Resolution(f, t, s, o, u), 3, 18)
  <2>1. Ascends(<<Update("case", <<f, t>>), Payment(f, t)>> \o PostEntry(s, o), 3, 15)
    BY CaseOpened, PostEntryAscends, Joined
  <2> QED BY <2>1, Allocated, Joined DEF Resolution
<1> QED BY <1>1, <1>2, <1>3, <1>4

LEMMA BillingAscends ==
    /\ \A x \in Services, p \in Plans, u \in Staff : Ascends(SellPackage(x, p, u), 5, 18)
    /\ \A x \in Services, u \in Staff : Ascends(EndSubscription(x, u), 5, 18)
    /\ \A x \in Services, o \in Ops, u \in Staff : Ascends(PlainPeriod(x, o, u), 5, 18)
    /\ \A x \in Services, o \in Ops, u \in Staff : Ascends(FundedPeriod(x, o, u), 5, 18)
<1>1. ASSUME NEW x \in Services, NEW p \in Plans, NEW u \in Staff
      PROVE  Ascends(SellPackage(x, p, u), 5, 18)
  BY ServiceLocked, Sold, Joined DEF SellPackage
<1>2. ASSUME NEW x \in Services, NEW u \in Staff
      PROVE  Ascends(EndSubscription(x, u), 5, 18)
  BY ServiceLocked, Ended, Joined DEF EndSubscription
<1>3. ASSUME NEW x \in Services, NEW o \in Ops, NEW u \in Staff
      PROVE  Ascends(PlainPeriod(x, o, u), 5, 18)
  BY ServiceLocked, PeriodAdded, Joined DEF PlainPeriod
<1>4. ASSUME NEW x \in Services, NEW o \in Ops, NEW u \in Staff
      PROVE  Ascends(FundedPeriod(x, o, u), 5, 18)
  <2> DEFINE front == ServiceRows(x) \o
        <<Update("wallet", OwnerOf[x]), Update("subscription", x),
          Update("period", x), Update("entries", OwnerOf[x])>>
  <2>1. Ascends(front, 5, 11)
    BY ServiceLocked, FundedRows, Joined
  <2> QED BY <2>1, FundedKeys, Joined DEF FundedPeriod
<1> QED BY <1>1, <1>2, <1>3, <1>4

LEMMA CatalogueAndRegistryAscend ==
    /\ Ascends(SyncProfile, 2, 2)
    /\ \A n \in Names, u \in Staff : Ascends(NewPackage(n, u), 13, 18)
    /\ \A p \in Plans, n \in Names, u \in Staff : Ascends(EditPackage(p, n, u), 12, 18)
    /\ \A u \in Staff : Ascends(NewSubscriber(u), 7, 18)
    /\ \A s \in Subscribers, u \in Staff : Ascends(NewService(s, u), 6, 18)
    /\ \A s \in Subscribers, u \in Staff : Ascends(EditSubscriber(s, u), 6, 18)
    /\ \A x \in Services, u \in Staff : Ascends(EditService(x, u), 5, 18)
<1> USE RequestType, IdsOfRows DEF Ascends, Update, Share, Rank
<1>1. Ascends(SyncProfile, 2, 2)
  BY DEF SyncProfile
<1>2. ASSUME NEW n \in Names, NEW u \in Staff PROVE Ascends(NewPackage(n, u), 13, 18)
  BY DEF NewPackage
<1>3. ASSUME NEW p \in Plans, NEW n \in Names, NEW u \in Staff
      PROVE  Ascends(EditPackage(p, n, u), 12, 18)
  BY DEF EditPackage
<1>4. ASSUME NEW u \in Staff PROVE Ascends(NewSubscriber(u), 7, 18)
  BY DEF NewSubscriber
<1>5. ASSUME NEW s \in Subscribers, NEW u \in Staff
      PROVE  Ascends(NewService(s, u), 6, 18) /\ Ascends(EditSubscriber(s, u), 6, 18)
  BY DEF NewService, EditSubscriber
<1> HIDE DEF Ascends, Update, Share, Rank
<1>6. ASSUME NEW x \in Services, NEW u \in Staff PROVE Ascends(EditService(x, u), 5, 18)
  BY ServiceLocked, TheActor, Joined DEF EditService
<1> QED BY <1>1, <1>2, <1>3, <1>4, <1>5, <1>6

LEMMA ProgramsAscend ==
    ASSUME NEW p \in OrderedPrograms
    PROVE  Ascends(p, 1, 18)
<1>1. Operators \subseteq Staff
  BY LockOrderAssumption
<1> QED
  BY <1>1, PaymentsAscend, BillingAscends, CatalogueAndRegistryAscend, Widened
     DEF OrderedPrograms

LEMMA Wrapped ==
    ASSUME NEW R, NEW f \in Seq(R), NEW m \in Seq(R), NEW g \in Seq(R),
           Len(f) = 1, Len(g) = 1
    PROVE  /\ (f \o m) \o g \in Seq(R)
           /\ Len((f \o m) \o g) = Len(m) + 2
           /\ \A i \in 1..Len(m) + 2 :
                ((f \o m) \o g)[i]
                    = IF i = 1 THEN f[1] ELSE IF i = Len(m) + 2 THEN g[1] ELSE m[i - 1]
<1>1. /\ f \o m \in Seq(R)
      /\ Len(f \o m) = Len(f) + Len(m)
      /\ \A i \in 1..Len(f) + Len(m) :
            (f \o m)[i] = IF i <= Len(f) THEN f[i] ELSE m[i - Len(f)]
  BY ConcatProperties
<1>2. PICK h \in Seq(R) : h = f \o m
  BY <1>1
<1>3. PICK p \in Seq(R) : p = h \o g
  BY ConcatProperties
<1>4. /\ Len(p) = Len(h) + Len(g)
      /\ \A i \in 1..Len(h) + Len(g) : p[i] = IF i <= Len(h) THEN h[i] ELSE g[i - Len(h)]
  BY <1>3, ConcatProperties
<1>5. Len(m) \in Nat
  OBVIOUS
<1>6. /\ Len(p) = Len(m) + 2
      /\ \A i \in 1..Len(m) + 2 :
            p[i] = IF i = 1 THEN f[1] ELSE IF i = Len(m) + 2 THEN g[1] ELSE m[i - 1]
  BY <1>1, <1>2, <1>4, <1>5
<1>7. p = (f \o m) \o g
  BY <1>2, <1>3
<1> QED BY <1>6, <1>7

(* A change of roles only locks staff members and roles.                   *)
LEMMA RoleChangeShape ==
    ASSUME NEW p \in RoleChanges
    PROVE  /\ Len(p) \in Nat
           /\ \A i \in 1..Len(p) : p[i].class \in {"user", "role"}
<1>1. PICK u \in Staff, l \in RoleLists, a \in Staff : p = AssignRoles(u, l, a)
  BY DEF RoleChanges
<1>2. l \in Seq(STRING)
  BY LockOrderAssumption
<1> DEFINE R == [class : {"user", "role"}, id : Staff \cup STRING, mode : {"update", "share"}]
           first == <<Update("user", u)>>
           middle == [i \in 1..Len(l) |-> Update("role", l[i])]
           last == <<Share(a)>>
<1>3. first \in Seq(R) /\ last \in Seq(R) /\ Len(first) = 1 /\ Len(last) = 1
  BY DEF Update, Share
<1>4. middle \in Seq(R) /\ Len(middle) = Len(l) /\ Len(l) \in Nat
  BY <1>2 DEF Update
<1>5. p = (first \o middle) \o last
  BY <1>1 DEF AssignRoles
<1>6. /\ p \in Seq(R)
      /\ Len(p) = Len(l) + 2
      /\ \A i \in 1..Len(p) :
            p[i] = IF i = 1 THEN first[1] ELSE IF i = Len(p) THEN last[1] ELSE middle[i - 1]
  <2>1. first \in Seq(R) /\ middle \in Seq(R) /\ last \in Seq(R)
    BY <1>3, <1>4
  <2>2. Len(first) = 1 /\ Len(last) = 1 /\ Len(middle) = Len(l)
    BY <1>3, <1>4
  <2> HIDE DEF first, middle, last, R
  <2>3. /\ (first \o middle) \o last \in Seq(R)
        /\ Len((first \o middle) \o last) = Len(middle) + 2
        /\ \A i \in 1..Len(middle) + 2 :
              ((first \o middle) \o last)[i]
                = IF i = 1 THEN first[1]
                  ELSE IF i = Len(middle) + 2 THEN last[1] ELSE middle[i - 1]
    BY <2>1, <2>2, Wrapped
  <2> QED BY <2>2, <2>3, <1>5
<1>7. \A i \in 1..Len(p) : p[i] \in R
  <2> HIDE DEF first, middle, last, R
  <2> QED BY <1>6
<1> HIDE DEF first, middle, last
<1> QED BY <1>4, <1>6, <1>7

-----------------------------------------------------------------------------
(* Programs are taken up, granted step by step and dropped, nothing else.  *)
THEOREM TypeCorrect == Spec => []TypeOK
<1>1. Init => TypeOK
  BY DEF Init, TypeOK
<1>2. TypeOK /\ [Next]_vars => TypeOK'
  <2> SUFFICES ASSUME TypeOK, [Next]_vars PROVE TypeOK'
    OBVIOUS
  <2> USE DEF TypeOK
  <2>1. ASSUME NEW w \in Workers, Start(w) PROVE TypeOK'
    BY <2>1 DEF Start, Busy, Programs
  <2>2. ASSUME NEW w \in Workers, Acquire(w) PROVE TypeOK'
    BY <2>2 DEF Acquire, Waiting
  <2>3. ASSUME NEW w \in Workers, End(w) PROVE TypeOK'
    BY <2>3 DEF End
  <2>4. CASE UNCHANGED vars
    BY <2>4 DEF vars
  <2> QED BY <2>1, <2>2, <2>3, <2>4 DEF Next, Finish, Stop, BreakDeadlock
<1> QED BY <1>1, <1>2, PTL DEF Spec

-----------------------------------------------------------------------------
(* Who waits runs a program, and what it wants is a request of it.         *)
LEMMA WhoWaits ==
    ASSUME TypeOK, NEW w \in Workers, Waiting(w)
    PROVE  /\ program[w] \in Programs
           /\ got[w] \in Nat
           /\ got[w] + 1 \in 1..Len(program[w])
<1>1. program[w] \in Programs \cup {<< >>} /\ got[w] \in Nat
  BY DEF TypeOK
<1>2. program[w] # << >>
  BY <1>1 DEF Waiting
<1>3. Len(program[w]) \in Nat
  <2>1. CASE program[w] \in OrderedPrograms
    BY <2>1, ProgramsAscend DEF Ascends
  <2>2. CASE program[w] \in RoleChanges
    BY <2>2, RoleChangeShape
  <2> QED BY <1>1, <1>2, <2>1, <2>2 DEF Programs
<1> QED BY <1>1, <1>2, <1>3 DEF Waiting

(* An ordered program that waits holds lower rows than the one it wants.   *)
LEMMA HeldBelowWanted ==
    ASSUME TypeOK, NEW v \in Workers, Waiting(v), program[v] \in OrderedPrograms,
           NEW i \in 1..got[v]
    PROVE  /\ program[v][i].class \in DOMAIN Rank
           /\ Rank[program[v][i].class] \in Nat
           /\ Rank[Wanted(v).class] \in 1..18
           /\ Rank[program[v][i].class] < Rank[Wanted(v).class]
<1>1. PICK p : p = program[v]
  OBVIOUS
<1>2. Ascends(p, 1, 18)
  BY <1>1, ProgramsAscend
<1>3. got[v] \in Nat /\ got[v] + 1 \in 1..Len(p) /\ i \in 1..Len(p) /\ i < got[v] + 1
  BY <1>1, <1>2, WhoWaits DEF Ascends
<1>4. p[i] \in Request
  BY <1>2, <1>3 DEF Ascends
<1>5. /\ Rank[p[i].class] \in 1..18 /\ Rank[p[got[v] + 1].class] \in 1..18
      /\ Rank[p[i].class] < Rank[p[got[v] + 1].class]
  BY <1>2, <1>3 DEF Ascends
<1>6. p[i].class \in DOMAIN Rank
  <2> HIDE DEF Rank
  <2> QED BY <1>4 DEF Request
<1> QED BY <1>1, <1>5, <1>6 DEF Wanted

LEMMA NeverBehindOrdered ==
    ASSUME TypeOK, NEW v \in Workers, NEW w \in Workers, Blocks(v, w), Waiting(v),
           program[v] \in OrderedPrograms
    PROVE  program[w] \notin RoleChanges
<1> SUFFICES ASSUME program[w] \in RoleChanges PROVE FALSE
  OBVIOUS
<1>1. PICK i \in 1..got[v] : program[v][i].class = Wanted(w).class
  BY DEF Blocks, Conflict
<1>2. Wanted(w).class \in {"user", "role"}
  BY WhoWaits, RoleChangeShape DEF Wanted, Blocks
<1>3. Wanted(w).class = "user"
  BY <1>1, <1>2, HeldBelowWanted DEF Rank
<1> QED BY <1>1, <1>3, HeldBelowWanted DEF Rank

LEMMA DeadlocksOfRoleChanges == TypeOK => DeadlocksAmongRoleChanges
<1> SUFFICES ASSUME TypeOK, NEW S \in SUBSET Workers, Deadlocked(S),
                    NEW u \in S, program[u] \notin RoleChanges
             PROVE  FALSE
  BY DEF DeadlocksAmongRoleChanges
<1> DEFINE N == {w \in S : program[w] \in OrderedPrograms}
           wants(w) == Rank[Wanted(w).class]
<1>1. ASSUME NEW w \in S PROVE Waiting(w) /\ \E m \in S : Blocks(w, m)
  BY DEF Deadlocked, Blocks
<1>2. ASSUME NEW w \in S, program[w] \notin RoleChanges PROVE w \in N
  BY <1>1, <1>2, WhoWaits DEF Programs
<1>3. ASSUME NEW n \in N PROVE wants(n) \in Nat /\ \E m \in N : wants(m) < wants(n)
  <2>1. PICK m \in S : Blocks(n, m)
    BY <1>1
  <2>2. m \in N
    BY <1>1, <1>2, <2>1, NeverBehindOrdered
  <2>3. PICK i \in 1..got[n] : program[n][i].class = Wanted(m).class
    BY <2>1 DEF Blocks, Conflict
  <2>4. /\ Rank[program[n][i].class] < Rank[Wanted(n).class]
        /\ Rank[Wanted(n).class] \in 1..18
    BY <1>1, HeldBelowWanted
  <2> QED BY <2>2, <2>3, <2>4
<1>4. u \in N
  BY <1>2
<1> DEFINE T == {wants(n) : n \in N}
<1>5. T \subseteq Nat /\ T # {}
  <2> HIDE DEF wants, N
  <2> QED BY <1>3, <1>4
<1>6. PICK least \in T : \A t \in T : least <= t
  <2> HIDE DEF T
  <2> QED BY <1>5, LeastNatural
<1> HIDE DEF wants, N
<1>7. PICK n \in N : least = wants(n)
  OBVIOUS
<1>8. PICK m \in N : wants(m) < wants(n)
  BY <1>3
<1>9. wants(n) <= wants(m) /\ wants(m) \in Nat /\ wants(n) \in Nat
  BY <1>3, <1>6, <1>7
<1> QED BY <1>8, <1>9

(* The services agree on one order of the rows: no call but the assignment *)
(* of roles is ever part of a deadlock, for any numbers of workers,        *)
(* subscribers, services and staff.                                        *)
THEOREM DeadlockFree == Spec => []DeadlocksAmongRoleChanges
BY TypeCorrect, DeadlocksOfRoleChanges, PTL

=============================================================================
