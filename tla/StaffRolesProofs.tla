-------------------------- MODULE StaffRolesProofs --------------------------
(***************************************************************************)
(* Proofs about StaffRoles, for any staff, any roles in any order and any  *)
(* number of workers.                                                      *)
(***************************************************************************)
EXTENDS StaffRoles, FiniteFacts, FiniteSetTheorems

-----------------------------------------------------------------------------
(* Type correctness.                                                       *)

Decided == {"authorize", "count", "audit", "commit"}

Ready(w) ==
    /\ pc[w] \notin {"idle", "done"} => call[w] \in Call
    /\ pc[w] \in Decided => seen[w] \in SUBSET Roles
    /\ pc[w] \notin Decided => seen[w] = None
    /\ pc[w] \in {"idle", "lock_target", "done"} => rowLocks[w] = {}
    /\ pc[w] # "commit" => keyShare[w] = None

TypeInv == TypeOK /\ \A w \in Workers : Ready(w)

LEMMA CallParts ==
    ASSUME NEW c \in Call
    PROVE  c.actor \in Staff /\ c.target \in Staff /\ c.roles \in SUBSET Roles
BY StaffRolesAssumption DEF Call

LEMMA NoneApart ==
    /\ None \notin Staff /\ None \notin Call
    /\ \A s \in SUBSET Roles : s # None
BY StaffRolesAssumption

Alone(w) ==
    \A v \in Workers \ {w} :
        /\ pc'[v] = pc[v] /\ call'[v] = call[v] /\ rowLocks'[v] = rowLocks[v]
        /\ keyShare'[v] = keyShare[v] /\ seen'[v] = seen[v]

LEMMA AloneReady ==
    ASSUME TypeInv, NEW w \in Workers, Alone(w), TypeOK', Ready(w)'
    PROVE  TypeInv'
<1>1. ASSUME NEW v \in Workers \ {w} PROVE Ready(v)'
  BY DEF TypeInv, Alone, Ready
<1> QED BY <1>1 DEF TypeInv

LEMMA FinishTyped ==
    ASSUME TypeInv, NEW w \in Workers, NEW how \in {"assigned", "refused", "error"},
           Finish(w, how), roles' \in [Staff -> SUBSET Roles]
    PROVE  TypeInv' /\ Alone(w)
<1> USE DEF TypeInv, TypeOK, Finish, Goto
<1>1. Alone(w)
  BY DEF Alone
<1>2. TypeOK'
  BY DEF Steps
<1>3. Ready(w)'
  BY DEF Ready, Decided
<1> HIDE DEF TypeInv, TypeOK, Finish, Goto
<1> QED BY <1>1, <1>2, <1>3, AloneReady

Step(w) ==
    \/ Submit(w) \/ LockTarget(w) \/ LockRoles(w)
    \/ Authorize(w) \/ Count(w) \/ Audit(w) \/ Commit(w)
    \/ BreakDeadlock(w) \/ Respond(w)

(* The next role to lock is the least, by name, that is not locked yet.    *)
LEMMA NextRoleFound ==
    ASSUME NEW w \in Workers, call[w] \in Call, ~RolesLocked(w)
    PROVE  /\ NextRole(w) \in call[w].roles
           /\ NextRole(w) \in Roles
           /\ RoleRow(NextRole(w)) \notin rowLocks[w]
           /\ \A q \in call[w].roles :
                RoleRow(q) \notin rowLocks[w] => Rank[NextRole(w)] <= Rank[q]
<1> DEFINE left == {r \in call[w].roles : RoleRow(r) \notin rowLocks[w]}
           T == {Rank[r] : r \in left}
<1>1. left \subseteq Roles /\ left # {}
  BY CallParts DEF RolesLocked
<1>2. Cardinality(Roles) \in Nat /\ \A r \in Roles : Rank[r] \in Nat
  BY StaffRolesAssumption, FS_CardinalityType
<1>3. T \subseteq Nat /\ T # {}
  BY <1>1, <1>2
<1>4. PICK x \in T : \A y \in T : x <= y
  <2> HIDE DEF T
  <2> QED BY <1>3, LeastNatural
<1>5. PICK r \in left : Rank[r] = x
  OBVIOUS
<1>6. /\ r \in call[w].roles /\ RoleRow(r) \notin rowLocks[w]
      /\ \A q \in call[w].roles : RoleRow(q) \notin rowLocks[w] => Rank[r] <= Rank[q]
  BY <1>4, <1>5
<1>7. /\ NextRole(w) \in call[w].roles
      /\ RoleRow(NextRole(w)) \notin rowLocks[w]
      /\ \A q \in call[w].roles :
                RoleRow(q) \notin rowLocks[w] => Rank[NextRole(w)] <= Rank[q]
  BY <1>6 DEF NextRole
<1> QED BY <1>7, CallParts

LEMMA StepTyped ==
    ASSUME TypeInv, NEW w \in Workers, Step(w)
    PROVE  TypeInv' /\ Alone(w)
<1>0. /\ roles \in [Staff -> SUBSET Roles] /\ pc \in [Workers -> Steps]
      /\ call \in [Workers -> Call \cup {None}] /\ rowLocks \in [Workers -> SUBSET Rows]
      /\ keyShare \in [Workers -> Staff \cup {None}]
      /\ seen \in [Workers -> (SUBSET Roles) \cup {None}]
      /\ answer \in [Workers -> {"assigned", "refused", "error", None}]
      /\ \A v \in Workers : pc[v] \in {"idle", "done"} => rowLocks[v] = {} /\ keyShare[v] = None
      /\ Ready(w)
  BY DEF TypeInv, TypeOK
<1>1. CASE Submit(w)
  <2> USE <1>0, <1>1 DEF Submit, Goto
  <2>1. Alone(w)
    BY DEF Alone
  <2>2. TypeOK'
    BY DEF TypeOK, Steps
  <2>3. Ready(w)'
    BY DEF Ready, Decided
  <2> QED BY <2>1, <2>2, <2>3, AloneReady
<1>2. CASE LockTarget(w)
  <2> USE <1>0, <1>2 DEF LockTarget, Goto
  <2>1. Alone(w)
    BY DEF Alone
  <2>2. call[w] \in Call /\ UserRow(call[w].target) \in Rows
    BY CallParts DEF Ready, UserRow, Rows
  <2>3. TypeOK'
    BY <2>2 DEF TypeOK, Steps
  <2>4. Ready(w)'
    BY DEF Ready, Decided
  <2> QED BY <2>1, <2>3, <2>4, AloneReady
<1>3. CASE LockRoles(w)
  <2>1. pc[w] = "lock_roles" /\ call[w] \in Call
    BY <1>0, <1>3 DEF LockRoles, Ready
  <2>2. CASE ~RolesLocked(w)
    <3>1. rowLocks[w] \cup {RoleRow(NextRole(w))} \in SUBSET Rows
      BY <1>0, <2>1, <2>2, NextRoleFound DEF RoleRow, Rows
    <3>2. /\ rowLocks' = [rowLocks EXCEPT ![w] = rowLocks[w] \cup {RoleRow(NextRole(w))}]
          /\ UNCHANGED <<pc, seen, roles, call, keyShare, answer>>
      BY <1>3, <2>2 DEF LockRoles
    <3>3. Alone(w)
      BY <1>0, <3>2 DEF Alone
    <3>4. TypeOK'
      BY <1>0, <2>1, <3>1, <3>2 DEF TypeOK
    <3>5. Ready(w)'
      BY <1>0, <2>1, <3>2 DEF Ready, Decided
    <3> QED BY <3>3, <3>4, <3>5, AloneReady
  <2>3. CASE RolesLocked(w)
    <3>1. /\ seen' = [seen EXCEPT ![w] = roles[call[w].target]]
          /\ pc' = [pc EXCEPT ![w] = "authorize"]
          /\ UNCHANGED <<rowLocks, roles, call, keyShare, answer>>
      BY <1>3, <2>3 DEF LockRoles, Goto
    <3>2. roles[call[w].target] \in SUBSET Roles
      BY <1>0, <2>1, CallParts
    <3>3. Alone(w)
      BY <1>0, <3>1 DEF Alone
    <3>4. TypeOK'
      BY <1>0, <3>1, <3>2 DEF TypeOK, Steps
    <3>5. Ready(w)'
      BY <1>0, <2>1, <3>1, <3>2 DEF Ready, Decided
    <3> QED BY <3>3, <3>4, <3>5, AloneReady
  <2> QED BY <2>2, <2>3
<1>4. ASSUME NEW step \in {"count", "audit"}, pc[w] \in {"authorize", "count"}, GoOn(w, step)
      PROVE  TypeInv' /\ Alone(w)
  <2> USE <1>0, <1>4 DEF GoOn, Goto, local
  <2>1. Alone(w)
    BY DEF Alone
  <2>2. TypeOK'
    BY DEF TypeOK, Steps
  <2>3. Ready(w)'
    BY DEF Ready, Decided
  <2> QED BY <2>1, <2>2, <2>3, AloneReady
<1>5. ASSUME Refuse(w) PROVE TypeInv' /\ Alone(w)
  BY <1>0, <1>5, FinishTyped DEF Refuse
<1>6. CASE Authorize(w)
  BY <1>4, <1>5, <1>6 DEF Authorize
<1>7. CASE Count(w)
  BY <1>4, <1>5, <1>7 DEF Count
<1>8. CASE Audit(w)
  <2> USE <1>0, <1>8 DEF Audit, Goto
  <2>1. Alone(w)
    BY DEF Alone
  <2>2. call[w] \in Call
    BY DEF Ready
  <2>3. TypeOK'
    BY <2>2, CallParts DEF TypeOK, Steps
  <2>4. Ready(w)'
    BY DEF Ready, Decided
  <2> QED BY <2>1, <2>3, <2>4, AloneReady
<1>9. CASE Commit(w)
  <2>1. call[w] \in Call
    BY <1>0, <1>9 DEF Commit, Ready
  <2>2. roles' \in [Staff -> SUBSET Roles]
    BY <1>0, <1>9, <2>1, CallParts DEF Commit
  <2> QED BY <1>9, <2>2, FinishTyped DEF Commit
<1>10. CASE BreakDeadlock(w)
  BY <1>0, <1>10, FinishTyped DEF BreakDeadlock
<1>11. CASE Respond(w)
  <2> USE <1>0, <1>11 DEF Respond, Goto
  <2>1. Alone(w)
    BY DEF Alone
  <2>2. TypeOK'
    BY DEF TypeOK, Steps
  <2>3. Ready(w)'
    BY DEF Ready, Decided
  <2> QED BY <2>1, <2>2, <2>3, AloneReady
<1> QED BY <1>1, <1>2, <1>3, <1>6, <1>7, <1>8, <1>9, <1>10, <1>11 DEF Step

LEMMA AlwaysTyped == Spec => []TypeInv
<1>1. Init => TypeInv
  BY StaffRolesAssumption DEF Init, TypeInv, TypeOK, Steps, Ready, Decided
<1>2. TypeInv /\ [Next]_vars => TypeInv'
  <2>1. TypeInv /\ UNCHANGED vars => TypeInv'
    BY DEF TypeInv, TypeOK, Ready, vars, local
  <2>2. TypeInv /\ Next => TypeInv'
    BY StepTyped DEF Next, Step
  <2> QED BY <2>1, <2>2
<1> QED BY <1>1, <1>2, PTL DEF Spec

(* Every variable keeps the kind of value the code gives it, and nothing   *)
(* stays locked when a call has ended.                                     *)
THEOREM TypeCorrect == Spec => []TypeOK
<1>1. TypeInv => TypeOK
  BY DEF TypeInv
<1> QED BY <1>1, AlwaysTyped, PTL

-----------------------------------------------------------------------------
(* Row locks: one holder each, the target's from the first statement on,   *)
(* those of the roles in the order of their names.                         *)

Exclusive == \A v, w \in Workers : v # w => rowLocks[v] \cap rowLocks[w] = {}

Holds(w) ==
    /\ pc[w] \in {"lock_roles"} \cup Decided => UserRow(call[w].target) \in rowLocks[w]
    /\ pc[w] = "lock_roles" =>
         \A r \in Roles, q \in call[w].roles :
             RoleRow(r) \in rowLocks[w] /\ RoleRow(q) \notin rowLocks[w] => Rank[r] < Rank[q]

LockInv == Exclusive /\ \A w \in Workers : Holds(w)

LEMMA RowsApart ==
    /\ \A u, r : UserRow(u) # RoleRow(r)
    /\ \A r, q : RoleRow(r) = RoleRow(q) => r = q
    /\ \A u, t : UserRow(u) = UserRow(t) => u = t
BY DEF UserRow, RoleRow

LEMMA Ranks ==
    /\ Cardinality(Roles) \in Nat
    /\ \A r \in Roles : Rank[r] \in 1..Cardinality(Roles)
    /\ \A r, q \in Roles : Rank[r] = Rank[q] => r = q
BY StaffRolesAssumption, FS_CardinalityType

LEMMA StepLocks ==
    ASSUME TypeInv, LockInv, NEW w \in Workers, Step(w)
    PROVE  LockInv'
<1>0. /\ pc \in [Workers -> Steps] /\ call \in [Workers -> Call \cup {None}]
      /\ rowLocks \in [Workers -> SUBSET Rows]
      /\ Ready(w) /\ Holds(w) /\ Exclusive
  BY DEF TypeInv, TypeOK, LockInv
<1>1. Alone(w)
  BY StepTyped
<1>2. ASSUME NEW v \in Workers \ {w} PROVE Holds(v)'
  BY <1>1, <1>2 DEF LockInv, Holds, Alone
<1>3. ASSUME rowLocks'[w] = rowLocks[w] \/ rowLocks'[w] = {}, Holds(w)'
      PROVE  LockInv'
  BY <1>0, <1>1, <1>2, <1>3 DEF LockInv, Exclusive, Alone
<1>4. ASSUME NEW row, UpdateBlockers(w, row) = {}, rowLocks'[w] = rowLocks[w] \cup {row}, Holds(w)'
      PROVE  LockInv'
  <2>1. \A v \in Workers \ {w} : row \notin rowLocks[v]
    BY <1>4 DEF UpdateBlockers
  <2>2. \A v \in Workers \ {w} : rowLocks'[v] \cap rowLocks'[w] = {}
    BY <1>0, <1>1, <1>4, <2>1 DEF Exclusive, Alone
  <2> QED BY <1>0, <1>1, <1>2, <1>4, <2>2 DEF LockInv, Exclusive, Alone
<1>5. ASSUME NEW how, Finish(w, how) PROVE LockInv'
  <2>1. pc'[w] = "done" /\ rowLocks'[w] = {}
    BY <1>0, <1>5 DEF Finish, Goto
  <2>2. Holds(w)'
    BY <2>1 DEF Holds, Decided
  <2> QED BY <1>3, <2>1, <2>2
<1>6. CASE Submit(w) \/ Respond(w)
  <2>1. pc'[w] \in {"lock_target", "idle"} /\ rowLocks'[w] = rowLocks[w]
    BY <1>0, <1>6 DEF Submit, Respond, Goto
  <2>2. Holds(w)'
    BY <2>1 DEF Holds, Decided
  <2> QED BY <1>3, <2>1, <2>2
<1>7. CASE LockTarget(w)
  <2> DEFINE row == UserRow(call[w].target)
  <2>1. /\ pc[w] = "lock_target" /\ pc'[w] = "lock_roles" /\ call'[w] = call[w]
        /\ rowLocks[w] = {} /\ rowLocks'[w] = {row}
    BY <1>0, <1>7 DEF LockTarget, Goto, Ready
  <2>2. UpdateBlockers(w, row) = {}
    BY <1>7 DEF LockTarget, Blockers
  <2>3. \A r \in Roles : RoleRow(r) \notin rowLocks'[w]
    BY <2>1, RowsApart
  <2>4. Holds(w)'
    BY <2>1, <2>3 DEF Holds, Decided
  <2>5. rowLocks'[w] = rowLocks[w] \cup {row}
    BY <2>1
  <2> HIDE DEF row
  <2> QED BY <1>4, <2>2, <2>4, <2>5
<1>8. CASE LockRoles(w)
  <2>1. pc[w] = "lock_roles" /\ call[w] \in Call
    BY <1>0, <1>8 DEF LockRoles, Ready
  <2>2. CASE RolesLocked(w)
    <3>1. pc'[w] = "authorize" /\ call'[w] = call[w] /\ rowLocks'[w] = rowLocks[w]
      BY <1>0, <1>8, <2>2 DEF LockRoles, Goto
    <3>2. Holds(w)'
      BY <1>0, <2>1, <3>1 DEF Holds, Decided
    <3> QED BY <1>3, <3>1, <3>2
  <2>3. CASE ~RolesLocked(w)
    <3> DEFINE n == NextRole(w)
    <3>1. /\ pc'[w] = "lock_roles" /\ call'[w] = call[w]
          /\ rowLocks'[w] = rowLocks[w] \cup {RoleRow(n)}
      BY <1>0, <1>8, <2>1, <2>3 DEF LockRoles
    <3>2. UpdateBlockers(w, RoleRow(n)) = {}
      BY <1>8, <2>1, <2>3 DEF LockRoles, Blockers
    <3>3. /\ n \in call[w].roles /\ n \in Roles
          /\ \A q \in call[w].roles : RoleRow(q) \notin rowLocks[w] => Rank[n] <= Rank[q]
      BY <2>1, <2>3, NextRoleFound
    <3> HIDE DEF n
    <3>4. ASSUME NEW r \in Roles, NEW q \in call[w].roles,
                 RoleRow(r) \in rowLocks'[w], RoleRow(q) \notin rowLocks'[w]
          PROVE  Rank[r] < Rank[q]
      <4>1. q \in Roles /\ RoleRow(q) \notin rowLocks[w] /\ q # n
        BY <2>1, <3>1, <3>4, CallParts
      <4>2. CASE RoleRow(r) \in rowLocks[w]
        BY <1>0, <2>1, <4>1, <4>2 DEF Holds
      <4>3. CASE r = n
        <5>1. Rank[n] <= Rank[q] /\ Rank[n] # Rank[q]
          BY <3>3, <4>1, Ranks
        <5> QED BY <3>3, <4>1, <4>3, <5>1, Ranks
      <4> QED BY <3>1, <3>4, <4>2, <4>3, RowsApart
    <3>5. Holds(w)'
      BY <1>0, <2>1, <3>1, <3>4 DEF Holds, Decided
    <3> QED BY <1>4, <3>1, <3>2, <3>5
  <2> QED BY <2>2, <2>3
<1>9. ASSUME pc[w] \in Decided, pc'[w] \in Decided, call'[w] = call[w], rowLocks'[w] = rowLocks[w]
      PROVE  LockInv'
  <2>1. Holds(w)'
    BY <1>0, <1>9 DEF Holds, Decided
  <2> QED BY <1>3, <1>9, <2>1
<1>10. CASE Authorize(w)
  BY <1>0, <1>5, <1>9, <1>10 DEF Authorize, Refuse, GoOn, Goto, local, Decided
<1>11. CASE Count(w)
  BY <1>0, <1>5, <1>9, <1>11 DEF Count, Refuse, GoOn, Goto, local, Decided
<1>12. CASE Audit(w)
  BY <1>0, <1>9, <1>12 DEF Audit, Goto, Decided
<1>13. CASE Commit(w) \/ BreakDeadlock(w)
  BY <1>5, <1>13 DEF Commit, BreakDeadlock
<1> QED BY <1>6, <1>7, <1>8, <1>10, <1>11, <1>12, <1>13 DEF Step

(* Only a commit assigns roles.                                            *)
LEMMA OnlyCommitsAssign ==
    ASSUME NEW w \in Workers, Step(w), ~Commit(w)
    PROVE  roles' = roles
BY DEF Step, Submit, LockTarget, LockRoles, Authorize, Count, Audit, BreakDeadlock, Respond,
       Refuse, GoOn

LEMMA StepFresh ==
    ASSUME TypeInv, LockInv, RolesFresh, NEW w \in Workers, Step(w)
    PROVE  RolesFresh'
<1>0. /\ pc \in [Workers -> Steps] /\ call \in [Workers -> Call \cup {None}]
      /\ seen \in [Workers -> (SUBSET Roles) \cup {None}] /\ roles \in [Staff -> SUBSET Roles]
      /\ \A v \in Workers : Ready(v) /\ Holds(v)
  BY DEF TypeInv, TypeOK, LockInv
<1>1. Alone(w)
  BY StepTyped
<1>2. ASSUME NEW v \in Workers \ {w}, seen'[v] # None PROVE seen'[v] = roles'[call'[v].target]
  <2>1. seen'[v] = seen[v] /\ call'[v] = call[v] /\ seen[v] = roles[call[v].target]
    BY <1>1, <1>2 DEF Alone, RolesFresh
  <2>2. pc[v] \in Decided
    BY <1>0, <1>2, <2>1 DEF Ready
  <2>3. CASE Commit(w)
    <3>1. pc[w] \in Decided /\ roles' = [roles EXCEPT ![call[w].target] = call[w].roles]
      BY <2>3 DEF Commit, Decided
    <3>2. call[w].target # call[v].target
      BY <1>0, <2>2, <3>1 DEF Holds, LockInv, Exclusive
    <3>3. call[v] \in Call
      BY <1>0, <2>2 DEF Ready, Decided
    <3> QED BY <1>0, <2>1, <3>1, <3>2, <3>3, CallParts
  <2>4. CASE ~Commit(w)
    BY <2>1, <2>4, OnlyCommitsAssign
  <2> QED BY <2>3, <2>4
<1>3. ASSUME seen'[w] # None PROVE seen'[w] = roles'[call'[w].target]
  <2>1. ASSUME NEW how, Finish(w, how) PROVE FALSE
    BY <1>0, <1>3, <2>1 DEF Finish
  <2>2. ~Commit(w) /\ ~BreakDeadlock(w) /\ ~Refuse(w)
    BY <2>1 DEF Commit, BreakDeadlock, Refuse
  <2>3. roles' = roles
    BY <2>2, OnlyCommitsAssign
  <2>4. ASSUME seen'[w] = seen[w], call'[w] = call[w] PROVE seen'[w] = roles'[call'[w].target]
    BY <1>3, <2>3, <2>4 DEF RolesFresh
  <2>5. CASE Submit(w) \/ Respond(w)
    <3>1. pc[w] \in {"idle", "done"} /\ seen' = seen
      BY <2>5 DEF Submit, Respond
    <3> QED BY <1>0, <1>3, <3>1 DEF Ready, Decided
  <2>6. CASE LockTarget(w) \/ Audit(w)
    BY <2>4, <2>6 DEF LockTarget, Audit
  <2>7. CASE LockRoles(w)
    <3>1. CASE RolesLocked(w)
      BY <1>0, <2>3, <2>7, <3>1 DEF LockRoles
    <3>2. CASE ~RolesLocked(w)
      BY <2>4, <2>7, <3>2 DEF LockRoles
    <3> QED BY <3>1, <3>2
  <2>8. CASE Authorize(w) \/ Count(w)
    BY <2>2, <2>4, <2>8 DEF Authorize, Count, GoOn, local
  <2> QED BY <2>2, <2>5, <2>6, <2>7, <2>8 DEF Step
<1> QED BY <1>2, <1>3 DEF RolesFresh

LEMMA AlwaysLocked == Spec => [](TypeInv /\ LockInv /\ RolesFresh)
<1>1. Init => LockInv /\ RolesFresh
  BY DEF Init, LockInv, Exclusive, Holds, Decided, RolesFresh
<1>2. TypeInv /\ LockInv /\ RolesFresh /\ [Next]_vars => LockInv' /\ RolesFresh'
  <2>1. TypeInv /\ LockInv /\ RolesFresh /\ UNCHANGED vars => LockInv' /\ RolesFresh'
    BY DEF LockInv, Exclusive, Holds, RolesFresh, vars, local
  <2>2. TypeInv /\ LockInv /\ RolesFresh /\ Next => LockInv' /\ RolesFresh'
    BY StepLocks, StepFresh DEF Next, Step
  <2> QED BY <2>1, <2>2
<1> QED BY <1>1, <1>2, AlwaysTyped, PTL DEF Spec

(* What a call decides on and audits as the old roles is what it replaces. *)
THEOREM FreshRoles == Spec => []RolesFresh
BY AlwaysLocked, PTL

-----------------------------------------------------------------------------
(* The last Owner.  The count locks nothing, so that two calls may each    *)
(* count the Owner whom the other is about to demote.  The rows they do    *)
(* lock say how: their targets and their requested roles are apart.        *)

RolesHeld == \A w \in Workers : pc[w] \in Decided => RolesLocked(w)

(* Once it has decided, a call holds the rows of all its roles.            *)
LEMMA StepKeepsRoles ==
    ASSUME TypeInv, RolesHeld, NEW w \in Workers, Step(w)
    PROVE  RolesHeld'
<1>0. /\ pc \in [Workers -> Steps] /\ call \in [Workers -> Call \cup {None}]
      /\ rowLocks \in [Workers -> SUBSET Rows]
      /\ \A v \in Workers : pc[v] \in Decided => RolesLocked(v)
  BY DEF TypeInv, TypeOK, RolesHeld
<1>1. ASSUME NEW v \in Workers \ {w}, pc'[v] \in Decided PROVE RolesLocked(v)'
  BY <1>0, <1>1, StepTyped DEF Alone, RolesLocked
<1>2. ASSUME pc'[w] \in Decided PROVE RolesLocked(w)'
  <2>1. ASSUME NEW how, Finish(w, how) PROVE FALSE
    BY <1>0, <1>2, <2>1 DEF Finish, Goto, Decided
  <2>2. ~Commit(w) /\ ~BreakDeadlock(w) /\ ~Refuse(w)
    BY <2>1 DEF Commit, BreakDeadlock, Refuse
  <2>3. ~Submit(w) /\ ~Respond(w) /\ ~LockTarget(w)
    BY <1>0, <1>2 DEF Submit, Respond, LockTarget, Goto, Decided
  <2>4. CASE LockRoles(w)
    <3>1. RolesLocked(w) /\ UNCHANGED <<rowLocks, call>>
      BY <1>0, <1>2, <2>4 DEF LockRoles, Decided
    <3> QED BY <3>1 DEF RolesLocked
  <2>5. CASE Authorize(w) \/ Count(w) \/ Audit(w)
    <3>1. pc[w] \in Decided /\ UNCHANGED <<rowLocks, call>>
      BY <2>2, <2>5 DEF Authorize, Count, Audit, GoOn, local, Decided
    <3> QED BY <1>0, <3>1 DEF RolesLocked
  <2> QED BY <2>2, <2>3, <2>4, <2>5 DEF Step
<1> QED BY <1>1, <1>2 DEF RolesHeld

LEMMA AlwaysHeld == Spec => [](TypeInv /\ LockInv /\ RolesFresh /\ RolesHeld)
<1>1. Init => RolesHeld
  BY DEF Init, RolesHeld, Decided
<1>2. TypeInv /\ RolesHeld /\ [Next]_vars => RolesHeld'
  <2>1. RolesHeld /\ UNCHANGED vars => RolesHeld'
    BY DEF RolesHeld, RolesLocked, vars, local
  <2>2. TypeInv /\ RolesHeld /\ Next => RolesHeld'
    BY StepKeepsRoles DEF Next, Step
  <2> QED BY <2>1, <2>2
<1> QED BY <1>1, <1>2, AlwaysLocked, PTL DEF Spec

(* Two calls that hold the rows of all their roles have none in common.    *)
LEMMA RolesApart ==
    ASSUME LockInv, RolesHeld, NEW v \in Workers, NEW w \in Workers, v # w,
           pc[v] \in Decided, pc[w] \in Decided
    PROVE  call[v].roles \cap call[w].roles = {}
<1> SUFFICES ASSUME NEW r \in call[v].roles \cap call[w].roles PROVE FALSE
  OBVIOUS
<1>1. RoleRow(r) \in rowLocks[v] \cap rowLocks[w]
  BY DEF RolesHeld, RolesLocked
<1> QED BY <1>1 DEF LockInv, Exclusive

(* A commit takes the Owner role from its target only, and one that does   *)
(* had decided on it: what it read is what it replaces.                    *)
LEMMA WhatCommitTakes ==
    ASSUME TypeInv, RolesFresh, NEW v \in Workers, Commit(v),
           NEW u \in Owners, u \notin Owners'
    PROVE  u = call[v].target /\ Demotes(v) /\ Commits(v)
<1>1. /\ pc \in [Workers -> Steps] /\ roles \in [Staff -> SUBSET Roles]
      /\ pc[v] = "commit" /\ Ready(v)
  BY DEF TypeInv, TypeOK, Commit
<1>2. call[v] \in Call /\ seen[v] = roles[call[v].target]
  BY <1>1, NoneApart DEF Ready, Decided, RolesFresh
<1>3. /\ call[v].target \in Staff
      /\ roles' = [roles EXCEPT ![call[v].target] = call[v].roles]
  BY <1>2, CallParts DEF Commit
<1>4. u = call[v].target /\ Owner \in roles[u] /\ Owner \notin call[v].roles
  BY <1>1, <1>3 DEF Owners
<1>5. pc'[v] = "done"
  BY <1>1 DEF Commit, Finish, Goto
<1> QED BY <1>1, <1>2, <1>4, <1>5 DEF Demotes, RemovesOwner, Commits

(* A call's own steps never make its count untrue: it was just made, or    *)
(* nothing has changed since.                                              *)
LEMMA OwnStepsCount ==
    ASSUME TypeInv, NEW w \in Workers, Step(w), ~CountUntrue(w)
    PROVE  ~CountUntrue(w)'
<1> SUFFICES ASSUME CountUntrue(w)' PROVE FALSE
  OBVIOUS
<1>0. /\ pc \in [Workers -> Steps]
      /\ pc'[w] \in {"audit", "commit"} /\ RemovesOwner(w)'
      /\ Owners' \ {call'[w].target} = {}
  BY DEF TypeInv, TypeOK, CountUntrue, Demotes
<1>1. ASSUME NEW how, Finish(w, how) PROVE FALSE
  BY <1>0, <1>1 DEF Finish, Goto
<1>2. ~Commit(w) /\ ~BreakDeadlock(w) /\ ~Refuse(w)
  BY <1>1 DEF Commit, BreakDeadlock, Refuse
<1>3. Owners' = Owners
  BY <1>2, OnlyCommitsAssign DEF Owners
<1>4. ~Submit(w) /\ ~Respond(w) /\ ~LockTarget(w) /\ ~LockRoles(w)
  BY <1>0 DEF Submit, Respond, LockTarget, LockRoles, Goto
<1>5. CASE Authorize(w)
  BY <1>0, <1>2, <1>5 DEF Authorize, GoOn, Goto, local, RemovesOwner
<1>6. CASE Count(w)
  BY <1>0, <1>2, <1>3, <1>6 DEF Count, GoOn, local
<1>7. CASE Audit(w)
  BY <1>0, <1>3, <1>7 DEF Audit, CountUntrue, Demotes, RemovesOwner
<1> QED BY <1>2, <1>4, <1>5, <1>6, <1>7 DEF Step

LEMMA StepOvertakes ==
    ASSUME TypeInv, LockInv, RolesFresh, RolesHeld, NEW v \in Workers, Step(v)
    PROVE  /\ \A w \in Workers : ~CountUntrue(w) /\ CountUntrue(w)' =>
                /\ v # w /\ Commits(v) /\ Demotes(v)
                /\ call[v].target # call[w].target
                /\ call[v].roles \cap call[w].roles = {}
           /\ OwnerRemains /\ ~OwnerRemains' => Commits(v) /\ CountUntrue(v)
<1>1. ASSUME NEW w \in Workers, ~CountUntrue(w), CountUntrue(w)'
      PROVE  /\ v # w /\ Commits(v) /\ Demotes(v)
             /\ call[v].target # call[w].target
             /\ call[v].roles \cap call[w].roles = {}
  <2>1. v # w
    BY <1>1, OwnStepsCount
  <2>2. pc'[w] = pc[w] /\ call'[w] = call[w] /\ seen'[w] = seen[w]
    BY <2>1, StepTyped DEF Alone
  <2>3. Demotes(w) /\ Owners \ {call[w].target} # {} /\ Owners' \ {call[w].target} = {}
    BY <1>1, <2>2 DEF CountUntrue, Demotes, RemovesOwner
  <2>4. Commit(v)
    BY <2>3, OnlyCommitsAssign DEF Owners
  <2>5. PICK u \in Owners : u # call[w].target /\ u \notin Owners'
    BY <2>3
  <2>6. u = call[v].target /\ Demotes(v) /\ Commits(v)
    BY <2>4, <2>5, WhatCommitTakes
  <2>7. pc[v] \in Decided /\ pc[w] \in Decided
    BY <2>3, <2>6 DEF Demotes, Decided
  <2>8. call[v].roles \cap call[w].roles = {}
    BY <2>1, <2>7, RolesApart
  <2> QED BY <2>1, <2>5, <2>6, <2>8
<1>2. ASSUME OwnerRemains, ~OwnerRemains' PROVE Commits(v) /\ CountUntrue(v)
  <2>1. Owners # {} /\ Owners' = {}
    BY <1>2 DEF OwnerRemains
  <2>2. Commit(v)
    BY <2>1, OnlyCommitsAssign DEF Owners
  <2>3. \A u \in Owners : u = call[v].target /\ Demotes(v) /\ Commits(v)
    BY <2>1, <2>2, WhatCommitTakes
  <2> QED BY <2>1, <2>3 DEF CountUntrue
<1> QED BY <1>1, <1>2

(* The last Owner only goes by a call whose count of the others is no      *)
(* longer true, and a count is only overtaken by another call that demotes *)
(* another Owner and shares no requested role with it.                     *)
THEOREM OwnersOvertaken == Spec => CountsOvertaken
<1>1. TypeInv /\ LockInv /\ RolesFresh /\ RolesHeld /\ [Next]_vars
        => [/\ \A w \in Workers : ~CountUntrue(w) /\ CountUntrue(w)' =>
                  \E v \in Workers \ {w} :
                      /\ Commits(v) /\ Demotes(v)
                      /\ call[v].target # call[w].target
                      /\ call[v].roles \cap call[w].roles = {}
            /\ OwnerRemains /\ ~OwnerRemains' =>
                  \E w \in Workers : Commits(w) /\ CountUntrue(w)]_vars
  BY StepOvertakes DEF Next, Step
<1> QED BY <1>1, AlwaysHeld, PTL DEF Spec, CountsOvertaken

-----------------------------------------------------------------------------
(* Deadlocks.                                                              *)

(* A call that waits for a role row waits for one that comes, by name,     *)
(* before the role row its blocker waits for.                              *)
LEMMA BlockedByLaterName ==
    ASSUME TypeInv, LockInv, NEW w \in Workers, NEW v \in Blockers(w),
           pc[w] = "lock_roles", pc[v] = "lock_roles", ~RolesLocked(v)
    PROVE  ~RolesLocked(w) /\ Rank[NextRole(w)] < Rank[NextRole(v)]
<1>1. ~RolesLocked(w) /\ v \in UpdateBlockers(w, RoleRow(NextRole(w)))
  BY DEF Blockers
<1>2. v \in Workers /\ RoleRow(NextRole(w)) \in rowLocks[v]
  BY <1>1, RowsApart DEF UpdateBlockers
<1>3. call[w] \in Call /\ call[v] \in Call /\ Holds(v)
  BY <1>2 DEF TypeInv, Ready, LockInv
<1>4. NextRole(w) \in Roles /\ NextRole(v) \in call[v].roles /\ RoleRow(NextRole(v)) \notin rowLocks[v]
  BY <1>1, <1>2, <1>3, NextRoleFound
<1> QED BY <1>1, <1>2, <1>3, <1>4 DEF Holds

LEMMA DeadlocksNeedActors == TypeInv /\ LockInv => DeadlocksAreMutual
<1> SUFFICES ASSUME TypeInv, LockInv, NEW S \in SUBSET Workers, Deadlocked(S),
                    \A w \in S : pc[w] # "audit"
             PROVE  FALSE
  BY DEF DeadlocksAreMutual
<1> DEFINE N == {w \in S : pc[w] = "lock_roles"}
           wants(w) == Rank[NextRole(w)]
<1>1. \A w \in Workers : Ready(w) /\ Holds(w)
  BY DEF TypeInv, LockInv
<1>2. ASSUME NEW w \in S
      PROVE  /\ pc[w] \in {"lock_target", "lock_roles"}
             /\ pc[w] = "lock_roles" => ~RolesLocked(w)
             /\ keyShare[w] = None
             /\ call[w] \in Call
  <2>1. Blockers(w) # {}
    BY DEF Deadlocked
  <2>2. pc[w] \in {"lock_target", "lock_roles"} /\ (pc[w] = "lock_roles" => ~RolesLocked(w))
    BY <2>1 DEF Blockers
  <2> QED BY <1>1, <2>2 DEF Ready
<1>3. ASSUME NEW w \in S PROVE \E v \in N : v \in Blockers(w)
  <2>1. PICK v \in S : v \in Blockers(w)
    BY DEF Deadlocked
  <2>2. rowLocks[v] # {}
    <3>1. CASE pc[w] = "lock_target"
      <4>1. UserRow(call[w].target) \in rowLocks[v] \/ UserRow(call[w].target) = UserRow(keyShare[v])
        BY <2>1, <3>1 DEF Blockers, UpdateBlockers
      <4>2. call[w].target # keyShare[v]
        BY <1>2, CallParts, NoneApart
      <4> QED BY <4>1, <4>2, RowsApart
    <3>2. CASE pc[w] = "lock_roles"
      <4>1. v \in UpdateBlockers(w, RoleRow(NextRole(w)))
        BY <1>2, <2>1, <3>2 DEF Blockers
      <4> QED BY <4>1, RowsApart DEF UpdateBlockers
    <3> QED BY <1>2, <3>1, <3>2
  <2>3. pc[v] = "lock_roles"
    BY <1>1, <1>2, <2>2 DEF Ready
  <2> QED BY <2>1, <2>3
<1>4. ASSUME NEW w \in N PROVE wants(w) \in 1..Cardinality(Roles) /\ \E v \in N : wants(w) < wants(v)
  <2>1. NextRole(w) \in Roles
    BY <1>2, NextRoleFound
  <2>2. PICK v \in N : v \in Blockers(w)
    BY <1>3
  <2>3. wants(w) < wants(v)
    BY <1>2, <2>2, BlockedByLaterName
  <2> QED BY <2>1, <2>2, <2>3, Ranks
<1>5. N # {}
  BY <1>3 DEF Deadlocked
<1> DEFINE T == {Cardinality(Roles) - wants(w) : w \in N}
<1> HIDE DEF wants, N
<1>6. T \subseteq Nat /\ T # {}
  BY <1>4, <1>5, Ranks
<1>7. PICK least \in T : \A t \in T : least <= t
  <2> HIDE DEF T
  <2> QED BY <1>6, LeastNatural
<1>8. PICK w \in N : least = Cardinality(Roles) - wants(w)
  OBVIOUS
<1>9. PICK v \in N : wants(w) < wants(v)
  BY <1>4
<1>10. Cardinality(Roles) - wants(w) <= Cardinality(Roles) - wants(v)
  BY <1>7, <1>8
<1> QED BY <1>4, <1>9, <1>10, Ranks

(* The order of names keeps calls from waiting in a circle for role rows.  *)
THEOREM OnlyMutualDeadlocks == Spec => []DeadlocksAreMutual
BY AlwaysLocked, DeadlocksNeedActors, PTL

=============================================================================
