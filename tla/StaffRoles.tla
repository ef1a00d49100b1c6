----------------------------- MODULE StaffRoles -----------------------------
(***************************************************************************)
(* Assigning roles to staff, from users/services.py.  A call is one        *)
(* transaction: it locks the row of the staff member, then the rows of the *)
(* requested roles in the order of their names, decides, counts the other  *)
(* Owners when the Owner role goes away, and writes an audit row that      *)
(* refers to the actor.                                                    *)
(*                                                                         *)
(* The count is asked for with select_for_update(), but Django drops the   *)
(* lock clause from a count: it locks nothing.                             *)
(***************************************************************************)
EXTENDS Integers, FiniteSets

CONSTANTS
    Workers,
    Staff,          \* staff members, all of them active: no page changes that
    Roles,
    Owner,          \* ROLE_OWNER
    Assigners,      \* the roles that have the permission users.assign_roles
    Rank,           \* the order of the roles' names
    Requests,       \* the role sets that are asked for
    OpeningRoles,   \* the roles that staff may have when the model starts
    None

Call == [actor: Staff, target: Staff, roles: Requests]

ASSUME StaffRolesAssumption ==
    /\ Owner \in Assigners
    /\ Assigners \subseteq Roles
    /\ IsFiniteSet(Roles)
    /\ Rank \in [Roles -> 1..Cardinality(Roles)]
    /\ \A r, q \in Roles : Rank[r] = Rank[q] => r = q
    /\ Requests \subseteq SUBSET Roles
    /\ OpeningRoles \subseteq [Staff -> SUBSET Roles]
    /\ \A f \in OpeningRoles : \E u \in Staff : Owner \in f[u]
    /\ None \notin Staff /\ None \notin Call
    /\ \A s \in SUBSET Roles : s # None

VARIABLES
    roles,      \* committed: the roles of each staff member
    pc,         \* the statement each worker is about to run
    call,       \* the call it serves, or None
    rowLocks,   \* the rows its transaction holds FOR UPDATE
    keyShare,   \* the staff row it holds FOR KEY SHARE, or None
    seen,       \* the roles of the target that it read, or None
    answer      \* how its call ended, None while it runs

local == <<call, rowLocks, keyShare, seen, answer>>
vars == <<roles, pc, local>>

Steps == {"idle", "lock_target", "lock_roles", "authorize", "count", "audit", "commit", "done"}

Owners == {u \in Staff : Owner \in roles[u]}

UserRow(u) == <<"user", u>>
RoleRow(r) == <<"role", r>>
Rows == ({"user"} \X Staff) \cup ({"role"} \X Roles)

-----------------------------------------------------------------------------
(* PostgreSQL's row locks.  FOR KEY SHARE, which a foreign key takes of    *)
(* the row it refers to, only conflicts with FOR UPDATE.                   *)

UpdateBlockers(w, row) ==
    {v \in Workers \ {w} : row \in rowLocks[v] \/ row = UserRow(keyShare[v])}

KeyShareBlockers(w, row) == {v \in Workers \ {w} : row \in rowLocks[v]}

\* Mutation: the rows come in whatever order the call's plan yields.
AnyRole(w) ==
    CHOOSE r \in call[w].roles :
        /\ RoleRow(r) \notin rowLocks[w]
        /\ \A q \in call[w].roles : RoleRow(q) \notin rowLocks[w] =>
            IF call[w].actor = call[w].target THEN Rank[r] >= Rank[q] ELSE Rank[r] <= Rank[q]

(* The next requested role to lock, in the order of names.                 *)
NextRole(w) ==
    CHOOSE r \in call[w].roles :
        /\ RoleRow(r) \notin rowLocks[w]
        /\ \A q \in call[w].roles : RoleRow(q) \notin rowLocks[w] => Rank[r] <= Rank[q]

RolesLocked(w) == \A r \in call[w].roles : RoleRow(r) \in rowLocks[w]

(* The workers that hold what the statement of w needs.                    *)
Blockers(w) ==
    IF pc[w] = "lock_target" THEN UpdateBlockers(w, UserRow(call[w].target))
    ELSE IF pc[w] = "lock_roles" /\ ~RolesLocked(w) THEN UpdateBlockers(w, RoleRow(NextRole(w)))
    ELSE IF pc[w] = "audit" THEN KeyShareBlockers(w, UserRow(call[w].actor))
    ELSE {}

(* Workers that wait for each other in a circle.                           *)
Deadlocked(S) ==
    /\ S # {}
    /\ \A w \in S : Blockers(w) \cap S # {} /\ \E v \in S : w \in Blockers(v)

-----------------------------------------------------------------------------

Goto(w, step) == pc' = [pc EXCEPT ![w] = step]

GoOn(w, step) == Goto(w, step) /\ UNCHANGED <<roles, local>>

Finish(w, how) ==
    /\ Goto(w, "done")
    /\ answer' = [answer EXCEPT ![w] = how]
    /\ rowLocks' = [rowLocks EXCEPT ![w] = {}]
    /\ keyShare' = [keyShare EXCEPT ![w] = None]
    /\ seen' = [seen EXCEPT ![w] = None]
    /\ UNCHANGED call

Refuse(w) == Finish(w, "refused") /\ UNCHANGED roles

(* The view admits whoever has the permission when the request comes in;   *)
(* it is remembered for the rest of the request, the Owner role is not.    *)
Submit(w) ==
    \E c \in Call :
        /\ pc[w] = "idle"
        /\ roles[c.actor] \cap Assigners # {}
        /\ call' = [call EXCEPT ![w] = c]
        /\ Goto(w, "lock_target")
        /\ UNCHANGED <<roles, rowLocks, keyShare, seen, answer>>

\* Mutation: the staff member's row is read without a lock.
ReadTarget(w) == pc[w] = "lock_target" /\ GoOn(w, "lock_roles")

LockTarget(w) ==
    /\ pc[w] = "lock_target"
    /\ Blockers(w) = {}
    /\ rowLocks' = [rowLocks EXCEPT ![w] = {UserRow(call[w].target)}]
    /\ Goto(w, "lock_roles")
    /\ UNCHANGED <<roles, call, keyShare, seen, answer>>

\* Mutation: the requested roles are read without FOR UPDATE.
ReadRoles(w) ==
    /\ pc[w] = "lock_roles"
    /\ seen' = [seen EXCEPT ![w] = roles[call[w].target]]
    /\ Goto(w, "authorize")
    /\ UNCHANGED <<roles, call, rowLocks, keyShare, answer>>

(* One row after the other; then the roles the target has are read.        *)
LockRoles(w) ==
    /\ pc[w] = "lock_roles"
    /\ \/ /\ ~RolesLocked(w)
          /\ Blockers(w) = {}
          /\ rowLocks' = [rowLocks EXCEPT ![w] = @ \cup {RoleRow(NextRole(w))}]
          /\ UNCHANGED <<pc, seen>>
       \/ /\ RolesLocked(w)
          /\ seen' = [seen EXCEPT ![w] = roles[call[w].target]]
          /\ Goto(w, "authorize")
          /\ UNCHANGED rowLocks
    /\ UNCHANGED <<roles, call, keyShare, answer>>

TouchesOwner(w) == Owner \in seen[w] \/ Owner \in call[w].roles

RemovesOwner(w) == Owner \in seen[w] /\ Owner \notin call[w].roles

(* Only an Owner may change an Owner, grant the role or take it away.      *)
Authorize(w) ==
    /\ pc[w] = "authorize"
    /\ IF TouchesOwner(w) /\ Owner \notin roles[call[w].actor]
       THEN Refuse(w)
       ELSE GoOn(w, IF RemovesOwner(w) THEN "count" ELSE "audit")

(* The final active Owner stays one; the others are counted, not locked.   *)
Count(w) ==
    /\ pc[w] = "count"
    /\ IF Owners \ {call[w].target} = {} THEN Refuse(w) ELSE GoOn(w, "audit")

(* The audit row refers to the actor, whose row must not be about to       *)
(* change under another transaction.                                       *)
Audit(w) ==
    /\ pc[w] = "audit"
    /\ Blockers(w) = {}
    /\ keyShare' = [keyShare EXCEPT ![w] = call[w].actor]
    /\ Goto(w, "commit")
    /\ UNCHANGED <<roles, call, rowLocks, seen, answer>>

Commit(w) ==
    /\ pc[w] = "commit"
    /\ roles' = [roles EXCEPT ![call[w].target] = call[w].roles]
    /\ Finish(w, "assigned")

(* PostgreSQL ends a deadlock by failing one of its transactions.          *)
BreakDeadlock(w) ==
    /\ \E S \in SUBSET Workers : w \in S /\ Deadlocked(S)
    /\ Finish(w, "error")
    /\ UNCHANGED roles

Respond(w) ==
    /\ pc[w] = "done"
    /\ Goto(w, "idle")
    /\ call' = [call EXCEPT ![w] = None]
    /\ answer' = [answer EXCEPT ![w] = None]
    /\ UNCHANGED <<roles, rowLocks, keyShare, seen>>

Init ==
    /\ roles \in OpeningRoles
    /\ pc = [w \in Workers |-> "idle"]
    /\ call = [w \in Workers |-> None]
    /\ rowLocks = [w \in Workers |-> {}]
    /\ keyShare = [w \in Workers |-> None]
    /\ seen = [w \in Workers |-> None]
    /\ answer = [w \in Workers |-> None]

Next ==
    \E w \in Workers :
        \/ Submit(w) \/ LockTarget(w) \/ LockRoles(w)
        \/ Authorize(w) \/ Count(w) \/ Audit(w) \/ Commit(w)
        \/ BreakDeadlock(w) \/ Respond(w)

Spec == Init /\ [][Next]_vars

-----------------------------------------------------------------------------
(* Every variable keeps the kind of value the code gives it, and nothing   *)
(* stays locked when a call has ended, however it ended.                   *)
TypeOK ==
    /\ roles \in [Staff -> SUBSET Roles]
    /\ pc \in [Workers -> Steps]
    /\ call \in [Workers -> Call \cup {None}]
    /\ rowLocks \in [Workers -> SUBSET Rows]
    /\ keyShare \in [Workers -> Staff \cup {None}]
    /\ seen \in [Workers -> (SUBSET Roles) \cup {None}]
    /\ answer \in [Workers -> {"assigned", "refused", "error", None}]
    /\ \A w \in Workers : pc[w] \in {"idle", "done"} =>
        rowLocks[w] = {} /\ keyShare[w] = None

(* Somebody stays Owner: "Cannot remove the final active Owner role."      *)
OwnerRemains == Owners # {}

(* What a call decides on and audits as the old roles is what it replaces. *)
RolesFresh == \A w \in Workers : seen[w] # None => seen[w] = roles[call[w].target]

(* How the last Owner can go.  The count of the other Owners is not        *)
(* locked: it can cease to be true while the call that made it waits to    *)
(* commit, and only such a call leaves nobody Owner.  What overtakes a     *)
(* count is always another call that demotes another Owner, and that has   *)
(* no requested role in common with it, whose row would have stopped one.  *)
Demotes(w) == pc[w] \in {"audit", "commit"} /\ RemovesOwner(w)

CountUntrue(w) == Demotes(w) /\ Owners \ {call[w].target} = {}

Commits(w) == pc[w] = "commit" /\ pc'[w] = "done"

CountsOvertaken ==
    [][/\ \A w \in Workers : ~CountUntrue(w) /\ CountUntrue(w)' =>
            \E v \in Workers \ {w} :
                /\ Commits(v) /\ Demotes(v)
                /\ call[v].target # call[w].target
                /\ call[v].roles \cap call[w].roles = {}
       /\ OwnerRemains /\ ~OwnerRemains' =>
            \E w \in Workers : Commits(w) /\ CountUntrue(w)]_vars

(* The order of names keeps calls from waiting in a circle for role rows:  *)
(* in every deadlock somebody waits for the row of an actor whom another   *)
(* call is just changing.                                                  *)
DeadlocksAreMutual ==
    \A S \in SUBSET Workers : Deadlocked(S) => \E w \in S : pc[w] = "audit"

=============================================================================
