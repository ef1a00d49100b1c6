---------------------------- MODULE AccountProofs ----------------------------
(***************************************************************************)
(* Proofs about Account: what every service that implements the abstract   *)
(* account can be relied on for, whatever the services are.                *)
(***************************************************************************)
EXTENDS Account, FiniteFacts, TLAPS

AccountInv ==
    /\ balance \in [Subscribers -> Int]
    /\ moves \subseteq Move
    /\ IsFiniteSet(moves)
    /\ Promises

(* One more move changes the sum of its own account only.                  *)
LEMMA MoveAdds ==
    ASSUME moves \subseteq Move, IsFiniteSet(moves), NEW m \in Move, m \notin moves,
           moves' = moves \cup {m}, NEW s
    PROVE  SumFunctionOnSet(Delta, MovesOf(s)') =
             IF m.subscriber = s THEN SumFunctionOnSet(Delta, MovesOf(s)) + m.delta
             ELSE SumFunctionOnSet(Delta, MovesOf(s))
<1>1. IsFiniteSet(MovesOf(s)) /\ m \notin MovesOf(s)
  <2>1. MovesOf(s) \subseteq moves
    BY DEF MovesOf
  <2> QED BY <2>1, FS_Subset
<1>2. \A n \in Move : Delta[n] = n.delta /\ n.delta \in Int
  BY DEF Delta, Move
<1>3. \A n \in MovesOf(s) \cup {m} : Delta[n] \in Int
  BY <1>2 DEF MovesOf
<1>4. MovesOf(s)' = IF m.subscriber = s THEN MovesOf(s) \cup {m} ELSE MovesOf(s)
  BY DEF MovesOf
<1>5. SumFunctionOnSet(Delta, MovesOf(s) \cup {m}) = SumFunctionOnSet(Delta, MovesOf(s)) + Delta[m]
  BY <1>1, <1>3, SumOneMore
<1> QED BY <1>2, <1>4, <1>5

(* Applying a move keeps all promises.                                     *)
LEMMA ApplyKeeps ==
    ASSUME AccountInv, NEW m \in Move, Apply(m)
    PROVE  AccountInv'
<1>1. /\ m \notin moves /\ \A n \in moves : n.op # m.op
      /\ moves' = moves \cup {m}
      /\ balance' = [balance EXCEPT ![m.subscriber] = @ + m.delta]
      /\ balance[m.subscriber] + m.delta \in 0..MaxMoney
  BY DEF Apply
<1>2. m.subscriber \in Subscribers /\ m.delta \in Int
  BY DEF Move
<1>3. balance' \in [Subscribers -> Int] /\ moves' \subseteq Move /\ IsFiniteSet(moves')
  BY <1>1, <1>2, FS_AddElement DEF AccountInv
<1>4. AddsUp'
  <2> SUFFICES ASSUME NEW s \in Subscribers
               PROVE  balance'[s] = SumFunctionOnSet(Delta, MovesOf(s)')
    BY DEF AddsUp, Delta
  <2>1. balance[s] = SumFunctionOnSet(Delta, MovesOf(s)) /\ balance[s] \in Int
    BY DEF AccountInv, Promises, AddsUp
  <2>2. SumFunctionOnSet(Delta, MovesOf(s)') =
             IF m.subscriber = s THEN SumFunctionOnSet(Delta, MovesOf(s)) + m.delta
             ELSE SumFunctionOnSet(Delta, MovesOf(s))
    BY <1>1, MoveAdds DEF AccountInv
  <2>3. balance'[s] = IF m.subscriber = s THEN balance[s] + m.delta ELSE balance[s]
    BY <1>1, <1>2 DEF AccountInv
  <2> QED BY <2>1, <2>2, <2>3
<1>5. AppliedOnce'
  BY <1>1 DEF AccountInv, Promises, AppliedOnce
<1>6. UndoneOnce'
  <2>1. m.undoes # None => \E n \in moves :
          /\ n.op = m.undoes /\ n.undoes = None /\ \A k \in moves : k.undoes # m.undoes
          /\ n.subscriber = m.subscriber /\ m.delta = -n.delta
    BY DEF Apply, Undoable
  <2>2. \A n \in moves : n.delta \in Int
    BY DEF AccountInv, Move
  <2>3. m.undoes # None => \E n \in moves :
          /\ n.op = m.undoes /\ n.undoes = None /\ \A k \in moves : k.undoes # m.undoes
          /\ n.subscriber = m.subscriber /\ n.delta + m.delta = 0
    BY <2>1, <2>2
  <2>4. UndoneOnce
    BY DEF AccountInv, Promises
  <2> QED BY <1>1, <2>3, <2>4 DEF UndoneOnce
<1>7. InRange'
  BY <1>1, <1>2 DEF AccountInv, Promises, InRange
<1> QED BY <1>3, <1>4, <1>5, <1>6, <1>7 DEF AccountInv, Promises

(* Whoever implements the account keeps its promises: what a subscriber    *)
(* has is the sum of the moves of its account, each identifier stands for  *)
(* one move, a move is undone at most once, and no account is overdrawn.   *)
THEOREM PromisesKept == MaxMoney \in Nat /\ Spec => []Promises
<1>1. MaxMoney \in Nat /\ Init => AccountInv
  <2> SUFFICES ASSUME MaxMoney \in Nat, Init PROVE AccountInv
    OBVIOUS
  <2>1. moves = {} /\ balance = [s \in Subscribers |-> 0]
    BY DEF Init
  <2>2. \A s : MovesOf(s) = {}
    BY <2>1 DEF MovesOf
  <2>3. AddsUp
    BY <2>1, <2>2, SumOfNone DEF AddsUp
  <2> QED BY <2>1, <2>3, FS_EmptySet DEF AccountInv, Promises, AppliedOnce, UndoneOnce, InRange
<1>2. AccountInv /\ [Next]_<<balance, moves>> => AccountInv'
  <2> SUFFICES ASSUME AccountInv, [Next]_<<balance, moves>> PROVE AccountInv'
    OBVIOUS
  <2>1. CASE UNCHANGED <<balance, moves>>
    BY <2>1 DEF AccountInv, Promises, AddsUp, MovesOf, AppliedOnce, UndoneOnce, InRange
  <2>2. CASE Next
    <3>1. PICK o \in Ops, s \in Subscribers, d \in -MaxMoney..MaxMoney, u \in Ops \cup {None} :
            Apply([op |-> o, subscriber |-> s, delta |-> d, undoes |-> u])
      BY <2>2 DEF Next
    <3>2. [op |-> o, subscriber |-> s, delta |-> d, undoes |-> u] \in Move
      BY DEF Move
    <3> QED BY <3>1, <3>2, ApplyKeeps
  <2> QED BY <2>1, <2>2
<1>3. AccountInv => Promises
  BY DEF AccountInv
<1> QED BY <1>1, <1>2, <1>3, PTL DEF Spec

=============================================================================
