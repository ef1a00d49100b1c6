----------------------------- MODULE FiniteFacts -----------------------------
(***************************************************************************)
(* Facts about natural numbers and finite sets that the proofs share: that *)
(* there is a least number and a smallest set, and what the sum of a       *)
(* function over a finite set is.  A fact about all finite sets is proved  *)
(* by looking at a smallest set that it is false of.                       *)
(***************************************************************************)
EXTENDS Functions, FiniteSetTheorems, TLAPS

(* A set of natural numbers has a least one.                               *)
LEMMA LeastNatural ==
    ASSUME NEW T, T \subseteq Nat, T # {}
    PROVE  \E x \in T : \A y \in T : x <= y
<1> DEFINE Less == {ss \in Nat \X Nat : ss[1] < ss[2]}
<1>1. IsWellFoundedOn(Less, Nat)
  BY NatLessThanWellFounded DEF OpToRel
<1>2. PICK x \in T : \A y \in T : <<y, x>> \notin Less
  <2> HIDE DEF Less
  <2> QED BY <1>1, WFMin
<1>3. ASSUME NEW y \in T PROVE x <= y
  <2>1. <<y, x>> \in Nat \X Nat
    OBVIOUS
  <2>2. ~(y < x)
    BY <1>2, <2>1
  <2> QED BY <2>2
<1> QED BY <1>3

-----------------------------------------------------------------------------
(* Sums.                                                                   *)

Chosen(T) == CHOOSE x \in T : TRUE

(* g adds f up over every subset of S, one chosen element after another.   *)
Adds(g, f, S) ==
    g = [T \in SUBSET S |->
           IF T = {} THEN 0 ELSE f[Chosen(T)] + g[T \ {Chosen(T)}]]

(* The operator of the library looks for such a g.                         *)
LEMMA SumOfAdder ==
    ASSUME NEW f, NEW S
    PROVE  SumFunctionOnSet(f, S) = (CHOOSE g : Adds(g, f, S))[S]
BY DEF SumFunctionOnSet, FoldFunctionOnSet, MapThenFoldSet, Adds, Chosen

(* Some sets of finite sets have a smallest member.                        *)
LEMMA SmallestSet ==
    ASSUME NEW S, IsFiniteSet(S), NEW Family, Family \subseteq SUBSET S, Family # {}
    PROVE  \E T \in Family : \A U \in SUBSET T : U # T => U \notin Family
<1> DEFINE R == StrictSubsetOrdering(S)
<1>1. IsWellFoundedOn(R, SUBSET S)
  BY FS_StrictSubsetOrderingWellFounded, FS_FiniteSubsetsOfFinite
<1>2. PICK T \in Family : \A U \in Family : ~(<<U, T>> \in R)
  <2> HIDE DEF R
  <2> QED BY <1>1, WFMin
<1>3. ASSUME NEW U \in SUBSET T, U # T, U \in Family PROVE FALSE
  BY <1>2, <1>3 DEF StrictSubsetOrdering
<1> QED BY <1>3

(* Adding up gives one result, whatever superset it is done for.           *)
LEMMA AddersAgree ==
    ASSUME NEW f, NEW S, IsFiniteSet(S), NEW S1, NEW S2,
           S \subseteq S1, S \subseteq S2,
           NEW g, Adds(g, f, S1), NEW h, Adds(h, f, S2)
    PROVE  g[S] = h[S]
<1> DEFINE Bad == {T \in SUBSET S : g[T] # h[T]}
<1>1. SUFFICES ASSUME Bad # {} PROVE FALSE
  OBVIOUS
<1>2. PICK T \in Bad : \A U \in SUBSET T : U # T => U \notin Bad
  <2>1. Bad \subseteq SUBSET S
    OBVIOUS
  <2> HIDE DEF Bad
  <2> QED BY <1>1, <2>1, SmallestSet
<1>3. T \in SUBSET S1 /\ T \in SUBSET S2
  OBVIOUS
<1>4. /\ g[T] = IF T = {} THEN 0 ELSE f[Chosen(T)] + g[T \ {Chosen(T)}]
      /\ h[T] = IF T = {} THEN 0 ELSE f[Chosen(T)] + h[T \ {Chosen(T)}]
  BY <1>3 DEF Adds
<1>5. T # {} => Chosen(T) \in T
  BY DEF Chosen
<1>6. T # {} => g[T \ {Chosen(T)}] = h[T \ {Chosen(T)}]
  BY <1>2, <1>5
<1> QED BY <1>4, <1>6

(* Adding up can be done for every finite set.                             *)
LEMMA AdderExists ==
    ASSUME NEW f, NEW S, IsFiniteSet(S)
    PROVE  \E g : Adds(g, f, S)
<1> DEFINE Bad == {T \in SUBSET S : ~ \E g : Adds(g, f, T)}
<1>1. SUFFICES ASSUME Bad # {} PROVE FALSE
  OBVIOUS
<1>2. PICK T \in Bad : \A U \in SUBSET T : U # T => U \notin Bad
  <2>1. Bad \subseteq SUBSET S
    OBVIOUS
  <2> HIDE DEF Bad
  <2> QED BY <1>1, <2>1, SmallestSet
<1>3. \A U \in SUBSET T : U # T => \E g : Adds(g, f, U)
  BY <1>2
<1>4. \A U \in SUBSET T : IsFiniteSet(U)
  BY FS_Subset
<1> DEFINE of(U) == CHOOSE g : Adds(g, f, U)
           h == [U \in SUBSET T |->
                   IF U = {} THEN 0
                   ELSE f[Chosen(U)] + of(U \ {Chosen(U)})[U \ {Chosen(U)}]]
<1>5. \A U \in SUBSET T : U # T => Adds(of(U), f, U)
  BY <1>3
<1>6. ASSUME NEW U \in SUBSET T, U # T PROVE h[U] = of(U)[U]
  <2>1. of(U)[U] = IF U = {} THEN 0 ELSE f[Chosen(U)] + of(U)[U \ {Chosen(U)}]
    <3>1. Adds(of(U), f, U)
      BY <1>5, <1>6
    <3> HIDE DEF of
    <3> QED BY <3>1 DEF Adds
  <2>2. ASSUME U # {} PROVE of(U)[U \ {Chosen(U)}] = of(U \ {Chosen(U)})[U \ {Chosen(U)}]
    <3> DEFINE V == U \ {Chosen(U)}
    <3>1. V \in SUBSET T /\ V # T /\ V \subseteq U
      BY <1>6
    <3>2. Adds(of(U), f, U) /\ Adds(of(V), f, V) /\ IsFiniteSet(V)
      BY <3>1, <1>4, <1>5, <1>6
    <3> HIDE DEF of, V
    <3>3. of(U)[V] = of(V)[V]
      BY <3>1, <3>2, AddersAgree
    <3> QED BY <3>3 DEF V
  <2> HIDE DEF of
  <2>3. h[U] = IF U = {} THEN 0
               ELSE f[Chosen(U)] + of(U \ {Chosen(U)})[U \ {Chosen(U)}]
    OBVIOUS
  <2> QED BY <2>1, <2>2, <2>3
<1>7. ASSUME NEW U \in SUBSET T, U # {} PROVE h[U \ {Chosen(U)}] = of(U \ {Chosen(U)})[U \ {Chosen(U)}]
  <2>1. Chosen(U) \in U
    BY <1>7 DEF Chosen
  <2>2. U \ {Chosen(U)} \in SUBSET T /\ U \ {Chosen(U)} # T
    BY <2>1
  <2> HIDE DEF h, of
  <2> QED BY <2>2, <1>6
<1>8. Adds(h, f, T)
  <2> HIDE DEF of
  <2>1. h = [U \in SUBSET T |-> IF U = {} THEN 0 ELSE f[Chosen(U)] + h[U \ {Chosen(U)}]]
    BY <1>7
  <2> HIDE DEF h
  <2> QED BY <2>1 DEF Adds
<1> HIDE DEF h
<1> QED BY <1>2, <1>8

(* The sum over a finite set, one chosen element after another.            *)
LEMMA SumStep ==
    ASSUME NEW f, NEW S, IsFiniteSet(S)
    PROVE  SumFunctionOnSet(f, S) =
             IF S = {} THEN 0
             ELSE f[Chosen(S)] + SumFunctionOnSet(f, S \ {Chosen(S)})
<1> DEFINE of(U) == CHOOSE g : Adds(g, f, U)
           V == S \ {Chosen(S)}
<1>1. IsFiniteSet(V) /\ V \subseteq S
  BY FS_Subset
<1>2. Adds(of(S), f, S) /\ Adds(of(V), f, V)
  BY <1>1, AdderExists
<1>3. SumFunctionOnSet(f, S) = of(S)[S] /\ SumFunctionOnSet(f, V) = of(V)[V]
  BY SumOfAdder
<1> HIDE DEF of, V
<1>4. of(S)[V] = of(V)[V]
  BY <1>1, <1>2, AddersAgree
<1>5. of(S)[S] = IF S = {} THEN 0 ELSE f[Chosen(S)] + of(S)[S \ {Chosen(S)}]
  BY <1>2 DEF Adds
<1> QED BY <1>3, <1>4, <1>5 DEF V

(* Nothing adds up to zero.                                                *)
LEMMA SumOfNone ==
    ASSUME NEW f
    PROVE  SumFunctionOnSet(f, {}) = 0
BY SumStep, FS_EmptySet

(* Integers add up to an integer.                                          *)
LEMMA SumIsInteger ==
    ASSUME NEW f, NEW S, IsFiniteSet(S), \A x \in S : f[x] \in Int
    PROVE  SumFunctionOnSet(f, S) \in Int
<1> DEFINE Bad == {T \in SUBSET S : SumFunctionOnSet(f, T) \notin Int}
<1>1. SUFFICES ASSUME Bad # {} PROVE FALSE
  OBVIOUS
<1>2. PICK T \in Bad : \A U \in SUBSET T : U # T => U \notin Bad
  <2>1. Bad \subseteq SUBSET S
    OBVIOUS
  <2> HIDE DEF Bad
  <2> QED BY <1>1, <2>1, SmallestSet
<1>3. T # {}
  BY SumOfNone
<1>4. Chosen(T) \in T
  BY <1>3 DEF Chosen
<1>5. SumFunctionOnSet(f, T \ {Chosen(T)}) \in Int
  BY <1>2, <1>4
<1>6. IsFiniteSet(T)
  BY FS_Subset
<1> QED BY <1>3, <1>4, <1>5, <1>6, SumStep

(* Any element can be taken out first.                                     *)
LEMMA SumTakeOut ==
    ASSUME NEW f, NEW S, IsFiniteSet(S), \A x \in S : f[x] \in Int, NEW e \in S
    PROVE  SumFunctionOnSet(f, S) = f[e] + SumFunctionOnSet(f, S \ {e})
<1> DEFINE Of(T) == SumFunctionOnSet(f, T)
           Bad == {T \in SUBSET S : \E x \in T : Of(T) # f[x] + Of(T \ {x})}
<1>1. SUFFICES ASSUME Bad # {} PROVE FALSE
  OBVIOUS
<1>2. PICK T \in Bad : \A U \in SUBSET T : U # T => U \notin Bad
  <2>1. Bad \subseteq SUBSET S
    OBVIOUS
  <2> HIDE DEF Bad
  <2> QED BY <1>1, <2>1, SmallestSet
<1>3. PICK x \in T : Of(T) # f[x] + Of(T \ {x})
  OBVIOUS
<1> DEFINE c == Chosen(T)
<1>4. c \in T
  BY DEF Chosen
<1>5. IsFiniteSet(T) /\ IsFiniteSet(T \ {x})
  BY FS_Subset
<1>6. Of(T) = f[c] + Of(T \ {c})
  BY <1>4, <1>5, SumStep
<1>7. c # x
  BY <1>3, <1>6
<1>8. \A U \in SUBSET T : U # T => \A y \in U : Of(U) = f[y] + Of(U \ {y})
  BY <1>2
<1>0. T \subseteq S
  OBVIOUS
<1> HIDE DEF Of, c, Bad
<1>9. Of(T \ {c}) = f[x] + Of((T \ {c}) \ {x})
  BY <1>4, <1>7, <1>8
<1>10. Of(T \ {x}) = f[c] + Of((T \ {x}) \ {c})
  BY <1>4, <1>7, <1>8
<1>11. (T \ {x}) \ {c} = (T \ {c}) \ {x}
  OBVIOUS
<1>12. f[c] \in Int /\ f[x] \in Int /\ Of((T \ {c}) \ {x}) \in Int
  <2>1. IsFiniteSet((T \ {c}) \ {x})
    BY <1>5, FS_Subset
  <2>2. \A y \in (T \ {c}) \ {x} : f[y] \in Int
    BY <1>0
  <2>3. f[c] \in Int /\ f[x] \in Int
    BY <1>0, <1>4
  <2> QED BY <2>1, <2>2, <2>3, SumIsInteger DEF Of
<1>13. Of(T) # f[x] + Of(T \ {x})
  BY <1>3
<1> DEFINE rest == Of((T \ {c}) \ {x})
<1>14. Of(T) = f[c] + (f[x] + rest) /\ Of(T \ {x}) = f[c] + rest
  BY <1>6, <1>9, <1>10, <1>11
<1>15. rest \in Int
  BY <1>12
<1> HIDE DEF rest
<1>16. f[c] + (f[x] + rest) = f[x] + (f[c] + rest)
  BY <1>12, <1>15
<1> QED BY <1>13, <1>14, <1>16

(* One more element adds its own value.                                    *)
LEMMA SumOneMore ==
    ASSUME NEW f, NEW S, IsFiniteSet(S), NEW e, e \notin S,
           \A x \in S \cup {e} : f[x] \in Int
    PROVE  SumFunctionOnSet(f, S \cup {e}) = SumFunctionOnSet(f, S) + f[e]
<1>1. IsFiniteSet(S \cup {e})
  BY FS_AddElement
<1>2. (S \cup {e}) \ {e} = S
  OBVIOUS
<1>3. SumFunctionOnSet(f, S) \in Int /\ f[e] \in Int
  BY SumIsInteger
<1> QED BY <1>1, <1>2, <1>3, SumTakeOut

==============================================================================
