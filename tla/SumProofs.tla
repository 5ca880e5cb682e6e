----------------------------- MODULE SumProofs -----------------------------
(***************************************************************************)
(* What sums over finite sets do: facts about SumFunctionOnSet, which adds *)
(* up f[x] over the x in S by taking the elements in an order that CHOOSE  *)
(* fixes.  The books of the wallet and the usage of a team are such sums.  *)
(*                                                                         *)
(* Induction is by a smallest counterexample: the subsets of a finite set  *)
(* are well-founded by inclusion, so a set of subsets that is not empty    *)
(* has a member without a proper subset in it (SmallestSubset).            *)
(***************************************************************************)
EXTENDS Integers, Sequences, Functions, FiniteSetTheorems, TLAPS

LEMMA SmallestSubset ==
  ASSUME NEW S, IsFiniteSet(S), NEW bad \in SUBSET SUBSET S, bad # {}
  PROVE  \E T \in bad : \A U \in bad : U \subseteq T => U = T
<1>1. IsWellFoundedOn(StrictSubsetOrdering(S), SUBSET S)
  BY FS_StrictSubsetOrderingWellFounded, FS_FiniteSubsetsOfFinite
<1>2. \E T \in bad : \A U \in bad : <<U, T>> \notin StrictSubsetOrdering(S)
  BY <1>1, WFMin
<1> QED BY <1>2 DEF StrictSubsetOrdering

---------------------------------------------------------------------------
(* The recursive function behind the sum, on the subsets of S.              *)
Picked(s) == CHOOSE x \in s : TRUE

IsSum(g, f, S) ==
    g = [s \in SUBSET S |-> IF s = {} THEN 0
                            ELSE LET x == Picked(s) IN f[x] + g[s \ {x}]]

TheSum(f, S) == CHOOSE g : IsSum(g, f, S)

LEMMA SumIs ==
  ASSUME NEW f, NEW S
  PROVE  SumFunctionOnSet(f, S) = TheSum(f, S)[S]
  BY DEF SumFunctionOnSet, FoldFunctionOnSet, MapThenFoldSet, TheSum, IsSum,
         Picked

LEMMA PickedIn == ASSUME NEW s, s # {} PROVE Picked(s) \in s
  BY DEF Picked

(* Two such functions agree wherever both are defined.                      *)
LEMMA SumsAgree ==
  ASSUME NEW f, NEW S, NEW T, IsFiniteSet(S), NEW g, NEW h,
         IsSum(g, f, S), IsSum(h, f, T), NEW U \in SUBSET (S \cap T)
  PROVE  g[U] = h[U]
<1> DEFINE bad == {V \in SUBSET (S \cap T) : g[V] # h[V]}
<1> SUFFICES ASSUME bad # {} PROVE FALSE
  OBVIOUS
<1>1. bad \in SUBSET SUBSET S
  OBVIOUS
<1>2. PICK V \in bad : \A W \in bad : W \subseteq V => W = V
  <2> HIDE DEF bad
  <2> QED BY <1>1, SmallestSubset
<1>3. V # {}
  BY DEF IsSum
<1> DEFINE W == V \ {Picked(V)}
<1>4. W \subseteq V /\ W # V /\ W \in SUBSET (S \cap T)
  BY <1>3, PickedIn
<1>5. g[W] = h[W]
  BY <1>2, <1>4
<1>6. g[V] = f[Picked(V)] + g[W] /\ h[V] = f[Picked(V)] + h[W]
  BY <1>3 DEF IsSum
<1> QED BY <1>5, <1>6

(* On a finite set there is one, so TheSum is one.                          *)
LEMMA SumExists ==
  ASSUME NEW f, NEW S, IsFiniteSet(S)
  PROVE  IsSum(TheSum(f, S), f, S)
<1> DEFINE bad == {T \in SUBSET S : ~ IsSum(TheSum(f, T), f, T)}
<1> SUFFICES ASSUME bad # {} PROVE FALSE
  OBVIOUS
<1>1. bad \in SUBSET SUBSET S
  OBVIOUS
<1>2. PICK T \in bad : \A U \in bad : U \subseteq T => U = T
  <2> HIDE DEF bad
  <2> QED BY <1>1, SmallestSubset
<1>3. ASSUME NEW U \in SUBSET T, U # T
      PROVE  IsSum(TheSum(f, U), f, U)
  BY <1>2, <1>3
<1> DEFINE h == [s \in SUBSET T |->
                    IF s = {} THEN 0
                    ELSE f[Picked(s)]
                           + TheSum(f, s \ {Picked(s)})[s \ {Picked(s)}]]
<1>4. ASSUME NEW s \in SUBSET T, s # {}
      PROVE  h[s] = f[Picked(s)] + h[s \ {Picked(s)}]
  <2> DEFINE U == s \ {Picked(s)}
  <2>1. U \in SUBSET T /\ U # T
    BY <1>4, PickedIn
  <2>2. IsSum(TheSum(f, U), f, U) /\ IsFiniteSet(U)
    BY <1>3, <2>1, FS_Subset
  <2>3. h[U] = TheSum(f, U)[U]
    <3>1. CASE U = {}
      <4>1. TheSum(f, U)[U] = 0
        BY <2>2, <3>1 DEF IsSum
      <4>2. h[U] = 0
        BY <2>1, <3>1
      <4> QED BY <4>1, <4>2
    <3>2. CASE U # {}
      <4> DEFINE V == U \ {Picked(U)}
      <4>1. V \in SUBSET U /\ V \in SUBSET T /\ V # T
        BY <2>1, <3>2, PickedIn
      <4>2. IsSum(TheSum(f, V), f, V)
        BY <1>3, <4>1
      <4>3. TheSum(f, U)[U] = f[Picked(U)] + TheSum(f, U)[V]
        BY <2>2, <3>2 DEF IsSum
      <4>4. TheSum(f, U)[V] = TheSum(f, V)[V]
        <5> HIDE DEF V, U
        <5> QED BY <2>2, <4>1, <4>2, SumsAgree
      <4>5. h[U] = f[Picked(U)] + TheSum(f, V)[V]
        BY <2>1, <3>2
      <4> QED BY <4>3, <4>4, <4>5
    <3> QED BY <3>1, <3>2
  <2>4. h[s] = f[Picked(s)] + TheSum(f, U)[U]
    BY <1>4
  <2> QED BY <2>3, <2>4
<1>5. IsSum(h, f, T)
  <2>1. \A s \in SUBSET T :
           h[s] = IF s = {} THEN 0
                  ELSE LET x == Picked(s) IN f[x] + h[s \ {x}]
    BY <1>4
  <2>2. h = [s \in SUBSET T |-> h[s]]
    OBVIOUS
  <2> HIDE DEF h
  <2> QED BY <2>1, <2>2 DEF IsSum
<1>6. IsSum(TheSum(f, T), f, T)
  <2> HIDE DEF h
  <2> QED BY <1>5 DEF TheSum
<1> QED BY <1>2, <1>6

---------------------------------------------------------------------------
(* The sum over a set, by the element that is picked first.                 *)
LEMMA SumFirst ==
  ASSUME NEW f, NEW S, IsFiniteSet(S), S # {}
  PROVE  /\ Picked(S) \in S
         /\ SumFunctionOnSet(f, S)
               = f[Picked(S)] + SumFunctionOnSet(f, S \ {Picked(S)})
<1> DEFINE T == S \ {Picked(S)}
<1>1. T \in SUBSET S /\ IsFiniteSet(T) /\ Picked(S) \in S
  BY PickedIn, FS_Subset
<1>2. IsSum(TheSum(f, S), f, S) /\ IsSum(TheSum(f, T), f, T)
  BY <1>1, SumExists
<1>3. TheSum(f, S)[S] = f[Picked(S)] + TheSum(f, S)[T]
  BY <1>2 DEF IsSum
<1>4. TheSum(f, S)[T] = TheSum(f, T)[T]
  <2>1. T \in SUBSET (S \cap T)
    BY <1>1
  <2> HIDE DEF T
  <2> QED BY <1>2, <2>1, SumsAgree
<1> QED BY <1>1, <1>3, <1>4, SumIs

LEMMA SumNothing == ASSUME NEW f PROVE SumFunctionOnSet(f, {}) = 0
<1>1. IsSum(TheSum(f, {}), f, {})
  BY SumExists, FS_EmptySet
<1>2. TheSum(f, {})[{}] = 0
  BY <1>1 DEF IsSum
<1> QED BY <1>2, SumIs

(* Only the values at the elements count.                                   *)
LEMMA SumSame ==
  ASSUME NEW f, NEW g, NEW S, IsFiniteSet(S), \A x \in S : f[x] = g[x]
  PROVE  SumFunctionOnSet(f, S) = SumFunctionOnSet(g, S)
<1> DEFINE bad == {T \in SUBSET S :
                     SumFunctionOnSet(f, T) # SumFunctionOnSet(g, T)}
<1> SUFFICES ASSUME bad # {} PROVE FALSE
  OBVIOUS
<1>1. PICK T \in bad : \A U \in bad : U \subseteq T => U = T
  <2>1. bad \in SUBSET SUBSET S
    OBVIOUS
  <2> HIDE DEF bad
  <2> QED BY <2>1, SmallestSubset
<1>2. IsFiniteSet(T) /\ T # {}
  BY SumNothing, FS_Subset
<1> DEFINE U == T \ {Picked(T)}
<1>3. /\ Picked(T) \in T
      /\ SumFunctionOnSet(f, T) = f[Picked(T)] + SumFunctionOnSet(f, U)
      /\ SumFunctionOnSet(g, T) = g[Picked(T)] + SumFunctionOnSet(g, U)
  BY <1>2, SumFirst
<1>4. SumFunctionOnSet(f, U) = SumFunctionOnSet(g, U)
  BY <1>1, <1>3
<1> QED BY <1>3, <1>4

(* The sum of integers is one, the sum of naturals is one, and any element  *)
(* may be taken out first.                                                  *)
LEMMA SumInt ==
  ASSUME NEW f, NEW S, IsFiniteSet(S), \A x \in S : f[x] \in Int
  PROVE  SumFunctionOnSet(f, S) \in Int
<1> DEFINE bad == {T \in SUBSET S : SumFunctionOnSet(f, T) \notin Int}
<1> SUFFICES ASSUME bad # {} PROVE FALSE
  OBVIOUS
<1>1. PICK T \in bad : \A U \in bad : U \subseteq T => U = T
  <2>1. bad \in SUBSET SUBSET S
    OBVIOUS
  <2> HIDE DEF bad
  <2> QED BY <2>1, SmallestSubset
<1>2. IsFiniteSet(T) /\ T # {}
  <2>1. 0 \in Int /\ SumFunctionOnSet(f, {}) = 0
    BY SumNothing
  <2> QED BY <2>1, FS_Subset
<1> DEFINE U == T \ {Picked(T)}
<1>3. /\ Picked(T) \in T
      /\ SumFunctionOnSet(f, T) = f[Picked(T)] + SumFunctionOnSet(f, U)
  BY <1>2, SumFirst
<1>4. SumFunctionOnSet(f, U) \in Int
  BY <1>1, <1>3
<1> QED BY <1>3, <1>4

LEMMA SumNat ==
  ASSUME NEW f, NEW S, IsFiniteSet(S), \A x \in S : f[x] \in Nat
  PROVE  SumFunctionOnSet(f, S) \in Nat
<1> DEFINE bad == {T \in SUBSET S : SumFunctionOnSet(f, T) \notin Nat}
<1> SUFFICES ASSUME bad # {} PROVE FALSE
  OBVIOUS
<1>1. PICK T \in bad : \A U \in bad : U \subseteq T => U = T
  <2>1. bad \in SUBSET SUBSET S
    OBVIOUS
  <2> HIDE DEF bad
  <2> QED BY <2>1, SmallestSubset
<1>2. IsFiniteSet(T) /\ T # {}
  <2>1. 0 \in Nat /\ SumFunctionOnSet(f, {}) = 0
    BY SumNothing
  <2> QED BY <2>1, FS_Subset
<1> DEFINE U == T \ {Picked(T)}
<1>3. /\ Picked(T) \in T
      /\ SumFunctionOnSet(f, T) = f[Picked(T)] + SumFunctionOnSet(f, U)
  BY <1>2, SumFirst
<1>4. SumFunctionOnSet(f, U) \in Nat
  BY <1>1, <1>3
<1> QED BY <1>3, <1>4

LEMMA SumWithout ==
  ASSUME NEW f, NEW S, IsFiniteSet(S), \A x \in S : f[x] \in Int,
         NEW x \in S
  PROVE  SumFunctionOnSet(f, S) = f[x] + SumFunctionOnSet(f, S \ {x})
<1> DEFINE total(T) == SumFunctionOnSet(f, T)
           bad == {T \in SUBSET S :
                     \E y \in T : total(T) # f[y] + total(T \ {y})}
<1> SUFFICES ASSUME bad # {} PROVE FALSE
  OBVIOUS
<1>1. PICK T \in bad : \A U \in bad : U \subseteq T => U = T
  <2>1. bad \in SUBSET SUBSET S
    OBVIOUS
  <2> HIDE DEF bad
  <2> QED BY <2>1, SmallestSubset
<1>2. PICK y \in T : total(T) # f[y] + total(T \ {y})
  BY <1>1
<1>3. IsFiniteSet(T)
  BY FS_Subset
<1> DEFINE p == Picked(T)
           U == T \ {p}
           W == T \ {y}
<1>4. p \in T /\ total(T) = f[p] + total(U)
  BY <1>2, <1>3, SumFirst
<1>5. y # p
  BY <1>2, <1>4
<1>6. /\ \A z \in U : total(U) = f[z] + total(U \ {z})
      /\ \A z \in W : total(W) = f[z] + total(W \ {z})
  <2>1. \A V \in SUBSET T : V # T => V \notin bad /\ V \in SUBSET S
    BY <1>1
  <2>2. U \in SUBSET T /\ U # T /\ W \in SUBSET T /\ W # T
    BY <1>2, <1>4
  <2>3. \A V \in SUBSET T : V # T =>
           \A z \in V : total(V) = f[z] + total(V \ {z})
    BY <2>1
  <2> HIDE DEF U, W, total, bad
  <2> QED BY <2>2, <2>3
<1>7. U \ {y} = W \ {p}
  OBVIOUS
<1>8. total(U \ {y}) \in Int
  <2>1. U \ {y} \in SUBSET S
    OBVIOUS
  <2> HIDE DEF U
  <2> QED BY <2>1, FS_Subset, SumInt
<1>9. f[y] \in Int /\ f[p] \in Int
  BY <1>2, <1>4
<1>10. total(U) = f[y] + total(U \ {y}) /\ total(W) = f[p] + total(U \ {y})
  BY <1>2, <1>4, <1>5, <1>6, <1>7
<1>11. total(T) # f[y] + total(W)
  BY <1>2
<1> HIDE DEF total, U, W, p, bad
<1> QED BY <1>4, <1>8, <1>9, <1>10, <1>11

LEMMA SumWith ==
  ASSUME NEW f, NEW S, IsFiniteSet(S), NEW x, x \notin S,
         \A y \in S \cup {x} : f[y] \in Int
  PROVE  SumFunctionOnSet(f, S \cup {x}) = SumFunctionOnSet(f, S) + f[x]
<1>1. IsFiniteSet(S \cup {x}) /\ (S \cup {x}) \ {x} = S
  BY FS_AddElement
<1>2. SumFunctionOnSet(f, S \cup {x}) = f[x] + SumFunctionOnSet(f, S)
  <2> DEFINE T == S \cup {x}
  <2>1. x \in T /\ T \ {x} = S /\ IsFiniteSet(T) /\ \A y \in T : f[y] \in Int
    BY <1>1
  <2>2. SumFunctionOnSet(f, T) = f[x] + SumFunctionOnSet(f, T \ {x})
    <3> HIDE DEF T
    <3> QED BY <2>1, SumWithout
  <2> QED BY <2>1, <2>2
<1>3. SumFunctionOnSet(f, S) \in Int
  BY SumInt
<1> QED BY <1>2, <1>3

(* One value changes.                                                       *)
LEMMA SumChanged ==
  ASSUME NEW f, NEW g, NEW S, IsFiniteSet(S), NEW x \in S,
         \A y \in S : f[y] \in Int,
         g[x] \in Int, \A y \in S \ {x} : g[y] = f[y]
  PROVE  SumFunctionOnSet(g, S) = SumFunctionOnSet(f, S) - f[x] + g[x]
<1> DEFINE T == S \ {x}
<1>1. IsFiniteSet(T) /\ \A y \in S : g[y] \in Int
  BY FS_Subset
<1>2. /\ SumFunctionOnSet(f, S) = f[x] + SumFunctionOnSet(f, T)
      /\ SumFunctionOnSet(g, S) = g[x] + SumFunctionOnSet(g, T)
  BY <1>1, SumWithout
<1>3. /\ SumFunctionOnSet(f, T) = SumFunctionOnSet(g, T)
      /\ SumFunctionOnSet(f, T) \in Int
  BY <1>1, SumSame, SumInt
<1>4. f[x] \in Int /\ g[x] \in Int
  OBVIOUS
<1> HIDE DEF T
<1> QED BY <1>2, <1>3, <1>4

(* Larger values have a larger sum, and values of at most k one of at most  *)
(* k times their number.                                                    *)
LEMMA SumAtMost ==
  ASSUME NEW f, NEW g, NEW S, IsFiniteSet(S),
         \A x \in S : f[x] \in Nat /\ g[x] \in Nat /\ f[x] <= g[x]
  PROVE  SumFunctionOnSet(f, S) <= SumFunctionOnSet(g, S)
<1> DEFINE bad == {T \in SUBSET S :
                     ~(SumFunctionOnSet(f, T) <= SumFunctionOnSet(g, T))}
<1> SUFFICES ASSUME bad # {} PROVE FALSE
  OBVIOUS
<1>1. PICK T \in bad : \A U \in bad : U \subseteq T => U = T
  <2>1. bad \in SUBSET SUBSET S
    OBVIOUS
  <2> HIDE DEF bad
  <2> QED BY <2>1, SmallestSubset
<1>2. IsFiniteSet(T) /\ T # {}
  <2>1. SumFunctionOnSet(f, {}) = 0 /\ SumFunctionOnSet(g, {}) = 0
    BY SumNothing
  <2>2. SumFunctionOnSet(f, {}) <= SumFunctionOnSet(g, {})
    BY <2>1
  <2> QED BY <2>2, FS_Subset
<1> DEFINE U == T \ {Picked(T)}
<1>3. /\ Picked(T) \in T
      /\ SumFunctionOnSet(f, T) = f[Picked(T)] + SumFunctionOnSet(f, U)
      /\ SumFunctionOnSet(g, T) = g[Picked(T)] + SumFunctionOnSet(g, U)
  BY <1>2, SumFirst
<1>4. SumFunctionOnSet(f, U) <= SumFunctionOnSet(g, U)
  BY <1>1, <1>3
<1>5. SumFunctionOnSet(f, U) \in Nat /\ SumFunctionOnSet(g, U) \in Nat
  BY <1>2, FS_Subset, SumNat
<1>6. /\ f[Picked(T)] \in Nat /\ g[Picked(T)] \in Nat
      /\ f[Picked(T)] <= g[Picked(T)]
      /\ ~(SumFunctionOnSet(f, T) <= SumFunctionOnSet(g, T))
  BY <1>3
<1> HIDE DEF bad, U
<1> QED BY <1>3, <1>4, <1>5, <1>6

LEMMA SumTimes ==
  ASSUME NEW f, NEW k \in Nat, NEW S, IsFiniteSet(S),
         \A x \in S : f[x] \in Nat /\ f[x] <= k
  PROVE  SumFunctionOnSet(f, S) <= k * Cardinality(S)
<1> DEFINE bad == {T \in SUBSET S :
                     ~(SumFunctionOnSet(f, T) <= k * Cardinality(T))}
<1> SUFFICES ASSUME bad # {} PROVE FALSE
  OBVIOUS
<1>1. PICK T \in bad : \A U \in bad : U \subseteq T => U = T
  <2>1. bad \in SUBSET SUBSET S
    OBVIOUS
  <2> HIDE DEF bad
  <2> QED BY <2>1, SmallestSubset
<1>2. IsFiniteSet(T) /\ T # {}
  <2>1. SumFunctionOnSet(f, {}) = 0 /\ Cardinality({}) = 0
    BY SumNothing, FS_EmptySet
  <2>2. SumFunctionOnSet(f, {}) <= k * Cardinality({})
    BY <2>1
  <2> QED BY <2>2, FS_Subset
<1> DEFINE U == T \ {Picked(T)}
<1>3. /\ Picked(T) \in T
      /\ SumFunctionOnSet(f, T) = f[Picked(T)] + SumFunctionOnSet(f, U)
  BY <1>2, SumFirst
<1>4. SumFunctionOnSet(f, U) <= k * Cardinality(U)
  BY <1>1, <1>3
<1>5. /\ SumFunctionOnSet(f, U) \in Nat /\ Cardinality(U) \in Nat
      /\ Cardinality(T) = Cardinality(U) + 1
  BY <1>2, <1>3, FS_Subset, SumNat, FS_RemoveElement, FS_CardinalityType
<1>6. /\ f[Picked(T)] \in Nat /\ f[Picked(T)] <= k
      /\ ~(SumFunctionOnSet(f, T) <= k * Cardinality(T))
  BY <1>3
<1>7. \A c \in Nat : k * (c + 1) = k * c + k
  OBVIOUS
<1>8. k * Cardinality(T) = k * Cardinality(U) + k
  BY <1>5, <1>7
<1>9. k * Cardinality(U) \in Nat
  BY <1>5
<1> HIDE DEF bad, U
<1> QED BY <1>3, <1>4, <1>5, <1>6, <1>8, <1>9

(* An element that counts for nothing may be there or not.                  *)
LEMMA SumNothingMore ==
  ASSUME NEW f, NEW S, IsFiniteSet(S), NEW x,
         \A y \in S \cup {x} : f[y] \in Int, f[x] = 0
  PROVE  SumFunctionOnSet(f, S \cup {x}) = SumFunctionOnSet(f, S)
<1>1. CASE x \in S
  <2>1. S \cup {x} = S
    BY <1>1
  <2> QED BY <2>1
<1>2. CASE x \notin S
  BY <1>2, SumWith, SumInt
<1> QED BY <1>1, <1>2

(* A number is added to a list, or its first number becomes another.        *)
LEMMA SumAppended ==
  ASSUME NEW s \in Seq(Nat), NEW n \in Nat
  PROVE  /\ SumFunction(s) \in Nat
         /\ SumFunction(Append(s, n)) = SumFunction(s) + n
<1> DEFINE t == Append(s, n)
           m == Len(s) + 1
<1>1. /\ DOMAIN s = 1..Len(s) /\ Len(s) \in Nat
      /\ DOMAIN t = 1..m /\ t[m] = n
      /\ \A i \in 1..Len(s) : t[i] = s[i] /\ s[i] \in Nat
  OBVIOUS
<1> HIDE DEF t
<1>2. DOMAIN t = DOMAIN s \cup {m} /\ m \notin DOMAIN s
  BY <1>1
<1>3. IsFiniteSet(DOMAIN s) /\ \A i \in DOMAIN s : s[i] \in Int /\ t[i] \in Int
  BY <1>1, FS_Interval
<1>4. SumFunctionOnSet(t, DOMAIN t) = SumFunctionOnSet(t, DOMAIN s) + n
  <2>1. \A i \in DOMAIN s \cup {m} : t[i] \in Int
    BY <1>1, <1>3
  <2> HIDE DEF m
  <2> QED BY <1>1, <1>2, <1>3, <2>1, SumWith
<1>5. SumFunctionOnSet(t, DOMAIN s) = SumFunctionOnSet(s, DOMAIN s)
  BY <1>1, <1>3, SumSame
<1>6. SumFunctionOnSet(s, DOMAIN s) \in Nat
  BY <1>1, <1>3, SumNat
<1> QED BY <1>4, <1>5, <1>6 DEF SumFunction, t

LEMMA SumFirstChanged ==
  ASSUME NEW s \in Seq(Nat), s # <<>>, NEW n \in Nat
  PROVE  SumFunction([s EXCEPT ![1] = n]) = SumFunction(s) - s[1] + n
<1> DEFINE t == [s EXCEPT ![1] = n]
<1>1. /\ DOMAIN s = 1..Len(s) /\ Len(s) \in Nat /\ 1 \in DOMAIN s
      /\ DOMAIN t = DOMAIN s /\ t[1] = n
      /\ \A i \in DOMAIN s : s[i] \in Nat
      /\ \A i \in DOMAIN s \ {1} : t[i] = s[i]
  OBVIOUS
<1> HIDE DEF t
<1>2. IsFiniteSet(DOMAIN s) /\ \A i \in DOMAIN s : s[i] \in Int
  BY <1>1, FS_Interval
<1>3. SumFunctionOnSet(t, DOMAIN s)
         = SumFunctionOnSet(s, DOMAIN s) - s[1] + t[1]
  <2>1. s[1] \in Nat /\ t[1] \in Int
    BY <1>1
  <2> DEFINE S == DOMAIN s
  <2>2. /\ IsFiniteSet(S) /\ 1 \in S /\ \A i \in S : s[i] \in Int
        /\ \A i \in S \ {1} : t[i] = s[i]
    BY <1>1, <1>2
  <2> HIDE DEF S
  <2> QED BY <2>1, <2>2, SumChanged DEF S
<1> QED BY <1>1, <1>3 DEF SumFunction, t
============================================================================
