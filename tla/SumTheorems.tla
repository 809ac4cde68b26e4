---------------------------- MODULE SumTheorems ----------------------------
(***************************************************************************)
(* Facts about SumFunctionOnSet of the community modules, the sum of the   *)
(* values of a function over a finite set of indices.  A sum is a          *)
(* recursive function that picks the indices one by one; that it exists    *)
(* and does not depend on the order is shown by taking a smallest          *)
(* counterexample, since no installed prover can use an induction theorem  *)
(* whose parameter is an operator.                                         *)
(***************************************************************************)
EXTENDS Integers, Functions, FiniteSetTheorems, WellFoundedInduction, TLAPS

\* Among some subsets of a finite set there is one without another inside it.
LEMMA MinimalSubset ==
  ASSUME NEW S, IsFiniteSet(S), NEW C \in SUBSET SUBSET S, C # {}
  PROVE  \E T \in C : \A u \in C : u \subseteq T => u = T
<1> DEFINE R == StrictSubsetOrdering(S)
<1>1. IsWellFoundedOn(R, SUBSET S)
  BY FS_StrictSubsetOrderingWellFounded, FS_FiniteSubsetsOfFinite
<1> HIDE DEF R
<1>2. PICK T \in C : \A u \in C : ~ (<<u, T>> \in R)
  BY <1>1, WFMin
<1>3. ASSUME NEW u \in C, u \subseteq T PROVE u = T
  <2>1. ~ (<<u, T>> \in R) BY <1>2
  <2>2. u \in SUBSET S /\ T \in SUBSET S OBVIOUS
  <2> QED BY <1>3, <2>1, <2>2 DEF R, StrictSubsetOrdering
<1> QED BY <1>3

-----------------------------------------------------------------------------
(* The recursive function behind a sum.                                    *)

Pick(s) == CHOOSE x \in s : TRUE
Rest(s) == s \ {Pick(s)}

PartialSums(g, f, S) ==
  g = [s \in SUBSET S |-> IF s = {} THEN 0 ELSE f[Pick(s)] + g[Rest(s)]]
PartialSumsOf(f, S) == CHOOSE g : PartialSums(g, f, S)

LEMMA SumIsPartialSum ==
  ASSUME NEW f, NEW S
  PROVE  SumFunctionOnSet(f, S) = PartialSumsOf(f, S)[S]
BY Zenon DEF SumFunctionOnSet, FoldFunctionOnSet, MapThenFoldSet, PartialSumsOf,
             PartialSums, Pick, Rest

LEMMA RestFacts ==
  ASSUME NEW s, s # {}
  PROVE  /\ Pick(s) \in s
         /\ Rest(s) \subseteq s
         /\ Rest(s) # s
BY DEF Pick, Rest

LEMMA PartialSumsUnique ==
  ASSUME NEW f, NEW g, NEW h, NEW S, NEW T, IsFiniteSet(S), T \subseteq S,
         PartialSums(g, f, S), PartialSums(h, f, T)
  PROVE  \A s \in SUBSET T : g[s] = h[s]
<1> DEFINE Bad == { s \in SUBSET T : g[s] # h[s] }
<1> SUFFICES ASSUME Bad # {} PROVE FALSE
  OBVIOUS
<1>1. PICK s \in Bad : \A u \in Bad : u \subseteq s => u = s
  <2> HIDE DEF Bad
  <2>1. Bad \in SUBSET SUBSET S BY DEF Bad
  <2> QED BY <2>1, MinimalSubset
<1>2. s \in SUBSET T /\ s \in SUBSET S
  BY <1>1
<1>3. /\ g[s] = IF s = {} THEN 0 ELSE f[Pick(s)] + g[Rest(s)]
      /\ h[s] = IF s = {} THEN 0 ELSE f[Pick(s)] + h[Rest(s)]
  BY <1>2 DEF PartialSums
<1>4. s # {} /\ g[Rest(s)] # h[Rest(s)]
  BY <1>1, <1>3
<1> QED BY <1>1, <1>2, <1>4, RestFacts

LEMMA PartialSumsExist ==
  ASSUME NEW f, NEW S, IsFiniteSet(S)
  PROVE  PartialSums(PartialSumsOf(f, S), f, S)
<1> DEFINE Fine(s) == PartialSums(PartialSumsOf(f, s), f, s)
           Bad == { s \in SUBSET S : ~ Fine(s) }
<1> SUFFICES ASSUME Bad # {} PROVE FALSE
  OBVIOUS
<1>1. PICK T \in Bad : \A u \in Bad : u \subseteq T => u = T
  <2> HIDE DEF Bad
  <2>1. Bad \in SUBSET SUBSET S BY DEF Bad
  <2> QED BY <2>1, MinimalSubset
<1>2. \A u \in SUBSET T : u # T => Fine(u)
  BY <1>1
<1>3. \A u \in SUBSET T : IsFiniteSet(u)
  BY <1>1, FS_Subset
\* Every proper subset of T has its partial sums: they make those of T.
<1> DEFINE G == [s \in SUBSET T |-> IF s = {} THEN 0
                                     ELSE f[Pick(s)] + PartialSumsOf(f, Rest(s))[Rest(s)]]
<1>4. \A u \in SUBSET T : u # T => G[u] = PartialSumsOf(f, u)[u]
  <2> SUFFICES ASSUME NEW u \in SUBSET T, u # T, u # {}
               PROVE  G[u] = PartialSumsOf(f, u)[u]
    BY <1>2 DEF PartialSums
  <2>1. Fine(u) /\ Rest(u) \in SUBSET u /\ Rest(u) \in SUBSET T /\ Rest(u) # T
    BY <1>2, RestFacts
  <2>2. Fine(Rest(u))
    BY <1>2, <2>1
  <2>3. PartialSumsOf(f, u)[u] = f[Pick(u)] + PartialSumsOf(f, u)[Rest(u)]
    BY <2>1 DEF PartialSums
  <2>4. PartialSumsOf(f, u)[Rest(u)] = PartialSumsOf(f, Rest(u))[Rest(u)]
    BY <1>3, <2>1, <2>2, PartialSumsUnique
  <2> QED BY <2>3, <2>4
<1>5. \A s \in SUBSET T : s # {} => G[Rest(s)] = PartialSumsOf(f, Rest(s))[Rest(s)]
  <2> SUFFICES ASSUME NEW s \in SUBSET T, s # {}
               PROVE  Rest(s) \in SUBSET T /\ Rest(s) # T
    BY <1>4
  <2> QED BY RestFacts
<1>6. PartialSums(G, f, T)
  <2> HIDE DEF G
  <2>1. /\ G = [s \in SUBSET T |-> G[s]]
        /\ \A s \in SUBSET T : G[s] = IF s = {} THEN 0 ELSE f[Pick(s)] + G[Rest(s)]
    BY <1>5 DEF G
  <2> QED BY <2>1 DEF PartialSums
<1>7. Fine(T)
  BY <1>6 DEF PartialSumsOf
<1> QED BY <1>1, <1>7

-----------------------------------------------------------------------------
(* What a sum is.                                                          *)

LEMMA SumOfNone ==
  ASSUME NEW f
  PROVE  SumFunctionOnSet(f, {}) = 0
<1>1. PartialSums(PartialSumsOf(f, {}), f, {})
  BY PartialSumsExist, FS_EmptySet
<1> QED BY <1>1, SumIsPartialSum DEF PartialSums

LEMMA SumUnfolds ==
  ASSUME NEW f, NEW S, IsFiniteSet(S), S # {}
  PROVE  SumFunctionOnSet(f, S) = f[Pick(S)] + SumFunctionOnSet(f, Rest(S))
<1>1. IsFiniteSet(Rest(S)) /\ Rest(S) \subseteq S
  BY RestFacts, FS_Subset
<1>2. PartialSums(PartialSumsOf(f, S), f, S) /\ PartialSums(PartialSumsOf(f, Rest(S)), f, Rest(S))
  BY <1>1, PartialSumsExist
<1>3. PartialSumsOf(f, S)[S] = f[Pick(S)] + PartialSumsOf(f, S)[Rest(S)]
  BY <1>2 DEF PartialSums
<1>4. PartialSumsOf(f, S)[Rest(S)] = PartialSumsOf(f, Rest(S))[Rest(S)]
  BY <1>1, <1>2, PartialSumsUnique
<1> QED BY <1>3, <1>4, SumIsPartialSum

LEMMA SumIsInt ==
  ASSUME NEW f, NEW S, IsFiniteSet(S), \A x \in S : f[x] \in Int
  PROVE  SumFunctionOnSet(f, S) \in Int
<1> DEFINE Bad == { s \in SUBSET S : SumFunctionOnSet(f, s) \notin Int }
<1> SUFFICES ASSUME Bad # {} PROVE FALSE
  OBVIOUS
<1>1. PICK T \in Bad : \A u \in Bad : u \subseteq T => u = T
  <2> HIDE DEF Bad
  <2>1. Bad \in SUBSET SUBSET S BY DEF Bad
  <2> QED BY <2>1, MinimalSubset
<1>2. T # {} /\ IsFiniteSet(T)
  <2>1. SumFunctionOnSet(f, {}) \in Int BY SumOfNone
  <2> QED BY <1>1, <2>1, FS_Subset
<1>3. SumFunctionOnSet(f, Rest(T)) \in Int /\ f[Pick(T)] \in Int
  BY <1>1, <1>2, RestFacts
<1> QED BY <1>1, <1>2, <1>3, SumUnfolds

\* The indices may be taken in any order.
LEMMA SumWithout ==
  ASSUME NEW f, NEW S, IsFiniteSet(S), \A x \in S : f[x] \in Int, NEW y \in S
  PROVE  SumFunctionOnSet(f, S) = f[y] + SumFunctionOnSet(f, S \ {y})
<1> DEFINE Bad == { s \in SUBSET S :
                      \E x \in s : SumFunctionOnSet(f, s) # f[x] + SumFunctionOnSet(f, s \ {x}) }
<1> SUFFICES ASSUME Bad # {} PROVE FALSE
  OBVIOUS
<1>1. PICK T \in Bad : \A u \in Bad : u \subseteq T => u = T
  <2> HIDE DEF Bad
  <2>1. Bad \in SUBSET SUBSET S BY DEF Bad
  <2> QED BY <2>1, MinimalSubset
<1>2. T \in SUBSET S /\ IsFiniteSet(T)
  BY <1>1, FS_Subset
<1>3. PICK x \in T : SumFunctionOnSet(f, T) # f[x] + SumFunctionOnSet(f, T \ {x})
  BY <1>1
<1> DEFINE p == Pick(T)
           both == T \ {x, p}
<1>4. p \in T /\ SumFunctionOnSet(f, T) = f[p] + SumFunctionOnSet(f, T \ {p})
  BY <1>2, SumUnfolds, RestFacts DEF Rest
<1>5. p # x
  BY <1>3, <1>4
<1> HIDE DEF p
<1>6. SumFunctionOnSet(f, T \ {p}) = f[x] + SumFunctionOnSet(f, both)
  <2>1. T \ {p} \in SUBSET S /\ T \ {p} \subseteq T /\ T \ {p} # T /\ x \in T \ {p}
    BY <1>2, <1>4, <1>5
  <2>2. T \ {p} \notin Bad BY <2>1, <1>1
  <2>3. (T \ {p}) \ {x} = both OBVIOUS
  <2> QED BY <2>1, <2>2, <2>3
<1>7. SumFunctionOnSet(f, T \ {x}) = f[p] + SumFunctionOnSet(f, both)
  <2>1. T \ {x} \in SUBSET S /\ T \ {x} \subseteq T /\ T \ {x} # T /\ p \in T \ {x}
    BY <1>2, <1>4, <1>5
  <2>2. T \ {x} \notin Bad BY <2>1, <1>1
  <2>3. (T \ {x}) \ {p} = both OBVIOUS
  <2> QED BY <2>1, <2>2, <2>3
<1>8. f[x] \in Int /\ f[p] \in Int /\ SumFunctionOnSet(f, both) \in Int
  <2>1. IsFiniteSet(both) /\ \A z \in both : f[z] \in Int
    BY <1>2, FS_Subset
  <2>2. SumFunctionOnSet(f, both) \in Int
    <3> HIDE DEF both
    <3> QED BY <2>1, SumIsInt
  <2> QED BY <1>2, <1>4, <2>2
<1> HIDE DEF both
<1> QED BY <1>3, <1>4, <1>6, <1>7, <1>8

\* A sum of multiples is the multiple of the sums, point by point.
LEMMA SumLinear ==
  ASSUME NEW f, NEW g, NEW h, NEW c \in Int, NEW S, IsFiniteSet(S),
         \A x \in S : f[x] \in Int /\ g[x] \in Int /\ h[x] = f[x] + c * g[x]
  PROVE  SumFunctionOnSet(h, S) = SumFunctionOnSet(f, S) + c * SumFunctionOnSet(g, S)
<1> DEFINE Linear(s) ==
             SumFunctionOnSet(h, s) = SumFunctionOnSet(f, s) + c * SumFunctionOnSet(g, s)
           Bad == { s \in SUBSET S : ~ Linear(s) }
<1> SUFFICES ASSUME Bad # {} PROVE FALSE
  OBVIOUS
<1>1. PICK T \in Bad : \A u \in Bad : u \subseteq T => u = T
  <2> HIDE DEF Bad
  <2>1. Bad \in SUBSET SUBSET S BY DEF Bad
  <2> QED BY <2>1, MinimalSubset
<1>2. T # {} /\ T \in SUBSET S /\ IsFiniteSet(T)
  <2>1. Linear({}) BY SumOfNone
  <2> QED BY <1>1, <2>1, FS_Subset
<1> DEFINE p == Pick(T)
           F == SumFunctionOnSet(f, Rest(T))
           H == SumFunctionOnSet(g, Rest(T))
<1>3. p \in T /\ Rest(T) \in SUBSET S /\ Rest(T) \subseteq T /\ Rest(T) # T
  BY <1>2, RestFacts
<1>4. Linear(Rest(T))
  BY <1>1, <1>3
<1>5. /\ SumFunctionOnSet(f, T) = f[p] + F
      /\ SumFunctionOnSet(g, T) = g[p] + H
      /\ SumFunctionOnSet(h, T) = h[p] + SumFunctionOnSet(h, Rest(T))
  BY <1>2, SumUnfolds
<1>6. F \in Int /\ H \in Int
  <2>1. IsFiniteSet(Rest(T)) /\ \A x \in Rest(T) : f[x] \in Int /\ g[x] \in Int
    BY <1>3, FS_Subset
  <2> QED BY <2>1, SumIsInt
<1>7. f[p] \in Int /\ g[p] \in Int /\ h[p] = f[p] + c * g[p]
  BY <1>2, <1>3
<1>8. c * (g[p] + H) = c * g[p] + c * H
  <2> HIDE DEF p, H
  <2> QED BY <1>6, <1>7
<1>9. h[p] + (F + c * H) = (f[p] + F) + c * (g[p] + H)
  <2>1. c * g[p] \in Int /\ c * H \in Int
    BY <1>6, <1>7
  <2> HIDE DEF p, F, H
  <2> QED BY <1>6, <1>7, <1>8, <2>1
<1>10. Linear(T)
  BY <1>4, <1>5, <1>9
<1> QED BY <1>1, <1>10

LEMMA SumSame ==
  ASSUME NEW f, NEW g, NEW S, IsFiniteSet(S), \A x \in S : f[x] \in Int /\ g[x] = f[x]
  PROVE  SumFunctionOnSet(g, S) = SumFunctionOnSet(f, S)
<1>1. \A x \in S : f[x] \in Int /\ f[x] \in Int /\ g[x] = f[x] + 0 * f[x]
  OBVIOUS
<1>2. SumFunctionOnSet(g, S) = SumFunctionOnSet(f, S) + 0 * SumFunctionOnSet(f, S)
  BY <1>1, SumLinear
<1> QED BY <1>2, SumIsInt

LEMMA SumMonotone ==
  ASSUME NEW f, NEW g, NEW S, IsFiniteSet(S),
         \A x \in S : f[x] \in Int /\ g[x] \in Int /\ f[x] <= g[x]
  PROVE  SumFunctionOnSet(f, S) <= SumFunctionOnSet(g, S)
<1> DEFINE Below(s) == SumFunctionOnSet(f, s) <= SumFunctionOnSet(g, s)
           Bad == { s \in SUBSET S : ~ Below(s) }
<1> SUFFICES ASSUME Bad # {} PROVE FALSE
  OBVIOUS
<1>1. PICK T \in Bad : \A u \in Bad : u \subseteq T => u = T
  <2> HIDE DEF Bad
  <2>1. Bad \in SUBSET SUBSET S BY DEF Bad
  <2> QED BY <2>1, MinimalSubset
<1>2. T # {} /\ T \in SUBSET S /\ IsFiniteSet(T)
  <2>1. Below({}) BY SumOfNone
  <2> QED BY <1>1, <2>1, FS_Subset
<1> DEFINE p == Pick(T)
<1>3. p \in T /\ Rest(T) \in SUBSET S /\ Rest(T) \subseteq T /\ Rest(T) # T
  BY <1>2, RestFacts
<1>4. Below(Rest(T))
  BY <1>1, <1>3
<1>5. /\ SumFunctionOnSet(f, T) = f[p] + SumFunctionOnSet(f, Rest(T))
      /\ SumFunctionOnSet(g, T) = g[p] + SumFunctionOnSet(g, Rest(T))
  BY <1>2, SumUnfolds
<1>6. SumFunctionOnSet(f, Rest(T)) \in Int /\ SumFunctionOnSet(g, Rest(T)) \in Int
  <2>1. IsFiniteSet(Rest(T)) /\ \A x \in Rest(T) : f[x] \in Int /\ g[x] \in Int
    BY <1>3, FS_Subset
  <2> QED BY <2>1, SumIsInt
<1>7. f[p] \in Int /\ g[p] \in Int /\ f[p] <= g[p]
  BY <1>2, <1>3
<1>8. Below(T)
  <2> HIDE DEF p
  <2> QED BY <1>4, <1>5, <1>6, <1>7
<1> QED BY <1>1, <1>8

LEMMA SumOfZeros ==
  ASSUME NEW f, NEW S, IsFiniteSet(S), \A x \in S : f[x] = 0
  PROVE  SumFunctionOnSet(f, S) = 0
<1>1. \A x \in S : f[x] \in Int /\ f[x] \in Int /\ f[x] = f[x] + 1 * f[x]
  OBVIOUS
<1>2. SumFunctionOnSet(f, S) = SumFunctionOnSet(f, S) + 1 * SumFunctionOnSet(f, S)
  BY <1>1, SumLinear
<1> QED BY <1>1, <1>2, SumIsInt

LEMMA SumIsNat ==
  ASSUME NEW f, NEW S, IsFiniteSet(S), \A x \in S : f[x] \in Nat
  PROVE  SumFunctionOnSet(f, S) \in Nat
<1> DEFINE zero == [x \in S |-> 0]
<1>1. SumFunctionOnSet(zero, S) = 0
  BY SumOfZeros
<1>2. \A x \in S : zero[x] \in Int /\ f[x] \in Int /\ zero[x] <= f[x]
  OBVIOUS
<1> HIDE DEF zero
<1>3. SumFunctionOnSet(zero, S) <= SumFunctionOnSet(f, S)
  BY <1>2, SumMonotone
<1>4. SumFunctionOnSet(f, S) \in Int
  BY <1>2, SumIsInt
<1> QED BY <1>1, <1>3, <1>4

\* One index changes and the others keep their values.
LEMMA SumChanged ==
  ASSUME NEW f, NEW g, NEW S, IsFiniteSet(S), NEW y \in S,
         \A x \in S : f[x] \in Int /\ g[x] \in Int,
         \A x \in S \ {y} : g[x] = f[x]
  PROVE  SumFunctionOnSet(g, S) = SumFunctionOnSet(f, S) + (g[y] - f[y])
<1> DEFINE others == S \ {y}
<1>1. /\ SumFunctionOnSet(f, S) = f[y] + SumFunctionOnSet(f, others)
      /\ SumFunctionOnSet(g, S) = g[y] + SumFunctionOnSet(g, others)
  BY SumWithout
<1>2. IsFiniteSet(others) /\ \A x \in others : f[x] \in Int /\ g[x] = f[x]
  BY FS_Subset
<1> HIDE DEF others
<1>3. SumFunctionOnSet(g, others) = SumFunctionOnSet(f, others)
  BY <1>2, SumSame
<1>4. SumFunctionOnSet(f, others) \in Int
  BY <1>2, SumIsInt
<1> QED BY <1>1, <1>3, <1>4

\* No term of a sum of natural numbers is above the sum.
LEMMA TermBelowSum ==
  ASSUME NEW f, NEW S, IsFiniteSet(S), NEW y \in S, \A x \in S : f[x] \in Nat
  PROVE  f[y] <= SumFunctionOnSet(f, S)
<1> DEFINE others == S \ {y}
<1>1. SumFunctionOnSet(f, S) = f[y] + SumFunctionOnSet(f, others)
  BY SumWithout
<1>2. IsFiniteSet(others) /\ \A x \in others : f[x] \in Nat
  BY FS_Subset
<1> HIDE DEF others
<1>3. SumFunctionOnSet(f, others) \in Nat
  BY <1>2, SumIsNat
<1> QED BY <1>1, <1>3
=============================================================================
