--------------------------- MODULE GoldViewsProofs ---------------------------
(***************************************************************************)
(* What the Gold views promise, for every catalog, every number of Runs    *)
(* and every set of published tables:                                      *)
(*   - test traffic is invisible in the product views,                     *)
(*   - the quality gate stops no load of sound Runs,                       *)
(*   - views that count the same thing in different ways agree.            *)
(* Each follows from what Silver publishes (TrustedTable); the first part  *)
(* is the theory of finite maxima and sums that the views are made of.     *)
(***************************************************************************)
EXTENDS GoldPipelineProofs, FiniteSetTheorems

-----------------------------------------------------------------------------
(* Finite sets of numbers.                                                 *)

\* Induction over the subsets of a finite set, with a family for the predicate.
LEMMA SubsetInduction ==
  ASSUME NEW S, IsFiniteSet(S), NEW F,
         \A T \in SUBSET S : (\A U \in SUBSET T : U # T => U \in F) => T \in F
  PROVE  S \in F
<1> DEFINE bad == {T \in SUBSET S : T \notin F}
<1>1. IsWellFoundedOn(StrictSubsetOrdering(S), SUBSET S)
  BY FS_StrictSubsetOrderingWellFounded, FS_FiniteSubsetsOfFinite
<1>2. ASSUME bad # {} PROVE FALSE
  <2>1. PICK T \in bad : \A U \in bad : ~(<<U, T>> \in StrictSubsetOrdering(S))
    <3>1. bad \subseteq SUBSET S
      OBVIOUS
    <3> HIDE DEF bad
    <3> QED BY <1>1, <1>2, <3>1, WFMin
  <2>2. ASSUME NEW U \in SUBSET T, U # T PROVE U \in F
    <3>1. <<U, T>> \in StrictSubsetOrdering(S)
      BY <2>2 DEF StrictSubsetOrdering
    <3> QED BY <2>1, <3>1
  <2> QED BY <2>1, <2>2
<1> QED BY <1>2

\* One element at a time.
LEMMA ElementInduction ==
  ASSUME NEW S, IsFiniteSet(S), NEW F, {} \in F,
         \A T \in SUBSET S : \A x \in S \ T : T \in F => T \cup {x} \in F
  PROVE  S \in F
<1>1. \A T \in SUBSET S : (\A U \in SUBSET T : U # T => U \in F) => T \in F
  <2> SUFFICES ASSUME NEW T \in SUBSET S, \A U \in SUBSET T : U # T => U \in F
               PROVE  T \in F
    OBVIOUS
  <2>1. CASE T = {}
    BY <2>1
  <2>2. ASSUME NEW x \in T PROVE T \in F
    <3>1. T \ {x} \in F /\ x \in S \ (T \ {x}) /\ T \ {x} \in SUBSET S
      OBVIOUS
    <3>2. (T \ {x}) \cup {x} = T
      OBVIOUS
    <3> QED BY <3>1, <3>2
  <2> QED BY <2>1, <2>2
<1> QED BY <1>1, SubsetInduction

\* A finite set has an element where a function is greatest.
LEMMA FiniteGreatest ==
  ASSUME NEW S, IsFiniteSet(S), S # {}, NEW f, \A x \in S : f[x] \in Int
  PROVE  \E x \in S : \A y \in S : f[y] <= f[x]
<1> DEFINE F == {T \in SUBSET S : T = {} \/ \E x \in T : \A y \in T : f[y] <= f[x]}
<1>1. ASSUME NEW T \in SUBSET S, NEW z \in S \ T, T \in F PROVE T \cup {z} \in F
  <2>1. CASE T = {}
    BY <2>1
  <2>2. ASSUME NEW x \in T, \A y \in T : f[y] <= f[x] PROVE T \cup {z} \in F
    <3>1. CASE f[z] <= f[x]
      BY <2>2, <3>1
    <3>2. CASE f[x] <= f[z]
      BY <2>2, <3>2
    <3> QED BY <3>1, <3>2
  <2> QED BY <1>1, <2>1, <2>2
<1>2. {} \in F
  OBVIOUS
<1> HIDE DEF F
<1>3. S \in F
  BY <1>1, <1>2, ElementInduction
<1> QED BY <1>3 DEF F

\* Max of a finite set of numbers is its greatest element.
LEMMA MaxFacts ==
  ASSUME NEW S \in SUBSET Int, IsFiniteSet(S), S # {}
  PROVE  Max(S) \in S /\ \A y \in S : y <= Max(S)
<1>1. PICK x \in S : \A y \in S : y <= x
  <2> DEFINE f == [x \in S |-> x]
  <2>1. \E x \in S : \A y \in S : f[y] <= f[x]
    <3>1. \A x \in S : f[x] \in Int
      OBVIOUS
    <3> HIDE DEF f
    <3> QED BY <3>1, FiniteGreatest
  <2> QED BY <2>1
<1>2. \E x1 \in S : \A y \in S : x1 >= y
  BY <1>1
<1> QED BY <1>2 DEF Max

-----------------------------------------------------------------------------
(* Sums.                                                                   *)

\* g is the sum of f over each subset of S.
SumsOf(g, f, S) ==
  /\ g \in [SUBSET S -> Nat] /\ g[{}] = 0
  /\ \A T \in SUBSET S : \A x \in T : g[T] = f[x] + g[T \ {x}]

\* Sums over the same values are the same.
LEMMA SumsAgree ==
  ASSUME NEW f, NEW g, NEW S, SumsOf(g, f, S), NEW e, NEW h, NEW R, SumsOf(h, e, R),
         NEW T, T \subseteq S, T \subseteq R, IsFiniteSet(T), \A x \in T : e[x] = f[x]
  PROVE  g[T] = h[T]
<1> DEFINE F == {U \in SUBSET T : g[U] = h[U]}
<1>1. {} \in F
  BY DEF SumsOf
<1>2. ASSUME NEW U \in SUBSET T, NEW x \in T \ U, U \in F PROVE U \cup {x} \in F
  <2>1. (U \cup {x}) \ {x} = U /\ U \cup {x} \subseteq S /\ U \cup {x} \subseteq R
    OBVIOUS
  <2>2. g[U \cup {x}] = f[x] + g[U] /\ h[U \cup {x}] = e[x] + h[U]
    <3>1. U \cup {x} \in SUBSET S /\ U \cup {x} \in SUBSET R /\ x \in U \cup {x}
      BY <2>1
    <3> QED BY <2>1, <3>1 DEF SumsOf
  <2> QED BY <1>2, <2>2
<1> HIDE DEF F
<1>3. T \in F
  BY <1>1, <1>2, ElementInduction
<1> QED BY <1>3 DEF F

\* The element SumFunction takes out first.
OneOf(T) == CHOOSE x \in T : TRUE

\* g solves SumFunction's recursion.
Recurses(g, f, S) ==
  g = [T \in SUBSET S |-> IF T = {} THEN 0 ELSE f[OneOf(T)] + g[T \ {OneOf(T)}]]

\* The recursive definition of SumFunction has a solution over a finite set:
\* over the subsets of at most n elements, for every n.
LEMMA SumIsDefined ==
  ASSUME NEW S, IsFiniteSet(S), NEW f \in [S -> Nat]
  PROVE  \E g : Recurses(g, f, S)
<1> DEFINE One(T) == OneOf(T)
           Next1(g, T) == IF T = {} THEN 0 ELSE f[One(T)] + g[T \ {One(T)}]
           Solves(g, n) == g = [T \in SUBSET S |-> g[T]]
                           /\ \A T \in SUBSET S : Cardinality(T) <= n => g[T] = Next1(g, T)
           solved == {n \in 0 .. Cardinality(S) : \E g : Solves(g, n)}
<1>1. \A T \in SUBSET S : /\ IsFiniteSet(T)
                          /\ Cardinality(T) \in Nat /\ Cardinality(T) <= Cardinality(S)
                          /\ Cardinality(T) = 0 <=> T = {}
  BY FS_Subset, FS_CardinalityType, FS_EmptySet
<1>2. Cardinality(S) \in Nat
  BY FS_CardinalityType
<1>3. \A T \in SUBSET S : T # {} =>
        /\ One(T) \in T /\ T \ {One(T)} \in SUBSET S
        /\ Cardinality(T \ {One(T)}) = Cardinality(T) - 1
  BY <1>1, FS_RemoveElement DEF OneOf
<1>4. 0 \in solved
  <2> DEFINE g == [T \in SUBSET S |-> 0]
  <2>1. \A T \in SUBSET S : Cardinality(T) <= 0 => g[T] = Next1(g, T)
    BY <1>1
  <2>2. g = [T \in SUBSET S |-> g[T]]
    OBVIOUS
  <2> HIDE DEF g, Next1
  <2>3. Solves(g, 0)
    BY <2>1, <2>2
  <2> HIDE DEF Solves
  <2> QED BY <1>1, <2>3
<1>5. ASSUME NEW n \in solved, n # Cardinality(S) PROVE n + 1 \in solved
  <2>1. PICK g : Solves(g, n)
    OBVIOUS
  <2> DEFINE h == [T \in SUBSET S |->
                     IF Cardinality(T) = n + 1 THEN Next1(g, T) ELSE g[T]]
  <2>2. h = [T \in SUBSET S |-> h[T]]
    OBVIOUS
  <2>3. ASSUME NEW T \in SUBSET S, Cardinality(T) <= n + 1 PROVE h[T] = Next1(h, T)
    <3>1. h[T] = Next1(g, T)
      <4>1. CASE Cardinality(T) = n + 1
        BY <4>1
      <4>2. CASE Cardinality(T) # n + 1
        <5>1. Cardinality(T) <= n
          BY <1>1, <2>3, <4>2
        <5> QED BY <2>1, <4>2, <5>1
      <4> QED BY <4>1, <4>2
    <3>2. T # {} => h[T \ {One(T)}] = g[T \ {One(T)}]
      <4> SUFFICES ASSUME T # {} PROVE h[T \ {One(T)}] = g[T \ {One(T)}]
        OBVIOUS
      <4>1. /\ T \ {One(T)} \in SUBSET S /\ Cardinality(T \ {One(T)}) # n + 1
        BY <1>1, <1>3, <2>3
      <4> HIDE DEF One, Next1
      <4> QED BY <4>1
    <3> HIDE DEF h, One
    <3> QED BY <3>1, <3>2
  <2>4. n + 1 \in 0 .. Cardinality(S)
    <3>1. n \in 0 .. Cardinality(S)
      OBVIOUS
    <3> HIDE DEF solved
    <3> QED BY <1>2, <1>5, <3>1
  <2> HIDE DEF h, Next1
  <2>5. Solves(h, n + 1)
    BY <2>2, <2>3
  <2> HIDE DEF Solves
  <2> QED BY <2>4, <2>5
<1> HIDE DEF solved
<1>6. Cardinality(S) \in solved
  <2>1. \A n \in solved : n \in 0 .. Cardinality(S)
    BY DEF solved
  <2>2. IsFiniteSet(0 .. Cardinality(S))
    BY <1>2, FS_Interval
  <2>3. IsFiniteSet(solved)
    BY <2>1, <2>2, FS_Subset
  <2>4. PICK n \in solved : \A k \in solved : k <= n
    <3>1. solved \in SUBSET Int /\ solved # {}
      BY <1>2, <1>4, <2>1
    <3> QED BY <2>3, <3>1, MaxFacts
  <2>5. n + 1 \notin solved
    BY <1>2, <2>1, <2>4
  <2> QED BY <1>5, <2>4, <2>5
<1>7. PICK g : Solves(g, Cardinality(S))
  BY <1>6 DEF solved
<1>8. \A T \in SUBSET S : g[T] = Next1(g, T)
  BY <1>1, <1>7
<1> HIDE DEF One, Next1
<1>9. g = [T \in SUBSET S |-> Next1(g, T)]
  BY <1>7, <1>8
<1> QED BY <1>9 DEF One, Next1, Recurses

\* ... and the solution may take any element out first.
LEMMA SumExists ==
  ASSUME NEW S, IsFiniteSet(S), NEW f \in [S -> Nat]
  PROVE  \E g : SumsOf(g, f, S) /\ SumFunction(f) = g[S]
<1> DEFINE g == CHOOSE g : Recurses(g, f, S)
<1>1. SumFunction(f) = g[S]
  BY DEF SumFunction, SumFunctionOnSet, FoldFunctionOnSet, MapThenFoldSet, Recurses, OneOf
<1>2. Recurses(g, f, S)
  BY SumIsDefined
<1> HIDE DEF g
<1>3. g[{}] = 0
  BY <1>2 DEF Recurses
<1>4. \A T \in SUBSET S : T # {} =>
        OneOf(T) \in T /\ g[T] = f[OneOf(T)] + g[T \ {OneOf(T)}]
  <2> SUFFICES ASSUME NEW T \in SUBSET S, T # {}
               PROVE  OneOf(T) \in T /\ g[T] = f[OneOf(T)] + g[T \ {OneOf(T)}]
    OBVIOUS
  <2>1. OneOf(T) \in T
    BY DEF OneOf
  <2> QED BY <1>2, <2>1 DEF Recurses
<1>5. DOMAIN g = SUBSET S /\ g = [T \in SUBSET S |-> g[T]]
  BY <1>2 DEF Recurses
<1> DEFINE F == {T \in SUBSET S : /\ g[T] \in Nat
                                  /\ \A x \in T : g[T] = f[x] + g[T \ {x}]}
<1>6. \A T \in SUBSET S : (\A U \in SUBSET T : U # T => U \in F) => T \in F
  <2> SUFFICES ASSUME NEW T \in SUBSET S, \A U \in SUBSET T : U # T => U \in F
               PROVE  T \in F
    OBVIOUS
  <2>1. CASE T = {}
    BY <1>3, <2>1
  <2>2. CASE T # {}
    <3> DEFINE c == OneOf(T)
    <3>1. c \in T /\ g[T] = f[c] + g[T \ {c}]
      BY <1>4, <2>2
    <3> HIDE DEF c
    <3>2. T \ {c} \in F
      BY <3>1
    <3>3. g[T] \in Nat
      BY <3>1, <3>2
    <3>4. ASSUME NEW x \in T PROVE g[T] = f[x] + g[T \ {x}]
      <4>1. CASE x = c
        BY <3>1, <4>1
      <4>2. CASE x # c
        <5>1. T \ {x} \in F /\ x \in T \ {c} /\ c \in T \ {x}
              /\ (T \ {c}) \ {x} = (T \ {x}) \ {c} /\ (T \ {x}) \ {c} \in F
          BY <3>1, <4>2
        <5>2. g[T \ {c}] = f[x] + g[(T \ {x}) \ {c}]
          BY <3>2, <5>1
        <5>3. g[T \ {x}] = f[c] + g[(T \ {x}) \ {c}]
          BY <5>1
        <5>4. f[x] \in Nat /\ f[c] \in Nat /\ g[(T \ {x}) \ {c}] \in Nat
          BY <3>1, <5>1
        <5> QED BY <3>1, <5>2, <5>3, <5>4
      <4> QED BY <4>1, <4>2
    <3> QED BY <3>3, <3>4
  <2> QED BY <2>1, <2>2
<1>7. \A T \in SUBSET S : T \in F
  <2> TAKE T \in SUBSET S
  <2>1. IsFiniteSet(T) /\ \A U \in SUBSET T : U \in SUBSET S
    BY FS_Subset
  <2>2. \A U \in SUBSET T : (\A V \in SUBSET U : V # U => V \in F) => U \in F
    BY <1>6, <2>1
  <2> HIDE DEF F
  <2> QED BY <2>1, <2>2, SubsetInduction
<1>8. SumsOf(g, f, S)
  BY <1>3, <1>5, <1>7 DEF SumsOf
<1> QED BY <1>1, <1>8

\* The sum of f over a part of its domain.
SumOver(f, T) == SumFunction([x \in T |-> f[x]])

\* Sums of the same values are the same.
LEMMA SumSame ==
  ASSUME NEW T, NEW f, NEW e, \A x \in T : f[x] = e[x]
  PROVE  SumOver(f, T) = SumOver(e, T)
<1>1. [x \in T |-> f[x]] = [x \in T |-> e[x]]
  OBVIOUS
<1> QED BY <1>1 DEF SumOver

\* SumFunction sums its argument over the whole of its domain.
LEMMA SumWhole ==
  ASSUME NEW S, NEW f, f = [x \in S |-> f[x]]
  PROVE  SumFunction(f) = SumOver(f, S)
BY DEF SumOver

\* A sum is a number; nothing sums to zero; any element can be taken out.
LEMMA SumFacts ==
  ASSUME NEW T, IsFiniteSet(T), NEW f, \A x \in T : f[x] \in Nat
  PROVE  /\ SumOver(f, T) \in Nat
         /\ T = {} => SumOver(f, T) = 0
         /\ \A x \in T : SumOver(f, T) = f[x] + SumOver(f, T \ {x})
<1> DEFINE F(U) == [y \in U |-> f[y]]
<1>1. \A U \in SUBSET T : /\ IsFiniteSet(U) /\ F(U) \in [U -> Nat]
                          /\ \A y \in U : F(U)[y] = f[y]
                          /\ SumOver(f, U) = SumFunction(F(U))
  BY FS_Subset DEF SumOver
<1> HIDE DEF F
<1>2. PICK g : SumsOf(g, F(T), T) /\ SumFunction(F(T)) = g[T]
  BY <1>1, SumExists
<1>3. ASSUME NEW x \in T
      PROVE  SumOver(f, T) = f[x] + SumOver(f, T \ {x})
  <2> DEFINE R == T \ {x}
  <2>1. R \in SUBSET T
    OBVIOUS
  <2>2. g[T] = F(T)[x] + g[R]
    BY <1>2 DEF SumsOf
  <2> HIDE DEF R
  <2>3. PICK h : SumsOf(h, F(R), R) /\ SumFunction(F(R)) = h[R]
    BY <1>1, <2>1, SumExists
  <2>4. g[R] = h[R]
    <3>1. IsFiniteSet(R) /\ R \subseteq T /\ \A y \in R : F(R)[y] = F(T)[y]
      BY <1>1, <2>1
    <3> QED BY <1>2, <2>3, <3>1, SumsAgree
  <2>5. SumOver(f, T) = g[T] /\ SumOver(f, R) = h[R] /\ F(T)[x] = f[x]
    BY <1>1, <1>2, <2>1, <2>3
  <2> QED BY <2>2, <2>4, <2>5 DEF R
<1>4. SumOver(f, T) \in Nat /\ (T = {} => SumOver(f, T) = 0)
  <2>1. SumOver(f, T) = g[T] /\ T \in SUBSET T
    BY <1>1, <1>2
  <2> QED BY <1>2, <2>1 DEF SumsOf
<1> QED BY <1>3, <1>4

\* One element more.
LEMMA SumAdd ==
  ASSUME NEW T, IsFiniteSet(T), NEW x, x \notin T, NEW f, \A y \in T \cup {x} : f[y] \in Nat
  PROVE  SumOver(f, T \cup {x}) = f[x] + SumOver(f, T)
<1>1. IsFiniteSet(T \cup {x}) /\ (T \cup {x}) \ {x} = T
  BY FS_AddElement
<1> QED BY <1>1, SumFacts

\* A sum of ones counts.
LEMMA SumOfOnes ==
  ASSUME NEW S, IsFiniteSet(S), NEW f, \A x \in S : f[x] = 1
  PROVE  SumOver(f, S) = Cardinality(S)
<1> DEFINE F == {T \in SUBSET S : SumOver(f, T) = Cardinality(T)}
<1>1. {} \in F
  BY FS_EmptySet, SumFacts
<1>2. ASSUME NEW T \in SUBSET S, NEW x \in S \ T, T \in F PROVE T \cup {x} \in F
  <2>1. IsFiniteSet(T) /\ Cardinality(T \cup {x}) = Cardinality(T) + 1 /\ Cardinality(T) \in Nat
    BY FS_Subset, FS_AddElement, FS_CardinalityType
  <2>2. SumOver(f, T \cup {x}) = f[x] + SumOver(f, T)
    <3>1. \A y \in T \cup {x} : f[y] \in Nat
      OBVIOUS
    <3> QED BY <2>1, <3>1, SumAdd
  <2> QED BY <1>2, <2>1, <2>2
<1> HIDE DEF F
<1>3. S \in F
  BY <1>1, <1>2, ElementInduction
<1> QED BY <1>3 DEF F

\* A sum of values of at least m.
LEMMA SumAtLeast ==
  ASSUME NEW S, IsFiniteSet(S), NEW f, NEW m \in Nat, \A x \in S : f[x] \in Nat /\ f[x] >= m
  PROVE  SumOver(f, S) \in Nat /\ Cardinality(S) \in Nat /\ SumOver(f, S) >= Cardinality(S) * m
<1> DEFINE F == {T \in SUBSET S : SumOver(f, T) >= Cardinality(T) * m}
<1>1. {} \in F
  <2>1. SumOver(f, {}) = 0
    BY FS_EmptySet, SumFacts
  <2>2. Cardinality({}) = 0 /\ 0 * m = 0
    BY FS_EmptySet
  <2> QED BY <2>1, <2>2
<1>2. ASSUME NEW T \in SUBSET S, NEW x \in S \ T, T \in F PROVE T \cup {x} \in F
  <2>1. IsFiniteSet(T) /\ Cardinality(T \cup {x}) = Cardinality(T) + 1 /\ Cardinality(T) \in Nat
    BY FS_Subset, FS_AddElement, FS_CardinalityType
  <2>2. SumOver(f, T \cup {x}) = f[x] + SumOver(f, T)
    <3>1. \A y \in T \cup {x} : f[y] \in Nat
      OBVIOUS
    <3> QED BY <2>1, <3>1, SumAdd
  <2>3. SumOver(f, T) \in Nat /\ SumOver(f, T) >= Cardinality(T) * m
    BY <1>2, <2>1, SumFacts
  <2>4. f[x] \in Nat /\ f[x] >= m
    OBVIOUS
  <2>5. \A c \in Nat, v \in Nat, w \in Nat : v >= m /\ w >= c * m => v + w >= (c + 1) * m
    <3> TAKE c \in Nat, v \in Nat, w \in Nat
    <3>1. (c + 1) * m = c * m + m /\ c * m \in Nat
      OBVIOUS
    <3> QED BY <3>1
  <2>6. SumOver(f, T \cup {x}) >= Cardinality(T \cup {x}) * m
    BY <2>1, <2>2, <2>3, <2>4, <2>5
  <2> QED BY <2>6
<1> HIDE DEF F
<1>3. S \in F
  BY <1>1, <1>2, ElementInduction
<1> QED BY <1>3, SumFacts, FS_CardinalityType DEF F

\* A sum of zeros is zero.
LEMMA SumOfZeros ==
  ASSUME NEW S, IsFiniteSet(S), NEW f, \A x \in S : f[x] = 0
  PROVE  SumOver(f, S) = 0
<1> DEFINE F == {T \in SUBSET S : SumOver(f, T) = 0}
<1>1. {} \in F
  BY FS_EmptySet, SumFacts
<1>2. ASSUME NEW T \in SUBSET S, NEW x \in S \ T, T \in F PROVE T \cup {x} \in F
  <2>1. IsFiniteSet(T)
    BY FS_Subset
  <2>2. SumOver(f, T \cup {x}) = f[x] + SumOver(f, T)
    <3>1. \A y \in T \cup {x} : f[y] \in Nat
      OBVIOUS
    <3> QED BY <2>1, <3>1, SumAdd
  <2> QED BY <1>2, <2>2
<1> HIDE DEF F
<1>3. S \in F
  BY <1>1, <1>2, ElementInduction
<1> QED BY <1>3 DEF F

\* The rows of T that key puts in group k.
Fibre(T, key, k) == {x \in T : key[x] = k}

\* Summing a column group by group sums it over all rows: key tells a row's
\* group, and total what each group sums to.
LEMMA SumByGroups ==
  ASSUME NEW S, IsFiniteSet(S), NEW f, \A x \in S : f[x] \in Nat,
         NEW K, IsFiniteSet(K), NEW key, \A x \in S : key[x] \in K,
         NEW total, \A k \in K : total[k] = SumOver(f, Fibre(S, key, k))
  PROVE  SumOver(total, K) = SumOver(f, S)
<1> DEFINE In(T, k) == Fibre(T, key, k)
           Parts(T) == [k \in K |-> SumOver(f, In(T, k))]
           F == {T \in SUBSET S : SumOver(Parts(T), K) = SumOver(f, T)}
<1>1. \A T \in SUBSET S : IsFiniteSet(T)
  BY FS_Subset
<1>2. \A T \in SUBSET S, k \in K :
        /\ In(T, k) \in SUBSET S /\ Parts(T)[k] = SumOver(f, In(T, k))
        /\ SumOver(f, In(T, k)) \in Nat
  <2> TAKE T \in SUBSET S, k \in K
  <2>1. In(T, k) \in SUBSET S /\ Parts(T)[k] = SumOver(f, In(T, k))
    BY DEF Fibre
  <2> HIDE DEF In, Parts
  <2> QED BY <1>1, <2>1, SumFacts
<1>3. {} \in F
  <2>1. \A k \in K : In({}, k) = {}
    BY DEF Fibre
  <2> HIDE DEF In, Parts
  <2>2. SumOver(f, {}) = 0
    BY FS_EmptySet, SumFacts
  <2>3. \A k \in K : Parts({})[k] = 0
    BY <1>2, <2>1, <2>2
  <2>4. SumOver(Parts({}), K) = 0
    BY <2>3, SumOfZeros
  <2> QED BY <2>2, <2>4
<1>4. ASSUME NEW T \in SUBSET S, NEW x \in S \ T, T \in F PROVE T \cup {x} \in F
  <2> DEFINE U == T \cup {x}
             k == key[x]
  <2>1. /\ U \in SUBSET S /\ k \in K
        /\ \A l \in K : l # k => In(U, l) = In(T, l)
        /\ In(U, k) = In(T, k) \cup {x} /\ x \notin In(T, k)
    BY DEF Fibre
  <2>2. SumOver(Parts(T), K) = SumOver(f, T)
    BY <1>4
  <2> HIDE DEF U, k, F, In, Parts
  <2>3. SumOver(f, U) = f[x] + SumOver(f, T)
    <3>1. \A y \in T \cup {x} : f[y] \in Nat
      BY <2>1 DEF U
    <3> QED BY <1>1, <3>1, SumAdd DEF U
  <2>4. Parts(U)[k] = f[x] + Parts(T)[k]
    <3>1. \A y \in In(T, k) \cup {x} : f[y] \in Nat
      BY <1>2, <2>1
    <3>2. SumOver(f, In(T, k) \cup {x}) = f[x] + SumOver(f, In(T, k))
      BY <1>1, <1>2, <2>1, <3>1, SumAdd
    <3> QED BY <1>2, <2>1, <3>2
  <2>5. \A V \in SUBSET S : SumOver(Parts(V), K) = Parts(V)[k] + SumOver(Parts(V), K \ {k})
    <3> TAKE V \in SUBSET S
    <3>1. \A l \in K : Parts(V)[l] \in Nat
      BY <1>2
    <3> QED BY <2>1, <3>1, SumFacts
  <2>6. SumOver(Parts(U), K \ {k}) = SumOver(Parts(T), K \ {k})
    <3>1. \A l \in K \ {k} : Parts(U)[l] = Parts(T)[l]
      BY <1>2, <2>1
    <3> QED BY <3>1, SumSame
  <2>7. SumOver(Parts(T), K \ {k}) \in Nat /\ Parts(T)[k] \in Nat /\ f[x] \in Nat
    <3>1. IsFiniteSet(K \ {k}) /\ \A l \in K : Parts(T)[l] \in Nat
      BY <1>2, FS_RemoveElement
    <3> QED BY <2>1, <3>1, SumFacts
  <2>8. SumOver(Parts(U), K) = SumOver(f, U)
    BY <2>1, <2>2, <2>3, <2>4, <2>5, <2>6, <2>7
  <2> QED BY <2>1, <2>8 DEF U, F
<1> HIDE DEF F
<1>5. S \in F
  BY <1>3, <1>4, ElementInduction
<1>6. SumOver(total, K) = SumOver(Parts(S), K)
  <2>1. \A k \in K : total[k] = Parts(S)[k]
    OBVIOUS
  <2> HIDE DEF Parts
  <2> QED BY <2>1, SumSame
<1> HIDE DEF Parts
<1> QED BY <1>5, <1>6 DEF F

\* Counting group by group counts all rows.
LEMMA CountByGroups ==
  ASSUME NEW S, IsFiniteSet(S), NEW K, IsFiniteSet(K), NEW key, \A x \in S : key[x] \in K,
         NEW total, \A k \in K : total[k] = Cardinality(Fibre(S, key, k))
  PROVE  SumOver(total, K) = Cardinality(S)
<1> DEFINE f == [x \in S |-> 1]
<1>1. \A x \in S : f[x] = 1
  OBVIOUS
<1> HIDE DEF f
<1>2. \A T \in SUBSET S : SumOver(f, T) = Cardinality(T)
  <2> TAKE T \in SUBSET S
  <2>1. IsFiniteSet(T) /\ \A x \in T : f[x] = 1
    BY <1>1, FS_Subset
  <2> QED BY <2>1, SumOfOnes
<1>3. \A k \in K : total[k] = SumOver(f, Fibre(S, key, k))
  <2> TAKE k \in K
  <2>1. Fibre(S, key, k) \in SUBSET S
    BY DEF Fibre
  <2> QED BY <1>2, <2>1
<1>4. \A x \in S : f[x] \in Nat
  BY <1>1
<1>5. SumOver(total, K) = SumOver(f, S)
  BY <1>3, <1>4, SumByGroups
<1> QED BY <1>2, <1>5

\* A function has a finite image of a finite set.
LEMMA FiniteImage ==
  ASSUME NEW S, IsFiniteSet(S), NEW f
  PROVE  IsFiniteSet({f[x] : x \in S}) /\ Cardinality({f[x] : x \in S}) <= Cardinality(S)
<1> DEFINE T == {f[x] : x \in S}
           g == [x \in S |-> f[x]]
<1>1. g \in Surjection(S, T)
  BY DEF Surjection
<1> HIDE DEF g, T
<1>2. IsFiniteSet(T) /\ Cardinality(T) <= Cardinality(S)
  BY <1>1, FS_Surjection
<1> QED BY <1>2 DEF T

-----------------------------------------------------------------------------
(* The rows of what Silver publishes.                                      *)

\* A row of SILVER_EVENTS.
Row(date, run, event) == [date |-> date, run |-> run, event |-> event]

\* A row is an event of a copy under a date.
LEMMA RowFacts ==
  ASSUME NEW table
  PROVE  /\ \A row \in SilverEvents(table) :
              /\ row.date \in DOMAIN table /\ row.run \in table[row.date]
              /\ row.run \in Copies(table) /\ row.event \in row.run.events
              /\ row = Row(row.date, row.run, row.event)
         /\ \A date \in DOMAIN table : \A run \in table[date] : \A event \in run.events :
              Row(date, run, event) \in SilverEvents(table)
         /\ \A date, run, event : /\ Row(date, run, event).date = date
                                  /\ Row(date, run, event).run = run
                                  /\ Row(date, run, event).event = event
<1>1. \A date, run, event : /\ Row(date, run, event).date = date
                            /\ Row(date, run, event).run = run
                            /\ Row(date, run, event).event = event
  BY DEF Row
<1>2. \A row : row \in SilverEvents(table) <=>
        \E date \in DOMAIN table : \E run \in table[date] : \E event \in run.events :
          row = Row(date, run, event)
  BY DEF SilverEvents, Row
<1>3. \A date \in DOMAIN table : \A run \in table[date] : run \in Copies(table)
  BY DEF Copies
<1> QED BY <1>1, <1>2, <1>3

\* The contract's verdict, read off: nothing published is broken or clashes.
LEMMA AcceptedFacts ==
  ASSUME NEW run, Accepted(run)
  PROVE  /\ run.status = IF Complete(run.events) THEN "VALID" ELSE "INCOMPLETE"
         /\ \A e \in run.events : e \in Event /\ e.run_id = run.run_id /\ e.conforms
         /\ \A e, f \in run.events : ~Clash(e, f)
<1>1. ~Contradictory(run.events)
  BY DEF Accepted, Verdict
<1>2. \A e, f \in run.events : ~Broken(e) /\ ~Clash(e, f)
  BY <1>1 DEF Contradictory
<1>3. \A e \in run.events : e \in Event /\ e.run_id = run.run_id /\ e.conforms
  BY <1>2 DEF Accepted, Broken
<1>4. run.status = IF Complete(run.events) THEN "VALID" ELSE "INCOMPLETE"
  BY <1>1 DEF Accepted, Verdict
<1> QED BY <1>2, <1>3, <1>4

\* The columns of a published row.
LEMMA TrustedRow ==
  ASSUME NEW table, TrustedTable(table), NEW row \in SilverEvents(table)
  PROVE  /\ Accepted(row.run)
         /\ row.event \in Event /\ row.event.conforms
         /\ row.event.run_id = row.run.run_id
         /\ SourceType(row) \in Nat /\ GameVersion(row) \in Nat
         /\ row.event.event_sequence \in Nat \ {0} /\ Elapsed(row.event) \in Nat
<1>1. row.run \in Copies(table) /\ row.event \in row.run.events
  BY RowFacts
<1>2. Accepted(row.run)
  BY <1>1 DEF TrustedTable, Copies
<1>3. row.event \in Event /\ row.event.conforms /\ row.event.run_id = row.run.run_id
  BY <1>1, <1>2, AcceptedFacts
<1>4. SourceType(row) \in Nat /\ GameVersion(row) \in Nat
  BY <1>3, ColumnAssumption DEF SourceType, GameVersion
<1>5. row.event.event_sequence \in Nat \ {0} /\ Elapsed(row.event) \in Nat
  BY <1>3, EventAssumption DEF Elapsed
<1> QED BY <1>2, <1>3, <1>4, <1>5

\* There are finitely many.
LEMMA RowsAreFinite ==
  ASSUME NEW table, TrustedTable(table)
  PROVE  IsFiniteSet(SilverEvents(table)) /\ IsFiniteSet(Copies(table))
<1> DEFINE RowsOf(date, run) == {Row(date, run, event) : event \in run.events}
           RowsUnder(date) == {RowsOf(date, run) : run \in table[date]}
           rows == {UNION RowsUnder(date) : date \in DOMAIN table}
           copies == {table[date] : date \in DOMAIN table}
<1>1. ASSUME NEW date \in DOMAIN table, NEW run \in table[date]
      PROVE  IsFiniteSet(RowsOf(date, run))
  <2> DEFINE f == [event \in run.events |-> Row(date, run, event)]
  <2>1. IsFiniteSet(run.events)
    BY DEF TrustedTable, Copies, Accepted
  <2>2. RowsOf(date, run) = {f[event] : event \in run.events}
    OBVIOUS
  <2> HIDE DEF f, RowsOf
  <2> QED BY <2>1, <2>2, FiniteImage
<1>2. ASSUME NEW date \in DOMAIN table PROVE IsFiniteSet(UNION RowsUnder(date))
  <2> DEFINE f == [run \in table[date] |-> RowsOf(date, run)]
  <2>1. IsFiniteSet(table[date])
    BY DEF TrustedTable
  <2>2. RowsUnder(date) = {f[run] : run \in table[date]}
    OBVIOUS
  <2>3. \A x \in RowsUnder(date) : IsFiniteSet(x)
    BY <1>1
  <2> HIDE DEF f, RowsUnder
  <2>4. IsFiniteSet(RowsUnder(date))
    BY <2>1, <2>2, FiniteImage
  <2> QED BY <2>3, <2>4, FS_UNION
<1>3. IsFiniteSet(UNION rows)
  <2> DEFINE f == [date \in DOMAIN table |-> UNION RowsUnder(date)]
  <2>1. IsFiniteSet(DOMAIN table)
    BY DEF TrustedTable
  <2>2. rows = {f[date] : date \in DOMAIN table}
    OBVIOUS
  <2>3. \A x \in rows : IsFiniteSet(x)
    BY <1>2
  <2> HIDE DEF f, rows
  <2>4. IsFiniteSet(rows)
    BY <2>1, <2>2, FiniteImage
  <2> QED BY <2>3, <2>4, FS_UNION
<1>4. SilverEvents(table) = UNION rows
  BY DEF SilverEvents, Row
<1>5. IsFiniteSet(UNION copies)
  <2>1. IsFiniteSet(DOMAIN table) /\ \A x \in copies : IsFiniteSet(x)
    BY DEF TrustedTable
  <2> HIDE DEF copies
  <2>2. IsFiniteSet(copies)
    BY <2>1, FiniteImage DEF copies
  <2> QED BY <2>1, <2>2, FS_UNION
<1> QED BY <1>3, <1>4, <1>5 DEF Copies

\* Every published Run has a last row.
LEMMA LastCopyExists ==
  ASSUME NEW table, TrustedTable(table), NEW row \in SilverEvents(table)
  PROVE  LastCopies(table, row.run.run_id) # {}
<1> DEFINE rows == {other \in SilverEvents(table) : other.run.run_id = row.run.run_id}
           f == [other \in rows |-> other.event.event_sequence]
<1>1. row \in rows /\ rows \in SUBSET SilverEvents(table)
  OBVIOUS
<1>2. IsFiniteSet(rows)
  BY <1>1, RowsAreFinite, FS_Subset
<1>3. \A other \in rows : f[other] = other.event.event_sequence /\ f[other] \in Int
  BY TrustedRow
<1> HIDE DEF rows, f
<1>4. PICK last \in rows : \A other \in rows : f[other] <= f[last]
  BY <1>1, <1>2, <1>3, FiniteGreatest
<1>5. last.run \in LastCopies(table, row.run.run_id)
  BY <1>3, <1>4 DEF LastCopies, rows
<1> QED BY <1>5

-----------------------------------------------------------------------------
(* Test traffic.                                                           *)

\* The rows of the Runs that are product throughout are the product rows.
LEMMA ProductEvents ==
  ASSUME NEW table, OneSourceType(table)
  PROVE  SilverEvents(ProductOnly(table)) =
           {row \in SilverEvents(table) : SourceType(row) = ConsentedProdPlay}
<1> DEFINE product == ProductOnly(table)
<1>1. \A date, run, event :
        /\ Row(date, run, event).date = date /\ Row(date, run, event).run = run
        /\ Row(date, run, event).event = event
  BY DEF Row
<1>2. \A t, row : row \in SilverEvents(t) <=>
        \E date \in DOMAIN t : \E run \in t[date] : \E event \in run.events :
          row = Row(date, run, event)
  BY DEF SilverEvents, Row
<1>3. /\ DOMAIN product = DOMAIN table
      /\ \A date \in DOMAIN table : \A run : run \in product[date] <=>
           /\ run \in table[date]
           /\ \A event \in run.events : event.correlation.source_type = ConsentedProdPlay
  BY DEF ProductOnly
<1>4. \A date, run, event : SourceType(Row(date, run, event)) = event.correlation.source_type
  BY DEF SourceType, Row
<1> HIDE DEF product
<1>5. ASSUME NEW row \in SilverEvents(product)
      PROVE  row \in SilverEvents(table) /\ SourceType(row) = ConsentedProdPlay
  <2>1. PICK date \in DOMAIN product : \E run \in product[date] : \E event \in run.events :
          row = Row(date, run, event)
    BY <1>2, <1>5
  <2>2. PICK run \in product[date] : \E event \in run.events : row = Row(date, run, event)
    BY <2>1
  <2>3. PICK event \in run.events : row = Row(date, run, event)
    BY <2>2
  <2>4. date \in DOMAIN table /\ run \in table[date]
        /\ event.correlation.source_type = ConsentedProdPlay
    BY <1>3, <2>1, <2>2
  <2> QED BY <1>2, <1>4, <2>3, <2>4
<1>6. ASSUME NEW row \in SilverEvents(table), SourceType(row) = ConsentedProdPlay
      PROVE  row \in SilverEvents(product)
  <2>1. PICK date \in DOMAIN table : \E run \in table[date] : \E event \in run.events :
          row = Row(date, run, event)
    BY <1>2
  <2>2. PICK run \in table[date] : \E event \in run.events : row = Row(date, run, event)
    BY <2>1
  <2>3. PICK event \in run.events : row = Row(date, run, event)
    BY <2>2
  <2>4. ASSUME NEW other \in run.events
        PROVE  other.correlation.source_type = ConsentedProdPlay
    <3> DEFINE sibling == Row(date, run, other)
    <3>1. sibling \in SilverEvents(table)
      BY <1>2, <2>1, <2>2
    <3>2. sibling.run.run_id = row.run.run_id
      BY <1>1, <2>3
    <3> HIDE DEF sibling
    <3>3. SourceType(sibling) = ConsentedProdPlay
      BY <1>6, <3>1, <3>2 DEF OneSourceType
    <3> QED BY <1>4, <3>3 DEF sibling
  <2>5. run \in product[date] /\ date \in DOMAIN product
    BY <1>3, <2>1, <2>2, <2>4
  <2> QED BY <1>2, <2>3, <2>5
<1> QED BY <1>5, <1>6 DEF product

\* A product row has only product rows beside it.
LEMMA ProductSiblings ==
  ASSUME NEW table, OneSourceType(table), NEW row \in SilverEvents(ProductOnly(table))
  PROVE  {other \in SilverEvents(ProductOnly(table)) : other.run.run_id = row.run.run_id} =
           {other \in SilverEvents(table) : other.run.run_id = row.run.run_id}
BY ProductEvents DEF OneSourceType

\* So the product views find the same rows ...
LEMMA SameProductRows ==
  ASSUME NEW table, OneSourceType(table)
  PROVE  \A name : ProductRows(table, name) = ProductRows(ProductOnly(table), name)
BY ProductEvents DEF ProductRows, RowsNamed

\* ... and the same product Runs.
LEMMA SameProductSummaries ==
  ASSUME NEW table, TrustedTable(table), OneSourceType(table)
  PROVE  ProductRunSummary(table) = ProductRunSummary(ProductOnly(table))
<1> DEFINE all == SilverEvents(table)
           product == SilverEvents(ProductOnly(table))
           Group(rows, id) == {row \in rows : row.run.run_id = id}
           Ids(rows) == {row.run.run_id : row \in rows}
<1>1. /\ RunSummary(table) = {Summary(Group(all, id)) : id \in Ids(all)}
      /\ RunSummary(ProductOnly(table)) = {Summary(Group(product, id)) : id \in Ids(product)}
  BY DEF RunSummary, GroupBy
<1>2. product = {row \in all : SourceType(row) = ConsentedProdPlay}
  BY ProductEvents
<1>3. \A rows : Summary(rows).source_type = Max({SourceType(row) : row \in rows})
  BY DEF Summary
<1>4. ASSUME NEW row \in all
      PROVE  Summary(Group(all, row.run.run_id)).source_type = SourceType(row)
  <2> DEFINE G == Group(all, row.run.run_id)
  <2>1. row \in G /\ \A other \in G : SourceType(other) = SourceType(row)
    BY DEF OneSourceType
  <2>2. SourceType(row) \in Nat
    BY TrustedRow
  <2> HIDE DEF G
  <2>3. {SourceType(other) : other \in G} = {SourceType(row)}
    BY <2>1
  <2>4. Max({SourceType(row)}) = SourceType(row)
    BY <2>2 DEF Max
  <2> QED BY <1>3, <2>3, <2>4 DEF G
<1>5. ASSUME NEW row \in product
      PROVE  Group(product, row.run.run_id) = Group(all, row.run.run_id)
  BY ProductSiblings
<1> HIDE DEF all, product, Group
<1>6. ASSUME NEW id \in Ids(all), Summary(Group(all, id)).source_type = ConsentedProdPlay
      PROVE  id \in Ids(product) /\ Group(product, id) = Group(all, id)
  <2>1. PICK row \in all : id = row.run.run_id
    OBVIOUS
  <2>2. row \in product
    BY <1>2, <1>4, <1>6, <2>1
  <2> QED BY <1>5, <2>1, <2>2
<1>7. ASSUME NEW id \in Ids(product)
      PROVE  /\ id \in Ids(all) /\ Group(product, id) = Group(all, id)
             /\ Summary(Group(all, id)).source_type = ConsentedProdPlay
  <2>1. PICK row \in product : id = row.run.run_id
    OBVIOUS
  <2>2. row \in all /\ SourceType(row) = ConsentedProdPlay
    BY <1>2
  <2> QED BY <1>4, <1>5, <2>1, <2>2
<1> HIDE DEF Ids
<1> QED BY <1>1, <1>6, <1>7 DEF ProductRunSummary

-----------------------------------------------------------------------------
(* The views.                                                              *)

\* A product view is a function of the product rows and the product Runs.
LEMMA ProductViewsAreOfProduct ==
  ASSUME NEW t, NEW p, \A name : ProductRows(t, name) = ProductRows(p, name),
         ProductRunSummary(t) = ProductRunSummary(p)
  PROVE  /\ RunOutcome(t) = RunOutcome(p)
         /\ CheckpointMetrics(t) = CheckpointMetrics(p)
         /\ RunProgression(t) = RunProgression(p)
         /\ UpgradePostSelection(t) = UpgradePostSelection(p)
         /\ ItemPerformance(t) = ItemPerformance(p)
         /\ WeaponPopularity(t) = WeaponPopularity(p)
         /\ WeaponPerformance(t) = WeaponPerformance(p)
         /\ OptionOutcome(t) = OptionOutcome(p)
         /\ UpgradeFunnel(t) = UpgradeFunnel(p)
<1>1. RunOutcome(t) = RunOutcome(p)
  BY DEF RunOutcome
<1>2. CheckpointMetrics(t) = CheckpointMetrics(p)
  BY DEF CheckpointMetrics
<1>3. RunProgression(t) = RunProgression(p)
  BY DEF RunProgression
<1>4. UpgradePostSelection(t) = UpgradePostSelection(p)
  <2>1. RunItemSelections(t) = RunItemSelections(p)
    BY DEF RunItemSelections
  <2>2. SelectionOutcomes(t) = SelectionOutcomes(p)
    BY <2>1 DEF SelectionOutcomes
  <2> QED BY <2>2 DEF UpgradePostSelection
<1>5. ItemPerformance(t) = ItemPerformance(p)
  BY <1>4 DEF ItemPerformance
<1>6. WeaponPopularity(t) = WeaponPopularity(p)
  <2>1. \A name : WeaponRows(t, name) = WeaponRows(p, name)
    BY DEF WeaponRows
  <2> QED BY <2>1 DEF WeaponPopularity
<1>7. WeaponPerformance(t) = WeaponPerformance(p)
  BY DEF WeaponPerformance
<1>8. OptionOutcome(t) = OptionOutcome(p)
  <2>1. OfferedItems(t) = OfferedItems(p)
    BY DEF OfferedItems
  <2> QED BY <2>1 DEF OptionOutcome, GroupBy
<1>9. UpgradeFunnel(t) = UpgradeFunnel(p)
  BY DEF UpgradeFunnel, GroupBy
<1> QED BY <1>1, <1>2, <1>3, <1>4, <1>5, <1>6, <1>7, <1>8, <1>9

\* Every Run of a consistent table has a copy its quality can be taken from.
LEMMA ChoicesExist ==
  ASSUME NEW table, \A id \in RunIds(table) : LastCopies(table, id) # {}
  PROVE  LastCopyChoices(table) # {}
<1> DEFINE last == [id \in RunIds(table) |-> CHOOSE run \in LastCopies(table, id) : TRUE]
<1>1. \A id \in RunIds(table) : last[id] \in LastCopies(table, id)
  OBVIOUS
<1>2. ASSUME NEW id, NEW run \in LastCopies(table, id)
      PROVE  run \in Copies(table)
  <2>1. PICK row \in SilverEvents(table) : run = row.run
    BY DEF LastCopies
  <2> QED BY <2>1 DEF SilverEvents, Copies
<1>3. last \in [RunIds(table) -> Copies(table)]
  BY <1>1, <1>2
<1> HIDE DEF last
<1> QED BY <1>1, <1>3 DEF LastCopyChoices

\* Every Run of a trusted table has a last copy ...
LEMMA TrustedChoicesExist ==
  ASSUME NEW table, TrustedTable(table)
  PROVE  LastCopyChoices(table) # {}
<1>1. ASSUME NEW id \in RunIds(table)
      PROVE  LastCopies(table, id) # {}
  <2>1. PICK date \in DOMAIN table : \E x \in table[date] : x.run_id = id
    BY DEF RunIds, Copies
  <2>2. PICK run \in table[date] : run.run_id = id
    BY <2>1
  <2>3. PICK event \in run.events : TRUE
    BY <2>2 DEF TrustedTable, Copies, Accepted
  <2>4. /\ Row(date, run, event) \in SilverEvents(table)
        /\ Row(date, run, event).run.run_id = id
    BY <2>2, RowFacts
  <2> QED BY <2>4, LastCopyExists
<1> QED BY <1>1, ChoicesExist

\* ... and leaving copies out keeps a table trusted.
LEMMA ProductIsTrusted ==
  ASSUME NEW table, TrustedTable(table)
  PROVE  TrustedTable(ProductOnly(table))
<1> DEFINE product == ProductOnly(table)
<1>1. DOMAIN product = DOMAIN table /\ \A date \in DOMAIN table : product[date] \subseteq table[date]
  BY DEF ProductOnly
<1> HIDE DEF product
<1>2. \A date \in DOMAIN product : IsFiniteSet(product[date])
  <2> TAKE date \in DOMAIN product
  <2>1. IsFiniteSet(table[date]) /\ product[date] \in SUBSET table[date]
    BY <1>1 DEF TrustedTable
  <2> QED BY <2>1, FS_Subset
<1>3. Copies(product) \subseteq Copies(table)
  BY <1>1 DEF Copies
<1> QED BY <1>1, <1>2, <1>3 DEF TrustedTable, product

\* No result of a product view tells whether test Runs are in the table.
LEMMA ProductViewsIgnoreTests ==
  ASSUME NEW table, TrustedTable(table), OneSourceType(table),
         NEW dataset \in ProductDataset
  PROVE  ViewResults(dataset, table) = ViewResults(dataset, ProductOnly(table))
<1> DEFINE p == ProductOnly(table)
<1>1. /\ \A name : ProductRows(table, name) = ProductRows(p, name)
      /\ ProductRunSummary(table) = ProductRunSummary(p)
  BY SameProductRows, SameProductSummaries
<1>2. dataset \in {Dataset[i] : i \in 1 .. 11} /\ dataset # "run_quality"
  BY DatasetFacts DEF ProductDataset
<1>3. dataset \in {"run_summary", "run_outcome", "checkpoint_metrics", "run_progression",
                   "upgrade_post_selection", "item_performance_summary",
                   "weapon_popularity", "weapon_performance",
                   "option_outcome_comparison", "upgrade_funnel"}
  BY <1>2 DEF Dataset
<1> HIDE DEF p
<1>4. \A last, other : ViewRows(dataset, table, last) = ViewRows(dataset, p, other)
  <2> TAKE last, other
  <2>1. /\ RunOutcome(table) = RunOutcome(p)
        /\ CheckpointMetrics(table) = CheckpointMetrics(p)
        /\ RunProgression(table) = RunProgression(p)
        /\ UpgradePostSelection(table) = UpgradePostSelection(p)
        /\ ItemPerformance(table) = ItemPerformance(p)
        /\ WeaponPopularity(table) = WeaponPopularity(p)
        /\ WeaponPerformance(table) = WeaponPerformance(p)
        /\ OptionOutcome(table) = OptionOutcome(p)
        /\ UpgradeFunnel(table) = UpgradeFunnel(p)
    BY <1>1, ProductViewsAreOfProduct
  <2> QED BY <1>1, <1>3, <2>1 DEF ViewRows
<1>5. LastCopyChoices(table) # {} /\ LastCopyChoices(p) # {}
  BY TrustedChoicesExist, ProductIsTrusted DEF p
<1>6. PICK last \in LastCopyChoices(table) : TRUE
  BY <1>5
<1>7. PICK other \in LastCopyChoices(p) : TRUE
  BY <1>5
<1>8. /\ \A l : ViewRows(dataset, table, l) = ViewRows(dataset, p, other)
      /\ \A l : ViewRows(dataset, p, l) = ViewRows(dataset, p, other)
  BY <1>4
<1> DEFINE result == ViewRows(dataset, p, other)
<1> HIDE DEF result
<1>9. ViewResults(dataset, table) = {result}
  BY <1>6, <1>8 DEF ViewResults, result
<1>10. ViewResults(dataset, p) = {result}
  BY <1>7, <1>8 DEF ViewResults, result
<1> QED BY <1>9, <1>10 DEF p

\* "Product Gold filters to CONSENTED_PROD_PLAY" (docs/architecture.md), of all
\* ten product datasets at once, counts and sums included.
THEOREM ControlledRunsAreInvisibleHolds ==
  ASSUME \A table \in SilverTable : OneSourceType(table)
  PROVE  Spec => []ControlledRunsAreInvisible
<1>1. GoldInv => ControlledRunsAreInvisible
  <2> SUFFICES ASSUME GoldInv, NEW dataset \in ProductDataset
               PROVE  ViewResults(dataset, snapshot) =
                        ViewResults(dataset, ProductOnly(snapshot))
    BY DEF ControlledRunsAreInvisible
  <2>1. CASE snapshot \in SilverTable
    BY <2>1, PublishedAssumption, ProductViewsIgnoreTests
  <2>2. CASE snapshot = [d \in {} |-> {}]
    <3>1. ProductOnly(snapshot) = snapshot
      BY <2>2 DEF ProductOnly
    <3> QED BY <3>1
  <2> QED BY <2>1, <2>2 DEF GoldInv, TypeInv
<1> QED BY <1>1, GoldInvariant, PTL

-----------------------------------------------------------------------------
(* One copy per Run.                                                       *)

\* The rows of one Run, over all dates.
RunRows(table, id) == {row \in SilverEvents(table) : row.run.run_id = id}

\* The rows of one Run are of one copy, and no two of its events clash.
LEMMA SiblingFacts ==
  ASSUME NEW table, TrustedTable(table), OneCopyPerRun(table),
         NEW row \in SilverEvents(table), NEW other \in SilverEvents(table),
         row.run.run_id = other.run.run_id
  PROVE  /\ row.run = other.run /\ row.date = other.date
         /\ row.event = other.event => row = other
         /\ SourceType(row) = SourceType(other) /\ GameVersion(row) = GameVersion(other)
         /\ ~Clash(row.event, other.event)
<1>1. row.run = other.run /\ row.date = other.date
  BY RowFacts DEF OneCopyPerRun
<1>2. row.event = other.event => row = other
  <2>1. row = Row(row.date, row.run, row.event) /\ other = Row(other.date, other.run, other.event)
    BY RowFacts
  <2> QED BY <1>1, <2>1
<1>3. ~Clash(row.event, other.event)
  <2>1. row.event \in row.run.events /\ other.event \in row.run.events
    BY <1>1, RowFacts
  <2> QED BY <2>1, TrustedRow, AcceptedFacts
<1>4. row.event.correlation = other.event.correlation
  BY <1>3 DEF Clash, Correlation
<1> QED BY <1>1, <1>2, <1>3, <1>4 DEF SourceType, GameVersion

\* The contract lets no two events of a Run differ in their source_type
\* (validate_anonymous_sequence, _CORRELATION_FIELDS), so where each Run has one
\* date the product views ignore test Runs without further hypothesis.
THEOREM OneCopyMeansOneSource ==
  ASSUME NEW table, TrustedTable(table), OneCopyPerRun(table)
  PROVE  OneSourceType(table)
BY SiblingFacts DEF OneSourceType

\* A Run's rows and its events.
LEMMA RunRowFacts ==
  ASSUME NEW table, TrustedTable(table), OneCopyPerRun(table),
         NEW row \in SilverEvents(table)
  PROVE  /\ row \in RunRows(table, row.run.run_id)
         /\ IsFiniteSet(RunRows(table, row.run.run_id))
         /\ \A other \in RunRows(table, row.run.run_id) :
              other \in SilverEvents(table) /\ other.run = row.run
              /\ other.event \in row.run.events
         /\ \A event \in row.run.events :
              Row(row.date, row.run, event) \in RunRows(table, row.run.run_id)
<1>1. RunRows(table, row.run.run_id) \in SUBSET SilverEvents(table)
  BY DEF RunRows
<1>2. IsFiniteSet(RunRows(table, row.run.run_id))
  BY <1>1, RowsAreFinite, FS_Subset
<1>3. \A other \in RunRows(table, row.run.run_id) :
        other \in SilverEvents(table) /\ other.run = row.run /\ other.event \in row.run.events
  <2> TAKE other \in RunRows(table, row.run.run_id)
  <2>1. other \in SilverEvents(table) /\ other.run.run_id = row.run.run_id
    BY DEF RunRows
  <2>2. other.run = row.run
    BY <2>1, SiblingFacts
  <2> QED BY <2>1, <2>2, RowFacts
<1>4. \A event \in row.run.events :
        Row(row.date, row.run, event) \in RunRows(table, row.run.run_id)
  BY RowFacts DEF RunRows
<1> QED BY <1>2, <1>3, <1>4 DEF RunRows

\* A column with one value.
LEMMA MaxOfOne ==
  ASSUME NEW n \in Int, NEW S, S = {n}
  PROVE  Max(S) = n
BY DEF Max

\* What a summary says of its Run.
LEMMA SummaryFacts ==
  ASSUME NEW table, TrustedTable(table), OneCopyPerRun(table),
         NEW row \in SilverEvents(table)
  PROVE  LET rows == RunRows(table, row.run.run_id)
             run  == Summary(rows)
         IN  /\ run.run_id = row.run.run_id
             /\ run.source_type = SourceType(row) /\ run.game_version = GameVersion(row)
             /\ run.run_status = row.run.status
             /\ run.is_ended = (RowsNamed(rows, "run_ended") # {})
             /\ run.is_started = (RowsNamed(rows, "run_started") # {})
<1> DEFINE rows == RunRows(table, row.run.run_id)
           run  == Summary(rows)
<1>1. /\ row \in rows
      /\ \A other \in rows : /\ other \in SilverEvents(table) /\ other.run = row.run
                             /\ SourceType(other) = SourceType(row)
                             /\ GameVersion(other) = GameVersion(row)
  BY RunRowFacts, SiblingFacts
<1>2. SourceType(row) \in Int /\ GameVersion(row) \in Int
  BY TrustedRow
<1>3. row.run.status \in {"VALID", "INCOMPLETE"}
  BY TrustedRow, AcceptedFacts
<1> HIDE DEF rows
<1>4. /\ run.run_id = Any(rows).run.run_id
      /\ run.source_type = Max({SourceType(other) : other \in rows})
      /\ run.game_version = Max({GameVersion(other) : other \in rows})
      /\ run.run_status = MaxStatus(rows)
      /\ run.is_ended = (RowsNamed(rows, "run_ended") # {})
      /\ run.is_started = (RowsNamed(rows, "run_started") # {})
  BY DEF Summary
<1>5. Any(rows) \in rows
  BY <1>1 DEF Any
<1>6. /\ {SourceType(other) : other \in rows} = {SourceType(row)}
      /\ {GameVersion(other) : other \in rows} = {GameVersion(row)}
  BY <1>1
<1>7. MaxStatus(rows) = row.run.status
  BY <1>1, <1>3 DEF MaxStatus
<1> HIDE DEF run
<1>8. run.source_type = SourceType(row) /\ run.game_version = GameVersion(row)
  BY <1>2, <1>4, <1>6, MaxOfOne
<1> QED BY <1>1, <1>4, <1>5, <1>7, <1>8 DEF rows, run

\* Every summary is of the rows of one Run, product summaries of product Runs.
LEMMA SummaryOfRows ==
  ASSUME NEW table, TrustedTable(table), OneCopyPerRun(table)
  PROVE  /\ \A run \in RunSummary(table) : \E row \in SilverEvents(table) :
              run = Summary(RunRows(table, row.run.run_id)) /\ run.run_id = row.run.run_id
         /\ \A run \in ProductRunSummary(table) : \E row \in SilverEvents(table) :
              /\ run = Summary(RunRows(table, row.run.run_id)) /\ run.run_id = row.run.run_id
              /\ SourceType(row) = ConsentedProdPlay
         /\ \A row \in SilverEvents(table) :
              /\ Summary(RunRows(table, row.run.run_id)) \in RunSummary(table)
              /\ SourceType(row) = ConsentedProdPlay =>
                   Summary(RunRows(table, row.run.run_id)) \in ProductRunSummary(table)
<1>1. RunSummary(table) =
        {Summary(RunRows(table, id)) : id \in {row.run.run_id : row \in SilverEvents(table)}}
  BY DEF RunSummary, GroupBy, RunRows
<1>2. \A run : run \in RunSummary(table) <=>
        \E row \in SilverEvents(table) : run = Summary(RunRows(table, row.run.run_id))
  BY <1>1
<1>3. \A row \in SilverEvents(table) :
        /\ Summary(RunRows(table, row.run.run_id)).run_id = row.run.run_id
        /\ Summary(RunRows(table, row.run.run_id)).source_type = SourceType(row)
  BY SummaryFacts
<1> QED BY <1>2, <1>3 DEF ProductRunSummary

-----------------------------------------------------------------------------
(* The gate.                                                               *)

\* What the gate is to let through.
SoundTable(table) ==
  TrustedTable(table) /\ OneCopyPerRun(table) /\ \A run \in Copies(table) : Sound(run)

\* A selection of a sound Run answers a choice that is there, and no other
\* selection answers it.
LEMMA SelectionIsAnswer ==
  ASSUME NEW table, SoundTable(table),
         NEW row \in RowsNamed(SilverEvents(table), "upgrade_selected")
  PROVE  /\ \E other \in RowsNamed(SilverEvents(table), "upgrade_options_shown") :
              /\ other.run.run_id = row.run.run_id
              /\ other.event.choice_id = row.event.choice_id
              /\ row.event.selected_option \in other.event.options
              /\ row.event.choice_source = other.event.choice_source
              /\ SourceType(other) = SourceType(row) /\ GameVersion(other) = GameVersion(row)
         /\ \A other \in RowsNamed(SilverEvents(table), "upgrade_selected") :
              /\ other.run.run_id = row.run.run_id
              /\ other.event.choice_id = row.event.choice_id
              => other = row
<1>1. /\ TrustedTable(table) /\ OneCopyPerRun(table)
      /\ row \in SilverEvents(table) /\ row.event.event_name = "upgrade_selected"
      /\ row.run \in Copies(table) /\ Sound(row.run)
      /\ row.event \in Selected(row.run.events)
  BY RowFacts DEF SoundTable, RowsNamed, Selected, Named
<1>2. PICK shown \in Shown(row.run.events) : shown.choice_id = row.event.choice_id
  BY <1>1 DEF Sound
<1> DEFINE other == Row(row.date, row.run, shown)
<1>3. /\ other \in SilverEvents(table) /\ other.run = row.run /\ other.event = shown
      /\ shown.event_name = "upgrade_options_shown"
  BY <1>1, <1>2, RowFacts DEF Shown, Named
<1> HIDE DEF other
<1>4. /\ ~Clash(shown, row.event)
      /\ SourceType(other) = SourceType(row) /\ GameVersion(other) = GameVersion(row)
  BY <1>1, <1>3, SiblingFacts
<1>5. Answers(row.event, shown)
  BY <1>1, <1>2, <1>3, <1>4 DEF Clash, Misselected
<1>6. ASSUME NEW o \in RowsNamed(SilverEvents(table), "upgrade_selected"),
             o.run.run_id = row.run.run_id, o.event.choice_id = row.event.choice_id
      PROVE  o = row
  <2>1. o \in SilverEvents(table) /\ o.event.event_name = "upgrade_selected"
    BY DEF RowsNamed
  <2>2. o.run = row.run /\ (o.event = row.event => o = row)
    BY <1>1, <1>6, <2>1, SiblingFacts
  <2>3. o.event \in Selected(row.run.events)
    BY <2>1, <2>2, RowFacts DEF Selected, Named
  <2> QED BY <1>1, <1>6, <2>2, <2>3 DEF Sound
<1>7. other \in RowsNamed(SilverEvents(table), "upgrade_options_shown")
  BY <1>3 DEF RowsNamed
<1>8. /\ other.run.run_id = row.run.run_id
      /\ other.event.choice_id = row.event.choice_id
      /\ row.event.selected_option \in other.event.options
      /\ row.event.choice_source = other.event.choice_source
  BY <1>2, <1>3, <1>5 DEF Answers
<1> QED BY <1>4, <1>6, <1>7, <1>8

\* Offered and selected items have a row in the catalog.
LEMMA ItemsAreListed ==
  ASSUME NEW table, SoundTable(table)
  PROVE  /\ \A row \in RowsNamed(SilverEvents(table), "upgrade_options_shown") :
              \A option \in row.event.options :
                Listed(GameVersion(row), row.event.choice_source, option.item)
         /\ \A row \in RowsNamed(SilverEvents(table), "upgrade_selected") : SelectionListed(row)
<1>1. ASSUME NEW row \in RowsNamed(SilverEvents(table), "upgrade_options_shown"),
             NEW option \in row.event.options
      PROVE  Listed(GameVersion(row), row.event.choice_source, option.item)
  <2>1. row.run \in Copies(table) /\ row.event \in Shown(row.run.events)
    BY RowFacts DEF RowsNamed, Shown, Named
  <2> QED BY <2>1 DEF SoundTable, Sound, GameVersion
<1>2. ASSUME NEW row \in RowsNamed(SilverEvents(table), "upgrade_selected")
      PROVE  SelectionListed(row)
  <2>1. PICK other \in RowsNamed(SilverEvents(table), "upgrade_options_shown") :
          /\ row.event.selected_option \in other.event.options
          /\ row.event.choice_source = other.event.choice_source
          /\ GameVersion(other) = GameVersion(row)
    BY SelectionIsAnswer
  <2> QED BY <1>1, <2>1 DEF SelectionListed, SelectedItem
<1> QED BY <1>1, <1>2

\* A map of one finite set into another that merges nothing.
LEMMA NoMoreThan ==
  ASSUME NEW S, NEW T, IsFiniteSet(T), NEW f, \A x \in S : f[x] \in T,
         \A x, y \in S : f[x] = f[y] => x = y
  PROVE  IsFiniteSet(S) /\ Cardinality(S) <= Cardinality(T)
         /\ Cardinality(S) \in Nat /\ Cardinality(T) \in Nat
<1> DEFINE g == [x \in S |-> f[x]]
<1>1. g \in Injection(S, T)
  BY DEF Injection, IsInjective
<1> HIDE DEF g
<1>2. IsFiniteSet(S) /\ Cardinality(S) <= Cardinality(T)
  BY <1>1, FS_Injection
<1> QED BY <1>2, FS_CardinalityType

\* A maximum over rows that ignores NULL: one of the values, and none is larger.
LEMMA ColumnMax ==
  ASSUME NEW rows, IsFiniteSet(rows), NEW f, \A row \in rows : f[row] \in Nat
  PROVE  /\ \A row \in rows : f[row] <= MaxOf({f[r] : r \in rows})
         /\ MaxOf({f[r] : r \in rows}) \in Nat
         /\ MaxOf({f[r] : r \in rows}) # NULL =>
              \E row \in rows : MaxOf({f[r] : r \in rows}) = f[row]
<1> DEFINE values == {f[r] : r \in rows}
<1>1. IsFiniteSet(values)
  BY FiniteImage
<1>2. values \in SUBSET Nat /\ \A n \in values : \E row \in rows : n = f[row]
  OBVIOUS
<1>3. \A row \in rows : f[row] \in values
  OBVIOUS
<1> HIDE DEF values
<1>4. IsFiniteSet(values \cup {NULL}) /\ values \cup {NULL} \in SUBSET Int /\ values \cup {NULL} # {}
  BY <1>1, <1>2, FS_AddElement DEF NULL
<1>5. MaxOf(values) \in values \cup {NULL} /\ \A n \in values : n <= MaxOf(values)
  BY <1>4, MaxFacts DEF MaxOf
<1>6. \A n \in values \cup {NULL} : n \in Nat
  BY <1>2 DEF NULL
<1>7. \A row \in rows : f[row] <= MaxOf(values)
  BY <1>3, <1>5
<1>8. MaxOf(values) \in Nat
  BY <1>5, <1>6
<1>9. MaxOf(values) # NULL => \E row \in rows : MaxOf(values) = f[row]
  BY <1>2, <1>5
<1> QED BY <1>7, <1>8, <1>9 DEF values

\* run_summary_consistency passes.
LEMMA SummariesAreConsistent ==
  ASSUME NEW table, SoundTable(table), NEW run \in RunSummary(table)
  PROVE  ~InconsistentRun(run)
<1>1. TrustedTable(table) /\ OneCopyPerRun(table)
  BY DEF SoundTable
<1>2. PICK row \in SilverEvents(table) : run = Summary(RunRows(table, row.run.run_id))
  BY <1>1, SummaryOfRows
<1> DEFINE rows == RunRows(table, row.run.run_id)
           ends == RowsNamed(rows, "run_ended")
           shown == RowsNamed(rows, "upgrade_options_shown")
           selected == RowsNamed(rows, "upgrade_selected")
<1>3. /\ row \in rows /\ IsFiniteSet(rows)
      /\ \A other \in rows : /\ other \in SilverEvents(table) /\ other.run = row.run
                             /\ other.event \in row.run.events
      /\ \A event \in row.run.events : \E other \in rows : other.event = event
  BY <1>1, RunRowFacts, RowFacts
<1>4. \A name : IsFiniteSet(RowsNamed(rows, name)) /\ RowsNamed(rows, name) \subseteq rows
  <2> TAKE name
  <2>1. RowsNamed(rows, name) \in SUBSET rows
    BY DEF RowsNamed
  <2> QED BY <1>3, <2>1, FS_Subset
<1>5. Accepted(row.run) /\ Sound(row.run)
  BY <1>1, TrustedRow, RowFacts DEF SoundTable
<1>6. run.is_ended = (ends # {}) /\ run.run_status = row.run.status
  BY <1>1, <1>2, SummaryFacts
<1>7. ends # {} <=> Endings(row.run.events) # {}
  BY <1>3 DEF RowsNamed, Endings, Named
<1>8. /\ run.end_reason = MaxOf({other.event.end_reason : other \in ends})
      /\ run.upgrade_shown_count = Cardinality(shown)
      /\ run.upgrade_selected_count = Cardinality(selected)
      /\ run.input_event_count = MaxCount(rows, "input")
      /\ run.unique_event_count = MaxCount(rows, "unique")
      /\ run.exact_retry_count = MaxCount(rows, "retries")
      /\ run.conflicting_duplicate_count = MaxCount(rows, "conflicts")
  BY <1>2 DEF Summary
<1>9. run.is_ended => run.run_status = "VALID"
  BY <1>5, <1>6, <1>7 DEF Sound
<1>10. ~run.is_ended => run.run_status = "INCOMPLETE"
  BY <1>5, <1>6, <1>7, AcceptedFacts DEF Complete
<1>11. run.is_ended => run.end_reason # NULL
  <2> SUFFICES ASSUME ends # {} PROVE run.end_reason # NULL
    BY <1>6
  <2> DEFINE f == [other \in ends |-> other.event.end_reason]
  <2>1. \A other \in ends : /\ f[other] = other.event.end_reason
                            /\ f[other] \in Nat \ {NULL}
    <3> TAKE other \in ends
    <3>1. other \in SilverEvents(table) /\ other.event.event_name = "run_ended"
      BY <1>3 DEF RowsNamed
    <3>2. other.event \in Event /\ other.event.conforms
      BY <1>1, <3>1, TrustedRow
    <3> QED BY <3>1, <3>2, ColumnAssumption
  <2>2. {other.event.end_reason : other \in ends} = {f[other] : other \in ends}
    BY <2>1
  <2>3. IsFiniteSet(ends)
    BY <1>4
  <2> HIDE DEF f, ends
  <2>4. \A other \in ends : f[other] <= MaxOf({f[o] : o \in ends})
    BY <2>1, <2>3, ColumnMax
  <2>5. MaxOf({f[o] : o \in ends}) \in Nat
    BY <2>1, <2>3, ColumnMax
  <2>6. PICK other \in ends : TRUE
    OBVIOUS
  <2>7. MaxOf({f[o] : o \in ends}) # NULL
    BY <2>1, <2>4, <2>5, <2>6 DEF NULL
  <2> QED BY <1>8, <2>2, <2>7 DEF ends
<1>12. ~(run.upgrade_selected_count > run.upgrade_shown_count)
  <2> DEFINE Answered(x) == {y \in shown : y.event.choice_id = x.event.choice_id}
             f == [x \in selected |-> CHOOSE y \in Answered(x) : TRUE]
  <2>1. \A x \in selected : x \in RowsNamed(SilverEvents(table), "upgrade_selected")
                            /\ x.run.run_id = row.run.run_id
    BY <1>3 DEF RowsNamed
  <2>2. \A x \in selected : Answered(x) # {}
    <3> TAKE x \in selected
    <3>1. PICK y \in RowsNamed(SilverEvents(table), "upgrade_options_shown") :
            y.run.run_id = x.run.run_id /\ y.event.choice_id = x.event.choice_id
      BY <2>1, SelectionIsAnswer
    <3>2. y \in shown
      BY <2>1, <3>1 DEF RowsNamed, RunRows
    <3> QED BY <3>1, <3>2
  <2>3. \A x \in selected : f[x] \in shown /\ f[x].event.choice_id = x.event.choice_id
    BY <2>2
  <2>4. \A x, y \in selected : x.event.choice_id = y.event.choice_id => x = y
    BY <2>1, SelectionIsAnswer
  <2>5. \A x, y \in selected : f[x] = f[y] => x = y
    <3> HIDE DEF f
    <3> QED BY <2>3, <2>4
  <2>6. \A x \in selected : f[x] \in shown
    BY <2>3
  <2> HIDE DEF f, shown, selected
  <2>7. Cardinality(selected) <= Cardinality(shown)
        /\ Cardinality(selected) \in Nat /\ Cardinality(shown) \in Nat
    BY <1>4, <2>5, <2>6, NoMoreThan DEF shown
  <2> QED BY <1>8, <2>7
<1>13. run.input_event_count = run.unique_event_count + run.exact_retry_count
                                 + run.conflicting_duplicate_count
  <2>1. \A count \in {"input", "unique", "retries", "conflicts"} :
          MaxCount(rows, count) = row.run.counts[count]
    <3> TAKE count \in {"input", "unique", "retries", "conflicts"}
    <3>1. row.run.counts[count] \in Int
      BY <1>5 DEF Accepted, CountName
    <3>2. {other.run.counts[count] : other \in rows} = {row.run.counts[count]}
      BY <1>3
    <3> HIDE DEF rows
    <3> QED BY <3>1, <3>2, MaxOfOne DEF MaxCount
  <2>2. row.run.counts["input"] =
          row.run.counts["unique"] + row.run.counts["retries"] + row.run.counts["conflicts"]
    BY <1>5 DEF Accepted
  <2> QED BY <1>8, <2>1, <2>2
<1>14. run.death_cause # NULL => run.end_reason = PlayerDeath
  <2> SUFFICES ASSUME run.death_cause # NULL PROVE run.end_reason = PlayerDeath
    OBVIOUS
  <2> DEFINE cause == [other \in ends |-> other.event.death_cause]
             reason == [other \in ends |-> other.event.end_reason]
  <2>1. \A other \in ends :
          /\ cause[other] = other.event.death_cause /\ cause[other] \in Nat
          /\ reason[other] = other.event.end_reason /\ reason[other] \in Nat
          /\ other.event.death_cause # NULL => other.event.end_reason = PlayerDeath
          /\ other \in SilverEvents(table) /\ other.run = row.run
          /\ other.event.event_name = "run_ended"
    <3> TAKE other \in ends
    <3>1. /\ other \in SilverEvents(table) /\ other.run = row.run
          /\ other.event.event_name = "run_ended"
      BY <1>3 DEF RowsNamed
    <3>2. other.event \in Event /\ other.event.conforms
      BY <1>1, <3>1, TrustedRow
    <3> QED BY <3>1, <3>2, ColumnAssumption
  <2>2. /\ {other.event.death_cause : other \in ends} = {cause[other] : other \in ends}
        /\ {other.event.end_reason : other \in ends} = {reason[other] : other \in ends}
    BY <2>1
  <2>3. IsFiniteSet(ends)
    BY <1>4
  <2>4. run.death_cause = MaxOf({other.event.death_cause : other \in ends})
    BY <1>2 DEF Summary
  <2> HIDE DEF cause, reason, ends
  <2>5. MaxOf({cause[o] : o \in ends}) # NULL
    BY <2>2, <2>4
  <2>6. PICK last \in ends : MaxOf({cause[o] : o \in ends}) = cause[last]
    <3>1. \A other \in ends : cause[other] \in Nat
      BY <2>1
    <3>2. MaxOf({cause[o] : o \in ends}) # NULL =>
            \E other \in ends : MaxOf({cause[o] : o \in ends}) = cause[other]
      BY <2>3, <3>1, ColumnMax
    <3> QED BY <2>5, <3>2
  <2>7. reason[last] = PlayerDeath
    BY <2>1, <2>5, <2>6
  <2>8. \A other \in ends : reason[other] = PlayerDeath
    <3> TAKE other \in ends
    <3>1. ~Clash(other.event, last.event)
      BY <1>1, <2>1, SiblingFacts
    <3>2. other.event = last.event
      BY <2>1, <3>1 DEF Clash, SameIdentity
    <3> QED BY <2>1, <2>7, <3>2
  <2>9. reason[last] <= MaxOf({reason[o] : o \in ends}) /\ MaxOf({reason[o] : o \in ends}) \in Nat
    <3>1. \A other \in ends : reason[other] \in Nat
      BY <2>1
    <3> QED BY <2>3, <3>1, ColumnMax
  <2>10. MaxOf({reason[o] : o \in ends}) # NULL
    BY <2>7, <2>9 DEF NULL, PlayerDeath
  <2>11. MaxOf({reason[o] : o \in ends}) = PlayerDeath
    <3>1. MaxOf({reason[o] : o \in ends}) # NULL =>
            \E other \in ends : MaxOf({reason[o] : o \in ends}) = reason[other]
      <4>1. \A other \in ends : reason[other] \in Nat
        BY <2>1
      <4> QED BY <2>3, <4>1, ColumnMax
    <3> QED BY <2>8, <2>10, <3>1
  <2> QED BY <1>8, <2>2, <2>11
<1> HIDE DEF rows, ends, shown, selected
<1> QED BY <1>9, <1>10, <1>11, <1>12, <1>13, <1>14 DEF InconsistentRun

\* An average of at least half a hundredth is not rounded to 0.00.
LEMMA RoundedUp ==
  ASSUME NEW total \in Nat, NEW n \in Nat \ {0}, total >= n * HalfHundredth
  PROVE  (total + n * HalfHundredth) \div (2 * n * HalfHundredth) >= 1
<1> DEFINE p == n * HalfHundredth
<1>1. p \in Nat /\ p > 0
  BY UnitAssumption
<1>2. 2 * n * HalfHundredth = 2 * p
  BY UnitAssumption
<1> HIDE DEF p
<1>3. \A a \in Nat, q \in Nat \ {0} : a >= q => a \div q >= 1
  BY Z3
<1>4. total + p \in Nat /\ 2 * p \in Nat \ {0} /\ total + p >= 2 * p
  BY <1>1 DEF p
<1>5. (total + p) \div (2 * p) >= 1
  BY <1>3, <1>4
<1> QED BY <1>2, <1>5 DEF p

\* checkpoint_value_ranges passes: no average of sound checkpoints rounds to 0.00.
LEMMA CheckpointsAreInRange ==
  ASSUME NEW table, SoundTable(table), NEW x \in CheckpointMetrics(table)
  PROVE  ~(x.average_xp_to_next_level <= 0)
<1>1. TrustedTable(table)
  BY DEF SoundTable
<1> DEFINE rows == ProductRows(table, "run_checkpoint")
<1>2. PICK number \in {row.event.checkpoint_number : row \in rows} :
        x = CheckpointRow({row \in rows : row.event.checkpoint_number = number})
  BY DEF CheckpointMetrics, GroupBy
<1> DEFINE group == {row \in rows : row.event.checkpoint_number = number}
           xp == [row \in group |-> row.event.xp_to_next_level]
<1>3. group # {} /\ group \in SUBSET RowsNamed(SilverEvents(table), "run_checkpoint")
  BY DEF ProductRows
<1>4. IsFiniteSet(group)
  <2>1. group \in SUBSET SilverEvents(table)
    BY <1>3 DEF RowsNamed
  <2> QED BY <1>1, <2>1, RowsAreFinite, FS_Subset
<1>5. \A row \in group : xp[row] \in Nat /\ xp[row] >= HalfHundredth
  <2> TAKE row \in group
  <2>1. row \in SilverEvents(table) /\ row.event.event_name = "run_checkpoint"
    BY <1>3 DEF RowsNamed
  <2>2. row.event \in Event /\ row.event.conforms
    BY <1>1, <2>1, TrustedRow
  <2>3. row.run \in Copies(table) /\ row.event \in Checkpoints(row.run.events)
    BY <2>1, RowFacts DEF Checkpoints, Named
  <2>4. row.event.xp_to_next_level >= HalfHundredth
    BY <2>3 DEF SoundTable, Sound
  <2> QED BY <2>1, <2>2, <2>4, ColumnAssumption
<1>6. x.average_xp_to_next_level =
        (SumOver(xp, group) + Cardinality(group) * HalfHundredth)
          \div (2 * Cardinality(group) * HalfHundredth)
  <2>1. SumOver(xp, group) = SumFunction([row \in group |-> row.event.xp_to_next_level])
    BY DEF SumOver
  <2> HIDE DEF group, xp
  <2> QED BY <1>2, <2>1 DEF CheckpointRow, RoundedAverage, SumOf, group
<1> HIDE DEF group, xp
<1>7. /\ SumOver(xp, group) \in Nat /\ Cardinality(group) \in Nat
      /\ SumOver(xp, group) >= Cardinality(group) * HalfHundredth
  BY <1>4, <1>5, UnitAssumption, SumAtLeast
<1>8. Cardinality(group) # 0
  BY <1>3, <1>4, FS_EmptySet
<1>9. x.average_xp_to_next_level >= 1
  BY <1>6, <1>7, <1>8, RoundedUp
<1>10. x.average_xp_to_next_level \in Int
  BY <1>6, <1>7, <1>8, UnitAssumption, Z3
<1> QED BY <1>9, <1>10

\* A Run's first selection of an item is one of its selections.
LEMMA FirstExists ==
  ASSUME NEW table, TrustedTable(table), NEW rows \in SUBSET SilverEvents(table), rows # {}
  PROVE  FirstSelection(rows) \in rows
<1> DEFINE f == [row \in rows |-> -Elapsed(row.event)]
           g == [row \in rows |-> -row.event.event_sequence]
<1>1. IsFiniteSet(rows)
  BY RowsAreFinite, FS_Subset
<1>2. \A row \in rows : Elapsed(row.event) \in Nat /\ row.event.event_sequence \in Nat
  BY TrustedRow
<1>3. \A row \in rows : /\ f[row] = -Elapsed(row.event) /\ f[row] \in Int
                        /\ g[row] = -row.event.event_sequence /\ g[row] \in Int
  BY <1>2
<1> HIDE DEF f, g
<1>4. PICK early \in rows : \A other \in rows : f[other] <= f[early]
  BY <1>1, <1>3, FiniteGreatest
<1> DEFINE ties == {row \in rows : f[row] = f[early]}
<1>5. ties \in SUBSET rows /\ early \in ties
  OBVIOUS
<1>6. IsFiniteSet(ties) /\ \A row \in ties : g[row] \in Int
  BY <1>1, <1>3, <1>5, FS_Subset
<1> HIDE DEF ties
<1>7. PICK first \in ties : \A other \in ties : g[other] <= g[first]
  BY <1>5, <1>6, FiniteGreatest
<1>8. first \in rows /\ f[first] = f[early]
  BY <1>7 DEF ties
<1>9. \A other \in rows : Precedes(first, other)
  <2> TAKE other \in rows
  <2>1. CASE f[other] = f[early]
    <3>1. g[other] <= g[first]
      BY <1>7, <2>1 DEF ties
    <3>2. Elapsed(first.event) = Elapsed(other.event)
      BY <1>2, <1>3, <1>8, <2>1
    <3>3. first.event.event_sequence <= other.event.event_sequence
      BY <1>2, <1>3, <1>8, <3>1
    <3> QED BY <3>2, <3>3 DEF Precedes
  <2>2. CASE f[other] # f[early]
    <3>1. Elapsed(first.event) < Elapsed(other.event)
      BY <1>2, <1>3, <1>4, <1>8, <2>2
    <3> QED BY <3>1 DEF Precedes
  <2> QED BY <2>1, <2>2
<1> QED BY <1>8, <1>9 DEF FirstSelection

\* The product selections a row of RUN_ITEM_SELECTIONS counts.
ItemRows(table, id, item) ==
  {row \in ProductRows(table, "upgrade_selected") :
     row.run.run_id = id /\ SelectedItem(row) = item}

\* RUN_ITEM_SELECTIONS row by row.
LEMMA ItemSelectionFacts ==
  ASSUME NEW table, TrustedTable(table), OneCopyPerRun(table)
  PROVE  /\ RunItemSelections(table) =
              {RunItemSelection(ItemRows(table, row.run.run_id, SelectedItem(row))) :
                 row \in ProductRows(table, "upgrade_selected")}
         /\ \A row \in ProductRows(table, "upgrade_selected") :
              LET rows == ItemRows(table, row.run.run_id, SelectedItem(row))
                  x    == RunItemSelection(rows)
              IN  /\ row \in rows /\ IsFiniteSet(rows)
                  /\ x.run_id = row.run.run_id /\ x.item_id = SelectedItem(row)
                  /\ x.game_version = GameVersion(row)
                  /\ \E first \in rows : /\ x.choice_source = first.event.choice_source
                                         /\ GameVersion(first) = GameVersion(row)
                                         /\ SelectedItem(first) = SelectedItem(row)
                  /\ x.selection_count_in_run = Cardinality(rows)
<1> DEFINE all == ProductRows(table, "upgrade_selected")
<1>1. RunItemSelections(table) =
        {RunItemSelection(ItemRows(table, row.run.run_id, SelectedItem(row))) : row \in all}
  <2> DEFINE Group(key) == {row \in all : RunItem(row) = key}
  <2>1. RunItemSelections(table) =
          {RunItemSelection(Group(key)) : key \in {RunItem(row) : row \in all}}
    BY DEF RunItemSelections, GroupBy
  <2>2. \A row \in all : Group(RunItem(row)) = ItemRows(table, row.run.run_id, SelectedItem(row))
    BY DEF ItemRows, RunItem
  <2> HIDE DEF Group, all
  <2>3. RunItemSelections(table) = {RunItemSelection(Group(RunItem(row))) : row \in all}
    BY <2>1
  <2> QED BY <2>2, <2>3 DEF all
<1>2. ASSUME NEW row \in all
      PROVE  LET rows == ItemRows(table, row.run.run_id, SelectedItem(row))
                 x    == RunItemSelection(rows)
             IN  /\ row \in rows /\ IsFiniteSet(rows)
                 /\ x.run_id = row.run.run_id /\ x.item_id = SelectedItem(row)
                 /\ x.game_version = GameVersion(row)
                 /\ \E first \in rows : /\ x.choice_source = first.event.choice_source
                                        /\ GameVersion(first) = GameVersion(row)
                                        /\ SelectedItem(first) = SelectedItem(row)
                 /\ x.selection_count_in_run = Cardinality(rows)
  <2> DEFINE rows == ItemRows(table, row.run.run_id, SelectedItem(row))
             x    == RunItemSelection(rows)
             first == FirstSelection(rows)
  <2>1. row \in rows /\ rows \in SUBSET SilverEvents(table)
    BY DEF ItemRows, ProductRows, RowsNamed
  <2>2. IsFiniteSet(rows)
    BY <2>1, RowsAreFinite, FS_Subset
  <2>3. \A other \in rows : other.run.run_id = row.run.run_id /\ SelectedItem(other) = SelectedItem(row)
    BY DEF ItemRows
  <2> HIDE DEF rows
  <2>4. \A other \in rows : GameVersion(other) = GameVersion(row)
    BY <2>1, <2>3, SiblingFacts
  <2>5. first \in rows
    BY <2>1, FirstExists
  <2>6. /\ x.run_id = first.run.run_id /\ x.item_id = SelectedItem(first)
        /\ x.game_version = Max({GameVersion(other) : other \in rows})
        /\ x.choice_source = first.event.choice_source
        /\ x.selection_count_in_run = Cardinality(rows)
    BY DEF RunItemSelection
  <2>7. Max({GameVersion(other) : other \in rows}) = GameVersion(row)
    <3>1. {GameVersion(other) : other \in rows} = {GameVersion(row)}
      BY <2>1, <2>4
    <3>2. GameVersion(row) \in Int
      BY <2>1, TrustedRow
    <3> QED BY <3>1, <3>2, MaxOfOne
  <2> HIDE DEF x, first
  <2> QED BY <2>1, <2>2, <2>3, <2>4, <2>5, <2>6, <2>7 DEF rows, x
<1> QED BY <1>1, <1>2

\* Any row of a group has the group's key.
LEMMA AnyOfGroup ==
  ASSUME NEW group, group # {}
  PROVE  Any(group) \in group
BY DEF Any

\* item_catalog_coverage and item_performance_summary_ranges pass.
LEMMA PerformedItemsAreListed ==
  ASSUME NEW table, SoundTable(table), NEW x \in ItemPerformance(table)
  PROVE  x.named
<1>1. TrustedTable(table) /\ OneCopyPerRun(table)
  BY DEF SoundTable
<1>2. ASSUME NEW s \in RunItemSelections(table)
      PROVE  Listed(s.game_version, s.choice_source, s.item_id)
  <2>1. PICK row \in ProductRows(table, "upgrade_selected") :
          s = RunItemSelection(ItemRows(table, row.run.run_id, SelectedItem(row)))
    BY <1>1, ItemSelectionFacts
  <2> DEFINE rows == ItemRows(table, row.run.run_id, SelectedItem(row))
  <2>2. /\ s.item_id = SelectedItem(row) /\ s.game_version = GameVersion(row)
        /\ \E first \in rows : /\ s.choice_source = first.event.choice_source
                               /\ GameVersion(first) = GameVersion(row)
                               /\ SelectedItem(first) = SelectedItem(row)
    BY <1>1, <2>1, ItemSelectionFacts
  <2>3. \A first \in rows : SelectionListed(first)
    BY ItemsAreListed DEF ItemRows, ProductRows
  <2> HIDE DEF rows
  <2> QED BY <2>2, <2>3 DEF SelectionListed
<1>3. ASSUME NEW p \in UpgradePostSelection(table)
      PROVE  Listed(p.game_version, p.choice_source, p.item_id)
  <2> DEFINE Group(key) == {o \in SelectionOutcomes(table) : PostSelectionKey(o) = key}
  <2>1. UpgradePostSelection(table) =
          {PostSelectionRow(Group(key)) :
             key \in {PostSelectionKey(o) : o \in SelectionOutcomes(table)}}
    BY DEF UpgradePostSelection, GroupBy
  <2>2. PICK o \in SelectionOutcomes(table) : p = PostSelectionRow(Group(PostSelectionKey(o)))
    BY <2>1
  <2> DEFINE group == Group(PostSelectionKey(o))
  <2>3. o \in group /\ group \subseteq SelectionOutcomes(table)
    OBVIOUS
  <2> HIDE DEF group
  <2>4. /\ p.game_version = Any(group).selection.game_version
        /\ p.choice_source = Any(group).selection.choice_source
        /\ p.item_id = Any(group).selection.item_id
    BY <2>2 DEF PostSelectionRow, group
  <2>5. Any(group) \in SelectionOutcomes(table)
    BY <2>3, AnyOfGroup
  <2>6. Any(group).selection \in RunItemSelections(table)
    BY <2>5 DEF SelectionOutcomes
  <2> QED BY <1>2, <2>6, <2>4
<1> DEFINE Group(key) == {p \in UpgradePostSelection(table) : ItemKey(p) = key}
<1>4. ItemPerformance(table) =
        {ItemPerformanceRow(Group(key)) : key \in {ItemKey(p) : p \in UpgradePostSelection(table)}}
  BY DEF ItemPerformance, GroupBy
<1>5. PICK p \in UpgradePostSelection(table) : x = ItemPerformanceRow(Group(ItemKey(p)))
  BY <1>4
<1> DEFINE group == Group(ItemKey(p))
<1>6. p \in group /\ group \subseteq UpgradePostSelection(table)
  OBVIOUS
<1> HIDE DEF group
<1>7. x.named = Listed(Any(group).game_version, Any(group).choice_source, Any(group).item_id)
  BY <1>5 DEF ItemPerformanceRow, group
<1> QED BY <1>3, <1>6, <1>7, AnyOfGroup

\* weapon_performance_ranges passes.
LEMMA StartingWeaponsAreListed ==
  ASSUME NEW table, SoundTable(table), NEW x \in WeaponPerformance(table)
  PROVE  x.named
<1>1. TrustedTable(table) /\ OneCopyPerRun(table)
  BY DEF SoundTable
<1> DEFINE begun == {run \in ProductRunSummary(table) :
                         run.is_started /\ run.starting_weapon_id # NULL}
           Key(run) == <<run.game_version, run.starting_weapon_id>>
           Group(key) == {run \in begun : Key(run) = key}
<1>2. WeaponPerformance(table) =
        {WeaponPerformanceRow(Group(key)) : key \in {Key(run) : run \in begun}}
  BY DEF WeaponPerformance, GroupBy
<1>3. PICK run \in begun : x = WeaponPerformanceRow(Group(Key(run)))
  BY <1>2
<1> DEFINE group == Group(Key(run))
<1>4. run \in group /\ group \subseteq begun
  OBVIOUS
<1> HIDE DEF group
<1>5. x.named = Listed(Any(group).game_version, "level_up_weapon", Any(group).starting_weapon_id)
  BY <1>3 DEF WeaponPerformanceRow, group
<1>6. ASSUME NEW s \in begun
      PROVE  Listed(s.game_version, "level_up_weapon", s.starting_weapon_id)
  <2>1. PICK row \in SilverEvents(table) : s = Summary(RunRows(table, row.run.run_id))
    BY <1>1, SummaryOfRows
  <2> DEFINE rows == RunRows(table, row.run.run_id)
             starts == RowsNamed(rows, "run_started")
             f == [other \in starts |-> other.event.starting_weapon]
  <2>2. s.starting_weapon_id = MaxOf({other.event.starting_weapon : other \in starts})
        /\ s.game_version = GameVersion(row)
    <3>1. s.starting_weapon_id = MaxOf({other.event.starting_weapon : other \in starts})
      BY <2>1 DEF Summary
    <3>2. s.game_version = GameVersion(row)
      BY <1>1, <2>1, SummaryFacts
    <3> QED BY <3>1, <3>2
  <2>3. \A other \in starts : other \in SilverEvents(table) /\ other.run = row.run
                              /\ other.event.event_name = "run_started"
    <3> HIDE DEF f
    <3>1. \A other \in rows : other \in SilverEvents(table) /\ other.run = row.run
      BY <1>1, RunRowFacts
    <3> HIDE DEF rows
    <3> QED BY <3>1 DEF RowsNamed
  <2>4. \A other \in starts : f[other] = other.event.starting_weapon /\ f[other] \in Nat
    <3> TAKE other \in starts
    <3>1. other.event \in Event /\ other.event.conforms
      BY <1>1, <2>3, TrustedRow
    <3> QED BY <2>3, <3>1, ColumnAssumption
  <2>5. IsFiniteSet(starts)
    <3>1. IsFiniteSet(rows)
      BY <1>1, RunRowFacts
    <3>2. starts \in SUBSET rows
      BY DEF RowsNamed
    <3> QED BY <3>1, <3>2, FS_Subset
  <2>6. {other.event.starting_weapon : other \in starts} = {f[other] : other \in starts}
    BY <2>4
  <2>7. s.starting_weapon_id # NULL
    OBVIOUS
  <2> HIDE DEF f, starts
  <2>8. PICK other \in starts : s.starting_weapon_id = f[other]
    <3> DEFINE most == MaxOf({f[r] : r \in starts})
    <3>1. \A r \in starts : f[r] \in Nat
      BY <2>4
    <3>2. most # NULL => \E r \in starts : most = f[r]
      BY <2>5, <3>1, ColumnMax
    <3>3. s.starting_weapon_id = most
      BY <2>2, <2>6
    <3> HIDE DEF most
    <3> QED BY <2>7, <3>2, <3>3
  <2>9. /\ other.run = row.run /\ other.event \in Starts(other.run.events)
        /\ Sound(other.run) /\ GameVersion(other) = GameVersion(row)
        /\ s.starting_weapon_id = other.event.starting_weapon
    <3>1. GameVersion(other) = GameVersion(row)
      BY <1>1, <2>3, SiblingFacts
    <3>2. other.event \in Starts(other.run.events) /\ Sound(other.run)
      BY <2>3, RowFacts DEF SoundTable, Starts, Named
    <3> QED BY <2>3, <2>4, <2>8, <3>1, <3>2
  <2> QED BY <2>2, <2>7, <2>9 DEF Sound, GameVersion
<1> HIDE DEF begun, Group, Key
<1> QED BY <1>5, <1>4, <1>6, AnyOfGroup

\* option_outcome_comparison_ranges passes.
LEMMA OfferedItemsAreListed ==
  ASSUME NEW table, SoundTable(table), NEW x \in OptionOutcome(table)
  PROVE  x.named
<1> DEFINE runs       == ProductRunSummary(table)
           selections == ProductRows(table, "upgrade_selected")
           Group(key) == {o \in OfferedItems(table) : ItemKey(o) = key}
<1>1. OptionOutcome(table) =
        {OptionOutcomeRow(Group(key), runs, selections) :
           key \in {ItemKey(o) : o \in OfferedItems(table)}}
  BY DEF OptionOutcome, GroupBy
<1>2. PICK o \in OfferedItems(table) : x = OptionOutcomeRow(Group(ItemKey(o)), runs, selections)
  BY <1>1
<1> DEFINE group == Group(ItemKey(o))
<1>3. o \in group /\ group \subseteq OfferedItems(table)
  OBVIOUS
<1> HIDE DEF group
<1>4. x.named = Listed(Any(group).game_version, Any(group).choice_source, Any(group).item_id)
  BY <1>2 DEF OptionOutcomeRow, group
<1>5. ASSUME NEW y \in OfferedItems(table)
      PROVE  Listed(y.game_version, y.choice_source, y.item_id)
  <2>1. PICK z \in ShownOptions(ProductRows(table, "upgrade_options_shown")) :
          /\ y.game_version = GameVersion(z.row) /\ y.item_id = z.option.item
          /\ y.choice_source = z.row.event.choice_source
    BY DEF OfferedItems
  <2>2. z.row \in RowsNamed(SilverEvents(table), "upgrade_options_shown")
        /\ z.option \in z.row.event.options
    BY DEF ShownOptions, ProductRows
  <2> QED BY <2>1, <2>2, ItemsAreListed
<1> QED BY <1>4, <1>3, <1>5, AnyOfGroup

\* Finitely many options are shown.
LEMMA ShownIsFinite ==
  ASSUME NEW table, TrustedTable(table), NEW rows \in SUBSET SilverEvents(table),
         \A row \in rows : row.event.event_name = "upgrade_options_shown"
  PROVE  IsFiniteSet(ShownOptions(rows))
<1> DEFINE Of(row) == {[row |-> row, option |-> option] : option \in row.event.options}
           all == {Of(row) : row \in rows}
<1>1. ASSUME NEW row \in rows PROVE IsFiniteSet(Of(row))
  <2> DEFINE f == [option \in row.event.options |-> [row |-> row, option |-> option]]
  <2>1. row.event \in Event /\ row.event.conforms /\ row.event.event_name = "upgrade_options_shown"
    BY TrustedRow
  <2>2. IsFiniteSet(row.event.options)
    BY <2>1, ColumnAssumption
  <2>3. Of(row) = {f[option] : option \in row.event.options}
    OBVIOUS
  <2> HIDE DEF f, Of
  <2> QED BY <2>2, <2>3, FiniteImage
<1>2. IsFiniteSet(all)
  <2> DEFINE f == [row \in rows |-> Of(row)]
  <2>1. IsFiniteSet(rows)
    BY RowsAreFinite, FS_Subset
  <2>2. all = {f[row] : row \in rows}
    OBVIOUS
  <2> HIDE DEF f, all
  <2> QED BY <2>1, <2>2, FiniteImage
<1>3. \A x \in all : IsFiniteSet(x)
  BY <1>1
<1> HIDE DEF all
<1>4. IsFiniteSet(UNION all)
  BY <1>2, <1>3, FS_UNION
<1> QED BY <1>4 DEF all, ShownOptions

\* weapon_popularity_ranges passes: a selected weapon was shown.
LEMMA SelectedWeaponsWereShown ==
  ASSUME NEW table, SoundTable(table), NEW x \in WeaponPopularity(table)
  PROVE  ~(x.selection_count > x.exposure_count)
<1>1. TrustedTable(table) /\ OneCopyPerRun(table)
  BY DEF SoundTable
<1> DEFINE selections == WeaponRows(table, "upgrade_selected")
           shown == ShownOptions(WeaponRows(table, "upgrade_options_shown"))
           Chosen(weapon) == {row \in selections : /\ GameVersion(row) = weapon.game_version
                                                   /\ SelectedItem(row) = weapon.item}
           Exposures(weapon) == {y \in shown : /\ GameVersion(y.row) = weapon.game_version
                                               /\ y.option.item = weapon.item}
<1>2. PICK weapon \in ItemCatalog :
        x = PopularityRow(weapon, ProductRunSummary(table), selections, shown)
  BY DEF WeaponPopularity
<1>3. /\ x.selection_count = Cardinality(Chosen(weapon))
      /\ x.exposure_count = Cardinality(Exposures(weapon))
  BY <1>2 DEF PopularityRow
<1>4. IsFiniteSet(Exposures(weapon))
  <2>1. /\ WeaponRows(table, "upgrade_options_shown") \in SUBSET SilverEvents(table)
        /\ \A row \in WeaponRows(table, "upgrade_options_shown") :
             row.event.event_name = "upgrade_options_shown"
    BY DEF WeaponRows, ProductRows, RowsNamed
  <2>2. IsFiniteSet(shown)
    BY <1>1, <2>1, ShownIsFinite
  <2>3. Exposures(weapon) \in SUBSET shown
    OBVIOUS
  <2> HIDE DEF shown, Exposures
  <2> QED BY <2>2, <2>3, FS_Subset
<1> DEFINE Answered(row) == {y \in Exposures(weapon) :
                               /\ y.row.run.run_id = row.run.run_id
                               /\ y.row.event.choice_id = row.event.choice_id}
           f == [row \in Chosen(weapon) |-> CHOOSE y \in Answered(row) : TRUE]
<1>5. \A row \in Chosen(weapon) : Answered(row) # {}
  <2> TAKE row \in Chosen(weapon)
  <2>1. /\ row \in RowsNamed(SilverEvents(table), "upgrade_selected")
        /\ SourceType(row) = ConsentedProdPlay
        /\ row.event.choice_source = "level_up_weapon"
        /\ GameVersion(row) = weapon.game_version /\ SelectedItem(row) = weapon.item
    BY DEF WeaponRows, ProductRows
  <2>2. PICK other \in RowsNamed(SilverEvents(table), "upgrade_options_shown") :
          /\ other.run.run_id = row.run.run_id
          /\ other.event.choice_id = row.event.choice_id
          /\ row.event.selected_option \in other.event.options
          /\ row.event.choice_source = other.event.choice_source
          /\ SourceType(other) = SourceType(row) /\ GameVersion(other) = GameVersion(row)
    BY <2>1, SelectionIsAnswer
  <2> DEFINE y == [row |-> other, option |-> row.event.selected_option]
  <2>3. other \in WeaponRows(table, "upgrade_options_shown")
    BY <2>1, <2>2 DEF WeaponRows, ProductRows
  <2>4. y \in shown
    BY <2>2, <2>3 DEF ShownOptions
  <2>5. y.row = other /\ y.option.item = SelectedItem(row)
    BY DEF SelectedItem
  <2> HIDE DEF y, shown
  <2>6. y \in Answered(row)
    BY <2>1, <2>2, <2>4, <2>5
  <2> QED BY <2>6
<1>6. \A row \in Chosen(weapon) : f[row] \in Answered(row)
  BY <1>5
<1>7. \A row \in Chosen(weapon) : row \in RowsNamed(SilverEvents(table), "upgrade_selected")
  BY DEF WeaponRows, ProductRows
<1> HIDE DEF f, Chosen, Exposures
<1>8. \A row, other \in Chosen(weapon) : f[row] = f[other] => row = other
  BY <1>6, <1>7, SelectionIsAnswer
<1>9. \A row \in Chosen(weapon) : f[row] \in Exposures(weapon)
  BY <1>6
<1>10. Cardinality(Chosen(weapon)) <= Cardinality(Exposures(weapon))
      /\ Cardinality(Chosen(weapon)) \in Nat /\ Cardinality(Exposures(weapon)) \in Nat
  BY <1>4, <1>8, <1>9, NoMoreThan
<1> QED BY <1>3, <1>10

\* QUALITY_CHECKS stops no load of sound Runs, whatever they are.
LEMMA NoCheckFails ==
  ASSUME NEW table, SoundTable(table)
  PROVE  FailedChecks(table) = {}
<1>1. \A run \in RunSummary(table) : ~InconsistentRun(run)
  BY SummariesAreConsistent
<1>2. \A x \in ItemPerformance(table) : x.named
  BY PerformedItemsAreListed
<1>3. \A x \in WeaponPopularity(table) : ~(x.selection_count > x.exposure_count)
  BY SelectedWeaponsWereShown
<1>4. \A x \in WeaponPerformance(table) : x.named
  BY StartingWeaponsAreListed
<1>5. \A x \in OptionOutcome(table) : x.named
  BY OfferedItemsAreListed
<1>6. \A row \in ProductRows(table, "upgrade_selected") : SelectionListed(row)
  BY ItemsAreListed DEF ProductRows
<1>7. \A x \in CheckpointMetrics(table) : ~(x.average_xp_to_next_level <= 0)
  BY CheckpointsAreInRange
<1> QED BY <1>1, <1>2, <1>3, <1>4, <1>5, <1>6, <1>7 DEF FailedChecks

\* What the gate looks at is a trusted table.
LEMMA SnapshotIsTrusted == GoldInv => TrustedTable(snapshot)
<1>1. SUFFICES ASSUME GoldInv PROVE TrustedTable(snapshot)
  OBVIOUS
<1>2. CASE snapshot \in SilverTable
  BY <1>2, PublishedAssumption
<1>3. CASE snapshot = [d \in {} |-> {}]
  <2>1. DOMAIN snapshot = {} /\ Copies(snapshot) = {}
    BY <1>3 DEF Copies
  <2> QED BY <2>1, FS_EmptySet DEF TrustedTable
<1> QED BY <1>1, <1>2, <1>3 DEF GoldInv, TypeInv

\* check_gold_quality raises no false alarm: however DAG runs and command lines
\* follow one another, sound Runs that stand there once fail none of the checks.
THEOREM NoFalseAlarmHolds == Spec => []GateRaisesNoFalseAlarm
<1>1. GoldInv => GateRaisesNoFalseAlarm
  BY SnapshotIsTrusted, NoCheckFails DEF GateRaisesNoFalseAlarm, SoundTable
<1> QED BY <1>1, GoldInvariant, PTL

-----------------------------------------------------------------------------
(* Views that count the same rows.                                         *)

\* Product rows are finitely many published rows.
LEMMA ProductRowFacts ==
  ASSUME NEW table, TrustedTable(table), NEW name
  PROVE  /\ IsFiniteSet(ProductRows(table, name))
         /\ ProductRows(table, name) \subseteq SilverEvents(table)
         /\ \A row \in ProductRows(table, name) :
              row.event.event_name = name /\ SourceType(row) = ConsentedProdPlay
<1>1. ProductRows(table, name) \in SUBSET SilverEvents(table)
  BY DEF ProductRows, RowsNamed
<1>2. IsFiniteSet(ProductRows(table, name))
  BY <1>1, RowsAreFinite, FS_Subset
<1> QED BY <1>1, <1>2 DEF ProductRows, RowsNamed

\* PRODUCT_RUN_OUTCOME counts every product end once.
LEMMA OutcomesAddUp ==
  ASSUME NEW table, TrustedTable(table)
  PROVE  SumOf(RunOutcome(table), LAMBDA x : x.ended_run_count) =
           Cardinality(ProductRows(table, "run_ended"))
<1> DEFINE rows == ProductRows(table, "run_ended")
           Group(reason) == {row \in rows : row.event.end_reason = reason}
           key == [row \in rows |-> OutcomeRow(Group(row.event.end_reason))]
           total == [x \in RunOutcome(table) |-> x.ended_run_count]
<1>1. RunOutcome(table) = {OutcomeRow(Group(reason)) : reason \in {row.event.end_reason : row \in rows}}
  BY DEF RunOutcome, GroupBy
<1>2. RunOutcome(table) = {key[row] : row \in rows}
  <2>1. \A row \in rows : key[row] = OutcomeRow(Group(row.event.end_reason))
    OBVIOUS
  <2> HIDE DEF key, Group, rows
  <2> QED BY <1>1, <2>1
<1>3. IsFiniteSet(rows)
  BY ProductRowFacts
<1>4. \A row \in rows : /\ key[row] = OutcomeRow(Group(row.event.end_reason))
                        /\ key[row].end_reason = row.event.end_reason
                        /\ key[row].ended_run_count = Cardinality(Group(row.event.end_reason))
  <2> TAKE row \in rows
  <2>1. key[row] = OutcomeRow(Group(row.event.end_reason))
    OBVIOUS
  <2>2. row \in Group(row.event.end_reason)
    OBVIOUS
  <2>3. \A other \in Group(row.event.end_reason) : other.event.end_reason = row.event.end_reason
    OBVIOUS
  <2> HIDE DEF Group, key
  <2>4. Any(Group(row.event.end_reason)).event.end_reason = row.event.end_reason
    BY <2>2, <2>3, AnyOfGroup
  <2> QED BY <2>1, <2>4 DEF OutcomeRow
<1>5. \A x \in RunOutcome(table) : total[x] = Cardinality(Fibre(rows, key, x))
  <2> TAKE x \in RunOutcome(table)
  <2>1. PICK row \in rows : x = key[row]
    BY <1>2
  <2>2. Fibre(rows, key, x) = Group(row.event.end_reason)
    <3>1. \A other \in rows : key[other] = x <=> other.event.end_reason = row.event.end_reason
      <4> HIDE DEF key, rows, Group
      <4> QED BY <1>4, <2>1
    <3>2. Group(row.event.end_reason)
            = {other \in rows : other.event.end_reason = row.event.end_reason}
      OBVIOUS
    <3> HIDE DEF key, rows, Group
    <3>3. Fibre(rows, key, x) = {other \in rows : key[other] = x}
      BY DEF Fibre
    <3> QED BY <3>1, <3>2, <3>3
  <2>3. total[x] = x.ended_run_count
    OBVIOUS
  <2> HIDE DEF total, key, Group
  <2> QED BY <1>4, <2>1, <2>2, <2>3
<1>6. SumOf(RunOutcome(table), LAMBDA x : x.ended_run_count) = SumOver(total, RunOutcome(table))
  BY DEF SumOf, SumOver
<1> HIDE DEF rows, key, total
<1>7. IsFiniteSet(RunOutcome(table)) /\ \A row \in rows : key[row] \in RunOutcome(table)
  BY <1>2, <1>3, FiniteImage
<1>8. SumOver(total, RunOutcome(table)) = Cardinality(rows)
  BY <1>3, <1>5, <1>7, CountByGroups
<1> QED BY <1>6, <1>8 DEF rows

\* PRODUCT_CHECKPOINT_METRICS counts every product checkpoint once.
LEMMA CheckpointsAddUp ==
  ASSUME NEW table, TrustedTable(table)
  PROVE  SumOf(CheckpointMetrics(table), LAMBDA x : x.checkpoint_event_count) =
           Cardinality(ProductRows(table, "run_checkpoint"))
<1> DEFINE rows == ProductRows(table, "run_checkpoint")
           Group(number) == {row \in rows : row.event.checkpoint_number = number}
           key == [row \in rows |-> CheckpointRow(Group(row.event.checkpoint_number))]
           total == [x \in CheckpointMetrics(table) |-> x.checkpoint_event_count]
<1>1. CheckpointMetrics(table) =
        {CheckpointRow(Group(number)) : number \in {row.event.checkpoint_number : row \in rows}}
  BY DEF CheckpointMetrics, GroupBy
<1>2. CheckpointMetrics(table) = {key[row] : row \in rows}
  <2>1. \A row \in rows : key[row] = CheckpointRow(Group(row.event.checkpoint_number))
    OBVIOUS
  <2> HIDE DEF key, Group, rows
  <2> QED BY <1>1, <2>1
<1>3. IsFiniteSet(rows)
  BY ProductRowFacts
<1>4. \A row \in rows :
        /\ key[row] = CheckpointRow(Group(row.event.checkpoint_number))
        /\ key[row].checkpoint_number = row.event.checkpoint_number
        /\ key[row].checkpoint_event_count = Cardinality(Group(row.event.checkpoint_number))
  <2> TAKE row \in rows
  <2>1. key[row] = CheckpointRow(Group(row.event.checkpoint_number))
    OBVIOUS
  <2>2. row \in Group(row.event.checkpoint_number)
    OBVIOUS
  <2>3. \A other \in Group(row.event.checkpoint_number) :
          other.event.checkpoint_number = row.event.checkpoint_number
    OBVIOUS
  <2> HIDE DEF Group, key
  <2>4. Any(Group(row.event.checkpoint_number)).event.checkpoint_number
          = row.event.checkpoint_number
    BY <2>2, <2>3, AnyOfGroup
  <2> QED BY <2>1, <2>4 DEF CheckpointRow
<1>5. \A x \in CheckpointMetrics(table) : total[x] = Cardinality(Fibre(rows, key, x))
  <2> TAKE x \in CheckpointMetrics(table)
  <2>1. PICK row \in rows : x = key[row]
    BY <1>2
  <2>2. Fibre(rows, key, x) = Group(row.event.checkpoint_number)
    <3>1. \A other \in rows :
            key[other] = x <=> other.event.checkpoint_number = row.event.checkpoint_number
      <4> HIDE DEF key, rows, Group
      <4> QED BY <1>4, <2>1
    <3>2. Group(row.event.checkpoint_number)
            = {other \in rows : other.event.checkpoint_number = row.event.checkpoint_number}
      OBVIOUS
    <3> HIDE DEF key, rows, Group
    <3>3. Fibre(rows, key, x) = {other \in rows : key[other] = x}
      BY DEF Fibre
    <3> QED BY <3>1, <3>2, <3>3
  <2>3. total[x] = x.checkpoint_event_count
    OBVIOUS
  <2> HIDE DEF total, key, Group
  <2> QED BY <1>4, <2>1, <2>2, <2>3
<1>6. SumOf(CheckpointMetrics(table), LAMBDA x : x.checkpoint_event_count)
        = SumOver(total, CheckpointMetrics(table))
  BY DEF SumOf, SumOver
<1> HIDE DEF rows, key, total
<1>7. IsFiniteSet(CheckpointMetrics(table))
      /\ \A row \in rows : key[row] \in CheckpointMetrics(table)
  BY <1>2, <1>3, FiniteImage
<1>8. SumOver(total, CheckpointMetrics(table)) = Cardinality(rows)
  BY <1>3, <1>5, <1>7, CountByGroups
<1> QED BY <1>6, <1>8 DEF rows

\* There are finitely many product Runs, one per run_id.
LEMMA ProductSummaryFacts ==
  ASSUME NEW table, TrustedTable(table), OneCopyPerRun(table)
  PROVE  /\ IsFiniteSet(ProductRunSummary(table))
         /\ \A run, other \in ProductRunSummary(table) :
              run.run_id = other.run_id => run = other
         /\ \A row \in SilverEvents(table) : SourceType(row) = ConsentedProdPlay =>
              /\ Summary(RunRows(table, row.run.run_id)) \in ProductRunSummary(table)
              /\ Summary(RunRows(table, row.run.run_id)).run_id = row.run.run_id
<1> DEFINE f == [row \in SilverEvents(table) |-> Summary(RunRows(table, row.run.run_id))]
           all == {f[row] : row \in SilverEvents(table)}
<1>1. IsFiniteSet(all)
  BY RowsAreFinite, FiniteImage
<1>2. ProductRunSummary(table) \in SUBSET all
  BY SummaryOfRows
<1> HIDE DEF all
<1>3. IsFiniteSet(ProductRunSummary(table))
  BY <1>1, <1>2, FS_Subset
<1>4. \A run, other \in ProductRunSummary(table) : run.run_id = other.run_id => run = other
  BY SummaryOfRows
<1>5. \A row \in SilverEvents(table) : SourceType(row) = ConsentedProdPlay =>
        /\ Summary(RunRows(table, row.run.run_id)) \in ProductRunSummary(table)
        /\ Summary(RunRows(table, row.run.run_id)).run_id = row.run.run_id
  BY SummaryOfRows, SummaryFacts
<1> QED BY <1>3, <1>4, <1>5

\* A column of RUN_SUMMARY that counts a Run's rows of one name adds up to the
\* product rows of that name.
LEMMA SummariesAddUp ==
  ASSUME NEW table, TrustedTable(table), OneCopyPerRun(table), NEW name, NEW total,
         \A run \in ProductRunSummary(table) : \A rows : run = Summary(rows) =>
           total[run] = Cardinality(RowsNamed(rows, name))
  PROVE  SumOver(total, ProductRunSummary(table)) = Cardinality(ProductRows(table, name))
<1> DEFINE rows == ProductRows(table, name)
           key == [row \in rows |-> Summary(RunRows(table, row.run.run_id))]
<1>1. \A row \in rows : /\ row \in SilverEvents(table) /\ SourceType(row) = ConsentedProdPlay
                        /\ row.event.event_name = name
  BY ProductRowFacts
<1>2. \A row \in rows : key[row] = Summary(RunRows(table, row.run.run_id))
  OBVIOUS
<1>3. \A row \in rows : key[row] \in ProductRunSummary(table) /\ key[row].run_id = row.run.run_id
  <2> HIDE DEF rows, key
  <2> QED BY <1>1, <1>2, ProductSummaryFacts
<1>4. \A run \in ProductRunSummary(table) : total[run] = Cardinality(Fibre(rows, key, run))
  <2> TAKE run \in ProductRunSummary(table)
  <2>1. PICK row \in SilverEvents(table) :
          /\ run = Summary(RunRows(table, row.run.run_id)) /\ run.run_id = row.run.run_id
          /\ SourceType(row) = ConsentedProdPlay
    BY SummaryOfRows
  <2>2. \A other \in RunRows(table, row.run.run_id) :
          other \in SilverEvents(table) /\ SourceType(other) = SourceType(row)
    BY SiblingFacts DEF RunRows
  <2>3. \A other : other \in RowsNamed(RunRows(table, row.run.run_id), name) <=>
                   other \in rows /\ other.run.run_id = row.run.run_id
    BY <2>1, <2>2 DEF RunRows, RowsNamed, ProductRows
  <2>4. \A other \in rows : key[other] = run <=> other.run.run_id = row.run.run_id
    <3> HIDE DEF rows
    <3> QED BY <1>2, <1>3, <2>1
  <2> HIDE DEF rows, key
  <2>5. RowsNamed(RunRows(table, row.run.run_id), name) = Fibre(rows, key, run)
    BY <2>3, <2>4 DEF Fibre
  <2> QED BY <2>1, <2>5
<1> HIDE DEF rows, key
<1>5. IsFiniteSet(rows)
  BY ProductRowFacts DEF rows
<1>6. IsFiniteSet(ProductRunSummary(table))
  BY ProductSummaryFacts
<1> QED BY <1>3, <1>4, <1>5, <1>6, CountByGroups DEF rows

\* Its columns checkpoint_count and upgrade_selected_count.
LEMMA CountsAddUp ==
  ASSUME NEW table, TrustedTable(table), OneCopyPerRun(table)
  PROVE  /\ SumOf(ProductRunSummary(table), LAMBDA run : run.checkpoint_count) =
              Cardinality(ProductRows(table, "run_checkpoint"))
         /\ SumOf(ProductRunSummary(table), LAMBDA run : run.upgrade_selected_count) =
              Cardinality(ProductRows(table, "upgrade_selected"))
<1> DEFINE checkpoints == [run \in ProductRunSummary(table) |-> run.checkpoint_count]
           selected == [run \in ProductRunSummary(table) |-> run.upgrade_selected_count]
<1>1. \A rows : /\ Summary(rows).checkpoint_count = Cardinality(RowsNamed(rows, "run_checkpoint"))
                /\ Summary(rows).upgrade_selected_count =
                     Cardinality(RowsNamed(rows, "upgrade_selected"))
  BY DEF Summary
<1>2. /\ SumOf(ProductRunSummary(table), LAMBDA run : run.checkpoint_count) =
           SumOver(checkpoints, ProductRunSummary(table))
      /\ SumOf(ProductRunSummary(table), LAMBDA run : run.upgrade_selected_count) =
           SumOver(selected, ProductRunSummary(table))
  BY DEF SumOf, SumOver
<1>3. \A run \in ProductRunSummary(table) : \A rows : run = Summary(rows) =>
        /\ checkpoints[run] = Cardinality(RowsNamed(rows, "run_checkpoint"))
        /\ selected[run] = Cardinality(RowsNamed(rows, "upgrade_selected"))
  BY <1>1
<1> HIDE DEF checkpoints, selected
<1> QED BY <1>2, <1>3, SummariesAddUp

\* A product Run that ended has one end.
LEMMA EndsAreRuns ==
  ASSUME NEW table, TrustedTable(table), OneCopyPerRun(table)
  PROVE  Cardinality(ProductRows(table, "run_ended")) = Cardinality(EndedProductRuns(table))
<1> DEFINE rows == ProductRows(table, "run_ended")
           ended == EndedProductRuns(table)
           f == [row \in rows |-> Summary(RunRows(table, row.run.run_id))]
           Ends(run) == {row \in rows : row.run.run_id = run.run_id}
           g == [run \in ended |-> CHOOSE row \in Ends(run) : TRUE]
<1>1. IsFiniteSet(rows) /\ \A row \in rows : /\ row \in SilverEvents(table)
                                            /\ row.event.event_name = "run_ended"
                                            /\ SourceType(row) = ConsentedProdPlay
  BY ProductRowFacts
<1>2. IsFiniteSet(ended)
  <2>1. ended \in SUBSET ProductRunSummary(table)
    BY DEF EndedProductRuns
  <2> QED BY <2>1, ProductSummaryFacts, FS_Subset
<1>3. \A row \in rows : f[row] \in ended /\ f[row].run_id = row.run.run_id
  <2> TAKE row \in rows
  <2>1. f[row] = Summary(RunRows(table, row.run.run_id))
    OBVIOUS
  <2>2. row \in RowsNamed(RunRows(table, row.run.run_id), "run_ended")
    BY <1>1 DEF RowsNamed, RunRows
  <2> HIDE DEF f
  <2>3. f[row].is_ended
    BY <1>1, <2>1, <2>2, SummaryFacts
  <2> QED BY <1>1, <2>1, <2>3, ProductSummaryFacts DEF EndedProductRuns
<1>4. \A row, other \in rows : row.run.run_id = other.run.run_id => row = other
  <2> SUFFICES ASSUME NEW row \in rows, NEW other \in rows, row.run.run_id = other.run.run_id
               PROVE  row = other
    OBVIOUS
  <2>1. ~Clash(row.event, other.event) /\ (row.event = other.event => row = other)
    BY <1>1, SiblingFacts
  <2>2. row.event = other.event
    BY <1>1, <2>1 DEF Clash, SameIdentity
  <2> QED BY <2>1, <2>2
<1>5. \A run \in ended : Ends(run) # {}
  <2> TAKE run \in ended
  <2>1. run \in ProductRunSummary(table) /\ run.is_ended
    BY DEF EndedProductRuns
  <2>2. PICK row \in SilverEvents(table) :
          /\ run = Summary(RunRows(table, row.run.run_id)) /\ run.run_id = row.run.run_id
          /\ SourceType(row) = ConsentedProdPlay
    BY <2>1, SummaryOfRows
  <2>3. PICK end \in RowsNamed(RunRows(table, row.run.run_id), "run_ended") : TRUE
    BY <2>1, <2>2, SummaryFacts
  <2>4. end \in SilverEvents(table) /\ end.run.run_id = row.run.run_id
        /\ end.event.event_name = "run_ended"
    BY DEF RowsNamed, RunRows
  <2>5. SourceType(end) = ConsentedProdPlay
    BY <2>2, <2>4, SiblingFacts
  <2> QED BY <2>2, <2>4, <2>5 DEF ProductRows, RowsNamed
<1>6. \A run \in ended : g[run] \in rows /\ g[run].run.run_id = run.run_id
  BY <1>5
<1> HIDE DEF rows, ended, f, g
<1>7. \A row, other \in rows : f[row] = f[other] => row = other
  BY <1>3, <1>4
<1>8. \A run, other \in ended : g[run] = g[other] => run = other
  BY <1>6, ProductSummaryFacts DEF ended, EndedProductRuns
<1>9. Cardinality(rows) <= Cardinality(ended)
      /\ Cardinality(rows) \in Nat /\ Cardinality(ended) \in Nat
  BY <1>2, <1>3, <1>7, NoMoreThan
<1>10. Cardinality(ended) <= Cardinality(rows)
  BY <1>1, <1>6, <1>8, NoMoreThan
<1> QED BY <1>9, <1>10 DEF rows, ended

\* No Run skips a checkpoint number in PRODUCT_RUN_PROGRESSION.
LEMMA ReachedFallsOff ==
  ASSUME NEW table, TrustedTable(table), OneCopyPerRun(table), NEW x \in RunProgression(table)
  PROVE  x.reached_run_count <= x.previous_reached_run_count
<1> DEFINE begun == {run \in ProductRunSummary(table) : run.is_started}
           Group(version) == {run \in begun : run.game_version = version}
           Most(runs) == Max({run.highest_checkpoint_number : run \in runs})
<1>1. PICK first \in begun :
        \E number \in 1 .. Most(Group(first.game_version)) :
          x = ProgressionRow(Group(first.game_version), number)
  BY DEF RunProgression, GroupBy
<1> DEFINE runs == Group(first.game_version)
           f == [run \in runs |-> run.highest_checkpoint_number]
<1>2. PICK number \in 1 .. Most(runs) : x = ProgressionRow(runs, number)
  BY <1>1
<1>3. first \in runs /\ runs \in SUBSET ProductRunSummary(table)
  OBVIOUS
<1>4. IsFiniteSet(runs)
  BY <1>3, ProductSummaryFacts, FS_Subset
<1>5. \A run \in runs : f[run] = run.highest_checkpoint_number
  OBVIOUS
<1>6. {run.highest_checkpoint_number : run \in runs} = {f[run] : run \in runs}
  BY <1>5
<1> HIDE DEF runs, f
<1>7. ASSUME NEW run \in runs PROVE f[run] \in Nat
  <2>1. PICK row \in SilverEvents(table) : run = Summary(RunRows(table, row.run.run_id))
    BY <1>3, SummaryOfRows
  <2> DEFINE rows == RowsNamed(RunRows(table, row.run.run_id), "run_checkpoint")
             h == [r \in rows |-> r.event.checkpoint_number]
  <2>2. run.highest_checkpoint_number = MaxOf({r.event.checkpoint_number : r \in rows})
    BY <2>1 DEF Summary
  <2>3. \A r \in rows : h[r] = r.event.checkpoint_number /\ h[r] \in Nat
    <3> TAKE r \in rows
    <3>1. r \in SilverEvents(table)
      BY DEF RowsNamed, RunRows
    <3>2. r.event \in Event
      BY <3>1, TrustedRow
    <3> QED BY <3>2, EventAssumption
  <2>4. {r.event.checkpoint_number : r \in rows} = {h[r] : r \in rows}
    BY <2>3
  <2>5. IsFiniteSet(rows)
    <3>1. rows \in SUBSET SilverEvents(table)
      BY DEF RowsNamed, RunRows
    <3> QED BY <3>1, RowsAreFinite, FS_Subset
  <2> HIDE DEF h, rows
  <2>6. MaxOf({h[r] : r \in rows}) \in Nat
    <3>1. \A r \in rows : h[r] \in Nat
      BY <2>3
    <3> QED BY <2>5, <3>1, ColumnMax
  <2> QED BY <1>5, <2>2, <2>4, <2>6
<1>8. Most(runs) \in Int
  <2> DEFINE numbers == {f[run] : run \in runs}
  <2>1. numbers \in SUBSET Int /\ numbers # {}
    BY <1>3, <1>7
  <2>2. IsFiniteSet(numbers)
    BY <1>4, FiniteImage
  <2> HIDE DEF numbers
  <2>3. Max(numbers) \in Int
    BY <2>1, <2>2, MaxFacts
  <2> QED BY <1>6, <2>3 DEF numbers
<1>9. number \in Nat \ {0}
  BY <1>8
<1> DEFINE Reached(n) == {run \in runs : run.highest_checkpoint_number >= n}
<1>10. /\ x.reached_run_count = Cardinality(Reached(number))
       /\ x.previous_reached_run_count =
            IF number = 1 THEN Cardinality(runs) ELSE Cardinality(Reached(number - 1))
  BY <1>2 DEF ProgressionRow, ReachedRuns
<1>11. CASE number = 1
  <2>1. Reached(number) \in SUBSET runs
    OBVIOUS
  <2> HIDE DEF Reached
  <2>2. Cardinality(Reached(number)) <= Cardinality(runs)
    BY <1>4, <2>1, FS_Subset
  <2> QED BY <1>10, <1>11, <2>2
<1>12. CASE number # 1
  <2>1. Reached(number) \in SUBSET Reached(number - 1)
    BY <1>5, <1>7, <1>9
  <2>2. Reached(number - 1) \in SUBSET runs
    OBVIOUS
  <2> HIDE DEF Reached
  <2>3. IsFiniteSet(Reached(number - 1))
    BY <1>4, <2>2, FS_Subset
  <2>4. Cardinality(Reached(number)) <= Cardinality(Reached(number - 1))
    BY <2>1, <2>3, FS_Subset
  <2> QED BY <1>10, <1>12, <2>4
<1> QED BY <1>11, <1>12

-----------------------------------------------------------------------------
(* Selections, their outcomes and the items they were of.                  *)

\* RUN_ITEM_SELECTIONS counts every product selection once.
LEMMA SelectionsAddUp ==
  ASSUME NEW table, TrustedTable(table), OneCopyPerRun(table), NEW total,
         \A s \in RunItemSelections(table) : total[s] = s.selection_count_in_run
  PROVE  /\ IsFiniteSet(RunItemSelections(table))
         /\ \A s \in RunItemSelections(table) : s.selection_count_in_run \in Nat
         /\ SumOver(total, RunItemSelections(table)) =
              Cardinality(ProductRows(table, "upgrade_selected"))
<1> DEFINE rows == ProductRows(table, "upgrade_selected")
           Of(row) == ItemRows(table, row.run.run_id, SelectedItem(row))
           key == [row \in rows |-> RunItemSelection(Of(row))]
<1>1. \A row \in rows : /\ key[row] = RunItemSelection(Of(row))
                        /\ key[row].run_id = row.run.run_id
                        /\ key[row].item_id = SelectedItem(row)
                        /\ key[row].selection_count_in_run = Cardinality(Of(row))
                        /\ IsFiniteSet(Of(row))
  BY ItemSelectionFacts
<1>2. RunItemSelections(table) = {key[row] : row \in rows}
  <2>1. RunItemSelections(table) = {RunItemSelection(Of(row)) : row \in rows}
    BY ItemSelectionFacts
  <2> HIDE DEF key, Of, rows
  <2> QED BY <1>1, <2>1
<1>3. IsFiniteSet(rows)
  BY ProductRowFacts
<1>4. \A s \in RunItemSelections(table) : total[s] = Cardinality(Fibre(rows, key, s))
  <2> TAKE s \in RunItemSelections(table)
  <2>1. PICK row \in rows : s = key[row]
    BY <1>2
  <2>2. \A other \in rows : key[other] = s <=> /\ other.run.run_id = row.run.run_id
                                              /\ SelectedItem(other) = SelectedItem(row)
    <3> HIDE DEF key, rows
    <3> QED BY <1>1, <2>1
  <2>3. \A other : other \in Of(row) <=> /\ other \in rows
                                         /\ other.run.run_id = row.run.run_id
                                         /\ SelectedItem(other) = SelectedItem(row)
    BY DEF ItemRows
  <2> HIDE DEF key, rows, Of
  <2>4. Fibre(rows, key, s) = Of(row)
    BY <2>2, <2>3 DEF Fibre
  <2> QED BY <1>1, <2>1, <2>4
<1> HIDE DEF rows, key, Of
<1>5. IsFiniteSet(RunItemSelections(table))
      /\ \A row \in rows : key[row] \in RunItemSelections(table)
  BY <1>2, <1>3, FiniteImage
<1>6. SumOver(total, RunItemSelections(table)) = Cardinality(rows)
  BY <1>3, <1>4, <1>5, CountByGroups
<1>7. \A s \in RunItemSelections(table) : s.selection_count_in_run \in Nat
  BY <1>1, <1>2, FS_CardinalityType
<1> QED BY <1>5, <1>6, <1>7 DEF rows

\* SELECTION_OUTCOMES has one row per row of RUN_ITEM_SELECTIONS.
LEMMA OutcomeFacts ==
  ASSUME NEW table, TrustedTable(table), OneCopyPerRun(table)
  PROVE  /\ IsFiniteSet(SelectionOutcomes(table))
         /\ \A x \in SelectionOutcomes(table) :
              /\ x.selection \in RunItemSelections(table) /\ x.run \in ProductRunSummary(table)
              /\ x.selection.run_id = x.run.run_id
         /\ \A x, y \in SelectionOutcomes(table) : x.selection = y.selection => x = y
         /\ \A s \in RunItemSelections(table) :
              \E x \in SelectionOutcomes(table) : x.selection = s
<1>1. \A x : x \in SelectionOutcomes(table) <=>
        \E s \in RunItemSelections(table), run \in ProductRunSummary(table) :
          x = [selection |-> s, run |-> run] /\ s.run_id = run.run_id
  BY DEF SelectionOutcomes
<1>2. \A x \in SelectionOutcomes(table) :
        /\ x.selection \in RunItemSelections(table) /\ x.run \in ProductRunSummary(table)
        /\ x.selection.run_id = x.run.run_id
        /\ x = [selection |-> x.selection, run |-> x.run]
  BY <1>1
<1>3. \A x, y \in SelectionOutcomes(table) : x.selection = y.selection => x = y
  <2> SUFFICES ASSUME NEW x \in SelectionOutcomes(table), NEW y \in SelectionOutcomes(table),
                      x.selection = y.selection
               PROVE  x = y
    OBVIOUS
  <2>1. x.run = y.run
    BY <1>2, ProductSummaryFacts
  <2> QED BY <1>2, <2>1
<1>4. \A s \in RunItemSelections(table) : \E x \in SelectionOutcomes(table) : x.selection = s
  <2> TAKE s \in RunItemSelections(table)
  <2>1. PICK row \in ProductRows(table, "upgrade_selected") : s.run_id = row.run.run_id
    BY ItemSelectionFacts
  <2> DEFINE run == Summary(RunRows(table, row.run.run_id))
  <2>2. run \in ProductRunSummary(table) /\ run.run_id = row.run.run_id
    BY ProductRowFacts, ProductSummaryFacts
  <2> HIDE DEF run
  <2>3. [selection |-> s, run |-> run] \in SelectionOutcomes(table)
    BY <1>1, <2>1, <2>2
  <2> QED BY <2>3
<1>5. IsFiniteSet(SelectionOutcomes(table))
  <2> DEFINE f == [x \in SelectionOutcomes(table) |-> x.selection]
             total == [s \in RunItemSelections(table) |-> s.selection_count_in_run]
  <2>1. IsFiniteSet(RunItemSelections(table))
    <3>1. \A s \in RunItemSelections(table) : total[s] = s.selection_count_in_run
      OBVIOUS
    <3> HIDE DEF total
    <3> QED BY <3>1, SelectionsAddUp
  <2>2. \A x \in SelectionOutcomes(table) : f[x] \in RunItemSelections(table)
    BY <1>2
  <2>3. \A x, y \in SelectionOutcomes(table) : f[x] = f[y] => x = y
    BY <1>3
  <2> HIDE DEF f
  <2> QED BY <2>1, <2>2, <2>3, NoMoreThan
<1> QED BY <1>2, <1>3, <1>4, <1>5

\* So does its sum.
LEMMA OutcomeSelectionsAddUp ==
  ASSUME NEW table, TrustedTable(table), OneCopyPerRun(table), NEW f,
         \A x \in SelectionOutcomes(table) : f[x] = x.selection.selection_count_in_run
  PROVE  SumOver(f, SelectionOutcomes(table)) =
           Cardinality(ProductRows(table, "upgrade_selected"))
<1> DEFINE S == SelectionOutcomes(table)
           K == RunItemSelections(table)
           key == [x \in S |-> x.selection]
           total == [s \in K |-> s.selection_count_in_run]
<1>1. \A s \in K : total[s] = s.selection_count_in_run
  OBVIOUS
<1>2. \A x \in S : key[x] = x.selection /\ key[x] \in K
  BY OutcomeFacts
<1> HIDE DEF key, total
<1>3. /\ IsFiniteSet(K) /\ \A s \in K : s.selection_count_in_run \in Nat
      /\ SumOver(total, K) = Cardinality(ProductRows(table, "upgrade_selected"))
  BY <1>1, SelectionsAddUp
<1>4. IsFiniteSet(S)
  BY OutcomeFacts
<1>5. \A x \in S : f[x] \in Nat
  BY <1>2, <1>3
<1>6. \A s \in K : total[s] = SumOver(f, Fibre(S, key, s))
  <2> TAKE s \in K
  <2>1. PICK x \in S : x.selection = s
    BY OutcomeFacts
  <2>2. Fibre(S, key, s) = {x}
    BY <1>2, <2>1, OutcomeFacts DEF Fibre
  <2>3. SumOver(f, {x}) = f[x]
    <3>1. IsFiniteSet({x}) /\ IsFiniteSet({}) /\ {x} \ {x} = {}
      BY FS_Singleton, FS_EmptySet
    <3>2. SumOver(f, {}) = 0
      BY <3>1, SumFacts
    <3>3. SumOver(f, {x}) = f[x] + SumOver(f, {x} \ {x})
      BY <1>5, <3>1, SumFacts
    <3> QED BY <1>5, <3>1, <3>2, <3>3
  <2> QED BY <1>1, <2>1, <2>2, <2>3
<1> HIDE DEF S, K
<1>7. SumOver(total, K) = SumOver(f, S)
  BY <1>2, <1>3, <1>4, <1>5, <1>6, SumByGroups
<1> QED BY <1>3, <1>7 DEF S

\* The rows of SELECTION_OUTCOMES that an outcome is grouped with.
WithPostKey(table, x) ==
  {y \in SelectionOutcomes(table) : PostSelectionKey(y) = PostSelectionKey(x)}

\* The row of PRODUCT_UPGRADE_POST_SELECTION they make.
PostRow(table, x) == PostSelectionRow(WithPostKey(table, x))

\* The item an outcome is of.
Outcome(x) == ItemKey(x.selection)

\* PRODUCT_UPGRADE_POST_SELECTION row by row.
LEMMA PostSelectionFacts ==
  ASSUME NEW table, TrustedTable(table), OneCopyPerRun(table)
  PROVE  /\ UpgradePostSelection(table) =
              {PostRow(table, x) : x \in SelectionOutcomes(table)}
         /\ IsFiniteSet(UpgradePostSelection(table))
         /\ \A x \in SelectionOutcomes(table) :
              /\ ItemKey(PostRow(table, x)) = Outcome(x)
              /\ x \in WithPostKey(table, x) /\ IsFiniteSet(WithPostKey(table, x))
              /\ PostRow(table, x).selection_count =
                   SumOf(WithPostKey(table, x), LAMBDA y : y.selection.selection_count_in_run)
              /\ PostRow(table, x).selected_run_count = Cardinality(WithPostKey(table, x))
              /\ PostRow(table, x).outcome_observed_run_count =
                   Cardinality({y \in WithPostKey(table, x) : y.run.is_ended})
         /\ \A x, y \in SelectionOutcomes(table) :
              PostRow(table, x) = PostRow(table, y) <=> y \in WithPostKey(table, x)
<1> DEFINE all == SelectionOutcomes(table)
           Group(key) == {x \in all : PostSelectionKey(x) = key}
<1>1. UpgradePostSelection(table) = {PostRow(table, x) : x \in all}
  <2>1. UpgradePostSelection(table) =
          {PostSelectionRow(Group(key)) : key \in {PostSelectionKey(x) : x \in all}}
    BY DEF UpgradePostSelection, GroupBy
  <2>2. \A x \in all : PostSelectionRow(Group(PostSelectionKey(x))) = PostRow(table, x)
    BY DEF PostRow, WithPostKey
  <2> HIDE DEF Group, all
  <2> QED BY <2>1, <2>2
<1>2. IsFiniteSet(all)
  BY OutcomeFacts
<1>3. IsFiniteSet(UpgradePostSelection(table))
  <2> DEFINE f == [x \in all |-> PostRow(table, x)]
  <2>1. \A x \in all : f[x] = PostRow(table, x)
    OBVIOUS
  <2> HIDE DEF f, all
  <2>2. IsFiniteSet({f[x] : x \in all})
    BY <1>2, FiniteImage
  <2>3. UpgradePostSelection(table) = {f[x] : x \in all}
    BY <1>1, <2>1
  <2> QED BY <2>2, <2>3
<1>4. ASSUME NEW x \in all
      PROVE  /\ x \in WithPostKey(table, x) /\ IsFiniteSet(WithPostKey(table, x))
             /\ PostRow(table, x).selection_count =
                  SumOf(WithPostKey(table, x), LAMBDA y : y.selection.selection_count_in_run)
             /\ PostRow(table, x).selected_run_count = Cardinality(WithPostKey(table, x))
             /\ PostRow(table, x).outcome_observed_run_count =
                  Cardinality({y \in WithPostKey(table, x) : y.run.is_ended})
             /\ PostRow(table, x).game_version = x.selection.game_version
             /\ PostRow(table, x).choice_source = x.selection.choice_source
             /\ PostRow(table, x).item_id = x.selection.item_id
             /\ PostRow(table, x).rarity = x.selection.rarity
             /\ PostRow(table, x).selection_minute = SelectionMinute(x)
  <2> DEFINE group == WithPostKey(table, x)
             any == Any(group)
  <2>1. x \in group /\ group \in SUBSET all
    BY DEF WithPostKey
  <2>2. IsFiniteSet(group)
    BY <1>2, <2>1, FS_Subset
  <2>3. PostSelectionKey(any) = PostSelectionKey(x)
    <3>1. any \in group
      BY <2>1, AnyOfGroup
    <3> QED BY <3>1 DEF WithPostKey
  <2> HIDE DEF group, any
  <2>4. /\ any.selection.game_version = x.selection.game_version
        /\ any.selection.choice_source = x.selection.choice_source
        /\ any.selection.item_id = x.selection.item_id
        /\ any.selection.rarity = x.selection.rarity
        /\ SelectionMinute(any) = SelectionMinute(x)
    BY <2>3 DEF PostSelectionKey
  <2>5. PostRow(table, x) = PostSelectionRow(group) /\ any = Any(group)
    BY DEF PostRow, group, any
  <2>6. /\ PostSelectionRow(group).selection_count =
             SumOf(group, LAMBDA y : y.selection.selection_count_in_run)
        /\ PostSelectionRow(group).selected_run_count = Cardinality(group)
        /\ PostSelectionRow(group).outcome_observed_run_count =
             Cardinality({y \in group : y.run.is_ended})
        /\ PostSelectionRow(group).game_version = Any(group).selection.game_version
        /\ PostSelectionRow(group).choice_source = Any(group).selection.choice_source
        /\ PostSelectionRow(group).item_id = Any(group).selection.item_id
        /\ PostSelectionRow(group).rarity = Any(group).selection.rarity
        /\ PostSelectionRow(group).selection_minute = SelectionMinute(Any(group))
    BY DEF PostSelectionRow
  <2> QED BY <2>1, <2>2, <2>4, <2>5, <2>6 DEF group
<1>5. ASSUME NEW x \in all PROVE ItemKey(PostRow(table, x)) = Outcome(x)
  BY <1>4 DEF ItemKey, Outcome
<1>6. ASSUME NEW x \in all, NEW y \in all
      PROVE  PostRow(table, x) = PostRow(table, y) <=> y \in WithPostKey(table, x)
  <2>1. ASSUME PostRow(table, x) = PostRow(table, y)
        PROVE  y \in WithPostKey(table, x)
    <3>1. /\ x.selection.game_version = y.selection.game_version
          /\ x.selection.choice_source = y.selection.choice_source
          /\ x.selection.item_id = y.selection.item_id
          /\ x.selection.rarity = y.selection.rarity
          /\ SelectionMinute(x) = SelectionMinute(y)
      <4> HIDE DEF all
      <4> QED BY <1>4, <2>1
    <3>2. PostSelectionKey(y) = PostSelectionKey(x)
      BY <3>1 DEF PostSelectionKey
    <3> QED BY <3>2 DEF WithPostKey
  <2>2. ASSUME y \in WithPostKey(table, x)
        PROVE  PostRow(table, x) = PostRow(table, y)
    <3>1. WithPostKey(table, x) = WithPostKey(table, y)
      BY <2>2 DEF WithPostKey
    <3> QED BY <3>1 DEF PostRow
  <2> QED BY <2>1, <2>2
<1> HIDE DEF all
<1> QED BY <1>1, <1>3, <1>4, <1>5, <1>6 DEF all

\* The rows of PRODUCT_UPGRADE_POST_SELECTION that a row is grouped with.
WithItem(table, k) == {p \in UpgradePostSelection(table) : ItemKey(p) = k}

\* PRODUCT_ITEM_PERFORMANCE_SUMMARY row by row.
LEMMA PerformanceFacts ==
  ASSUME NEW table, TrustedTable(table), OneCopyPerRun(table)
  PROVE  /\ ItemPerformance(table) =
              {ItemPerformanceRow(WithItem(table, ItemKey(p))) : p \in UpgradePostSelection(table)}
         /\ \A p \in UpgradePostSelection(table) :
              ItemKey(ItemPerformanceRow(WithItem(table, ItemKey(p)))) = ItemKey(p)
<1> DEFINE all == UpgradePostSelection(table)
<1>1. ItemPerformance(table) = {ItemPerformanceRow(WithItem(table, ItemKey(p))) : p \in all}
  <2>1. ItemPerformance(table) =
          {ItemPerformanceRow(WithItem(table, key)) : key \in {ItemKey(p) : p \in all}}
    BY DEF ItemPerformance, GroupBy, WithItem
  <2> HIDE DEF all
  <2> QED BY <2>1
<1>2. ASSUME NEW p \in all
      PROVE  ItemKey(ItemPerformanceRow(WithItem(table, ItemKey(p)))) = ItemKey(p)
  <2> DEFINE group == WithItem(table, ItemKey(p))
             any == Any(group)
  <2>1. any \in group
    <3>1. p \in group
      BY DEF WithItem
    <3> QED BY <3>1, AnyOfGroup
  <2>2. ItemKey(any) = ItemKey(p)
    BY <2>1 DEF WithItem
  <2> HIDE DEF group
  <2>3. ItemKey(ItemPerformanceRow(group)) = ItemKey(any)
    BY DEF ItemPerformanceRow, ItemKey
  <2> QED BY <2>2, <2>3 DEF group
<1> QED BY <1>1, <1>2

\* Both views count every product selection once.
LEMMA PerformancesAddUp ==
  ASSUME NEW table, TrustedTable(table), OneCopyPerRun(table)
  PROVE  SumOf(ItemPerformance(table), LAMBDA x : x.selection_count) =
           Cardinality(ProductRows(table, "upgrade_selected"))
<1> DEFINE S == SelectionOutcomes(table)
           P == UpgradePostSelection(table)
           I == ItemPerformance(table)
           f == [x \in S |-> x.selection.selection_count_in_run]
           g == [p \in P |-> p.selection_count]
           h == [i \in I |-> i.selection_count]
           post == [x \in S |-> PostRow(table, x)]
           item == [p \in P |-> ItemPerformanceRow(WithItem(table, ItemKey(p)))]
<1>1. IsFiniteSet(S) /\ IsFiniteSet(P)
  BY OutcomeFacts, PostSelectionFacts
<1>2. \A x \in S : f[x] = x.selection.selection_count_in_run /\ f[x] \in Nat
  <2> DEFINE total == [s \in RunItemSelections(table) |-> s.selection_count_in_run]
  <2>1. \A s \in RunItemSelections(table) : total[s] = s.selection_count_in_run
    OBVIOUS
  <2> HIDE DEF total
  <2>2. \A s \in RunItemSelections(table) : s.selection_count_in_run \in Nat
    BY <2>1, SelectionsAddUp
  <2> QED BY <2>2, OutcomeFacts
<1>3. \A x \in S : post[x] = PostRow(table, x) /\ post[x] \in P
  <2>1. \A x \in S : post[x] = PostRow(table, x)
    OBVIOUS
  <2>2. P = {PostRow(table, x) : x \in S}
    BY PostSelectionFacts
  <2> HIDE DEF post, P, S
  <2> QED BY <2>1, <2>2
<1>4. \A p \in P : item[p] = ItemPerformanceRow(WithItem(table, ItemKey(p))) /\ item[p] \in I
  BY PerformanceFacts
<1>5. \A p \in P : g[p] = p.selection_count
  OBVIOUS
<1>6. \A i \in I : h[i] = i.selection_count
  OBVIOUS
<1>7. SumOf(I, LAMBDA x : x.selection_count) = SumOver(h, I)
  BY DEF SumOf, SumOver
<1>8. \A p \in P : g[p] = SumOver(f, Fibre(S, post, p))
  <2> TAKE p \in P
  <2>1. PICK x \in S : p = PostRow(table, x)
    <3>1. P = {PostRow(table, x) : x \in S}
      BY PostSelectionFacts
    <3> HIDE DEF P, S
    <3> QED BY <3>1
  <2> DEFINE group == WithPostKey(table, x)
             e == [y \in group |-> y.selection.selection_count_in_run]
  <2>2. p.selection_count = SumOf(group, LAMBDA y : y.selection.selection_count_in_run)
    BY <2>1, PostSelectionFacts
  <2>3. SumOf(group, LAMBDA y : y.selection.selection_count_in_run) = SumOver(e, group)
    BY DEF SumOf, SumOver
  <2>4. \A y \in group : y \in S /\ e[y] = y.selection.selection_count_in_run
    BY DEF WithPostKey
  <2>5. Fibre(S, post, p) = group
    <3>1. \A y \in S : post[y] = p <=> y \in group
      <4> HIDE DEF post, group, S
      <4> QED BY <1>3, <2>1, PostSelectionFacts DEF S, group
    <3> HIDE DEF post, group
    <3> QED BY <2>4, <3>1 DEF Fibre
  <2> HIDE DEF e, group, f
  <2>6. SumOver(e, group) = SumOver(f, group)
    BY <1>2, <2>4, SumSame
  <2> QED BY <1>5, <2>2, <2>3, <2>5, <2>6
<1>9. ASSUME NEW i \in I PROVE h[i] = SumOver(g, Fibre(P, item, i))
  <2>1. PICK p \in P : i = item[p]
    BY PerformanceFacts
  <2> DEFINE group == WithItem(table, ItemKey(p))
             e == [q \in group |-> q.selection_count]
  <2>2. i.selection_count = SumOf(group, LAMBDA q : q.selection_count)
    BY <1>4, <2>1 DEF ItemPerformanceRow
  <2>3. SumOf(group, LAMBDA q : q.selection_count) = SumOver(e, group)
    BY DEF SumOf, SumOver
  <2>4. \A q \in group : q \in P /\ e[q] = q.selection_count
    BY DEF WithItem
  <2>5. Fibre(P, item, i) = group
    <3>1. \A q \in P : item[q] = i <=> ItemKey(q) = ItemKey(p)
      <4> HIDE DEF item, group, P
      <4> QED BY <1>4, <2>1, PerformanceFacts DEF P
    <3> HIDE DEF item
    <3> QED BY <3>1 DEF Fibre, WithItem
  <2> HIDE DEF e, group, g
  <2>6. SumOver(e, group) = SumOver(g, group)
    BY <1>5, <2>4, SumSame
  <2> QED BY <1>6, <2>2, <2>3, <2>5, <2>6
<1>10. I = {item[p] : p \in P}
  <2> HIDE DEF item, I, P
  <2> QED BY <1>4, PerformanceFacts DEF I, P
<1> HIDE DEF S, P, I, f, g, h, post, item
<1>11. IsFiniteSet(I)
  BY <1>1, <1>10, FiniteImage
<1>12. SumOver(g, P) = SumOver(f, S)
  BY <1>1, <1>2, <1>3, <1>8, SumByGroups
<1>13. \A p \in P : g[p] \in Nat
  <2> TAKE p \in P
  <2> DEFINE T == Fibre(S, post, p)
  <2>1. T \in SUBSET S
    BY DEF Fibre
  <2>2. IsFiniteSet(T) /\ \A x \in T : f[x] \in Nat
    BY <1>1, <1>2, <2>1, FS_Subset
  <2> HIDE DEF T
  <2>3. SumOver(f, T) \in Nat
    BY <2>2, SumFacts
  <2> QED BY <1>8, <2>3 DEF T
<1>14. SumOver(h, I) = SumOver(g, P)
  BY <1>1, <1>4, <1>9, <1>11, <1>13, SumByGroups
<1>15. SumOver(f, S) = Cardinality(ProductRows(table, "upgrade_selected"))
  BY <1>2, OutcomeSelectionsAddUp DEF S
<1> QED BY <1>7, <1>12, <1>14, <1>15 DEF I

-----------------------------------------------------------------------------
(* The funnel.                                                             *)

\* EXPOSED_OPTIONS: the options product Runs were shown.
OffersOf(table) == ShownOptions(ProductRows(table, "upgrade_options_shown"))

\* An exposed option is an option of the row it is of.
LEMMA ExposureFacts ==
  ASSUME NEW rows, NEW x
  PROVE  x \in ShownOptions(rows) <=>
           \E row \in rows : \E option \in row.event.options : x = [row |-> row, option |-> option]
BY DEF ShownOptions

\* A selection of a sound Run is joined to exactly one exposed option.
LEMMA JoinedOnce ==
  ASSUME NEW table, SoundTable(table), \A run \in Copies(table) : OffersDiffer(run),
         NEW selection \in ProductRows(table, "upgrade_selected")
  PROVE  LET Joins(x) == selection \in SelectionsOf(x, ProductRows(table, "upgrade_selected"))
         IN  /\ \E x \in OffersOf(table) : Joins(x)
             /\ \A x, y \in OffersOf(table) : Joins(x) /\ Joins(y) => x = y
<1> DEFINE selections == ProductRows(table, "upgrade_selected")
           offers == ProductRows(table, "upgrade_options_shown")
<1>1. TrustedTable(table) /\ OneCopyPerRun(table)
  BY DEF SoundTable
<1>2. /\ selection \in RowsNamed(SilverEvents(table), "upgrade_selected")
      /\ SourceType(selection) = ConsentedProdPlay
  BY DEF ProductRows
<1>3. \E x \in OffersOf(table) : selection \in SelectionsOf(x, selections)
  <2>1. PICK other \in RowsNamed(SilverEvents(table), "upgrade_options_shown") :
          /\ other.run.run_id = selection.run.run_id
          /\ other.event.choice_id = selection.event.choice_id
          /\ selection.event.selected_option \in other.event.options
          /\ SourceType(other) = SourceType(selection)
    BY <1>2, SelectionIsAnswer
  <2>2. other \in offers
    BY <1>2, <2>1 DEF ProductRows
  <2> DEFINE x == [row |-> other, option |-> selection.event.selected_option]
  <2>3. x \in OffersOf(table)
    BY <2>1, <2>2, ExposureFacts DEF OffersOf
  <2>4. selection \in SelectionsOf(x, selections)
    BY <2>1 DEF SelectionsOf, SelectedItem
  <2> HIDE DEF x
  <2> QED BY <2>3, <2>4
<1>4. ASSUME NEW x \in OffersOf(table), NEW y \in OffersOf(table),
             selection \in SelectionsOf(x, selections), selection \in SelectionsOf(y, selections)
      PROVE  x = y
  <2>1. /\ x.row \in offers /\ x.option \in x.row.event.options
        /\ x = [row |-> x.row, option |-> x.option]
    BY ExposureFacts DEF OffersOf
  <2>2. /\ y.row \in offers /\ y.option \in y.row.event.options
        /\ y = [row |-> y.row, option |-> y.option]
    BY ExposureFacts DEF OffersOf
  <2>3. /\ x.row.run.run_id = y.row.run.run_id
        /\ x.row.event.choice_id = y.row.event.choice_id
        /\ x.option.item = y.option.item
    BY <1>4 DEF SelectionsOf
  <2>4. /\ x.row \in SilverEvents(table) /\ x.row.event.event_name = "upgrade_options_shown"
        /\ y.row \in SilverEvents(table) /\ y.row.event.event_name = "upgrade_options_shown"
    BY <1>1, <2>1, <2>2, ProductRowFacts
  <2>5. /\ x.row.event = y.row.event => x.row = y.row
        /\ ~Clash(x.row.event, y.row.event) /\ ~Clash(y.row.event, x.row.event)
    BY <1>1, <2>3, <2>4, SiblingFacts
  <2>6. x.row.event.event_sequence \in Nat /\ y.row.event.event_sequence \in Nat
    BY <1>1, <2>4, TrustedRow
  <2>7. /\ ~Disordered(x.row.event, y.row.event) /\ ~Disordered(y.row.event, x.row.event)
        /\ ~SameIdentity(x.row.event, y.row.event)
    BY <2>5 DEF Clash
  <2>8. /\ ~(x.row.event.event_sequence < y.row.event.event_sequence)
        /\ ~(y.row.event.event_sequence < x.row.event.event_sequence)
    BY <2>3, <2>4, <2>7 DEF Disordered
  <2>9. x.row = y.row
    BY <2>5, <2>6, <2>7, <2>8 DEF SameIdentity
  <2>10. x.option = y.option
    <3>1. x.row.run \in Copies(table) /\ x.row.event \in x.row.run.events
      BY <2>4, RowFacts
    <3>2. x.row.event \in Shown(x.row.run.events)
      BY <2>4, <3>1 DEF Shown, Named
    <3> QED BY <2>1, <2>2, <2>3, <2>9, <3>1, <3>2 DEF OffersDiffer
  <2> QED BY <2>1, <2>2, <2>9, <2>10
<1> QED BY <1>3, <1>4

\* The exposed options a row of PRODUCT_UPGRADE_FUNNEL counts.
WithFunnelKey(table, x) == {y \in OffersOf(table) : FunnelKey(y) = FunnelKey(x)}

\* PRODUCT_UPGRADE_FUNNEL row by row.
LEMMA FunnelFacts ==
  ASSUME NEW table, NEW selections, selections = ProductRows(table, "upgrade_selected")
  PROVE  /\ UpgradeFunnel(table) =
              {FunnelRow(WithFunnelKey(table, x), selections) : x \in OffersOf(table)}
         /\ \A x, y \in OffersOf(table) :
              FunnelRow(WithFunnelKey(table, x), selections) =
                FunnelRow(WithFunnelKey(table, y), selections)
              <=> y \in WithFunnelKey(table, x)
<1> DEFINE all == OffersOf(table)
           Group(key) == {x \in all : FunnelKey(x) = key}
<1>1. UpgradeFunnel(table) = {FunnelRow(WithFunnelKey(table, x), selections) : x \in all}
  <2>1. UpgradeFunnel(table) =
          {FunnelRow(Group(key), selections) : key \in {FunnelKey(x) : x \in all}}
    BY DEF UpgradeFunnel, GroupBy, OffersOf
  <2>2. \A x \in all : Group(FunnelKey(x)) = WithFunnelKey(table, x)
    BY DEF WithFunnelKey
  <2> HIDE DEF Group, all
  <2> QED BY <2>1, <2>2
<1>2. ASSUME NEW x \in all
      PROVE  /\ FunnelRow(WithFunnelKey(table, x), selections).choice_source
                  = x.row.event.choice_source
             /\ FunnelRow(WithFunnelKey(table, x), selections).item_id = x.option.item
             /\ FunnelRow(WithFunnelKey(table, x), selections).rarity = x.option.rarity
  <2> DEFINE group == WithFunnelKey(table, x)
             any == Any(group)
  <2>1. x \in group
    BY DEF WithFunnelKey
  <2>2. any \in group
    BY <2>1, AnyOfGroup
  <2>3. FunnelKey(any) = FunnelKey(x)
    BY <2>2 DEF WithFunnelKey
  <2> HIDE DEF group
  <2>4. /\ FunnelRow(group, selections).choice_source = any.row.event.choice_source
        /\ FunnelRow(group, selections).item_id = any.option.item
        /\ FunnelRow(group, selections).rarity = any.option.rarity
    BY DEF FunnelRow
  <2> HIDE DEF any
  <2>5. /\ any.row.event.choice_source = x.row.event.choice_source
        /\ any.option.item = x.option.item /\ any.option.rarity = x.option.rarity
    BY <2>3 DEF FunnelKey
  <2> QED BY <2>4, <2>5 DEF group
<1>3. ASSUME NEW x \in all, NEW y \in all
      PROVE  FunnelRow(WithFunnelKey(table, x), selections) =
               FunnelRow(WithFunnelKey(table, y), selections)
             <=> y \in WithFunnelKey(table, x)
  <2>1. ASSUME FunnelRow(WithFunnelKey(table, x), selections) =
                 FunnelRow(WithFunnelKey(table, y), selections)
        PROVE  y \in WithFunnelKey(table, x)
    <3>1. /\ x.row.event.choice_source = y.row.event.choice_source
          /\ x.option.item = y.option.item /\ x.option.rarity = y.option.rarity
      <4> HIDE DEF all
      <4> QED BY <1>2, <2>1
    <3>2. FunnelKey(y) = FunnelKey(x)
      BY <3>1 DEF FunnelKey
    <3> QED BY <3>2 DEF WithFunnelKey
  <2>2. ASSUME y \in WithFunnelKey(table, x)
        PROVE  FunnelRow(WithFunnelKey(table, x), selections) =
                 FunnelRow(WithFunnelKey(table, y), selections)
    <3>1. WithFunnelKey(table, x) = WithFunnelKey(table, y)
      BY <2>2 DEF WithFunnelKey
    <3> QED BY <3>1
  <2> QED BY <2>1, <2>2
<1> HIDE DEF all
<1> QED BY <1>1, <1>3 DEF all

\* PRODUCT_UPGRADE_FUNNEL counts every product selection of sound Runs once.
LEMMA FunnelAddsUp ==
  ASSUME NEW table, SoundTable(table), \A run \in Copies(table) : OffersDiffer(run)
  PROVE  SumOf(UpgradeFunnel(table), LAMBDA x : x.selection_count) =
           Cardinality(ProductRows(table, "upgrade_selected"))
<1> DEFINE selections == ProductRows(table, "upgrade_selected")
           exposed == OffersOf(table)
           funnel == UpgradeFunnel(table)
           joined == [x \in exposed |-> Cardinality(SelectionsOf(x, selections))]
           exposure == [s \in selections |->
                          CHOOSE x \in exposed : s \in SelectionsOf(x, selections)]
           row == [x \in exposed |-> FunnelRow(WithFunnelKey(table, x), selections)]
           count == [z \in funnel |-> z.selection_count]
<1>1. TrustedTable(table) /\ OneCopyPerRun(table)
  BY DEF SoundTable
<1>2. IsFiniteSet(selections)
  BY <1>1, ProductRowFacts
<1>3. IsFiniteSet(exposed)
  BY <1>1, ProductRowFacts, ShownIsFinite DEF OffersOf
<1>4. \A x \in exposed : /\ joined[x] = Cardinality(SelectionsOf(x, selections))
                         /\ joined[x] \in Nat
  <2>1. \A x \in exposed : IsFiniteSet(SelectionsOf(x, selections))
    <3> TAKE x \in exposed
    <3>1. SelectionsOf(x, selections) \in SUBSET selections
      BY DEF SelectionsOf
    <3> QED BY <1>2, <3>1, FS_Subset
  <2> QED BY <2>1, FS_CardinalityType
<1>5. \A s \in selections : /\ exposure[s] \in exposed
                            /\ s \in SelectionsOf(exposure[s], selections)
                            /\ \A x \in exposed :
                                 s \in SelectionsOf(x, selections) => x = exposure[s]
  <2> TAKE s \in selections
  <2>1. \E x \in exposed : s \in SelectionsOf(x, selections)
    BY JoinedOnce
  <2>2. \A x, y \in exposed :
          s \in SelectionsOf(x, selections) /\ s \in SelectionsOf(y, selections) => x = y
    BY JoinedOnce
  <2> HIDE DEF exposed
  <2> QED BY <2>1, <2>2
<1>6. \A x \in exposed : \A s : s \in SelectionsOf(x, selections) => s \in selections
  BY DEF SelectionsOf
<1>7. \A x \in exposed : row[x] = FunnelRow(WithFunnelKey(table, x), selections)
  OBVIOUS
<1>8. \A z \in funnel : count[z] = z.selection_count
  OBVIOUS
<1>9. SumOf(funnel, LAMBDA x : x.selection_count) = SumOver(count, funnel)
  BY DEF SumOf, SumOver
<1>10. /\ funnel = {FunnelRow(WithFunnelKey(table, x), selections) : x \in exposed}
       /\ \A x, y \in exposed :
            FunnelRow(WithFunnelKey(table, x), selections) =
              FunnelRow(WithFunnelKey(table, y), selections)
            <=> y \in WithFunnelKey(table, x)
  BY FunnelFacts
<1>11. \A x \in exposed : WithFunnelKey(table, x) \subseteq exposed
  BY DEF WithFunnelKey
<1>12. \A x \in exposed :
         FunnelRow(WithFunnelKey(table, x), selections).selection_count =
           SumOver(joined, WithFunnelKey(table, x))
  <2> TAKE x \in exposed
  <2> DEFINE group == WithFunnelKey(table, x)
             e == [y \in group |-> Cardinality(SelectionsOf(y, selections))]
  <2>1. \A y \in group : e[y] = Cardinality(SelectionsOf(y, selections)) /\ y \in exposed
    BY <1>11
  <2> HIDE DEF group
  <2>2. FunnelRow(group, selections).selection_count = SumOver(e, group)
    BY DEF FunnelRow, SumOf, SumOver
  <2> HIDE DEF e, joined, exposed, selections
  <2>3. SumOver(e, group) = SumOver(joined, group)
    BY <1>4, <2>1, SumSame
  <2> QED BY <2>2, <2>3 DEF group
<1> HIDE DEF selections, exposed, funnel, joined, exposure, row, count
<1>13. SumOver(joined, exposed) = Cardinality(selections)
  <2>1. \A x \in exposed : Fibre(selections, exposure, x) = SelectionsOf(x, selections)
    BY <1>5, <1>6 DEF Fibre
  <2>2. \A x \in exposed : joined[x] = Cardinality(Fibre(selections, exposure, x))
    BY <1>4, <2>1
  <2>3. \A s \in selections : exposure[s] \in exposed
    BY <1>5
  <2> QED BY <1>2, <1>3, <2>2, <2>3, CountByGroups
<1>14. funnel = {row[x] : x \in exposed}
  BY <1>7, <1>10
<1>15. IsFiniteSet(funnel) /\ \A x \in exposed : row[x] \in funnel
  BY <1>3, <1>14, FiniteImage
<1>16. \A z \in funnel : count[z] = SumOver(joined, Fibre(exposed, row, z))
  <2> TAKE z \in funnel
  <2>1. PICK x \in exposed : z = row[x]
    BY <1>14
  <2>2. Fibre(exposed, row, z) = WithFunnelKey(table, x)
    BY <1>7, <1>10, <1>11, <2>1 DEF Fibre
  <2> QED BY <1>7, <1>8, <1>12, <2>1, <2>2
<1>17. SumOver(count, funnel) = SumOver(joined, exposed)
  <2>1. \A x \in exposed : joined[x] \in Nat
    BY <1>4
  <2> QED BY <1>3, <1>15, <1>16, <2>1, SumByGroups
<1> QED BY <1>9, <1>13, <1>17 DEF funnel, selections

-----------------------------------------------------------------------------
(* Offers that were taken and the outcomes of selections.                  *)

\* The outcomes PRODUCT_ITEM_PERFORMANCE_SUMMARY counts for an item.
OutcomesOf(table, k) == {x \in SelectionOutcomes(table) : Outcome(x) = k}

\* Its columns selected_run_count and outcome_observed_run_count count them.
LEMMA PerformanceCounts ==
  ASSUME NEW table, TrustedTable(table), OneCopyPerRun(table), NEW k
  PROVE  LET item == ItemPerformanceRow(WithItem(table, k))
         IN  /\ item.selected_run_count = Cardinality(OutcomesOf(table, k))
             /\ item.outcome_observed_run_count =
                  Cardinality({x \in OutcomesOf(table, k) : x.run.is_ended})
<1> DEFINE S == SelectionOutcomes(table)
           W == WithItem(table, k)
           all == OutcomesOf(table, k)
           ended == {x \in all : x.run.is_ended}
           post == [x \in S |-> PostRow(table, x)]
           selected == [p \in W |-> p.selected_run_count]
           observed == [p \in W |-> p.outcome_observed_run_count]
<1>1. IsFiniteSet(W)
  <2>1. W \in SUBSET UpgradePostSelection(table)
    BY DEF WithItem
  <2> QED BY <2>1, PostSelectionFacts, FS_Subset
<1>2. \A x : x \in all <=> x \in S /\ Outcome(x) = k
  BY DEF OutcomesOf
<1>3. IsFiniteSet(all) /\ IsFiniteSet(ended)
  <2>1. all \in SUBSET S /\ ended \in SUBSET all
    BY <1>2
  <2> HIDE DEF S, all, ended
  <2>2. IsFiniteSet(all)
    BY <2>1, OutcomeFacts, FS_Subset DEF S
  <2> QED BY <2>1, <2>2, FS_Subset
<1>4. \A x \in S : post[x] = PostRow(table, x)
  OBVIOUS
<1>5. \A x \in S : ItemKey(PostRow(table, x)) = Outcome(x)
  BY PostSelectionFacts
<1>6. UpgradePostSelection(table) = {PostRow(table, x) : x \in S}
  BY PostSelectionFacts
<1>7. \A x, y \in S : PostRow(table, x) = PostRow(table, y) <=> y \in WithPostKey(table, x)
  BY PostSelectionFacts
<1>8. \A p \in W : /\ selected[p] = p.selected_run_count
                   /\ observed[p] = p.outcome_observed_run_count
  OBVIOUS
<1>9. \A x \in S :
        /\ PostRow(table, x).selected_run_count = Cardinality(WithPostKey(table, x))
        /\ PostRow(table, x).outcome_observed_run_count =
             Cardinality({y \in WithPostKey(table, x) : y.run.is_ended})
  BY PostSelectionFacts
<1>10. \A x \in S : \A y \in WithPostKey(table, x) : y \in S
  BY DEF WithPostKey
<1>11. \A x : x \in ended <=> x \in all /\ x.run.is_ended
  OBVIOUS
<1>12. \A p : p \in W <=> p \in UpgradePostSelection(table) /\ ItemKey(p) = k
  BY DEF WithItem
<1>13. /\ ItemPerformanceRow(W).selected_run_count = SumOver(selected, W)
       /\ ItemPerformanceRow(W).outcome_observed_run_count = SumOver(observed, W)
  <2> HIDE DEF W
  <2> QED BY DEF ItemPerformanceRow, SumOf, SumOver
<1> HIDE DEF S, W, all, ended, post, selected, observed
<1>14. \A x \in all : post[x] \in W
  BY <1>2, <1>4, <1>5, <1>6, <1>12
<1>15. \A p \in W : \E x \in S : p = PostRow(table, x) /\ Outcome(x) = k
  BY <1>5, <1>6, <1>12
<1>16. \A p \in W : selected[p] = Cardinality(Fibre(all, post, p))
  <2> TAKE p \in W
  <2>1. PICK x \in S : p = PostRow(table, x) /\ Outcome(x) = k
    BY <1>15
  <2>2. Fibre(all, post, p) = WithPostKey(table, x)
    BY <1>2, <1>4, <1>5, <1>7, <1>10, <2>1 DEF Fibre
  <2> QED BY <1>8, <1>9, <2>1, <2>2
<1>17. \A p \in W : observed[p] = Cardinality(Fibre(ended, post, p))
  <2> TAKE p \in W
  <2>1. PICK x \in S : p = PostRow(table, x) /\ Outcome(x) = k
    BY <1>15
  <2>2. Fibre(ended, post, p) = {y \in WithPostKey(table, x) : y.run.is_ended}
    BY <1>2, <1>4, <1>5, <1>7, <1>10, <1>11, <2>1 DEF Fibre
  <2> QED BY <1>8, <1>9, <2>1, <2>2
<1>18. \A x \in ended : post[x] \in W
  BY <1>11, <1>14
<1>19. SumOver(selected, W) = Cardinality(all)
  BY <1>1, <1>3, <1>14, <1>16, CountByGroups
<1>20. SumOver(observed, W) = Cardinality(ended)
  BY <1>1, <1>3, <1>17, <1>18, CountByGroups
<1> QED BY <1>13, <1>19, <1>20 DEF W, all, ended

\* A product Run that took an offer has an outcome for its item.
LEMMA TakenOffersHaveOutcomes ==
  ASSUME NEW table, TrustedTable(table), OneCopyPerRun(table), ItemsHaveOneSource(table),
         NEW o \in OfferedItems(table), WasSelected(o, ProductRows(table, "upgrade_selected"))
  PROVE  \E x \in OutcomesOf(table, ItemKey(o)) : x.run.run_id = o.run_id
<1>1. PICK row \in ProductRows(table, "upgrade_selected") :
        /\ row.run.run_id = o.run_id /\ row.event.choice_source = o.choice_source
        /\ SelectedItem(row) = o.item_id
  BY DEF WasSelected
<1>2. PICK z \in ShownOptions(ProductRows(table, "upgrade_options_shown")) :
        o.run_id = z.row.run.run_id /\ o.game_version = GameVersion(z.row)
  BY DEF OfferedItems
<1>3. o.game_version = GameVersion(row)
  <2>1. row \in SilverEvents(table)
    BY ProductRowFacts
  <2>2. z.row \in SilverEvents(table)
    BY <1>2, ExposureFacts, ProductRowFacts
  <2> QED BY <1>1, <1>2, <2>1, <2>2, SiblingFacts
<1> DEFINE rows == ItemRows(table, row.run.run_id, SelectedItem(row))
           s == RunItemSelection(rows)
<1>4. /\ s.run_id = row.run.run_id /\ s.item_id = SelectedItem(row)
      /\ s.game_version = GameVersion(row)
      /\ \E first \in rows : /\ s.choice_source = first.event.choice_source
                             /\ SelectedItem(first) = SelectedItem(row)
  BY ItemSelectionFacts
<1>5. \A first \in rows : first \in ProductRows(table, "upgrade_selected")
  BY DEF ItemRows
<1>6. s.choice_source = o.choice_source
  <2> HIDE DEF s, rows
  <2> QED BY <1>1, <1>4, <1>5 DEF ItemsHaveOneSource
<1>7. s \in RunItemSelections(table)
  <2>1. RunItemSelections(table) =
          {RunItemSelection(ItemRows(table, r.run.run_id, SelectedItem(r))) :
             r \in ProductRows(table, "upgrade_selected")}
    BY ItemSelectionFacts
  <2> QED BY <2>1
<1> HIDE DEF s, rows
<1>8. PICK x \in SelectionOutcomes(table) : x.selection = s
  BY <1>7, OutcomeFacts
<1>9. x.run.run_id = o.run_id
  BY <1>1, <1>4, <1>8, OutcomeFacts
<1>10. Outcome(x) = ItemKey(o)
  BY <1>1, <1>3, <1>4, <1>6, <1>8 DEF Outcome, ItemKey
<1> QED BY <1>9, <1>10 DEF OutcomesOf

\* An offer is known by its Run and item.
LEMMA OffersAreDistinct ==
  ASSUME NEW table, NEW o \in OfferedItems(table), NEW p \in OfferedItems(table),
         o.run_id = p.run_id, ItemKey(o) = ItemKey(p)
  PROVE  o = p
<1>1. \A x \in OfferedItems(table) :
        x = [run_id |-> x.run_id, game_version |-> x.game_version,
             choice_source |-> x.choice_source, item_id |-> x.item_id]
  BY DEF OfferedItems
<1>2. /\ o.game_version = p.game_version /\ o.choice_source = p.choice_source
      /\ o.item_id = p.item_id
  BY DEF ItemKey
<1> QED BY <1>1, <1>2

\* The offers PRODUCT_OPTION_OUTCOME_COMPARISON counts for an item.
OffersWith(table, k) == {o \in OfferedItems(table) : ItemKey(o) = k}

\* Of the offers of an item, no more were taken than the item has outcomes.
LEMMA OptionsAreWithinItems ==
  ASSUME NEW table, TrustedTable(table), OneCopyPerRun(table), ItemsHaveOneSource(table),
         NEW x \in ItemPerformance(table), NEW y \in OptionOutcome(table),
         x.game_version = y.game_version, x.choice_source = y.choice_source,
         x.item_id = y.item_id
  PROVE  /\ y.selected_run_count <= x.selected_run_count
         /\ y.selected_outcome_run_count <= x.outcome_observed_run_count
<1> DEFINE runs       == ProductRunSummary(table)
           selections == ProductRows(table, "upgrade_selected")
           k          == ItemKey(y)
           group      == OffersWith(table, k)
           taken      == {o \in group : WasSelected(o, selections)}
           ended      == {run.run_id : run \in {run \in runs : run.is_ended}}
           takenEnded == {o \in taken : o.run_id \in ended}
           outcomes   == OutcomesOf(table, k)
           observed   == {z \in outcomes : z.run.is_ended}
<1>1. PICK o \in OfferedItems(table) :
        y = OptionOutcomeRow(OffersWith(table, ItemKey(o)), runs, selections)
  <2>1. OptionOutcome(table) =
          {OptionOutcomeRow(OffersWith(table, key), runs, selections) :
             key \in {ItemKey(q) : q \in OfferedItems(table)}}
    BY DEF OptionOutcome, GroupBy, OffersWith
  <2> HIDE DEF runs, selections
  <2> QED BY <2>1
<1>2. ItemKey(y) = ItemKey(o)
  <2> DEFINE all == OffersWith(table, ItemKey(o))
             any == Any(all)
  <2>1. o \in all
    BY DEF OffersWith
  <2>2. any \in all
    BY <2>1, AnyOfGroup
  <2>3. ItemKey(any) = ItemKey(o)
    BY <2>2 DEF OffersWith
  <2> HIDE DEF all, runs, selections
  <2>4. ItemKey(OptionOutcomeRow(all, runs, selections)) = ItemKey(any)
    BY DEF OptionOutcomeRow, ItemKey
  <2> QED BY <1>1, <2>3, <2>4 DEF all
<1>3. /\ y.selected_run_count = Cardinality(taken)
      /\ y.selected_outcome_run_count = Cardinality(takenEnded)
  <2>1. y = OptionOutcomeRow(group, runs, selections)
    BY <1>1, <1>2
  <2> HIDE DEF group, runs, selections
  <2> QED BY <2>1 DEF OptionOutcomeRow
<1>4. /\ x.selected_run_count = Cardinality(outcomes)
      /\ x.outcome_observed_run_count = Cardinality(observed)
  <2>1. ItemPerformance(table) = {ItemPerformanceRow(WithItem(table, ItemKey(p))) :
                                    p \in UpgradePostSelection(table)}
    BY PerformanceFacts
  <2>2. PICK p \in UpgradePostSelection(table) :
          x = ItemPerformanceRow(WithItem(table, ItemKey(p)))
    BY <2>1
  <2>3. ItemKey(x) = ItemKey(p)
    BY <2>2, PerformanceFacts
  <2>4. ItemKey(x) = k
    BY DEF ItemKey
  <2> QED BY <2>2, <2>3, <2>4, PerformanceCounts
<1>5. \A q : q \in taken <=> /\ q \in OfferedItems(table) /\ ItemKey(q) = k
                             /\ WasSelected(q, selections)
  BY DEF OffersWith
<1>6. \A q \in taken : \E z \in outcomes : z.run.run_id = q.run_id
  BY <1>5, TakenOffersHaveOutcomes
<1>7. \A q, r \in taken : q.run_id = r.run_id => q = r
  BY <1>5, OffersAreDistinct
<1>8. IsFiniteSet(outcomes) /\ IsFiniteSet(observed)
  <2>1. outcomes \in SUBSET SelectionOutcomes(table) /\ observed \in SUBSET outcomes
    BY DEF OutcomesOf
  <2> HIDE DEF outcomes, observed
  <2> QED BY <2>1, OutcomeFacts, FS_Subset
<1>9. \A q \in takenEnded : \A z \in outcomes : z.run.run_id = q.run_id => z \in observed
  <2> SUFFICES ASSUME NEW q \in takenEnded, NEW z \in outcomes, z.run.run_id = q.run_id
               PROVE  z.run.is_ended
    OBVIOUS
  <2>1. PICK run \in runs : run.is_ended /\ run.run_id = q.run_id
    OBVIOUS
  <2>2. z \in SelectionOutcomes(table)
    BY DEF OutcomesOf
  <2>3. z.run = run
    BY <2>1, <2>2, OutcomeFacts, ProductSummaryFacts
  <2> QED BY <2>1, <2>3
<1>10. \A q \in takenEnded : q \in taken
  OBVIOUS
<1> DEFINE f == [q \in taken |-> CHOOSE z \in outcomes : z.run.run_id = q.run_id]
<1>11. \A q \in taken : f[q] \in outcomes /\ f[q].run.run_id = q.run_id
  <2> HIDE DEF taken, outcomes
  <2> QED BY <1>6
<1> HIDE DEF f, taken, takenEnded, outcomes, observed
<1>12. Cardinality(taken) <= Cardinality(outcomes)
  <2>1. \A q, r \in taken : f[q] = f[r] => q = r
    BY <1>7, <1>11
  <2>2. \A q \in taken : f[q] \in outcomes
    BY <1>11
  <2> QED BY <1>8, <2>1, <2>2, NoMoreThan
<1>13. Cardinality(takenEnded) <= Cardinality(observed)
  <2>1. \A q, r \in takenEnded : f[q] = f[r] => q = r
    BY <1>7, <1>10, <1>11
  <2>2. \A q \in takenEnded : f[q] \in observed
    BY <1>9, <1>10, <1>11
  <2> QED BY <1>8, <2>1, <2>2, NoMoreThan
<1> QED BY <1>3, <1>4, <1>12, <1>13

-----------------------------------------------------------------------------
(* The views agree.                                                        *)

\* Every published table, and so every snapshot the gate checks, has views that
\* agree on ended Runs, selections, checkpoints, taken offers and progression.
THEOREM ViewsAgreeHolds == Spec => []ViewsAgree
<1>1. ASSUME NEW table, TrustedTable(table), OneCopyPerRun(table)
      PROVE  /\ SumOf(RunOutcome(table), LAMBDA x : x.ended_run_count) =
                  Cardinality(EndedProductRuns(table))
             /\ SumOf(ItemPerformance(table), LAMBDA x : x.selection_count) =
                  SumOf(ProductRunSummary(table), LAMBDA run : run.upgrade_selected_count)
             /\ SumOf(CheckpointMetrics(table), LAMBDA x : x.checkpoint_event_count) =
                  SumOf(ProductRunSummary(table), LAMBDA run : run.checkpoint_count)
  BY <1>1, OutcomesAddUp, EndsAreRuns, PerformancesAddUp, CheckpointsAddUp, CountsAddUp
<1>2. ASSUME NEW table, TrustedTable(table), OneCopyPerRun(table)
      PROVE  /\ \A x \in ItemPerformance(table), y \in OptionOutcome(table) :
                  /\ ItemsHaveOneSource(table)
                  /\ x.game_version = y.game_version
                  /\ x.choice_source = y.choice_source /\ x.item_id = y.item_id
                  => /\ y.selected_run_count <= x.selected_run_count
                     /\ y.selected_outcome_run_count <= x.outcome_observed_run_count
             /\ \A x \in RunProgression(table) :
                  x.reached_run_count <= x.previous_reached_run_count
  BY <1>2, OptionsAreWithinItems, ReachedFallsOff
<1>3. ASSUME NEW table, TrustedTable(table), OneCopyPerRun(table)
      PROVE  (\A run \in Copies(table) : Sound(run) /\ OffersDiffer(run)) =>
               SumOf(UpgradeFunnel(table), LAMBDA x : x.selection_count) =
                 SumOf(ProductRunSummary(table), LAMBDA run : run.upgrade_selected_count)
  BY <1>3, FunnelAddsUp, CountsAddUp DEF SoundTable
<1>4. GoldInv => ViewsAgree
  BY <1>1, <1>2, <1>3, SnapshotIsTrusted DEF ViewsAgree
<1> QED BY <1>4, GoldInvariant, PTL
=============================================================================
