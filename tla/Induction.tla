----------------------------- MODULE Induction ------------------------------
(***************************************************************************)
(* Induction without predicates as parameters: over the numbers and over   *)
(* the subsets of a finite set, for the set of those that have the         *)
(* property.  And what follows from it of sums over finite sets and of     *)
(* loops as recursive functions.                                           *)
(***************************************************************************)
EXTENDS Integers, Functions, FiniteSets, FiniteSetTheorems, WellFoundedInduction, TLAPS

\* A set of numbers has a least one.
LEMMA LeastNumber ==
  ASSUME NEW T, T \subseteq Nat, T # {}
  PROVE  \E n \in T : \A m \in T : n <= m
<1> DEFINE F == {0..n : n \in T}
           R == StrictSubsetOrdering(Nat)
<1>1. IsWellFoundedOn(R, FiniteSubsetsOf(Nat))
  BY FS_StrictSubsetOrderingWellFounded
<1>2. \A n \in T : 0..n \in FiniteSubsetsOf(Nat)
  BY FS_Interval DEF FiniteSubsetsOf
<1>3. F \subseteq FiniteSubsetsOf(Nat) /\ F # {}
  BY <1>2
<1>4. \E x \in F : \A y \in F : ~ (<<y, x>> \in R)
  <2> HIDE DEF F, R
  <2>1. QED
    BY <1>1, <1>3, WFMin
<1>5. PICK n \in T : \A m \in T : ~ (<<0..m, 0..n>> \in R)
  BY <1>4
<1>6. ASSUME NEW m \in T, m < n PROVE FALSE
  <2>1. 0..m \subseteq 0..n /\ n \in 0..n /\ n \notin 0..m
    BY <1>6
  <2>2. 0..m \in SUBSET Nat /\ 0..n \in SUBSET Nat /\ 0..m # 0..n
    BY <2>1
  <2>3. <<0..m, 0..n>> \in R
    BY <2>1, <2>2 DEF StrictSubsetOrdering
  <2>4. QED
    BY <1>5, <2>3
<1>7. QED
  BY <1>6

\* Induction over the numbers, for a set in place of a predicate.
LEMMA SetInduction ==
  ASSUME NEW T, 0 \in T, \A n \in Nat : n \in T => n + 1 \in T
  PROVE  Nat \subseteq T
<1>1. SUFFICES ASSUME Nat \ T # {} PROVE FALSE
  OBVIOUS
<1>2. PICK n \in Nat \ T : \A m \in Nat \ T : n <= m
  BY <1>1, LeastNumber
<1>3. n - 1 \in Nat /\ n - 1 \in T
  BY <1>2
<1>4. QED
  BY <1>2, <1>3

\* Induction over the subsets of a finite set.
LEMMA SubsetInduction ==
  ASSUME NEW S, IsFiniteSet(S), NEW C,
         \A T \in SUBSET S : (\A R \in SUBSET T : R # T => R \in C) => T \in C
  PROVE  SUBSET S \subseteq C
<1>1. SUFFICES ASSUME (SUBSET S) \ C # {} PROVE FALSE
  OBVIOUS
<1>2. \A T \in SUBSET S : IsFiniteSet(T) /\ Cardinality(T) \in Nat
  BY FS_Subset, FS_CardinalityType
<1> DEFINE K == {Cardinality(T) : T \in (SUBSET S) \ C}
<1>3. K \subseteq Nat /\ K # {}
  BY <1>1, <1>2
<1>4. \E n \in K : \A m \in K : n <= m
  <2> HIDE DEF K
  <2>1. QED
    BY <1>3, LeastNumber
<1>5. PICK T \in (SUBSET S) \ C : \A R \in (SUBSET S) \ C : Cardinality(T) <= Cardinality(R)
  BY <1>4
<1>6. ASSUME NEW R \in SUBSET T, R # T PROVE R \in C
  <2>1. IsFiniteSet(T) /\ R \in SUBSET S
    BY <1>2
  <2>2. Cardinality(R) <= Cardinality(T) /\ Cardinality(R) # Cardinality(T)
    BY <1>6, <2>1, FS_Subset
  <2>3. QED
    BY <1>2, <1>5, <2>1, <2>2
<1>7. QED
  BY <1>5, <1>6

-----------------------------------------------------------------------------
(* Sums: SumFunctionOnSet of the community modules.                        *)

Picked(s) == CHOOSE x \in s : TRUE

\* h adds up f over every subset of S, in the order of CHOOSE.
Adds(h, f, S) ==
  h = [s \in SUBSET S |-> IF s = {} THEN 0 ELSE f[Picked(s)] + h[s \ {Picked(s)}]]

\* Over those of at most n elements.
AddsUpTo(h, f, S, n) ==
  h = [s \in SUBSET S |-> IF s = {} \/ Cardinality(s) > n THEN 0
                          ELSE f[Picked(s)] + h[s \ {Picked(s)}]]

\* One element more.
LEMMA AddOneMore ==
  ASSUME NEW f, NEW S, IsFiniteSet(S), NEW n \in Nat, NEW g, AddsUpTo(g, f, S, n)
  PROVE  \E h : AddsUpTo(h, f, S, n + 1)
<1> DEFINE h == [s \in SUBSET S |-> IF Cardinality(s) <= n \/ Cardinality(s) > n + 1 THEN g[s]
                                    ELSE f[Picked(s)] + g[s \ {Picked(s)}]]
           k == [s \in SUBSET S |-> IF s = {} \/ Cardinality(s) > n + 1 THEN 0
                                    ELSE f[Picked(s)] + h[s \ {Picked(s)}]]
<1>1. g = [s \in SUBSET S |-> IF s = {} \/ Cardinality(s) > n THEN 0
                              ELSE f[Picked(s)] + g[s \ {Picked(s)}]]
  BY DEF AddsUpTo
<1>2. ASSUME NEW s \in SUBSET S PROVE h[s] = k[s]
  <2>1. IsFiniteSet(s) /\ Cardinality(s) \in Nat /\ (Cardinality(s) = 0 <=> s = {})
    BY FS_Subset, FS_CardinalityType, FS_EmptySet
  <2>2. CASE s = {}
    BY <1>1, <2>1, <2>2
  <2>3. CASE Cardinality(s) > n + 1
    BY <1>1, <2>1, <2>3
  <2>4. CASE s # {} /\ Cardinality(s) <= n + 1
    <3> DEFINE r == s \ {Picked(s)}
    <3>1. Picked(s) \in s
      BY <2>4 DEF Picked
    <3>2. r \in SUBSET S /\ Cardinality(r) = Cardinality(s) - 1
      BY <2>1, <3>1, FS_RemoveElement
    <3>3. h[r] = g[r]
      BY <2>1, <2>4, <3>2
    <3>4. k[s] = f[Picked(s)] + g[r]
      BY <2>1, <2>4, <3>3
    <3>5. CASE Cardinality(s) <= n
      <4>1. h[s] = g[s]
        BY <3>5
      <4>2. g[s] = f[Picked(s)] + g[r]
        <5>1. ~ (s = {} \/ Cardinality(s) > n)
          BY <2>1, <2>4, <3>5
        <5>2. QED
          BY <1>1, <5>1
      <4>3. QED
        BY <3>4, <4>1, <4>2
    <3>6. CASE Cardinality(s) = n + 1
      BY <3>4, <3>6
    <3>7. QED
      BY <2>1, <2>4, <3>5, <3>6
  <2>5. QED
    BY <2>1, <2>2, <2>3, <2>4
<1>3. h = [s \in SUBSET S |-> h[s]] /\ k = [s \in SUBSET S |-> k[s]]
  OBVIOUS
<1> HIDE DEF h, k
<1>4. h = k
  BY <1>2, <1>3
<1>5. AddsUpTo(h, f, S, n + 1)
  BY <1>4 DEF k, AddsUpTo
<1>6. QED
  BY <1>5

\* The sum over a finite set is defined.
LEMMA AddsExists ==
  ASSUME NEW f, NEW S, IsFiniteSet(S)
  PROVE  \E h : Adds(h, f, S)
<1> DEFINE T == {n \in Nat : \E h : AddsUpTo(h, f, S, n)}
<1>1. 0 \in T
  <2> DEFINE h == [s \in SUBSET S |-> 0]
  <2>1. \A s \in SUBSET S : s = {} \/ Cardinality(s) > 0
    BY FS_Subset, FS_CardinalityType, FS_EmptySet
  <2>2. AddsUpTo(h, f, S, 0)
    BY <2>1 DEF AddsUpTo
  <2>3. QED
    BY <2>2
<1>2. ASSUME NEW n \in Nat, n \in T PROVE n + 1 \in T
  <2>1. PICK g : AddsUpTo(g, f, S, n)
    BY <1>2
  <2>2. QED
    BY <2>1, AddOneMore
<1>3. Nat \subseteq T
  <2> HIDE DEF T
  <2>1. QED
    BY <1>1, <1>2, SetInduction
<1>4. Cardinality(S) \in Nat
  BY FS_CardinalityType
<1>5. PICK h : AddsUpTo(h, f, S, Cardinality(S))
  BY <1>3, <1>4
<1>6. \A s \in SUBSET S : ~ (Cardinality(s) > Cardinality(S))
  BY <1>4, FS_Subset, FS_CardinalityType
<1>7. Adds(h, f, S)
  BY <1>5, <1>6 DEF AddsUpTo, Adds
<1>8. QED
  BY <1>7

\* The sum over a set, by that function.
LEMMA SumIsAdded ==
  ASSUME NEW f, NEW S, IsFiniteSet(S)
  PROVE  \E h : Adds(h, f, S) /\ SumFunctionOnSet(f, S) = h[S]
<1>1. SumFunctionOnSet(f, S) = (CHOOSE h : Adds(h, f, S))[S]
  BY DEF SumFunctionOnSet, FoldFunctionOnSet, MapThenFoldSet, Adds, Picked
<1>2. QED
  BY <1>1, AddsExists

\* One turn of it.
LEMMA AddsIs ==
  ASSUME NEW f, NEW S, NEW h, Adds(h, f, S)
  PROVE  /\ h[{}] = 0
         /\ \A T \in SUBSET S : T # {} => /\ Picked(T) \in T
                                          /\ h[T] = f[Picked(T)] + h[T \ {Picked(T)}]
BY DEF Adds, Picked

\* Only the values on the set matter.
THEOREM SumSame ==
  ASSUME NEW f, NEW g, NEW S, IsFiniteSet(S), \A x \in S : f[x] = g[x]
  PROVE  SumFunctionOnSet(f, S) = SumFunctionOnSet(g, S)
<1>1. PICK h : Adds(h, f, S) /\ SumFunctionOnSet(f, S) = h[S]
  BY SumIsAdded
<1>2. PICK k : Adds(k, g, S) /\ SumFunctionOnSet(g, S) = k[S]
  BY SumIsAdded
<1> DEFINE C == {T \in SUBSET S : h[T] = k[T]}
<1>3. ASSUME NEW T \in SUBSET S, \A R \in SUBSET T : R # T => R \in C PROVE T \in C
  <2>1. CASE T = {}
    BY <1>1, <1>2, <2>1, AddsIs
  <2>2. CASE T # {}
    <3>1. /\ Picked(T) \in T
          /\ h[T] = f[Picked(T)] + h[T \ {Picked(T)}]
      BY <1>1, <2>2, AddsIs
    <3>2. k[T] = g[Picked(T)] + k[T \ {Picked(T)}]
      BY <1>2, <2>2, AddsIs
    <3>3. T \ {Picked(T)} \in C
      BY <1>3, <3>1
    <3>4. QED
      BY <3>1, <3>2, <3>3
  <2>3. QED
    BY <2>1, <2>2
<1>4. SUBSET S \subseteq C
  <2> HIDE DEF C
  <2>1. QED
    BY <1>3, SubsetInduction
<1>5. QED
  BY <1>1, <1>2, <1>4

\* Any element may be added last.
LEMMA AnyLast ==
  ASSUME NEW f, NEW S, IsFiniteSet(S), \A x \in S : f[x] \in Int, NEW h, Adds(h, f, S)
  PROVE  \A T \in SUBSET S : /\ h[T] \in Int
                             /\ \A y \in T : h[T] = f[y] + h[T \ {y}]
<1> DEFINE C == {T \in SUBSET S : /\ h[T] \in Int
                                  /\ \A y \in T : h[T] = f[y] + h[T \ {y}]}
<1>1. ASSUME NEW T \in SUBSET S, \A R \in SUBSET T : R # T => R \in C PROVE T \in C
  <2>1. CASE T = {}
    BY <2>1, AddsIs
  <2>2. CASE T # {}
    <3> DEFINE x == Picked(T)
    <3>1. x \in T /\ h[T] = f[x] + h[T \ {x}]
      BY <2>2, AddsIs
    <3> HIDE DEF x
    <3>2. T \ {x} \in C
      BY <1>1, <3>1
    <3>3. h[T] \in Int
      BY <3>1, <3>2
    <3>4. ASSUME NEW y \in T PROVE h[T] = f[y] + h[T \ {y}]
      <4>1. CASE y = x
        BY <3>1, <4>1
      <4>2. CASE y # x
        <5>1. y \in T \ {x} /\ x \in T \ {y} /\ T \ {y} \in C
          BY <1>1, <3>1, <3>4, <4>2
        <5>2. h[T \ {x}] = f[y] + h[(T \ {x}) \ {y}]
          BY <3>2, <5>1
        <5>3. h[T \ {y}] = f[x] + h[(T \ {y}) \ {x}]
          BY <5>1
        <5>4. (T \ {x}) \ {y} = (T \ {y}) \ {x}
          OBVIOUS
        <5>5. (T \ {x}) \ {y} \in C
          BY <1>1, <3>1
        <5>6. h[(T \ {x}) \ {y}] \in Int /\ f[x] \in Int /\ f[y] \in Int
          BY <3>1, <3>4, <5>5
        <5>7. QED
          <6> DEFINE a == h[(T \ {x}) \ {y}]
                     b == h[T \ {y}]
          <6>1. h[T] = f[x] + (f[y] + a) /\ b = f[x] + a
            BY <3>1, <5>2, <5>3, <5>4
          <6>2. a \in Int
            BY <5>6
          <6> HIDE DEF a, b
          <6>3. h[T] = f[y] + b
            BY <5>6, <6>1, <6>2
          <6>4. QED
            BY <6>3 DEF b
      <4>3. QED
        BY <4>1, <4>2
    <3>5. QED
      BY <3>3, <3>4
  <2>3. QED
    BY <2>1, <2>2
<1>2. SUBSET S \subseteq C
  <2> HIDE DEF C
  <2>1. QED
    BY <1>1, SubsetInduction
<1>3. QED
  BY <1>2

\* Nothing adds up to zero.
THEOREM SumEmpty ==
  ASSUME NEW f
  PROVE  SumFunctionOnSet(f, {}) = 0
BY SumIsAdded, AddsIs, FS_EmptySet

\* A sum and one of its terms.
THEOREM SumRemove ==
  ASSUME NEW f, NEW S, IsFiniteSet(S), \A x \in S : f[x] \in Int, NEW y \in S
  PROVE  /\ SumFunctionOnSet(f, S) = f[y] + SumFunctionOnSet(f, S \ {y})
         /\ SumFunctionOnSet(f, S) \in Int
<1> DEFINE R == S \ {y}
<1>1. IsFiniteSet(R) /\ R \in SUBSET S
  BY FS_RemoveElement
<1>2. PICK h : Adds(h, f, S) /\ SumFunctionOnSet(f, S) = h[S]
  BY SumIsAdded
<1>3. PICK k : Adds(k, f, R) /\ SumFunctionOnSet(f, R) = k[R]
  BY <1>1, SumIsAdded
<1> DEFINE C == {T \in SUBSET R : h[T] = k[T]}
<1>4. ASSUME NEW T \in SUBSET R, \A Q \in SUBSET T : Q # T => Q \in C PROVE T \in C
  <2>1. CASE T = {}
    BY <1>2, <1>3, <2>1, AddsIs
  <2>2. CASE T # {}
    <3>1. /\ Picked(T) \in T
          /\ h[T] = f[Picked(T)] + h[T \ {Picked(T)}]
      <4>1. T \in SUBSET S
        OBVIOUS
      <4>2. QED
        BY <1>2, <2>2, <4>1, AddsIs
    <3>2. k[T] = f[Picked(T)] + k[T \ {Picked(T)}]
      BY <1>3, <2>2, AddsIs
    <3>3. T \ {Picked(T)} \in C
      BY <1>4, <3>1
    <3>4. QED
      BY <3>1, <3>2, <3>3
  <2>3. QED
    BY <2>1, <2>2
<1>5. SUBSET R \subseteq C
  <2> HIDE DEF C, R
  <2>1. QED
    BY <1>1, <1>4, SubsetInduction
<1>6. h[R] = k[R]
  BY <1>5
<1>7. h[S] \in Int /\ h[S] = f[y] + h[R]
  <2>1. S \in SUBSET S
    OBVIOUS
  <2>2. \A T \in SUBSET S : /\ h[T] \in Int
                              /\ \A z \in T : h[T] = f[z] + h[T \ {z}]
    BY <1>2, AnyLast
  <2>3. QED
    BY <2>1, <2>2
<1>8. QED
  BY <1>2, <1>3, <1>6, <1>7

\* A sum of numbers is one.
THEOREM SumType ==
  ASSUME NEW f, NEW S, IsFiniteSet(S), \A x \in S : f[x] \in Nat
  PROVE  SumFunctionOnSet(f, S) \in Nat
<1>1. PICK h : Adds(h, f, S) /\ SumFunctionOnSet(f, S) = h[S]
  BY SumIsAdded
<1> DEFINE C == {T \in SUBSET S : h[T] \in Nat}
<1>2. ASSUME NEW T \in SUBSET S, \A R \in SUBSET T : R # T => R \in C PROVE T \in C
  <2>1. CASE T = {}
    BY <1>1, <2>1, AddsIs
  <2>2. CASE T # {}
    <3>1. Picked(T) \in T /\ h[T] = f[Picked(T)] + h[T \ {Picked(T)}]
      BY <1>1, <2>2, AddsIs
    <3>2. T \ {Picked(T)} \in C
      BY <1>2, <3>1
    <3>3. QED
      BY <3>1, <3>2
  <2>3. QED
    BY <2>1, <2>2
<1>3. SUBSET S \subseteq C
  <2> HIDE DEF C
  <2>1. QED
    BY <1>2, SubsetInduction
<1>4. QED
  BY <1>1, <1>3

\* A sum of whole numbers is one.
THEOREM SumInt ==
  ASSUME NEW f, NEW S, IsFiniteSet(S), \A x \in S : f[x] \in Int
  PROVE  SumFunctionOnSet(f, S) \in Int
<1>1. CASE S = {}
  BY <1>1, SumEmpty
<1>2. CASE S # {}
  <2>1. PICK y \in S : TRUE
    BY <1>2
  <2>2. QED
    BY <2>1, SumRemove
<1>3. QED
  BY <1>1, <1>2

\* Only the values that are not zero matter.
THEOREM SumNonZero ==
  ASSUME NEW f, NEW S, IsFiniteSet(S), \A x \in S : f[x] \in Int,
         NEW D \in SUBSET S, \A x \in S \ D : f[x] = 0
  PROVE  SumFunctionOnSet(f, S) = SumFunctionOnSet(f, D)
<1> DEFINE C == {T \in SUBSET S : SumFunctionOnSet(f, T) = SumFunctionOnSet(f, T \cap D)}
<1>1. ASSUME NEW T \in SUBSET S, \A R \in SUBSET T : R # T => R \in C PROVE T \in C
  <2>1. CASE T \subseteq D
    <3>1. T \cap D = T
      BY <2>1
    <3>2. QED
      BY <3>1
  <2>2. CASE ~ (T \subseteq D)
    <3>1. PICK x \in T : x \notin D
      BY <2>2
    <3>2. IsFiniteSet(T) /\ \A y \in T : f[y] \in Int
      BY FS_Subset
    <3>3. SumFunctionOnSet(f, T) = f[x] + SumFunctionOnSet(f, T \ {x})
      BY <3>2, SumRemove
    <3>4. f[x] = 0
      BY <3>1
    <3>5. T \ {x} \in C /\ (T \ {x}) \cap D = T \cap D
      BY <1>1, <3>1
    <3>6. IsFiniteSet(T \cap D) /\ SumFunctionOnSet(f, T \cap D) \in Int
      <4>1. IsFiniteSet(T \cap D)
        BY <3>2, FS_Subset
      <4>2. QED
        BY <3>2, <4>1, SumInt
    <3>7. SumFunctionOnSet(f, T \ {x}) = SumFunctionOnSet(f, T \cap D)
      BY <3>5
    <3>8. SumFunctionOnSet(f, T) = SumFunctionOnSet(f, T \cap D)
      BY <3>3, <3>4, <3>6, <3>7
    <3>9. QED
      BY <3>8
  <2>3. QED
    BY <2>1, <2>2
<1>2. SUBSET S \subseteq C
  <2> HIDE DEF C
  <2>1. QED
    BY <1>1, SubsetInduction
<1>3. S \in C /\ S \cap D = D
  BY <1>2
<1>4. QED
  BY <1>3

\* One value changes.
THEOREM SumChanged ==
  ASSUME NEW f, NEW g, NEW S, IsFiniteSet(S), \A x \in S : f[x] \in Int,
         NEW y \in S, g[y] \in Int, \A x \in S \ {y} : g[x] = f[x]
  PROVE  SumFunctionOnSet(g, S) = SumFunctionOnSet(f, S) + (g[y] - f[y])
<1>1. IsFiniteSet(S \ {y}) /\ \A x \in S \ {y} : f[x] \in Int
  BY FS_RemoveElement
<1>2. SumFunctionOnSet(g, S \ {y}) = SumFunctionOnSet(f, S \ {y})
  BY <1>1, SumSame
<1>3. \A x \in S : g[x] \in Int
  OBVIOUS
<1>4. SumFunctionOnSet(f, S) = f[y] + SumFunctionOnSet(f, S \ {y})
  BY SumRemove
<1>5. SumFunctionOnSet(g, S) = g[y] + SumFunctionOnSet(g, S \ {y})
  BY <1>3, SumRemove
<1>6. SumFunctionOnSet(f, S \ {y}) \in Int
  BY <1>1, SumInt
<1>7. PICK a \in Int, b \in Int, c \in Int :
        a = f[y] /\ b = g[y] /\ c = SumFunctionOnSet(f, S \ {y})
  BY <1>6
<1>8. SumFunctionOnSet(g, S) = b + c /\ SumFunctionOnSet(f, S) = a + c
  BY <1>2, <1>4, <1>5, <1>7
<1>9. QED
  BY <1>7, <1>8

-----------------------------------------------------------------------------
(* Loops: h goes through n turns, the i-th of which is the function G[i].  *)

Turns(h, w, G, n) == h = [i \in 0..n |-> IF i = 0 THEN w ELSE G[i][h[i - 1]]]

\* One more turn.
LEMMA OneMoreTurn ==
  ASSUME NEW w, NEW G, NEW n \in Nat, NEW g, Turns(g, w, G, n)
  PROVE  \E h : Turns(h, w, G, n + 1)
<1> DEFINE h == [i \in 0..(n + 1) |-> IF i <= n THEN g[i] ELSE G[i][g[n]]]
           k == [i \in 0..(n + 1) |-> IF i = 0 THEN w ELSE G[i][h[i - 1]]]
<1>0. g = [i \in 0..n |-> IF i = 0 THEN w ELSE G[i][g[i - 1]]]
  BY DEF Turns
<1>1. ASSUME NEW i \in 0..(n + 1) PROVE h[i] = k[i]
  <2>1. CASE i = 0
    BY <1>0, <2>1
  <2>2. CASE i \in 1..n
    <3>1. h[i - 1] = g[i - 1] /\ h[i] = g[i]
      BY <2>2
    <3>2. g[i] = G[i][g[i - 1]]
      BY <1>0, <2>2
    <3>3. QED
      BY <2>2, <3>1, <3>2
  <2>3. CASE i = n + 1
    <3>1. h[i - 1] = g[n] /\ h[i] = G[i][g[n]]
      BY <2>3
    <3>2. QED
      BY <2>3, <3>1
  <2>4. QED
    BY <2>1, <2>2, <2>3
<1>2. h = [i \in 0..(n + 1) |-> h[i]] /\ k = [i \in 0..(n + 1) |-> k[i]]
  OBVIOUS
<1> HIDE DEF h, k
<1>3. h = k
  BY <1>1, <1>2
<1>4. Turns(h, w, G, n + 1)
  BY <1>3 DEF k, Turns
<1>5. QED
  BY <1>4

\* A loop of any length is defined.
THEOREM LoopDefined ==
  ASSUME NEW w, NEW G, NEW n \in Nat
  PROVE  \E h : Turns(h, w, G, n)
<1> DEFINE T == {m \in Nat : \E h : Turns(h, w, G, m)}
<1>1. 0 \in T
  <2>1. Turns([i \in 0..0 |-> w], w, G, 0)
    BY DEF Turns
  <2>2. QED
    BY <2>1
<1>2. ASSUME NEW m \in Nat, m \in T PROVE m + 1 \in T
  <2>1. PICK g : Turns(g, w, G, m)
    BY <1>2
  <2>2. QED
    BY <2>1, OneMoreTurn
<1>3. Nat \subseteq T
  <2> HIDE DEF T
  <2>1. QED
    BY <1>1, <1>2, SetInduction
<1>4. QED
  BY <1>3

\* What the loop keeps: if the start is in T[0], and each turn leads from the
\* set of the turn before it to its own, every turn ends in its set.
THEOREM LoopStays ==
  ASSUME NEW n \in Nat, NEW h, NEW T, h[0] \in T[0],
         \A i \in 1..n : h[i - 1] \in T[i - 1] => h[i] \in T[i]
  PROVE  \A i \in 0..n : h[i] \in T[i]
<1> DEFINE I == {i \in Nat : i <= n => h[i] \in T[i]}
<1>1. 0 \in I
  OBVIOUS
<1>2. ASSUME NEW i \in Nat, i \in I PROVE i + 1 \in I
  <2> SUFFICES ASSUME i + 1 <= n PROVE h[i + 1] \in T[i + 1]
    OBVIOUS
  <2>1. h[i] \in T[i]
    BY <1>2
  <2>2. i + 1 \in 1..n /\ (i + 1) - 1 = i
    OBVIOUS
  <2>3. QED
    BY <2>1, <2>2
<1>3. Nat \subseteq I
  <2> HIDE DEF I
  <2>1. QED
    BY <1>1, <1>2, SetInduction
<1>4. QED
  BY <1>3
=============================================================================
