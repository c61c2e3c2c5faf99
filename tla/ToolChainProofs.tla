-------------------------- MODULE ToolChainProofs --------------------------
(***************************************************************************)
(* Proofs about the file tools, for files of any length and any options:   *)
(* what is cut is the interval, what is cut again is the interval of the   *)
(* interval, and the describer's summary is that of the piece.             *)
(***************************************************************************)
EXTENDS ToolChain, Induction, SequenceTheorems

-----------------------------------------------------------------------------
(* Indices and their ranks. *)

Least(I, i) == {j \in I : j <= i}

\* A set of indices of a sequence is finite.
LEMMA IndicesFinite ==
  ASSUME NEW n \in Nat, NEW I \in SUBSET (1..n)
  PROVE  /\ IsFiniteSet(I) /\ Cardinality(I) \in Nat
         /\ \A i \in Int : /\ IsFiniteSet(Least(I, i)) /\ Least(I, i) \in SUBSET (1..n)
                           /\ Rank(I, i) \in Nat /\ Rank(I, i) = Cardinality(Least(I, i))
<1>1. IsFiniteSet(1..n)
  BY FS_Interval
<1>2. \A J \in SUBSET (1..n) : IsFiniteSet(J) /\ Cardinality(J) \in Nat
  BY <1>1, FS_Subset, FS_CardinalityType
<1>3. \A i \in Int : Least(I, i) \in SUBSET (1..n)
  BY DEF Least
<1>4. \A i \in Int : Rank(I, i) = Cardinality(Least(I, i))
  BY DEF Rank, Least
<1>5. QED
  BY <1>2, <1>3, <1>4

\* A later index of the set has a higher rank.
LEMMA RankRises ==
  ASSUME NEW n \in Nat, NEW I \in SUBSET (1..n), NEW i \in I, NEW j \in I, i < j
  PROVE  Rank(I, i) < Rank(I, j)
<1>1. i \in Int /\ j \in Int
  OBVIOUS
<1>2. /\ IsFiniteSet(Least(I, j)) /\ Rank(I, i) \in Nat /\ Rank(I, j) \in Nat
      /\ Rank(I, i) = Cardinality(Least(I, i)) /\ Rank(I, j) = Cardinality(Least(I, j))
  BY <1>1, IndicesFinite
<1>3. Least(I, i) \in SUBSET Least(I, j)
  <2>1. \A k \in I : k \in Int /\ (k <= i => k <= j)
    OBVIOUS
  <2>2. QED
    BY <2>1 DEF Least
<1>4. j \in Least(I, j) /\ j \notin Least(I, i)
  BY DEF Least
<1>5. /\ Cardinality(Least(I, i)) <= Cardinality(Least(I, j))
      /\ Cardinality(Least(I, i)) # Cardinality(Least(I, j))
  BY <1>2, <1>3, <1>4, FS_Subset
<1>6. QED
  BY <1>2, <1>5

\* One index more, the last.
LEMMA RankMore ==
  ASSUME NEW n \in Nat, NEW I \in SUBSET (1..n)
  PROVE  LET J == I \cup {n + 1} IN
         /\ J \in SUBSET (1..(n + 1))
         /\ Cardinality(J) = Cardinality(I) + 1
         /\ \A i \in I : Rank(J, i) = Rank(I, i)
         /\ Rank(J, n + 1) = Cardinality(I) + 1
<1> DEFINE J == I \cup {n + 1}
<1>1. J \in SUBSET (1..(n + 1))
  OBVIOUS
<1>2. Cardinality(J) = Cardinality(I) + 1
  <2>1. IsFiniteSet(I) /\ n + 1 \notin I
    BY IndicesFinite
  <2>2. QED
    BY <2>1, FS_AddElement
<1>3. ASSUME NEW i \in I PROVE Rank(J, i) = Rank(I, i)
  <2>1. Least(J, i) = Least(I, i)
    BY DEF Least
  <2>2. QED
    BY <2>1 DEF Rank, Least
<1>4. Rank(J, n + 1) = Cardinality(J)
  <2>1. Least(J, n + 1) = J
    <3>1. \A k \in J : k <= n + 1
      OBVIOUS
    <3>2. QED
      BY <3>1 DEF Least
  <2>2. QED
    BY <2>1 DEF Rank, Least
<1>5. QED
  BY <1>1, <1>2, <1>3, <1>4

\* The ranks are the numbers up to the size of the set.
LEMMA RankOnto ==
  ASSUME NEW n \in Nat, NEW I \in SUBSET (1..n)
  PROVE  /\ \A i \in I : Rank(I, i) \in 1..Cardinality(I)
         /\ \A k \in 1..Cardinality(I) : \E i \in I : Rank(I, i) = k
<1> DEFINE Good(K) == /\ \A i \in K : Rank(K, i) \in 1..Cardinality(K)
                      /\ \A k \in 1..Cardinality(K) : \E i \in K : Rank(K, i) = k
           T == {m \in Nat : \A K \in SUBSET (1..m) : Good(K)}
<1>1. 0 \in T
  <2>1. \A K \in SUBSET (1..0) : K = {}
    OBVIOUS
  <2>2. Good({})
    BY FS_EmptySet
  <2>3. QED
    BY <2>1, <2>2
<1>2. ASSUME NEW m \in Nat, m \in T PROVE m + 1 \in T
  <2>1. SUFFICES ASSUME NEW K \in SUBSET (1..(m + 1)) PROVE Good(K)
    OBVIOUS
  <2>2. CASE m + 1 \notin K
    <3>1. K \in SUBSET (1..m)
      BY <2>2
    <3>2. QED
      BY <1>2, <3>1
  <2>3. CASE m + 1 \in K
    <3>1. PICK H : H = K \ {m + 1}
      OBVIOUS
    <3>2. H \in SUBSET (1..m) /\ K = H \cup {m + 1}
      BY <2>3, <3>1
    <3>3. Good(H)
      BY <1>2, <3>2
    <3>4. Cardinality(H) \in Nat
      BY <3>2, IndicesFinite
    <3>5. /\ Cardinality(K) = Cardinality(H) + 1
          /\ \A i \in H : Rank(K, i) = Rank(H, i)
          /\ Rank(K, m + 1) = Cardinality(H) + 1
      BY <3>2, RankMore
    <3>6. ASSUME NEW k \in 1..Cardinality(K) PROVE \E i \in K : Rank(K, i) = k
      <4>1. k \in 1..Cardinality(H) \/ k = Cardinality(H) + 1
        BY <3>4, <3>5
      <4>2. QED
        BY <3>2, <3>3, <3>5, <4>1
    <3>7. ASSUME NEW i \in K PROVE Rank(K, i) \in 1..Cardinality(K)
      <4>1. i \in H \/ i = m + 1
        BY <3>2
      <4>2. CASE i \in H
        BY <3>3, <3>4, <3>5, <4>2
      <4>3. CASE i = m + 1
        BY <3>4, <3>5, <4>3
      <4>4. QED
        BY <4>1, <4>2, <4>3
    <3>8. QED
      BY <3>6, <3>7
  <2>4. QED
    BY <2>2, <2>3
<1>3. Nat \subseteq T
  <2> HIDE DEF T
  <2>1. QED
    BY <1>1, <1>2, SetInduction
<1>4. n \in T
  BY <1>3
<1>5. QED
  BY <1>4

\* Indices whose ranks are the numbers of a set are as many as those.
LEMMA RankCounts ==
  ASSUME NEW n \in Nat, NEW I \in SUBSET (1..n)
  PROVE  \A A \in SUBSET I : \A B \in SUBSET (1..Cardinality(I)) :
           (\A i \in I : i \in A <=> Rank(I, i) \in B) => Cardinality(A) = Cardinality(B)
<1> SUFFICES ASSUME NEW A \in SUBSET I, NEW B \in SUBSET (1..Cardinality(I)),
                    \A i \in I : i \in A <=> Rank(I, i) \in B
             PROVE  Cardinality(A) = Cardinality(B)
  OBVIOUS
<1> DEFINE f == [i \in A |-> Rank(I, i)]
<1>1. f \in [A -> B]
  OBVIOUS
<1>2. \A i, j \in A : f[i] = f[j] => i = j
  <2>1. SUFFICES ASSUME NEW i \in A, NEW j \in A, i # j PROVE f[i] # f[j]
    OBVIOUS
  <2>2. /\ Rank(I, i) \in Nat /\ Rank(I, j) \in Nat /\ i \in I /\ j \in I
        /\ i \in Nat /\ j \in Nat
    BY IndicesFinite
  <2>3. i < j \/ j < i
    BY <2>1, <2>2
  <2>4. Rank(I, i) < Rank(I, j) \/ Rank(I, j) < Rank(I, i)
    BY <2>2, <2>3, RankRises
  <2>5. QED
    BY <2>2, <2>4
<1>3. \A b \in B : \E i \in A : f[i] = b
  BY RankOnto
<1> HIDE DEF f
<1>4. f \in Bijection(A, B)
  BY <1>1, <1>2, <1>3 DEF Bijection, Injection, Surjection, IsInjective
<1>5. ExistsBijection(A, B)
  BY <1>4 DEF ExistsBijection
<1>6. IsFiniteSet(A)
  BY IndicesFinite
<1>7. QED
  BY <1>5, <1>6, FS_Bijection


-----------------------------------------------------------------------------
(* What was chosen. *)

Rec  == [tv : Nat, op : STRING, size : Nat, body : Nat]
File == [start : Nat, recs : Seq(Rec)]

\* One entry more is chosen, the next.
LEMMA ChosenMore ==
  ASSUME NEW E, NEW s \in Seq(E), NEW q \in Seq(E), NEW n \in Nat, n < Len(s),
         NEW I \in SUBSET (1..n), Chosen(q, s, I)
  PROVE  Chosen(Append(q, s[n + 1]), s, I \cup {n + 1})
<1> DEFINE J == I \cup {n + 1}
           e == s[n + 1]
<1>1. /\ Cardinality(J) = Cardinality(I) + 1
      /\ \A i \in I : Rank(J, i) = Rank(I, i)
      /\ Rank(J, n + 1) = Cardinality(I) + 1
  BY RankMore
<1>2. Len(q) = Cardinality(I) /\ \A i \in I : q[Rank(I, i)] = s[i]
  BY DEF Chosen
<1>3. e \in E
  BY ElementOfSeq
<1>4. \A i \in I : Rank(I, i) \in 1..Len(q)
  BY <1>2, RankOnto
<1> HIDE DEF J, e
<1>5. /\ Len(Append(q, e)) = Len(q) + 1
      /\ \A k \in 1..Len(q) : Append(q, e)[k] = q[k]
      /\ Append(q, e)[Len(q) + 1] = e
  BY <1>3
<1>6. \A i \in I : Append(q, e)[Rank(J, i)] = s[i]
  BY <1>1, <1>2, <1>4, <1>5
<1>7. Append(q, e)[Rank(J, n + 1)] = s[n + 1]
  BY <1>1, <1>2, <1>5 DEF e
<1>8. \A i \in J : Append(q, e)[Rank(J, i)] = s[i]
  BY <1>6, <1>7 DEF J
<1>9. Len(Append(q, e)) = Cardinality(J)
  BY <1>1, <1>2, <1>5
<1>10. QED
  BY <1>8, <1>9 DEF Chosen, J, e

\* What is chosen of what was chosen.
LEMMA ChosenOfChosen ==
  ASSUME NEW n \in Nat, NEW I \in SUBSET (1..n), NEW q, NEW s, Chosen(q, s, I),
         NEW K \in SUBSET (1..Len(q)), NEW r, Chosen(r, q, K),
         NEW J \in SUBSET I, \A i \in I : i \in J <=> Rank(I, i) \in K
  PROVE  Chosen(r, s, J)
<1>1. Len(q) = Cardinality(I) /\ \A i \in I : q[Rank(I, i)] = s[i]
  BY DEF Chosen
<1>2. Len(r) = Cardinality(K) /\ \A k \in K : r[Rank(K, k)] = q[k]
  BY DEF Chosen
<1>r. ASSUME NEW j \in I PROVE j \in Nat /\ Rank(I, j) \in Nat
  <2>1. j \in Int /\ j \in Nat
    OBVIOUS
  <2>2. QED
    BY <2>1, IndicesFinite
<1>c. ASSUME NEW A \in SUBSET I, NEW B \in SUBSET (1..Cardinality(I)),
             \A j \in I : j \in A <=> Rank(I, j) \in B
      PROVE  Cardinality(A) = Cardinality(B)
  <2>1. \A C \in SUBSET I : \A D \in SUBSET (1..Cardinality(I)) :
          (\A j \in I : j \in C <=> Rank(I, j) \in D) => Cardinality(C) = Cardinality(D)
    BY RankCounts, ZenonT(60)
  <2>2. QED
    BY <1>c, <2>1, Zenon
<1>3. Cardinality(J) = Cardinality(K)
  <2>1. K \in SUBSET (1..Cardinality(I))
    BY <1>1
  <2>2. QED
    BY <1>c, <2>1
<1>4. ASSUME NEW i \in J PROVE r[Rank(J, i)] = s[i]
  <2>1. PICK k \in K : k = Rank(I, i)
    OBVIOUS
  <2>2. k \in Nat /\ i \in Nat /\ i \in I
    BY <1>r, <2>1
  <2>3. PICK A : A = Least(J, i)
    OBVIOUS
  <2>4. PICK B : B = Least(K, k)
    OBVIOUS
  <2>5. A \in SUBSET I /\ B \in SUBSET (1..Cardinality(I))
    BY <1>1, <2>3, <2>4 DEF Least
  <2>6. ASSUME NEW j \in I PROVE j \in A <=> Rank(I, j) \in B
    <3>1. Rank(I, j) \in Nat /\ j \in Nat
      BY <1>r
    <3>2. j <= i <=> Rank(I, j) <= k
      <4>1. CASE j = i
        BY <2>1, <2>2, <4>1
      <4>2. CASE j < i
        <5>1. Rank(I, j) < k
          BY <2>1, <2>2, <4>2, RankRises
        <5>2. QED
          BY <2>2, <3>1, <4>2, <5>1
      <4>3. CASE i < j
        <5>1. k < Rank(I, j)
          BY <2>1, <2>2, <4>3, RankRises
        <5>2. QED
          BY <2>2, <3>1, <4>3, <5>1
      <4>4. QED
        BY <2>2, <3>1, <4>1, <4>2, <4>3
    <3>3. QED
      BY <2>3, <2>4, <3>2 DEF Least
  <2>7. Cardinality(A) = Cardinality(B)
    BY <1>c, <2>5, <2>6
  <2>8. Rank(J, i) = Rank(K, k)
    BY <2>3, <2>4, <2>7 DEF Rank, Least
  <2>9. QED
    BY <1>1, <1>2, <2>1, <2>2, <2>8
<1>5. QED
  BY <1>2, <1>3, <1>4 DEF Chosen

-----------------------------------------------------------------------------
(* Sums over a sequence. *)

\* One term more.
LEMMA SumMore ==
  ASSUME NEW n \in Nat, NEW f, NEW g, \A i \in 1..(n + 1) : g[i] \in Int,
         \A i \in 1..n : f[i] = g[i]
  PROVE  /\ SumFunctionOnSet(g, 1..(n + 1)) = g[n + 1] + SumFunctionOnSet(f, 1..n)
         /\ SumFunctionOnSet(f, 1..n) \in Int
<1>1. IsFiniteSet(1..n) /\ IsFiniteSet(1..(n + 1))
  BY FS_Interval
<1>2. (1..(n + 1)) \ {n + 1} = 1..n /\ n + 1 \in 1..(n + 1)
  OBVIOUS
<1>3. SumFunctionOnSet(f, 1..n) = SumFunctionOnSet(g, 1..n)
  BY <1>1, SumSame
<1>4. SumFunctionOnSet(g, 1..(n + 1)) = g[n + 1] + SumFunctionOnSet(g, 1..n)
  BY <1>1, <1>2, SumRemove
<1>5. SumFunctionOnSet(g, 1..n) \in Int
  <2>1. CASE n = 0
    <3>1. 1..n = {}
      BY <2>1
    <3>2. QED
      BY <3>1, SumEmpty
  <2>2. CASE n > 0
    <3>1. n \in 1..n /\ \A i \in 1..n : g[i] \in Int
      BY <2>2
    <3>2. QED
      BY <1>1, <3>1, SumRemove
  <2>3. QED
    BY <2>1, <2>2
<1>6. QED
  BY <1>3, <1>4, <1>5

Length(q) == SumFunctionOnSet([i \in DOMAIN q |-> HeadSize + q[i].body], DOMAIN q)

\* A record more in a file.
LEMMA LengthMore ==
  ASSUME NEW q \in Seq(Rec), NEW r \in Rec
  PROVE  Length(Append(q, r)) = Length(q) + HeadSize + r.body /\ Length(q) \in Int
<1> DEFINE n == Len(q)
           p == Append(q, r)
           f == [i \in DOMAIN q |-> HeadSize + q[i].body]
           g == [i \in DOMAIN p |-> HeadSize + p[i].body]
<1>1. /\ n \in Nat /\ DOMAIN q = 1..n /\ p \in Seq(Rec) /\ DOMAIN p = 1..(n + 1)
      /\ \A i \in 1..n : p[i] = q[i]
      /\ p[n + 1] = r
  OBVIOUS
<1>2. \A i \in 1..(n + 1) : p[i] \in Rec
  BY <1>1
<1> HIDE DEF n, p
<1>3. \A i \in 1..(n + 1) : g[i] = HeadSize + p[i].body /\ g[i] \in Int
  BY <1>1, <1>2, ToolChainAssumption DEF Rec
<1>4. \A i \in 1..n : f[i] = g[i]
  BY <1>1, <1>3
<1>5. Length(q) = SumFunctionOnSet(f, 1..n) /\ Length(p) = SumFunctionOnSet(g, 1..(n + 1))
  BY <1>1 DEF Length
<1> HIDE DEF f, g
<1>6. /\ SumFunctionOnSet(g, 1..(n + 1)) = g[n + 1] + SumFunctionOnSet(f, 1..n)
      /\ SumFunctionOnSet(f, 1..n) \in Int
  BY <1>1, <1>3, <1>4, SumMore
<1>7. g[n + 1] = HeadSize + r.body
  BY <1>1, <1>3
<1>8. HeadSize \in Int /\ r.body \in Int
  BY ToolChainAssumption DEF Rec
<1>9. QED
  BY <1>5, <1>6, <1>7, <1>8 DEF p

\* The empty file.
LEMMA LengthNone == Length(<< >>) = 0
<1>1. DOMAIN << >> = {}
  OBVIOUS
<1>2. QED
  BY <1>1, SumEmpty DEF Length

\* What a record adds to the memory in use.
Added(r) == CASE r.op = "allocUVM" -> r.size [] r.op = "freeUVM" -> -r.size [] OTHER -> 0

\* In use after a record more.
LEMMA InUseMore ==
  ASSUME NEW s \in Seq(Rec), NEW n \in Nat, n < Len(s)
  PROVE  /\ InUse(s, n + 1) = Added(s[n + 1]) + InUse(s, n)
         /\ InUse(s, n) \in Int /\ Added(s[n + 1]) \in Int
<1> DEFINE f == [i \in 1..n |-> Added(s[i])]
           g == [i \in 1..(n + 1) |-> Added(s[i])]
<1>1. \A r \in Rec : Added(r) \in Int
  BY DEF Added, Rec
<1>2. \A i \in 1..(n + 1) : s[i] \in Rec
  BY ElementOfSeq
<1>3. \A i \in 1..(n + 1) : g[i] = Added(s[i]) /\ g[i] \in Int
  BY <1>1, <1>2
<1>4. \A i \in 1..n : f[i] = g[i]
  BY <1>3
<1>5. InUse(s, n) = SumFunctionOnSet(f, 1..n) /\ InUse(s, n + 1) = SumFunctionOnSet(g, 1..(n + 1))
  BY DEF InUse, Added
<1> HIDE DEF f, g
<1>6. /\ SumFunctionOnSet(g, 1..(n + 1)) = g[n + 1] + SumFunctionOnSet(f, 1..n)
      /\ SumFunctionOnSet(f, 1..n) \in Int
  BY <1>3, <1>4, SumMore
<1>7. QED
  BY <1>3, <1>5, <1>6

\* Before the first.
LEMMA InUseNone ==
  ASSUME NEW s
  PROVE  InUse(s, 0) = 0
<1>1. 1..0 = {}
  OBVIOUS
<1>2. QED
  BY <1>1, SumEmpty DEF InUse

-----------------------------------------------------------------------------
(* The inductive invariant: of a cutter, of the describer, and of the order *)
(* they run in.                                                             *)

Arg   == [opt : {"F", "f", "t", "d"}, val : Nat \cup {-1}]
Times == [start : Nat, base : Nat, from : Nat, to : Nat]
Sum   == [numbers : Nat, length : Int]
Span  == [start : Nat, base : Nat, end : Int]
Sizes == [inUse : Nat, peak : Nat, peakAlloc : Nat]

Parsing(ph) == ph = "args"
Exited(ph)  == ph \in {"usage", "crash"}
Cutting(ph) == ph \in {"cut", "done"}
Over(ph)    == ph = "done"

\* Of the first o options of v, x is the value of the last one that is k, or
\* 0 if there is none.
Got(v, o, k, x) ==
  \/ x = 0 /\ \A i \in 1..o : v[i].opt # k
  \/ \E i \in 1..o : v[i].opt = k /\ v[i].val = x /\ \A j \in 1..o : v[j].opt = k => j <= i

\* The times after one more option.
Read(f, t, h) ==
  CASE h.opt = "F" -> [t EXCEPT !.start = f.start]
    [] h.opt = "f" -> [t EXCEPT !.from = h.val]
    [] h.opt = "t" -> [t EXCEPT !.to = h.val]
    [] h.opt = "d" -> [t EXCEPT !.to = t.start + h.val]

\* A cutter has not read yet as long as it parses, and has a name and an
\* interval when it reads, which are those of the options.
Control(f, v, o, nm, t, n, q, s, ph) ==
  /\ f \in File /\ v \in Seq(Arg) /\ o \in 0..Len(v) /\ nm \in BOOLEAN /\ t \in Times
  /\ n \in 0..Len(f.recs) /\ q \in Seq(Rec) /\ s \in Sum
  /\ Parsing(ph) \/ Exited(ph) \/ Cutting(ph)
  /\ Parsing(ph) => n = 0 /\ q = << >> /\ s.numbers = 0 /\ s.length = 0 /\ t.base = 0
  /\ nm /\ ~Exited(ph) => t.start = f.start /\ f.start > 0
  /\ ~Exited(ph) => /\ Got(v, o, "f", t.from)
                    /\ (\A i \in 1..o : v[i].opt # "d") => Got(v, o, "t", t.to)
  /\ Cutting(ph) => nm /\ t.from > 0 /\ t.to > 0 /\ o = Len(v)
  /\ Over(ph) => n = Len(f.recs)

\* The first n records of f that are in the interval.
Seen(f, t, n) ==
  {i \in 1..n : t.from <= Second(f, f.recs[i]) /\ Second(f, f.recs[i]) <= t.to}

\* After n records the piece has those of the interval, and the numbers are
\* the piece's.
Work(f, t, n, q, s) ==
  /\ s.numbers = Len(q) /\ s.length = Length(q)
  /\ Plain(f.recs) /\ t.start = f.start =>
       /\ t.base = IF n = 0 THEN 0 ELSE f.recs[1].tv
       /\ Chosen(q, f.recs, Seen(f, t, n))

\* After n records the span is from the first to the latest of them.
Spanned(f, n, t) ==
  f.start > 0 /\ Plain(f.recs) =>
    IF n = 0
      THEN t.start = 0
      ELSE /\ t.start = f.start /\ t.base = f.recs[1].tv
           /\ \E i \in 1..n : t.end - t.start = f.recs[i].tv - f.recs[1].tv
           /\ \A i \in 1..n : t.end - t.start >= f.recs[i].tv - f.recs[1].tv

SizeOK(n) == n \in 0..(Word32 - 1)

Alloc(r) == r.op = "allocUVM"
Free(r)  == r.op = "freeUVM"

Allocated(s, n) == {s[i].size : i \in {j \in 1..n : Alloc(s[j])}}

\* After n records the sizes are theirs.
Weighed(s, n, z) ==
  /\ (\A m \in 0..n : SizeOK(InUse(s, m))) =>
       /\ z.inUse = InUse(s, n)
       /\ \A m \in 0..n : InUse(s, m) <= z.peak
       /\ \E m \in 0..n : InUse(s, m) = z.peak
  /\ z.peakAlloc \in Allocated(s, n) \cup {0}
  /\ \A b \in Allocated(s, n) : b <= z.peakAlloc

Described(f, n, t, c, z, p) ==
  /\ f \in File /\ n \in 0..Len(f.recs) /\ t \in Span
  /\ p \in BOOLEAN /\ (p => n = Len(f.recs))
  /\ c.total = n
  /\ z \in Sizes /\ SizeOK(z.inUse) /\ SizeOK(z.peak)
  /\ Spanned(f, n, t)
  /\ Weighed(f.recs, n, z)

CutOK   == /\ Control(input, argv, optind, named, times, pos, piece, total, phase)
           /\ Work(input, times, pos, piece, total)
RecutOK == /\ Control(input2, argv2, optind2, named2, times2, pos2, piece2, total2, phase2)
           /\ Work(input2, times2, pos2, piece2, total2)
DescOK  == Described(file, read, span, cnt, siz, printed)

\* Who has not started is as at first, and who is done has left its file.
InOrder ==
  /\ tool \in {"cut", "recut", "describe"}
  /\ tool = "cut" => Recut!CutInit(NoFile, << >>)
  /\ tool # "cut" => Over(phase) /\ input2 = Cut!Output
  /\ tool = "describe" => Over(phase2) /\ file = Recut!Output
  /\ tool # "describe" => Describe!DescInit(NoFile)

IInv == CutOK /\ RecutOK /\ DescOK /\ InOrder

-----------------------------------------------------------------------------
(* The cutter's turns, whichever cutter. *)

\* An empty piece is what was chosen of no records.
LEMMA WorkNone ==
  ASSUME NEW f \in File, NEW t, NEW s, t.base = 0, s.numbers = 0, s.length = 0
  PROVE  Work(f, t, 0, << >>, s)
<1>1. 1..0 = {}
  OBVIOUS
<1>2. Seen(f, t, 0) = {}
  BY <1>1 DEF Seen
<1>3. Len(<< >>) = 0 /\ Cardinality({}) = 0
  BY FS_EmptySet
<1>4. Chosen(<< >>, f.recs, {})
  BY <1>3 DEF Chosen
<1>5. QED
  BY <1>2, <1>3, <1>4, LengthNone DEF Work

Based(t, r) == IF t.base = 0 THEN [t EXCEPT !.base = r.tv] ELSE t

Timestamp(tv, start, base) == start + (IF tv >= base THEN tv - base ELSE base + tv)

Within(t, r) ==
  LET second == Timestamp(r.tv, t.start, t.base) IN t.from <= second /\ second <= t.to

\* What a cutter does with a record.
Taken(t, q, s, r, u, p, v) ==
  /\ u = Based(t, r)
  /\ IF Within(u, r)
       THEN p = Append(q, r) /\ v = [numbers |-> s.numbers + 1,
                                     length  |-> s.length + HeadSize + r.body]
       ELSE p = q /\ v = s

\* The types stay.
LEMMA TakenTypes ==
  ASSUME NEW t \in Times, NEW q \in Seq(Rec), NEW s \in Sum, NEW r \in Rec, NEW u, NEW p, NEW v,
         Taken(t, q, s, r, u, p, v)
  PROVE  /\ u \in Times /\ p \in Seq(Rec) /\ v \in Sum
         /\ u.start = t.start /\ u.from = t.from /\ u.to = t.to
         /\ u.base = IF t.base = 0 THEN r.tv ELSE t.base
<1>1. r.tv \in Nat /\ r.body \in Nat
  BY DEF Rec
<1>2. /\ u \in Times /\ u.start = t.start /\ u.from = t.from /\ u.to = t.to
      /\ u.base = IF t.base = 0 THEN r.tv ELSE t.base
  BY <1>1 DEF Taken, Based, Times
<1>3. p \in Seq(Rec)
  BY DEF Taken
<1>4. v \in Sum
  BY <1>1, ToolChainAssumption DEF Taken, Sum
<1>5. QED
  BY <1>2, <1>3, <1>4

\* The next record is taken when it was made in the interval.
LEMMA TakenIsWork ==
  ASSUME NEW f \in File, NEW t \in Times, NEW n \in Nat, n < Len(f.recs), NEW q \in Seq(Rec),
         NEW s \in Sum, Work(f, t, n, q, s), NEW u, NEW p, NEW v,
         Taken(t, q, s, f.recs[n + 1], u, p, v)
  PROVE  Work(f, u, n + 1, p, v)
<1> DEFINE recs == f.recs
           r == recs[n + 1]
<1>1. recs \in Seq(Rec) /\ f.start \in Nat /\ Len(recs) \in Nat /\ DOMAIN recs = 1..Len(recs)
  BY DEF File
<1>2. \A i \in 1..Len(recs) : recs[i] \in Rec /\ recs[i].tv \in Nat /\ recs[i].body \in Nat
  <2>1. \A i \in 1..Len(recs) : recs[i] \in Rec
    BY <1>1, ElementOfSeq
  <2>2. \A e \in Rec : e.tv \in Nat /\ e.body \in Nat
    BY DEF Rec
  <2>3. QED
    BY <2>1, <2>2
<1>3. n + 1 \in 1..Len(recs) /\ 1 \in 1..Len(recs) /\ r \in Rec
  BY <1>1, <1>2
<1>4. /\ u \in Times /\ u.start = t.start /\ u.from = t.from /\ u.to = t.to
      /\ u.base = IF t.base = 0 THEN r.tv ELSE t.base
  BY <1>3, TakenTypes
<1>5. v.numbers = Len(p) /\ v.length = Length(p)
  <2>1. s.numbers = Len(q) /\ s.length = Length(q)
    BY DEF Work
  <2>2. CASE Within(u, r)
    <3>1. p = Append(q, r) /\ v.numbers = s.numbers + 1 /\ v.length = s.length + HeadSize + r.body
      BY <2>2 DEF Taken
    <3>2. Len(p) = Len(q) + 1 /\ Length(p) = Length(q) + HeadSize + r.body
      BY <1>3, <3>1, LengthMore
    <3>3. QED
      BY <2>1, <3>1, <3>2
  <2>3. CASE ~Within(u, r)
    BY <2>1, <2>3 DEF Taken
  <2>4. QED
    BY <2>2, <2>3
<1>6. ASSUME Plain(recs), t.start = f.start
      PROVE  u.base = recs[1].tv /\ Chosen(p, recs, Seen(f, u, n + 1))
  <2>1. recs[1].tv > 0 /\ \A i \in 1..Len(recs) : recs[i].tv >= recs[1].tv
    BY <1>1, <1>3, <1>6 DEF Plain
  <2>2. t.base = (IF n = 0 THEN 0 ELSE recs[1].tv) /\ Chosen(q, recs, Seen(f, t, n))
    BY <1>6 DEF Work
  <2>3. u.base = recs[1].tv
    BY <1>2, <1>3, <1>4, <2>1, <2>2
  <2>4. Timestamp(r.tv, u.start, u.base) = Second(f, r)
    BY <1>1, <1>2, <1>3, <1>4, <1>6, <2>1, <2>3 DEF Timestamp, Second
  <2>5. Within(u, r) <=> u.from <= Second(f, r) /\ Second(f, r) <= u.to
    BY <2>4 DEF Within
  <2>6. Seen(f, t, n) \in SUBSET (1..n)
    BY DEF Seen
  <2>7. Seen(f, u, n + 1) = IF Within(u, r) THEN Seen(f, t, n) \cup {n + 1} ELSE Seen(f, t, n)
    <3>1. Seen(f, t, n) = {i \in 1..n : u.from <= Second(f, recs[i]) /\ Second(f, recs[i]) <= u.to}
      BY <1>4 DEF Seen
    <3>2. 1..(n + 1) = (1..n) \cup {n + 1}
      OBVIOUS
    <3>3. QED
      BY <2>5, <3>1, <3>2 DEF Seen
  <2>8. CASE Within(u, r)
    <3>1. p = Append(q, r) /\ Seen(f, u, n + 1) = Seen(f, t, n) \cup {n + 1}
      BY <2>7, <2>8 DEF Taken
    <3>2. Chosen(Append(q, recs[n + 1]), recs, Seen(f, t, n) \cup {n + 1})
      <4>1. PICK I : I = Seen(f, t, n)
        OBVIOUS
      <4>2. I \in SUBSET (1..n) /\ Chosen(q, recs, I)
        BY <2>2, <2>6, <4>1
      <4>3. PICK w : w = recs
        OBVIOUS
      <4>4. w \in Seq(Rec) /\ Chosen(q, w, I) /\ n < Len(w)
        BY <1>1, <4>2, <4>3
      <4>5. Chosen(Append(q, w[n + 1]), w, I \cup {n + 1})
        BY <4>2, <4>4, ChosenMore
      <4>6. QED
        BY <4>1, <4>3, <4>5
    <3>3. QED
      BY <2>3, <3>1, <3>2
  <2>9. CASE ~Within(u, r)
    BY <2>2, <2>3, <2>7, <2>9 DEF Taken
  <2>10. QED
    BY <2>8, <2>9
<1>7. n + 1 # 0
  OBVIOUS
<1>8. QED
  BY <1>4, <1>5, <1>6, <1>7 DEF Work

-----------------------------------------------------------------------------
(* The describer's turn. *)

\* The span is from the first record to the latest so far.
LEMMA SpannedMore ==
  ASSUME file \in File, NEW n \in Nat, n < Len(file.recs), NEW t \in Span, Spanned(file, n, t)
  PROVE  LET r == file.recs[n + 1]
             u == Describe!Extended(Describe!Started(t, r), r)
         IN u \in Span /\ Spanned(file, n + 1, u)
<1> DEFINE r == file.recs[n + 1]
           v == Describe!Started(t, r)
           u == Describe!Extended(v, r)
<1>1. PICK f : f = file
  OBVIOUS
<1>2. f.recs \in Seq(Rec) /\ f.start \in Nat /\ Len(f.recs) \in Nat /\ DOMAIN f.recs = 1..Len(f.recs)
  BY <1>1 DEF File
<1>3. \A i \in 1..Len(f.recs) : f.recs[i].tv \in Nat
  <2>1. \A i \in 1..Len(f.recs) : f.recs[i] \in Rec
    BY <1>2, ElementOfSeq
  <2>2. QED
    BY <2>1 DEF Rec
<1>4. n + 1 \in 1..Len(f.recs) /\ 1 \in 1..Len(f.recs) /\ r = f.recs[n + 1] /\ n < Len(f.recs)
  BY <1>1, <1>2
<1>5. r.tv \in Nat /\ f.recs[1].tv \in Nat
  BY <1>3, <1>4
<1> HIDE DEF r
<1>6. v \in Span /\ v = IF t.start = 0 THEN [start |-> f.start, base |-> r.tv, end |-> f.start] ELSE t
  BY <1>1, <1>2, <1>5 DEF Describe!Started, Span
<1> HIDE DEF v
<1>7. PICK d \in Nat : d = IF r.tv >= v.base THEN r.tv - v.base ELSE v.base + r.tv
  BY <1>5, <1>6 DEF Span
<1>8. /\ u \in Span /\ u.start = v.start /\ u.base = v.base
      /\ u.end = IF v.end - v.start < d THEN v.start + d ELSE v.end
  BY <1>6, <1>7 DEF Describe!Extended, Describe!Delta, Span
<1> HIDE DEF u
<1>9. ASSUME f.start > 0, Plain(f.recs)
      PROVE  /\ u.start = f.start /\ u.base = f.recs[1].tv
             /\ \E i \in 1..(n + 1) : u.end - u.start = f.recs[i].tv - f.recs[1].tv
             /\ \A i \in 1..(n + 1) : u.end - u.start >= f.recs[i].tv - f.recs[1].tv
  <2>1. \A i \in 1..Len(f.recs) : f.recs[i].tv >= f.recs[1].tv
    BY <1>2, <1>4, <1>9 DEF Plain
  <2>2. /\ t.start \in Nat /\ t.base \in Nat /\ t.end \in Int
        /\ v.start \in Nat /\ v.base \in Nat /\ v.end \in Int
    BY <1>6 DEF Span
  <2>3. v.start = f.start /\ v.base = f.recs[1].tv
    BY <1>1, <1>4, <1>6, <1>9 DEF Spanned
  <2>4. d = r.tv - f.recs[1].tv
    BY <1>4, <1>5, <1>7, <2>1, <2>3
  <2>5. CASE n = 0
    <3>1. t.start = 0
      BY <1>1, <1>9, <2>5 DEF Spanned
    <3>2. v.end = f.start
      BY <1>6, <3>1
    <3>3. r = f.recs[1] /\ d = 0
      BY <1>4, <1>5, <2>4, <2>5
    <3>4. u.end - u.start = 0 /\ f.recs[1].tv - f.recs[1].tv = 0
      BY <1>5, <1>8, <2>2, <2>3, <3>2, <3>3
    <3>5. \A i \in 1..(n + 1) : i = 1
      BY <2>5
    <3>6. 1 \in 1..(n + 1)
      BY <2>5
    <3>7. QED
      BY <1>8, <2>3, <3>4, <3>5, <3>6
  <2>6. CASE n > 0
    <3>1. /\ t.start = f.start
          /\ \E i \in 1..n : t.end - t.start = f.recs[i].tv - f.recs[1].tv
          /\ \A i \in 1..n : t.end - t.start >= f.recs[i].tv - f.recs[1].tv
      BY <1>1, <1>9, <2>6 DEF Spanned
    <3>2. v.end = t.end
      BY <1>6, <1>9, <3>1
    <3>3. 1..n \subseteq 1..(n + 1) /\ \A i \in 1..(n + 1) : i \in 1..n \/ i = n + 1
      OBVIOUS
    <3>4. PICK a \in Int, b \in Int : a = v.end - v.start /\ b = u.end - u.start
      BY <1>8, <2>2 DEF Span
    <3>5. b = IF a < d THEN d ELSE a
      BY <1>8, <2>2, <3>4
    <3>6. /\ \E i \in 1..n : a = f.recs[i].tv - f.recs[1].tv
          /\ \A i \in 1..n : a >= f.recs[i].tv - f.recs[1].tv
      BY <2>3, <3>1, <3>2, <3>4
    <3>7. \E i \in 1..(n + 1) : b = f.recs[i].tv - f.recs[1].tv
      BY <1>4, <2>4, <3>3, <3>5, <3>6
    <3>8. ASSUME NEW i \in 1..(n + 1) PROVE b >= f.recs[i].tv - f.recs[1].tv
      <4>1. i \in 1..n \/ i = n + 1
        BY <3>3
      <4>2. CASE i = n + 1
        <5>1. f.recs[i].tv - f.recs[1].tv = d
          BY <1>4, <2>4, <4>2
        <5>2. QED
          BY <3>4, <3>5, <5>1
      <4>3. CASE i \in 1..n
        <5>1. i \in 1..Len(f.recs)
          BY <1>2, <1>4, <4>3
        <5>2. PICK x \in Int : x = f.recs[i].tv - f.recs[1].tv
          BY <1>3, <1>5, <5>1
        <5>3. a >= x
          BY <3>6, <4>3, <5>2
        <5>4. b >= x
          BY <3>4, <3>5, <5>3
        <5>5. QED
          BY <5>2, <5>4
      <4>4. QED
        BY <4>1, <4>2, <4>3
    <3>9. QED
      BY <1>8, <2>3, <3>4, <3>7, <3>8
  <2>7. QED
    BY <2>5, <2>6
<1>10. n + 1 # 0
  OBVIOUS
<1>11. QED
  BY <1>1, <1>8, <1>9, <1>10 DEF Spanned, u, v, r

\* A size that fits is not changed.
LEMMA Fits ==
  ASSUME NEW x \in Int
  PROVE  SizeOK(x % Word32) /\ (SizeOK(x) => x % Word32 = x)
<1>1. Word32 \in Nat /\ Word32 > 0
  BY ToolChainAssumption
<1>2. PICK w \in Nat : w = Word32 /\ w > 0
  BY <1>1
<1>3. x % w \in 0..(w - 1) /\ (x \in 0..(w - 1) => x % w = x)
  BY <1>2
<1>4. QED
  BY <1>2, <1>3 DEF SizeOK

\* What was allocated, after a record more.
LEMMA AllocatedMore ==
  ASSUME NEW s, NEW n \in Nat
  PROVE  Allocated(s, n + 1) = IF Alloc(s[n + 1]) THEN Allocated(s, n) \cup {s[n + 1].size}
                                                  ELSE Allocated(s, n)
<1>1. \A i : i \in 1..(n + 1) <=> i \in 1..n \/ i = n + 1
  OBVIOUS
<1>2. QED
  BY <1>1 DEF Allocated

\* The three ways to size a record.
LEMMA SizedWays ==
  ASSUME NEW z \in Sizes, NEW r \in Rec
  PROVE  LET w == Describe!Sized(z, r) IN
         /\ w \in [inUse : Int, peak : Int, peakAlloc : Nat]
         /\ Alloc(r) => /\ Added(r) = r.size
                        /\ w.inUse = (z.inUse + r.size) % Word32
                        /\ w.peakAlloc = IF r.size > z.peakAlloc THEN r.size ELSE z.peakAlloc
                        /\ w.peak = IF w.inUse > z.peak THEN w.inUse ELSE z.peak
         /\ Free(r) /\ ~Alloc(r) => /\ Added(r) = -r.size
                                    /\ w.inUse = (z.inUse - r.size) % Word32
                                    /\ w.peakAlloc = z.peakAlloc /\ w.peak = z.peak
         /\ ~Free(r) /\ ~Alloc(r) => Added(r) = 0 /\ w = z
<1> DEFINE w == Describe!Sized(z, r)
<1>1. /\ r.size \in Nat /\ z.inUse \in Nat /\ z.peak \in Nat /\ z.peakAlloc \in Nat
      /\ Word32 \in Nat /\ Word32 > 0
  BY ToolChainAssumption DEF Sizes, Rec
<1>2. PICK a \in Int, b \in Int : a = (z.inUse + r.size) % Word32 /\ b = (z.inUse - r.size) % Word32
  <2>1. z.inUse + r.size \in Int /\ z.inUse - r.size \in Int
    BY <1>1
  <2>2. (z.inUse + r.size) % Word32 \in Int /\ (z.inUse - r.size) % Word32 \in Int
    BY <2>1, Fits DEF SizeOK
  <2>3. QED
    BY <2>2
<1>3. CASE Alloc(r)
  <2>1. w = [inUse     |-> a,
             peakAlloc |-> IF r.size > z.peakAlloc THEN r.size ELSE z.peakAlloc,
             peak      |-> IF a > z.peak THEN a ELSE z.peak]
    BY <1>2, <1>3 DEF Describe!Sized, Alloc
  <2>2. Added(r) = r.size
    BY <1>3 DEF Added, Alloc
  <2> HIDE DEF w
  <2>3. w \in [inUse : Int, peak : Int, peakAlloc : Nat]
    BY <1>1, <1>2, <2>1
  <2>4. QED
    BY <1>2, <1>3, <2>1, <2>2, <2>3 DEF w
<1>4. CASE Free(r) /\ ~Alloc(r)
  <2>1. w = [z EXCEPT !.inUse = b] /\ Added(r) = -r.size
    BY <1>2, <1>4 DEF Describe!Sized, Alloc, Free, Added
  <2> HIDE DEF w
  <2>2. /\ w \in [inUse : Int, peak : Int, peakAlloc : Nat]
        /\ w.inUse = b /\ w.peakAlloc = z.peakAlloc /\ w.peak = z.peak
    BY <1>1, <1>2, <2>1 DEF Sizes
  <2>3. QED
    BY <1>2, <1>4, <2>1, <2>2 DEF w
<1>5. CASE ~Free(r) /\ ~Alloc(r)
  <2>1. w = z /\ Added(r) = 0
    BY <1>5 DEF Describe!Sized, Alloc, Free, Added
  <2>2. z \in [inUse : Int, peak : Int, peakAlloc : Nat]
    BY DEF Sizes
  <2>3. QED
    BY <1>5, <2>1, <2>2
<1>6. QED
  BY <1>3, <1>4, <1>5

\* In use, the most in use and the largest block, after a record more.
LEMMA WeighedMore ==
  ASSUME NEW s \in Seq(Rec), NEW n \in Nat, n < Len(s), NEW z \in Sizes,
         SizeOK(z.inUse), SizeOK(z.peak), Weighed(s, n, z)
  PROVE  LET w == Describe!Sized(z, s[n + 1])
         IN w \in Sizes /\ SizeOK(w.inUse) /\ SizeOK(w.peak) /\ Weighed(s, n + 1, w)
<1>1. PICK r \in Rec : r = s[n + 1]
  BY ElementOfSeq
<1>2. PICK w \in [inUse : Int, peak : Int, peakAlloc : Nat] : w = Describe!Sized(z, r)
  BY SizedWays
<1>3. /\ Alloc(r) => /\ Added(r) = r.size
                     /\ w.inUse = (z.inUse + r.size) % Word32
                     /\ w.peakAlloc = IF r.size > z.peakAlloc THEN r.size ELSE z.peakAlloc
                     /\ w.peak = IF w.inUse > z.peak THEN w.inUse ELSE z.peak
      /\ Free(r) /\ ~Alloc(r) => /\ Added(r) = -r.size
                                 /\ w.inUse = (z.inUse - r.size) % Word32
                                 /\ w.peakAlloc = z.peakAlloc /\ w.peak = z.peak
      /\ ~Free(r) /\ ~Alloc(r) => Added(r) = 0 /\ w = z
  BY <1>2, SizedWays
<1>4. /\ r.size \in Nat /\ z.inUse \in Nat /\ z.peak \in Nat /\ z.peakAlloc \in Nat
      /\ w.inUse \in Int /\ w.peak \in Int /\ w.peakAlloc \in Nat
  BY <1>2 DEF Sizes, Rec
<1>5. /\ InUse(s, n + 1) = Added(r) + InUse(s, n)
      /\ InUse(s, n) \in Int /\ Added(r) \in Int
  BY <1>1, InUseMore
<1>6. SizeOK(w.inUse) /\ SizeOK(w.peak)
  <2>1. /\ SizeOK((z.inUse + r.size) % Word32) /\ SizeOK((z.inUse - r.size) % Word32)
    <3>1. z.inUse + r.size \in Int /\ z.inUse - r.size \in Int
      BY <1>4
    <3>2. QED
      BY <3>1, Fits
  <2>2. QED
    BY ONLY <1>3, <2>1, SizeOK(z.inUse), SizeOK(z.peak)
<1>7. w \in Sizes
  <2>1. \A x \in Int : SizeOK(x) => x \in Nat
    BY DEF SizeOK
  <2>2. w.inUse \in Nat /\ w.peak \in Nat
    BY <1>4, <1>6, <2>1
  <2>3. QED
    BY <1>2, <1>4, <2>2 DEF Sizes
<1>8. ASSUME \A m \in 0..(n + 1) : SizeOK(InUse(s, m))
      PROVE  /\ w.inUse = InUse(s, n + 1)
             /\ \A m \in 0..(n + 1) : InUse(s, m) <= w.peak
             /\ \E m \in 0..(n + 1) : InUse(s, m) = w.peak
  <2>1. \A m : m \in 0..(n + 1) <=> m \in 0..n \/ m = n + 1
    OBVIOUS
  <2>2. /\ z.inUse = InUse(s, n)
        /\ \A m \in 0..n : InUse(s, m) <= z.peak
        /\ \E m \in 0..n : InUse(s, m) = z.peak
    BY <1>8, <2>1 DEF Weighed
  <2>3. PICK x \in Int, y \in Int : x = InUse(s, n) /\ y = InUse(s, n + 1)
    BY <1>5
  <2>4. SizeOK(y) /\ y = Added(r) + x /\ z.inUse = x /\ x <= z.peak
    <3>1. n \in 0..n /\ n + 1 \in 0..(n + 1)
      OBVIOUS
    <3>2. QED
      BY <1>5, <1>8, <2>2, <2>3, <3>1
  <2>5. y % Word32 = y
    BY <2>4, Fits
  <2>6. /\ w.inUse = y
        /\ w.peak = (IF y > z.peak THEN y ELSE z.peak)
    <3>1. CASE Alloc(r)
      <4>1. z.inUse + r.size = y
        BY <1>3, <1>4, <2>3, <2>4, <3>1
      <4>2. QED
        BY <1>3, <2>5, <3>1, <4>1
    <3>2. CASE Free(r) /\ ~Alloc(r)
      <4>1. z.inUse - r.size = y /\ ~(y > z.peak)
        BY <1>3, <1>4, <2>3, <2>4, <3>2
      <4>2. QED
        BY <1>3, <2>5, <3>2, <4>1
    <3>3. CASE ~Free(r) /\ ~Alloc(r)
      <4>1. w = z /\ y = x /\ ~(y > z.peak)
        BY <1>3, <1>4, <2>3, <2>4, <3>3
      <4>2. QED
        BY <2>4, <4>1
    <3>4. QED
      BY <3>1, <3>2, <3>3
  <2>7. \A m \in 0..n : InUse(s, m) <= w.peak
    <3>1. \A m \in 0..n : InUse(s, m) \in Int
      BY <1>8, <2>1 DEF SizeOK
    <3>2. QED
      BY <1>4, <2>2, <2>3, <2>6, <3>1
  <2>8. InUse(s, n + 1) <= w.peak
    BY <1>4, <2>3, <2>6
  <2>9. \E m \in 0..(n + 1) : InUse(s, m) = w.peak
    BY <2>1, <2>2, <2>3, <2>6
  <2>10. QED
    BY <2>1, <2>3, <2>6, <2>7, <2>8, <2>9
<1>9. /\ w.peakAlloc \in Allocated(s, n + 1) \cup {0}
      /\ \A b \in Allocated(s, n + 1) : b <= w.peakAlloc
  <2>1. z.peakAlloc \in Allocated(s, n) \cup {0} /\ \A b \in Allocated(s, n) : b <= z.peakAlloc
    BY DEF Weighed
  <2>2. Allocated(s, n + 1) = IF Alloc(r) THEN Allocated(s, n) \cup {r.size} ELSE Allocated(s, n)
    BY <1>1, AllocatedMore
  <2>3. \A b \in Allocated(s, n) : b \in Nat
    <3>1. \A i \in 1..n : s[i] \in Rec
      BY ElementOfSeq
    <3>2. QED
      BY <3>1 DEF Allocated, Rec
  <2>4. CASE Alloc(r)
    <3>1. w.peakAlloc = IF r.size > z.peakAlloc THEN r.size ELSE z.peakAlloc
      BY <1>3, <2>4
    <3>2. Allocated(s, n + 1) = Allocated(s, n) \cup {r.size}
      BY <2>2, <2>4
    <3>3. w.peakAlloc >= z.peakAlloc /\ w.peakAlloc >= r.size
      BY <1>4, <3>1
    <3>4. \A b \in Allocated(s, n) : b <= w.peakAlloc
      BY <1>4, <2>1, <2>3, <3>3
    <3>5. w.peakAlloc \in Allocated(s, n + 1) \cup {0}
      BY <2>1, <3>1, <3>2
    <3>6. QED
      BY <1>4, <3>2, <3>3, <3>4, <3>5
  <2>5. CASE ~Alloc(r)
    <3>1. w.peakAlloc = z.peakAlloc
      BY <1>3, <2>5
    <3>2. QED
      BY <2>1, <2>2, <2>5, <3>1
  <2>6. QED
    BY <2>4, <2>5
<1>10. QED
  BY <1>1, <1>2, <1>6, <1>7, <1>8, <1>9 DEF Weighed

-----------------------------------------------------------------------------
(* The steps. *)

\* The files and the command lines.
LEMMA Given ==
  /\ \A f \in Files : f \in File
  /\ \A a \in FirstArgs : a \in Seq(Arg)
  /\ \A a \in AgainArgs : a \in Seq(Arg)
  /\ NoFile \in File
<1>1. Files \subseteq File /\ FirstArgs \subseteq Seq(Arg) /\ AgainArgs \subseteq Seq(Arg)
  BY ToolChainAssumption DEF File, Rec, Arg
<1>2. NoFile \in File
  <2>1. << >> \in Seq(Rec)
    OBVIOUS
  <2>2. QED
    BY <2>1 DEF NoFile, File
<1>3. QED
  BY <1>1, <1>2

\* A phase is one of them.
LEMMA OnePhase ==
  /\ Parsing("args") /\ ~Exited("args") /\ ~Cutting("args") /\ ~Over("args")
  /\ Cutting("cut") /\ ~Exited("cut") /\ ~Parsing("cut") /\ ~Over("cut")
  /\ Cutting("done") /\ ~Exited("done") /\ ~Parsing("done") /\ Over("done")
  /\ Exited("usage") /\ ~Cutting("usage") /\ ~Parsing("usage") /\ ~Over("usage")
  /\ Exited("crash") /\ ~Cutting("crash") /\ ~Parsing("crash") /\ ~Over("crash")
BY DEF Parsing, Exited, Cutting, Over

\* A cutter at its start.
LEMMA ControlStart ==
  ASSUME NEW f \in File, NEW v \in Seq(Arg)
  PROVE  /\ Control(f, v, 0, FALSE, [start |-> 0, base |-> 0, from |-> 0, to |-> 0], 0, << >>,
                    [numbers |-> 0, length |-> 0], "args")
         /\ Work(f, [start |-> 0, base |-> 0, from |-> 0, to |-> 0], 0, << >>,
                 [numbers |-> 0, length |-> 0])
<1>1. PICK t \in Times : t = [start |-> 0, base |-> 0, from |-> 0, to |-> 0]
  BY DEF Times
<1>2. PICK s \in Sum : s = [numbers |-> 0, length |-> 0]
  <2>1. [numbers |-> 0, length |-> 0] \in Sum
    BY DEF Sum
  <2>2. QED
    BY <2>1
<1>3. t.base = 0 /\ s.numbers = 0 /\ s.length = 0
  BY <1>1, <1>2
<1>4. Work(f, t, 0, << >>, s)
  BY <1>3, WorkNone
<1>5. 0 \in 0..Len(f.recs) /\ << >> \in Seq(Rec) /\ 0 \in 0..Len(v)
  BY DEF File
<1>5a. t.from = 0 /\ t.to = 0 /\ Got(v, 0, "f", 0) /\ Got(v, 0, "t", 0)
  BY <1>1 DEF Got
<1>6. PICK ph : ph = "args"
  OBVIOUS
<1>7. Parsing(ph) /\ ~Exited(ph) /\ ~Cutting(ph) /\ ~Over(ph)
  BY <1>6, OnePhase
<1>8. Control(f, v, 0, FALSE, t, 0, << >>, s, ph)
  BY ONLY f \in File, v \in Seq(Arg), <1>3, <1>5, <1>5a, <1>7 DEF Control
<1>9. QED
  BY <1>1, <1>2, <1>4, <1>6, <1>8

\* The last option k so far stays, or is the one parsed.
LEMMA GotMore ==
  ASSUME NEW v \in Seq(Arg), NEW o \in Nat, o < Len(v), NEW k, NEW x, Got(v, o, k, x),
         NEW y, y = IF v[o + 1].opt = k THEN v[o + 1].val ELSE x
  PROVE  Got(v, o + 1, k, y)
<1>1. Len(v) \in Nat /\ 1..(o + 1) = (1..o) \cup {o + 1} /\ \A i \in 1..o : i <= o + 1
  OBVIOUS
<1>2. CASE v[o + 1].opt = k
  <2>1. v[o + 1].val = y
    BY <1>2
  <2>2. \A j \in 1..(o + 1) : j <= o + 1
    OBVIOUS
  <2>3. o + 1 \in 1..(o + 1)
    OBVIOUS
  <2>4. QED
    BY <1>2, <2>1, <2>2, <2>3 DEF Got
<1>3. CASE v[o + 1].opt # k
  <2>1. y = x
    BY <1>3
  <2>2. \A i \in 1..(o + 1) : v[i].opt = k => i \in 1..o
    BY <1>1, <1>3
  <2>3. QED
    BY <1>1, <2>1, <2>2 DEF Got
<1>4. QED
  BY <1>2, <1>3

\* What an option that is given asks for is its last value.
LEMMA GotValue ==
  ASSUME NEW v \in Seq(Arg), NEW k, NEW x \in Nat, x > 0, Got(v, Len(v), k, x)
  PROVE  Names(v, k) /\ Value(v, k) = x
<1>1. Len(v) \in Nat /\ DOMAIN v = 1..Len(v)
  OBVIOUS
<1>2. PICK i \in DOMAIN v : v[i].opt = k /\ v[i].val = x /\ \A j \in DOMAIN v : v[j].opt = k => j <= i
  BY <1>1 DEF Got
<1>3. \A m \in DOMAIN v :
        (v[m].opt = k /\ \A j \in DOMAIN v : v[j].opt = k => j <= m) => m = i
  <2>1. ASSUME NEW m \in DOMAIN v, v[m].opt = k, \A j \in DOMAIN v : v[j].opt = k => j <= m
        PROVE  m = i
    <3>1. m <= i /\ i <= m /\ m \in Int /\ i \in Int
      BY <1>1, <1>2, <2>1
    <3>2. QED
      BY <3>1
  <2>2. QED
    BY <2>1
<1>4. (CHOOSE m \in DOMAIN v : v[m].opt = k /\ \A j \in DOMAIN v : v[j].opt = k => j <= m) = i
  BY <1>2, <1>3
<1>5. QED
  BY <1>2, <1>4 DEF Names, Value

\* An option is parsed.
LEMMA ControlParse ==
  ASSUME NEW f, NEW v, NEW o, NEW nm, NEW t, NEW n, NEW q, NEW s, NEW ph,
         Control(f, v, o, nm, t, n, q, s, ph), Parsing(ph), o < Len(v),
         NEW h, h = v[o + 1],
         NEW bad \in BOOLEAN, bad = IF h.opt = "F" THEN f.start = 0 ELSE h.val = -1,
         NEW u, u = IF bad THEN t ELSE Read(f, t, h),
         NEW ph2, ph2 = IF bad THEN "usage" ELSE "args"
  PROVE  /\ Control(f, v, o + 1, nm \/ h.opt = "F", u, n, q, s, ph2)
         /\ Work(f, u, n, q, s)
<1> DEFINE F == h.opt = "F"
<1>1. /\ f \in File /\ v \in Seq(Arg) /\ o \in 0..Len(v) /\ nm \in BOOLEAN /\ t \in Times
      /\ n = 0 /\ 0 \in 0..Len(f.recs) /\ q \in Seq(Rec) /\ s \in Sum
      /\ q = << >> /\ s.numbers = 0 /\ s.length = 0 /\ t.base = 0
  BY DEF Control
<1>2. ~Exited(ph)
  BY OnePhase DEF Parsing
<1>3. /\ nm => t.start = f.start /\ f.start > 0
      /\ Got(v, o, "f", t.from)
      /\ (\A i \in 1..o : v[i].opt # "d") => Got(v, o, "t", t.to)
  BY <1>2 DEF Control
<1>4. Len(v) \in Nat /\ o \in Nat /\ o + 1 \in 0..Len(v) /\ o + 1 \in 1..Len(v)
  BY <1>1
<1>4a. h \in Arg
  BY <1>1, <1>4, ElementOfSeq
<1>5. f.start \in Nat
  BY <1>1 DEF File
<1>6. /\ u \in Times /\ u.base = 0
      /\ ~bad => /\ u.start = IF F THEN f.start ELSE t.start
                 /\ u.from = IF h.opt = "f" THEN h.val ELSE t.from
                 /\ h.opt # "d" => u.to = IF h.opt = "t" THEN h.val ELSE t.to
  <2>1. h.val \in Nat \cup {-1} /\ h.opt \in {"F", "f", "t", "d"}
    BY <1>4a DEF Arg
  <2>2. CASE bad
    BY <1>1, <2>2
  <2>3. CASE ~bad
    <3>1. h.opt # "F" => h.val \in Nat
      BY <2>1, <2>3
    <3>2. h.opt # "F" => t.start + h.val \in Nat
      BY <1>1, <3>1 DEF Times
    <3>3. PICK m : m = t.start + h.val
      OBVIOUS
    <3>4. u = CASE h.opt = "F" -> [t EXCEPT !.start = f.start]
                [] h.opt = "f" -> [t EXCEPT !.from = h.val]
                [] h.opt = "t" -> [t EXCEPT !.to = h.val]
                [] h.opt = "d" -> [t EXCEPT !.to = m]
      BY <2>3, <3>3 DEF Read
    <3>5. h.opt # "F" => m \in Nat
      BY <3>2, <3>3
    <3>6. QED
      BY ONLY <1>1, <1>5, <2>1, <2>3, <3>1, <3>4, <3>5 DEF Times
  <2>4. QED
    BY <2>2, <2>3
<1>7. /\ Parsing(ph2) \/ Exited(ph2)
      /\ ~Cutting(ph2) /\ ~Over(ph2)
      /\ Exited(ph2) <=> bad
      /\ ~bad /\ F => f.start # 0
  BY OnePhase
<1>8. ASSUME ~Exited(ph2)
      PROVE  /\ Got(v, o + 1, "f", u.from)
             /\ (\A i \in 1..(o + 1) : v[i].opt # "d") => Got(v, o + 1, "t", u.to)
  <2>1. Got(v, o + 1, "f", u.from)
    BY <1>1, <1>3, <1>4, <1>6, <1>7, <1>8, GotMore
  <2>2. ASSUME \A i \in 1..(o + 1) : v[i].opt # "d"
        PROVE  Got(v, o + 1, "t", u.to)
    <3>1. (\A i \in 1..o : v[i].opt # "d") /\ h.opt # "d"
      BY <1>4, <2>2
    <3>2. QED
      BY <1>1, <1>3, <1>4, <1>6, <1>7, <1>8, <3>1, GotMore
  <2>3. QED
    BY <2>1, <2>2
<1> HIDE DEF F
<1>9. (nm \/ F) /\ ~Exited(ph2) => u.start = f.start /\ f.start > 0
  BY ONLY <1>3, <1>5, <1>6, <1>7
<1>10. PICK b \in BOOLEAN : b = (nm \/ F)
  OBVIOUS
<1>11. b /\ ~Exited(ph2) => u.start = f.start /\ f.start > 0
  BY <1>9, <1>10
<1>12. PICK p : p = o + 1
  OBVIOUS
<1>13. /\ p \in 0..Len(v)
       /\ ~Exited(ph2) => /\ Got(v, p, "f", u.from)
                          /\ (\A i \in 1..p : v[i].opt # "d") => Got(v, p, "t", u.to)
  BY <1>4, <1>8, <1>12
<1>14. Control(f, v, p, b, u, n, q, s, ph2)
  BY ONLY <1>1, <1>6, <1>7, <1>10, <1>11, <1>13 DEF Control
<1>15. Work(f, u, n, q, s)
  BY ONLY <1>1, <1>6, WorkNone
<1>16. QED
  BY <1>10, <1>12, <1>14, <1>15 DEF F

\* What is missing is asked for.
LEMMA ControlOpen ==
  ASSUME NEW f, NEW v, NEW o, NEW nm, NEW t, NEW n, NEW q, NEW s, NEW ph,
         Control(f, v, o, nm, t, n, q, s, ph), Parsing(ph), o = Len(v),
         NEW ph2, \/ ph2 = "usage"
                  \/ nm /\ t.from # 0 /\ t.to # 0 /\ ph2 \in {"cut", "crash"}
  PROVE  Control(f, v, o, nm, t, n, q, s, ph2)
<1>1. ~Exited(ph)
  BY DEF Parsing, Exited
<1>2. /\ f \in File /\ v \in Seq(Arg) /\ o \in 0..Len(v) /\ nm \in BOOLEAN /\ t \in Times
      /\ Got(v, o, "f", t.from)
      /\ (\A i \in 1..o : v[i].opt # "d") => Got(v, o, "t", t.to)
      /\ n \in 0..Len(f.recs) /\ q \in Seq(Rec) /\ s \in Sum
      /\ nm => t.start = f.start /\ f.start > 0
  BY <1>1 DEF Control
<1>3. /\ Cutting(ph2) \/ Exited(ph2)
      /\ ~Parsing(ph2) /\ ~Over(ph2)
      /\ Cutting(ph2) => nm /\ t.from # 0 /\ t.to # 0 /\ o = Len(v)
  BY OnePhase
<1>4. t.from # 0 => t.from > 0
  BY <1>2 DEF Times
<1>5. t.to # 0 => t.to > 0
  BY <1>2 DEF Times
<1>6. QED
  BY ONLY <1>2, <1>3, <1>4, <1>5 DEF Control

\* A record is read.
LEMMA ControlCut ==
  ASSUME NEW f, NEW a, NEW o, NEW nm, NEW t, NEW n, NEW q, NEW s, NEW ph,
         Control(f, a, o, nm, t, n, q, s, ph), Work(f, t, n, q, s), ph = "cut", n < Len(f.recs),
         NEW u, NEW p, NEW v, Taken(t, q, s, f.recs[n + 1], u, p, v)
  PROVE  Control(f, a, o, nm, u, n + 1, p, v, ph) /\ Work(f, u, n + 1, p, v)
<1>1. Cutting(ph) /\ ~Exited(ph) /\ ~Parsing(ph) /\ ~Over(ph)
  BY OnePhase
<1>2. /\ f \in File /\ a \in Seq(Arg) /\ o \in 0..Len(a) /\ nm \in BOOLEAN /\ t \in Times
      /\ n \in 0..Len(f.recs) /\ q \in Seq(Rec) /\ s \in Sum
      /\ nm /\ t.start = f.start /\ f.start > 0 /\ t.from > 0 /\ t.to > 0 /\ o = Len(a)
      /\ Got(a, o, "f", t.from)
      /\ (\A i \in 1..o : a[i].opt # "d") => Got(a, o, "t", t.to)
  BY <1>1 DEF Control
<1>3. Len(f.recs) \in Nat /\ f.recs \in Seq(Rec)
  BY <1>2 DEF File
<1>4. n \in Nat /\ n + 1 \in 0..Len(f.recs) /\ n + 1 \in 1..Len(f.recs)
  BY <1>2, <1>3
<1>5. f.recs[n + 1] \in Rec
  BY <1>3, <1>4, ElementOfSeq
<1>6. /\ u \in Times /\ p \in Seq(Rec) /\ v \in Sum
      /\ u.start = t.start /\ u.from = t.from /\ u.to = t.to
  BY <1>2, <1>5, TakenTypes
<1>7. Work(f, u, n + 1, p, v)
  BY <1>2, <1>4, TakenIsWork
<1>8. Control(f, a, o, nm, u, n + 1, p, v, ph)
  BY ONLY <1>1, <1>2, <1>4, <1>6 DEF Control
<1>9. QED
  BY <1>7, <1>8

\* The input is read.
LEMMA ControlClose ==
  ASSUME NEW f, NEW a, NEW o, NEW nm, NEW t, NEW n, NEW q, NEW s, NEW ph,
         Control(f, a, o, nm, t, n, q, s, ph), ph = "cut", n = Len(f.recs)
  PROVE  Control(f, a, o, nm, t, n, q, s, "done")
<1>1. PICK ph2 : ph2 = "done"
  OBVIOUS
<1>2. /\ Cutting(ph) /\ ~Exited(ph)
      /\ Cutting(ph2) /\ ~Exited(ph2) /\ ~Parsing(ph2)
  BY <1>1, OnePhase
<1>3. Control(f, a, o, nm, t, n, q, s, ph2)
  BY <1>2 DEF Control
<1>4. QED
  BY <1>1, <1>3

\* A step of the first cutter.
LEMMA CutNextOK ==
  ASSUME CutOK, Cut!CutNext
  PROVE  CutOK'
<1>1. Control(input, argv, optind, named, times, pos, piece, total, phase) /\ Work(input, times, pos, piece, total)
  BY DEF CutOK
<1>2. CASE Cut!ParseArg
  <2>1. PICK h, bad : h = argv[optind + 1] /\ bad = Cut!Refused(h)
    OBVIOUS
  <2>2. bad \in BOOLEAN /\ bad = IF h.opt = "F" THEN input.start = 0 ELSE h.val = -1
    BY <2>1 DEF Cut!Refused, Cut!Unread
  <2>3. /\ optind < Len(argv) /\ Parsing(phase)
        /\ optind' = optind + 1 /\ named' = (named \/ h.opt = "F")
        /\ phase' = IF bad THEN "usage" ELSE "args"
        /\ times' = IF bad THEN times ELSE Cut!Parsed(times, h)
        /\ UNCHANGED <<input, argv, pos, piece, total>>
    BY <1>2, <2>1 DEF Cut!ParseArg, Parsing
  <2>4. Cut!Parsed(times, h) = Read(input, times, h)
    BY DEF Cut!Parsed, Read
  <2>5. times' = IF bad THEN times ELSE Read(input, times, h)
    BY <2>3, <2>4
  <2>6. /\ Control(input, argv, optind + 1, named \/ h.opt = "F", times', pos, piece, total, phase')
        /\ Work(input, times', pos, piece, total)
    BY <1>1, <2>1, <2>2, <2>3, <2>5, ControlParse
  <2>7. QED
    BY <2>3, <2>6 DEF CutOK
<1>3. CASE Cut!OpenOutput
  <2>1. /\ Parsing(phase)
        /\ optind = Len(argv)
        /\ \/ phase' = "usage"
           \/ named /\ times.from # 0 /\ times.to # 0 /\ phase' \in {"cut", "crash"}
        /\ UNCHANGED <<input, argv, optind, named, times, pos, piece, total>>
    BY <1>3 DEF Cut!OpenOutput, Parsing
  <2>2. Control(input, argv, optind, named, times, pos, piece, total, phase')
    BY <1>1, <2>1, ControlOpen
  <2>3. QED
    BY <1>1, <2>1, <2>2 DEF CutOK
<1>4. CASE Cut!CutRecord
  <2>1. /\ phase = "cut" /\ pos < Len(input.recs) /\ pos' = pos + 1
        /\ UNCHANGED <<input, argv, optind, named, phase>>
    BY <1>4 DEF Cut!CutRecord
  <2>2. Taken(times, piece, total, input.recs[pos + 1], times', piece', total')
    BY <1>4 DEF Cut!CutRecord, Cut!Based, Cut!Within, Cut!Timestamp, Taken, Based, Within, Timestamp
  <2>3. /\ Control(input, argv, optind, named, times', pos + 1, piece', total', phase)
        /\ Work(input, times', pos + 1, piece', total')
    BY <1>1, <2>1, <2>2, ControlCut
  <2>4. QED
    BY <2>1, <2>3 DEF CutOK
<1>5. CASE Cut!CloseOutput
  <2>1. /\ phase = "cut" /\ pos = Len(input.recs) /\ phase' = "done"
        /\ UNCHANGED <<input, argv, optind, named, times, pos, piece, total>>
    BY <1>5 DEF Cut!CloseOutput
  <2>2. Control(input, argv, optind, named, times, pos, piece, total, "done")
    BY <1>1, <2>1, ControlClose
  <2>3. QED
    BY <1>1, <2>1, <2>2 DEF CutOK
<1>6. QED
  BY <1>2, <1>3, <1>4, <1>5 DEF Cut!CutNext

\* A step of the second cutter.
LEMMA RecutNextOK ==
  ASSUME RecutOK, Recut!CutNext
  PROVE  RecutOK'
<1>1. Control(input2, argv2, optind2, named2, times2, pos2, piece2, total2, phase2) /\ Work(input2, times2, pos2, piece2, total2)
  BY DEF RecutOK
<1>2. CASE Recut!ParseArg
  <2>1. PICK h, bad : h = argv2[optind2 + 1] /\ bad = Recut!Refused(h)
    OBVIOUS
  <2>2. bad \in BOOLEAN /\ bad = IF h.opt = "F" THEN input2.start = 0 ELSE h.val = -1
    BY <2>1 DEF Recut!Refused, Recut!Unread
  <2>3. /\ optind2 < Len(argv2) /\ Parsing(phase2)
        /\ optind2' = optind2 + 1 /\ named2' = (named2 \/ h.opt = "F")
        /\ phase2' = IF bad THEN "usage" ELSE "args"
        /\ times2' = IF bad THEN times2 ELSE Recut!Parsed(times2, h)
        /\ UNCHANGED <<input2, argv2, pos2, piece2, total2>>
    BY <1>2, <2>1 DEF Recut!ParseArg, Parsing
  <2>4. Recut!Parsed(times2, h) = Read(input2, times2, h)
    BY DEF Recut!Parsed, Read
  <2>5. times2' = IF bad THEN times2 ELSE Read(input2, times2, h)
    BY <2>3, <2>4
  <2>6. /\ Control(input2, argv2, optind2 + 1, named2 \/ h.opt = "F", times2', pos2, piece2, total2, phase2')
        /\ Work(input2, times2', pos2, piece2, total2)
    BY <1>1, <2>1, <2>2, <2>3, <2>5, ControlParse
  <2>7. QED
    BY <2>3, <2>6 DEF RecutOK
<1>3. CASE Recut!OpenOutput
  <2>1. /\ Parsing(phase2)
        /\ optind2 = Len(argv2)
        /\ \/ phase2' = "usage"
           \/ named2 /\ times2.from # 0 /\ times2.to # 0 /\ phase2' \in {"cut", "crash"}
        /\ UNCHANGED <<input2, argv2, optind2, named2, times2, pos2, piece2, total2>>
    BY <1>3 DEF Recut!OpenOutput, Parsing
  <2>2. Control(input2, argv2, optind2, named2, times2, pos2, piece2, total2, phase2')
    BY <1>1, <2>1, ControlOpen
  <2>3. QED
    BY <1>1, <2>1, <2>2 DEF RecutOK
<1>4. CASE Recut!CutRecord
  <2>1. /\ phase2 = "cut" /\ pos2 < Len(input2.recs) /\ pos2' = pos2 + 1
        /\ UNCHANGED <<input2, argv2, optind2, named2, phase2>>
    BY <1>4 DEF Recut!CutRecord
  <2>2. Taken(times2, piece2, total2, input2.recs[pos2 + 1], times2', piece2', total2')
    BY <1>4 DEF Recut!CutRecord, Recut!Based, Recut!Within, Recut!Timestamp, Taken, Based, Within, Timestamp
  <2>3. /\ Control(input2, argv2, optind2, named2, times2', pos2 + 1, piece2', total2', phase2)
        /\ Work(input2, times2', pos2 + 1, piece2', total2')
    BY <1>1, <2>1, <2>2, ControlCut
  <2>4. QED
    BY <2>1, <2>3 DEF RecutOK
<1>5. CASE Recut!CloseOutput
  <2>1. /\ phase2 = "cut" /\ pos2 = Len(input2.recs) /\ phase2' = "done"
        /\ UNCHANGED <<input2, argv2, optind2, named2, times2, pos2, piece2, total2>>
    BY <1>5 DEF Recut!CloseOutput
  <2>2. Control(input2, argv2, optind2, named2, times2, pos2, piece2, total2, "done")
    BY <1>1, <2>1, ControlClose
  <2>3. QED
    BY <1>1, <2>1, <2>2 DEF RecutOK
<1>6. QED
  BY <1>2, <1>3, <1>4, <1>5 DEF Recut!CutNext

\* A step of the describer.
LEMMA DescNextOK ==
  ASSUME DescOK, Describe!DescNext
  PROVE  DescOK'
<1>1. /\ file \in File /\ read \in 0..Len(file.recs) /\ span \in Span
      /\ printed \in BOOLEAN /\ cnt.total = read
      /\ siz \in Sizes /\ SizeOK(siz.inUse) /\ SizeOK(siz.peak)
      /\ Spanned(file, read, span) /\ Weighed(file.recs, read, siz)
  BY DEF DescOK, Described
<1>2. file.recs \in Seq(Rec) /\ Len(file.recs) \in Nat
  BY <1>1 DEF File
<1>3. CASE Describe!DescRecord
  <2> DEFINE r == file.recs[read + 1]
  <2>1. /\ ~printed /\ read < Len(file.recs) /\ read' = read + 1
        /\ file' = file /\ printed' = printed
        /\ span' = Describe!Extended(Describe!Started(span, r), r)
        /\ siz' = Describe!Sized(siz, r)
    BY <1>3 DEF Describe!DescRecord
  <2>2. cnt'.total = cnt.total + 1
    BY <1>3 DEF Describe!DescRecord, Describe!Counted
  <2>3. read \in Nat /\ read + 1 \in 0..Len(file.recs)
    BY <1>1, <1>2, <2>1
  <2>4. span' \in Span /\ Spanned(file, read + 1, span')
    BY <1>1, <2>1, <2>3, SpannedMore
  <2>5. siz' \in Sizes /\ SizeOK(siz'.inUse) /\ SizeOK(siz'.peak) /\ Weighed(file.recs, read + 1, siz')
    <3>1. PICK s \in Seq(Rec), n \in Nat, z \in Sizes : s = file.recs /\ n = read /\ z = siz
      BY <1>1, <1>2, <2>3
    <3>2. n < Len(s) /\ SizeOK(z.inUse) /\ SizeOK(z.peak) /\ Weighed(s, n, z)
      BY <1>1, <2>1, <3>1
    <3>3. PICK w : w = Describe!Sized(z, s[n + 1])
      OBVIOUS
    <3>4. w \in Sizes /\ SizeOK(w.inUse) /\ SizeOK(w.peak) /\ Weighed(s, n + 1, w)
      BY <3>2, <3>3, WeighedMore
    <3>5. w = siz'
      BY <2>1, <3>1, <3>3
    <3>6. QED
      BY <3>1, <3>4, <3>5
  <2>6. /\ file' \in File /\ read' \in 0..Len(file'.recs) /\ span' \in Span
        /\ printed' \in BOOLEAN /\ ~printed' /\ cnt'.total = read'
    BY <1>1, <2>1, <2>2, <2>3, <2>4
  <2>7. Spanned(file', read', span') /\ Weighed(file'.recs, read', siz')
    BY <2>1, <2>4, <2>5
  <2>8. Described(file', read', span', cnt', siz', printed')
    BY ONLY <2>5, <2>6, <2>7 DEF Described
  <2>9. QED
    BY <2>8 DEF DescOK
<1>4. CASE Describe!PrintSummary
  <2>1. read = Len(file.recs) /\ printed' = TRUE /\ UNCHANGED <<file, read, span, cnt, siz>>
    BY <1>4 DEF Describe!PrintSummary
  <2>2. Described(file, read, span, cnt, siz, TRUE)
    BY <1>1, <2>1 DEF Described
  <2>3. QED
    BY <2>1, <2>2 DEF DescOK
<1>5. QED
  BY <1>3, <1>4 DEF Describe!DescNext

\* The describer at its start.
LEMMA DescribedStart ==
  ASSUME NEW f \in File,
         NEW t, t = [start |-> 0, base |-> 0, end |-> 0],
         NEW c, c.total = 0,
         NEW z, z = [inUse |-> 0, peak |-> 0, peakAlloc |-> 0]
  PROVE  Described(f, 0, t, c, z, FALSE)
<1>1. f.recs \in Seq(Rec) /\ 0 \in 0..Len(f.recs)
  BY DEF File
<1>2. t \in Span /\ t.start = 0
  BY DEF Span
<1>3. z \in Sizes /\ z.inUse = 0 /\ z.peak = 0 /\ z.peakAlloc = 0
  BY DEF Sizes
<1>4. SizeOK(0)
  BY ToolChainAssumption DEF SizeOK
<1>5. Weighed(f.recs, 0, z)
  <2>1. InUse(f.recs, 0) = 0
    BY InUseNone
  <2>2. \A m : m \in 0..0 <=> m = 0
    OBVIOUS
  <2>3. Allocated(f.recs, 0) = {}
    <3>1. 1..0 = {}
      OBVIOUS
    <3>2. QED
      BY <3>1 DEF Allocated
  <2>4. z.inUse = InUse(f.recs, 0)
    BY <1>3, <2>1
  <2>5. \A m \in 0..0 : InUse(f.recs, m) <= z.peak
    BY <1>3, <2>1, <2>2
  <2>6. \E m \in 0..0 : InUse(f.recs, m) = z.peak
    BY <1>3, <2>1, <2>2
  <2>7. QED
    BY <1>3, <2>3, <2>4, <2>5, <2>6 DEF Weighed
<1>6. Spanned(f, 0, t)
  BY <1>2 DEF Spanned
<1>7. QED
  BY <1>1, <1>2, <1>3, <1>4, <1>5, <1>6 DEF Described

-----------------------------------------------------------------------------

\* Which tool it is.
CutRuns   == tool = "cut"
RecutRuns == tool = "recut"
DescRuns  == tool = "describe"

\* InOrder without the names.
LEMMA Ordered ==
  /\ InOrder <=> /\ CutRuns \/ RecutRuns \/ DescRuns
                 /\ CutRuns => Recut!CutInit(NoFile, << >>)
                 /\ ~CutRuns => Over(phase) /\ input2 = Cut!Output
                 /\ DescRuns => Over(phase2) /\ file = Recut!Output
                 /\ ~DescRuns => Describe!DescInit(NoFile)
  /\ ~(CutRuns /\ RecutRuns) /\ ~(CutRuns /\ DescRuns) /\ ~(RecutRuns /\ DescRuns)
BY DEF InOrder, CutRuns, RecutRuns, DescRuns

\* The describer at its start, in the state.
LEMMA DescInitOK ==
  ASSUME NEW f \in File, Describe!DescInit(f)
  PROVE  DescOK
<1>1. /\ file = f /\ read = 0 /\ span = [start |-> 0, base |-> 0, end |-> 0] /\ cnt.total = 0
      /\ siz = [inUse |-> 0, peak |-> 0, peakAlloc |-> 0] /\ printed = FALSE
  BY DEF Describe!DescInit
<1>2. Described(f, 0, span, cnt, siz, FALSE)
  BY <1>1, DescribedStart
<1>3. QED
  BY <1>1, <1>2 DEF DescOK

\* A file written is a file.
LEMMA OutputIsFile ==
  /\ CutOK => Cut!Output \in File
  /\ RecutOK => Recut!Output \in File
<1>1. ASSUME CutOK PROVE Cut!Output \in File
  <2>1. times.from \in Nat /\ piece \in Seq(Rec)
    BY <1>1 DEF CutOK, Control, Times
  <2>2. QED
    BY <2>1 DEF Cut!Output, File
<1>2. ASSUME RecutOK PROVE Recut!Output \in File
  <2>1. times2.from \in Nat /\ piece2 \in Seq(Rec)
    BY <1>2 DEF RecutOK, Control, Times
  <2>2. QED
    BY <2>1 DEF Recut!Output, File
<1>3. QED
  BY <1>1, <1>2

\* The invariant holds at first.
LEMMA InitIInv ==
  ASSUME Init
  PROVE  IInv
<1>1. PICK f \in Files, a \in FirstArgs : Cut!CutInit(f, a)
  BY DEF Init
<1>2. CutOK
  <2>1. f \in File /\ a \in Seq(Arg)
    BY Given
  <2>2. QED
    BY <1>1, <2>1, ControlStart DEF CutOK, Cut!CutInit, Cut!NoTimes
<1>3. RecutOK
  <2>1. NoFile \in File /\ << >> \in Seq(Arg)
    BY Given
  <2>2. Recut!CutInit(NoFile, << >>)
    BY DEF Init
  <2>3. QED
    BY <2>1, <2>2, ControlStart DEF RecutOK, Recut!CutInit, Recut!NoTimes
<1>4. DescOK
  BY DescInitOK, Given DEF Init
<1>5. InOrder
  BY DEF Init, InOrder
<1>6. QED
  BY <1>2, <1>3, <1>4, <1>5 DEF IInv

\* A cutter or a describer that stands still.
LEMMA StandsStill ==
  /\ CutOK /\ UNCHANGED cut => CutOK' /\ Cut!Output' = Cut!Output /\ phase' = phase
  /\ RecutOK /\ UNCHANGED recut => RecutOK' /\ Recut!Output' = Recut!Output /\ phase2' = phase2
  /\ DescOK /\ UNCHANGED desc => DescOK'
<1>1. ASSUME CutOK, UNCHANGED cut PROVE CutOK' /\ Cut!Output' = Cut!Output /\ phase' = phase
  BY <1>1 DEF CutOK, cut, Cut!Output
<1>2. ASSUME RecutOK, UNCHANGED recut PROVE RecutOK' /\ Recut!Output' = Recut!Output /\ phase2' = phase2
  BY <1>2 DEF RecutOK, recut, Recut!Output
<1>3. ASSUME DescOK, UNCHANGED desc PROVE DescOK'
  BY <1>3 DEF DescOK, desc
<1>4. QED
  BY <1>1, <1>2, <1>3

\* A cutter does not write its input.
LEMMA InputStays ==
  ASSUME Recut!CutNext
  PROVE  input2' = input2
BY DEF Recut!CutNext, Recut!ParseArg, Recut!OpenOutput, Recut!CutRecord, Recut!CloseOutput

\* Nor the describer.
LEMMA FileStays ==
  ASSUME Describe!DescNext
  PROVE  file' = file
BY DEF Describe!DescNext, Describe!DescRecord, Describe!PrintSummary

\* The second cutter opens the first one's file.
LEMMA RecutStarts ==
  ASSUME IInv, CutAgain
  PROVE  RecutOK'
<1>1. CutRuns /\ Recut!CutInit(NoFile, << >>)
  BY Ordered DEF IInv, CutAgain, CutRuns
<1>2. /\ optind2 = 0 /\ named2 = FALSE /\ times2 = [start |-> 0, base |-> 0, from |-> 0, to |-> 0] /\ pos2 = 0
      /\ piece2 = << >> /\ total2 = [numbers |-> 0, length |-> 0] /\ phase2 = "args"
  BY <1>1 DEF Recut!CutInit, Recut!NoTimes
<1>3. input2' \in File /\ argv2' \in Seq(Arg)
  BY OutputIsFile, Given DEF IInv, CutAgain
<1>4. UNCHANGED <<optind2, named2, times2, pos2, piece2, total2, phase2>>
  BY DEF CutAgain
<1>5. PICK f \in File, a \in Seq(Arg) : f = input2' /\ a = argv2'
  BY <1>3
<1>6. /\ Control(f, a, 0, FALSE, [start |-> 0, base |-> 0, from |-> 0, to |-> 0], 0, << >>,
                 [numbers |-> 0, length |-> 0], "args")
      /\ Work(f, [start |-> 0, base |-> 0, from |-> 0, to |-> 0], 0, << >>,
              [numbers |-> 0, length |-> 0])
  BY ControlStart
<1>7. QED
  BY <1>2, <1>4, <1>5, <1>6 DEF RecutOK

\* The describer opens the second one's file.
LEMMA DescStarts ==
  ASSUME IInv, DescribePiece
  PROVE  DescOK'
<1>1. RecutRuns /\ Describe!DescInit(NoFile)
  BY Ordered DEF IInv, DescribePiece, RecutRuns
<1>2. file' \in File
  BY OutputIsFile DEF IInv, DescribePiece
<1>3. PICK f \in File : f = file'
  BY <1>2
<1>4. /\ read = 0 /\ span = [start |-> 0, base |-> 0, end |-> 0] /\ cnt.total = 0
      /\ siz = [inUse |-> 0, peak |-> 0, peakAlloc |-> 0] /\ printed = FALSE
  BY <1>1 DEF Describe!DescInit
<1>5. Described(f, 0, span, cnt, siz, FALSE)
  BY <1>4, DescribedStart
<1>6. UNCHANGED <<read, span, cnt, siz, printed>>
  BY DEF DescribePiece
<1>7. QED
  BY <1>3, <1>4, <1>5, <1>6 DEF DescOK

\* Every step keeps the invariant.
LEMMA NextIInv ==
  ASSUME IInv, [Next]_vars
  PROVE  IInv'
<1>1. CutOK /\ RecutOK /\ DescOK /\ InOrder
  BY DEF IInv
<1>2. CASE CutStep
  <2>1. /\ CutRuns /\ CutRuns' /\ Cut!CutNext /\ UNCHANGED <<recut, desc>>
    BY <1>2 DEF CutStep, CutRuns
  <2>2. CutOK' /\ RecutOK' /\ DescOK'
    BY <1>1, <2>1, CutNextOK, StandsStill
  <2>3. Recut!CutInit(NoFile, << >>) /\ Describe!DescInit(NoFile) /\ ~DescRuns
    BY <1>1, <2>1, Ordered
  <2>4. Recut!CutInit(NoFile, << >>)' /\ Describe!DescInit(NoFile)'
    BY <2>1, <2>3 DEF Recut!CutInit, Describe!DescInit, recut, desc
  <2>5. ~DescRuns'
    BY <2>1 DEF CutRuns, DescRuns
  <2>6. InOrder'
    BY <2>1, <2>4, <2>5 DEF InOrder, CutRuns, DescRuns
  <2>7. QED
    BY <2>2, <2>6 DEF IInv
<1>3. CASE CutAgain
  <2>1. /\ CutRuns /\ RecutRuns' /\ phase = "done" /\ input2' = Cut!Output /\ UNCHANGED <<cut, desc>>
    BY <1>3 DEF CutAgain, CutRuns, RecutRuns
  <2>2. CutOK' /\ DescOK' /\ Cut!Output' = Cut!Output /\ phase' = phase
    BY <1>1, <2>1, StandsStill
  <2>3. RecutOK'
    BY <1>3, RecutStarts
  <2>4. Over(phase)' /\ (input2 = Cut!Output)'
    BY <2>1, <2>2 DEF Over
  <2>5. ~CutRuns' /\ ~DescRuns'
    BY <2>1 DEF CutRuns, RecutRuns, DescRuns
  <2>6. Describe!DescInit(NoFile)'
    <3>1. Describe!DescInit(NoFile)
      BY <1>1, <2>1, Ordered
    <3>2. QED
      BY <2>1, <3>1 DEF Describe!DescInit, desc
  <2>7. InOrder'
    BY <2>1, <2>4, <2>5, <2>6 DEF InOrder, CutRuns, DescRuns, RecutRuns
  <2>8. QED
    BY <2>2, <2>3, <2>7 DEF IInv
<1>4. CASE RecutStep
  <2>1. /\ RecutRuns /\ RecutRuns' /\ Recut!CutNext /\ UNCHANGED <<cut, desc>>
    BY <1>4 DEF RecutStep, RecutRuns
  <2>2. /\ CutOK' /\ DescOK' /\ RecutOK'
        /\ Cut!Output' = Cut!Output /\ phase' = phase /\ input2' = input2
    BY <1>1, <2>1, RecutNextOK, StandsStill, InputStays
  <2>3. ~CutRuns /\ ~DescRuns /\ ~CutRuns' /\ ~DescRuns'
    BY <2>1 DEF CutRuns, RecutRuns, DescRuns
  <2>4. Over(phase) /\ input2 = Cut!Output /\ Describe!DescInit(NoFile)
    BY <1>1, <2>3, Ordered
  <2>5. Over(phase)' /\ (input2 = Cut!Output)'
    BY <2>2, <2>4 DEF Over
  <2>6. Describe!DescInit(NoFile)'
    BY <2>1, <2>4 DEF Describe!DescInit, desc
  <2>7. InOrder'
    BY <2>1, <2>3, <2>5, <2>6 DEF InOrder, CutRuns, DescRuns, RecutRuns
  <2>8. QED
    BY <2>2, <2>7 DEF IInv
<1>5. CASE DescribePiece
  <2>1. /\ RecutRuns /\ DescRuns' /\ phase2 = "done" /\ file' = Recut!Output /\ UNCHANGED <<cut, recut>>
    BY <1>5 DEF DescribePiece, RecutRuns, DescRuns
  <2>2. /\ CutOK' /\ RecutOK'
        /\ Cut!Output' = Cut!Output /\ phase' = phase
        /\ Recut!Output' = Recut!Output /\ phase2' = phase2
    BY <1>1, <2>1, StandsStill
  <2>3. DescOK'
    BY <1>5, DescStarts
  <2>4. ~CutRuns /\ ~CutRuns'
    BY <2>1 DEF CutRuns, RecutRuns, DescRuns
  <2>5. Over(phase) /\ input2 = Cut!Output
    BY <1>1, <2>4, Ordered
  <2>6. Over(phase)' /\ (input2 = Cut!Output)'
    <3>1. input2' = input2
      BY <2>1 DEF recut
    <3>2. QED
      BY <2>2, <2>5, <3>1 DEF Over
  <2>7. Over(phase2)' /\ (file = Recut!Output)'
    BY <2>1, <2>2 DEF Over
  <2>8. InOrder'
    BY <2>1, <2>4, <2>6, <2>7 DEF InOrder, CutRuns, DescRuns, RecutRuns
  <2>9. QED
    BY <2>2, <2>3, <2>8 DEF IInv
<1>6. CASE DescribeStep
  <2>1. /\ DescRuns /\ DescRuns' /\ Describe!DescNext /\ UNCHANGED <<cut, recut>>
    BY <1>6 DEF DescribeStep, DescRuns
  <2>2. /\ CutOK' /\ RecutOK' /\ DescOK'
        /\ Cut!Output' = Cut!Output /\ phase' = phase
        /\ Recut!Output' = Recut!Output /\ phase2' = phase2 /\ file' = file
    BY <1>1, <2>1, DescNextOK, StandsStill, FileStays
  <2>3. ~CutRuns /\ ~CutRuns'
    BY <2>1 DEF CutRuns, DescRuns
  <2>4. Over(phase) /\ input2 = Cut!Output /\ Over(phase2) /\ file = Recut!Output
    BY <1>1, <2>1, <2>3, Ordered
  <2>5. input2' = input2
    BY <2>1 DEF recut
  <2>6. Over(phase)' /\ (input2 = Cut!Output)' /\ Over(phase2)' /\ (file = Recut!Output)'
    BY <2>2, <2>4, <2>5 DEF Over
  <2>7. InOrder'
    BY <2>1, <2>3, <2>6 DEF InOrder, CutRuns, DescRuns, RecutRuns
  <2>8. QED
    BY <2>2, <2>7 DEF IInv
<1>7. CASE UNCHANGED vars
  <2>1. tool' = tool /\ UNCHANGED cut /\ UNCHANGED recut /\ UNCHANGED desc
    BY <1>7 DEF vars
  <2>2. /\ CutOK' /\ RecutOK' /\ DescOK'
        /\ Cut!Output' = Cut!Output /\ phase' = phase
        /\ Recut!Output' = Recut!Output /\ phase2' = phase2
    BY <1>1, <2>1, StandsStill
  <2>3. InOrder'
    BY <1>1, <2>1, <2>2 DEF InOrder, recut, desc, Over, Recut!CutInit, Describe!DescInit
  <2>4. QED
    BY <2>2, <2>3 DEF IInv
<1>8. QED
  BY <1>2, <1>3, <1>4, <1>5, <1>6, <1>7 DEF Next

\* It holds in every state.
THEOREM SpecIInv == Spec => []IInv
<1>1. Init => IInv
  BY InitIInv
<1>2. IInv /\ [Next]_vars => IInv'
  BY NextIInv
<1>3. QED
  BY <1>1, <1>2, PTL DEF Spec

-----------------------------------------------------------------------------
(* What follows. *)

\* Every variable has its type, in every state, and a cutter that reads has a
\* name and an interval (the checks in main before the output is opened).
THEOREM SpecTypeOK == Spec => []TypeOK
<1>1. IInv => TypeOK
  <2>1. SUFFICES ASSUME IInv PROVE TypeOK
    OBVIOUS
  <2>2. /\ Control(input, argv, optind, named, times, pos, piece, total, phase)
        /\ Control(input2, argv2, optind2, named2, times2, pos2, piece2, total2, phase2)
        /\ DescOK /\ InOrder
    BY <2>1 DEF IInv, CutOK, RecutOK
  <2>3. /\ phase \in {"args", "cut", "done", "usage", "crash"} /\ pos \in 0..Len(input.recs)
        /\ phase \in {"cut", "done"} => named /\ times.from > 0 /\ times.to > 0
    BY <2>2 DEF Control, Parsing, Exited, Cutting
  <2>4. /\ phase2 \in {"args", "cut", "done", "usage", "crash"} /\ pos2 \in 0..Len(input2.recs)
        /\ phase2 \in {"cut", "done"} => named2 /\ times2.from > 0 /\ times2.to > 0
    BY <2>2 DEF Control, Parsing, Exited, Cutting
  <2>5. /\ read \in 0..Len(file.recs) /\ cnt.total = read
        /\ siz.inUse \in 0..(Word32 - 1) /\ siz.peak \in 0..(Word32 - 1)
    BY <2>2 DEF DescOK, Described, SizeOK
  <2>6. tool \in {"cut", "recut", "describe"}
    BY <2>2 DEF InOrder
  <2>7. QED
    BY <2>3, <2>4, <2>5, <2>6 DEF TypeOK
<1>2. QED
  BY <1>1, SpecIInv, PTL

\* The records of a plain file.
LEMMA PlainRecords ==
  ASSUME NEW f \in File
  PROVE  /\ f.start \in Nat /\ Len(f.recs) \in Nat /\ DOMAIN f.recs = 1..Len(f.recs)
         /\ \A i \in DOMAIN f.recs : f.recs[i] \in Rec /\ f.recs[i].tv \in Int
<1>1. f.recs \in Seq(Rec) /\ f.start \in Nat /\ Len(f.recs) \in Nat /\ DOMAIN f.recs = 1..Len(f.recs)
  BY DEF File
<1>2. \A i \in 1..Len(f.recs) : f.recs[i] \in Rec
  BY <1>1, ElementOfSeq
<1>3. \A r \in Rec : r.tv \in Int
  BY DEF Rec
<1>4. QED
  BY <1>1, <1>2, <1>3

\* What a cutter that is done has left.
LEMMA CutDone ==
  ASSUME NEW f, NEW a, NEW o, NEW nm, NEW t, NEW n, NEW q, NEW s, NEW ph,
         Control(f, a, o, nm, t, n, q, s, ph), Work(f, t, n, q, s), ph = "done", Plain(f.recs)
  PROVE  /\ f \in File /\ q \in Seq(Rec) /\ t.start = f.start /\ t.from \in Nat /\ t.from > 0 /\ t.to \in Nat
         /\ Between(f, t.from, t.to) \in SUBSET (1..Len(f.recs))
         /\ Chosen(q, f.recs, Between(f, t.from, t.to))
         /\ s.numbers = Len(q) /\ s.length = Length(q)
         /\ ~Names(a, "d") => /\ Names(a, "f") /\ Value(a, "f") = t.from
                              /\ Names(a, "t") /\ Value(a, "t") = t.to
<1>1. Over(ph) /\ Cutting(ph) /\ ~Exited(ph)
  BY OnePhase
<1>2. /\ f \in File /\ q \in Seq(Rec) /\ t.start = f.start /\ n = Len(f.recs)
      /\ t.from \in Nat /\ t.from > 0 /\ t.to \in Nat
  BY <1>1 DEF Control, Times
<1>3. DOMAIN f.recs = 1..n
  BY <1>2, PlainRecords
<1>4. Seen(f, t, n) = Between(f, t.from, t.to)
  BY <1>3 DEF Seen, Between
<1>5. ASSUME ~Names(a, "d")
      PROVE  /\ Names(a, "f") /\ Value(a, "f") = t.from
             /\ Names(a, "t") /\ Value(a, "t") = t.to
  <2>1. /\ a \in Seq(Arg) /\ o = Len(a) /\ t.to > 0 /\ Got(a, o, "f", t.from)
        /\ (\A i \in 1..o : a[i].opt # "d") => Got(a, o, "t", t.to)
    BY <1>1 DEF Control
  <2>2. DOMAIN a = 1..Len(a)
    BY <2>1
  <2>3. Got(a, Len(a), "t", t.to)
    BY <1>5, <2>1, <2>2 DEF Names
  <2>4. QED
    BY <1>2, <2>1, <2>3, GotValue
<1>6. QED
  BY <1>2, <1>3, <1>4, <1>5 DEF Work, Between

\* The piece is the interval between -f and -t (tos-cutDiagMemInfo.c:31), for
\* every plain file and every command line without -d.
THEOREM SpecCutIsTheInterval == Spec => []CutIsTheInterval
<1>1. IInv => CutIsTheInterval
  <2>1. SUFFICES ASSUME IInv, phase = "done", Plain(input.recs), ~Names(argv, "d")
                 PROVE  /\ Names(argv, "f") /\ Names(argv, "t")
                        /\ Chosen(piece, input.recs, Asked(input, argv))
                        /\ total.numbers = Len(piece)
                        /\ total.length = Length(piece)
    BY DEF CutIsTheInterval, Length
  <2>2. /\ Control(input, argv, optind, named, times, pos, piece, total, phase)
        /\ Work(input, times, pos, piece, total)
    BY <2>1 DEF IInv, CutOK
  <2>3. QED
    BY <2>1, <2>2, CutDone DEF Asked
<1>2. QED
  BY <1>1, SpecIInv, PTL

\* Whoever is done has left a file for the next.
LEMMA Handed ==
  ASSUME IInv
  PROVE  /\ phase2 = "done" => phase = "done" /\ input2 = Cut!Output
         /\ printed => phase2 = "done" /\ file = Recut!Output /\ read = Len(file.recs)
<1>1. InOrder /\ DescOK
  BY DEF IInv
<1>2. ASSUME phase2 = "done" PROVE phase = "done" /\ input2 = Cut!Output
  <2>1. ~Recut!CutInit(NoFile, << >>)
    BY <1>2 DEF Recut!CutInit
  <2>2. QED
    BY <1>1, <2>1, Ordered DEF Over
<1>3. ASSUME printed PROVE phase2 = "done" /\ file = Recut!Output /\ read = Len(file.recs)
  <2>1. ~Describe!DescInit(NoFile)
    BY <1>3 DEF Describe!DescInit
  <2>2. QED
    BY <1>1, <1>3, <2>1, Ordered DEF Over, DescOK, Described
<1>4. QED
  BY <1>2, <1>3

\* An interval of a piece is an interval of the file, later by the time from
\* the piece's start to its first record.
LEMMA IntervalOfInterval ==
  ASSUME NEW f \in File, NEW a \in Int, NEW b \in Int, NEW q \in Seq(Rec), q # << >>,
         Chosen(q, f.recs, Between(f, a, b)),
         NEW g \in File, g.start = a, g.recs = q, NEW c \in Int, NEW d \in Int,
         NEW r, Chosen(r, q, Between(g, c, d)),
         NEW e, e = Second(f, q[1]) - a
  PROVE  Chosen(r, f.recs, Between(f, a, b) \cap Between(f, c + e, d + e))
<1>1. PICK n \in Nat : n = Len(f.recs) /\ DOMAIN f.recs = 1..n
  BY PlainRecords
<1>2. PICK I : I = Between(f, a, b)
  OBVIOUS
<1>3. I \in SUBSET (1..n) /\ Chosen(q, f.recs, I)
  BY <1>1, <1>2 DEF Between
<1>4. PICK K : K = Between(g, c, d)
  OBVIOUS
<1>5. K \in SUBSET (1..Len(q)) /\ Chosen(r, q, K)
  BY <1>4, PlainRecords DEF Between
<1>6. PICK J : J = I \cap Between(f, c + e, d + e)
  OBVIOUS
<1>7. J \in SUBSET I
  BY <1>6
<1>8. Len(q) = Cardinality(I) /\ \A i \in I : q[Rank(I, i)] = f.recs[i]
  BY <1>3 DEF Chosen
<1>9. /\ f.start \in Int /\ f.recs[1].tv \in Int /\ q[1].tv \in Int
      /\ \A i \in 1..n : f.recs[i].tv \in Int
  <2>1. f.start \in Int /\ \A i \in 1..n : f.recs[i].tv \in Int
    BY <1>1, PlainRecords
  <2>2. 1 \in 1..Len(q)
    BY EmptySeq
  <2>3. q[1] \in Rec
    BY <2>2, ElementOfSeq
  <2>4. PICK i \in I : Rank(I, i) = 1
    BY <1>3, <1>8, <2>2, RankOnto
  <2>5. n > 0
    BY <1>3, <2>4
  <2>6. QED
    BY <2>1, <2>3, <2>5 DEF Rec
<1>9a. PICK t0 \in Int, p0 \in Int, o0 \in Int :
             t0 = f.start /\ p0 = f.recs[1].tv /\ o0 = q[1].tv
  BY <1>9
<1>9b. e = t0 + o0 - p0 - a /\ e \in Int
  <2>1. PICK z \in Int : z = Second(f, q[1]) /\ z = t0 + o0 - p0
    <3>1. Second(f, q[1]) = t0 + o0 - p0
      BY <1>9a DEF Second
    <3>2. QED
      BY <3>1
  <2>2. e = z - a
    BY <2>1
  <2>3. QED
    BY <2>1, <2>2
<1>9c. PICK e0 \in Int : e0 = e /\ e0 = t0 + o0 - p0 - a
  BY <1>9b
<1>10. ASSUME NEW i \in I PROVE i \in J <=> Rank(I, i) \in K
  <2>1. i \in 1..n /\ f.recs[i].tv \in Int
    BY <1>3, <1>9
  <2>2. PICK k \in 1..Len(q) : k = Rank(I, i) /\ q[k] = f.recs[i]
    BY <1>3, <1>8, RankOnto
  <2>a. PICK w \in Int : w = f.recs[i].tv /\ w = q[k].tv
    BY <2>1, <2>2
  <2>3. PICK x \in Int : x = t0 + w - p0 /\ x = Second(f, f.recs[i])
    <3>1. Second(f, f.recs[i]) = t0 + w - p0
      BY <1>9a, <2>a DEF Second
    <3>2. QED
      BY <3>1
  <2>4. PICK y \in Int : y = a + w - o0 /\ y = Second(g, q[k])
    <3>1. Second(g, q[k]) = a + w - o0
      BY <1>9a, <2>a DEF Second
    <3>2. QED
      BY <3>1
  <2>5. e \in Int /\ x = y + e
    <3>1. x = t0 + w - p0 /\ y = a + w - o0 /\ e0 = t0 + o0 - p0 - a
      BY <1>9c, <2>3, <2>4
    <3>2. x = y + e0
      BY ONLY <3>1, t0 \in Int, w \in Int, p0 \in Int, o0 \in Int, a \in Int
    <3>3. QED
      BY <1>9c, <3>2
  <2>6. k \in K <=> c <= y /\ y <= d
    <3>1. DOMAIN g.recs = 1..Len(q)
      BY PlainRecords
    <3>2. QED
      BY <1>4, <2>2, <2>4, <3>1 DEF Between
  <2>7. i \in J <=> c + e <= x /\ x <= d + e
    BY <1>1, <1>6, <2>1, <2>3 DEF Between
  <2>8. QED
    BY <2>2, <2>5, <2>6, <2>7
<1>11. PICK s : s = f.recs
  OBVIOUS
<1>12. Chosen(q, s, I)
  BY <1>3, <1>11
<1>13. Chosen(r, s, J)
  BY <1>3, <1>5, <1>7, <1>10, <1>12, ChosenOfChosen
<1>14. QED
  BY <1>2, <1>6, <1>11, <1>13

\* A piece cut again has the records of both intervals asked for
\* (tos-cutDiagMemInfo.c:31), for every plain file and all command lines
\* without -d, if its name has the second of its first record.
THEOREM SpecRecutIsTheInterval == Spec => []RecutIsTheInterval
<1>1. IInv => RecutIsTheInterval
  <2>1. SUFFICES ASSUME IInv, phase2 = "done", Plain(input.recs), Plain(piece), piece # << >>,
                        ~Names(argv, "d"), ~Names(argv2, "d"),
                        Second(input, piece[1]) = Value(argv, "f")
                 PROVE  Chosen(piece2, input.recs, Asked(input, argv) \cap Asked(input, argv2))
    BY DEF RecutIsTheInterval
  <2>2. phase = "done" /\ input2 = Cut!Output
    BY <2>1, Handed
  <2>3. input2.start = times.from /\ input2.recs = piece
    BY <2>2 DEF Cut!Output
  <2>4. /\ input \in File /\ piece \in Seq(Rec) /\ times.from \in Int /\ times.to \in Int
        /\ Chosen(piece, input.recs, Between(input, times.from, times.to))
        /\ Value(argv, "f") = times.from /\ Value(argv, "t") = times.to
    BY <2>1, <2>2, CutDone DEF IInv, CutOK
  <2>5. /\ input2 \in File /\ times2.from \in Int /\ times2.to \in Int
        /\ Chosen(piece2, piece, Between(input2, times2.from, times2.to))
        /\ Value(argv2, "f") = times2.from /\ Value(argv2, "t") = times2.to
    BY <2>1, <2>3, CutDone DEF IInv, RecutOK
  <2>6. PICK e \in Int : e = Second(input, piece[1]) - times.from /\ e = 0
    BY <2>1, <2>4
  <2>7. Chosen(piece2, input.recs, Between(input, times.from, times.to)
                                     \cap Between(input, times2.from + e, times2.to + e))
    BY <2>1, <2>3, <2>4, <2>5, <2>6, IntervalOfInterval
  <2>8. times2.from + e = times2.from /\ times2.to + e = times2.to
    BY <2>5, <2>6
  <2>9. QED
    BY <2>4, <2>5, <2>7, <2>8 DEF Asked
<1>2. QED
  BY <1>1, SpecIInv, PTL

\* The describer agrees with the cutter about a piece, for every file and all
\* command lines (__procEachDiagMemInfo_toDescSummary).
THEOREM SpecDescribedAsCut == Spec => []DescribedAsCut
<1>1. IInv => DescribedAsCut
  <2>1. SUFFICES ASSUME IInv, printed, Plain(piece), Plain(piece2), piece2 # << >>
                 PROVE  /\ cnt.total = total2.numbers
                        /\ span.start = times2.from
                        /\ span.end <= times2.to
                        /\ \E i \in DOMAIN piece2 : span.end - span.start = piece2[i].tv - piece2[1].tv
                        /\ \A i \in DOMAIN piece2 : span.end - span.start >= piece2[i].tv - piece2[1].tv
    BY DEF DescribedAsCut
  <2>2. phase2 = "done" /\ file = Recut!Output /\ read = Len(file.recs) /\ input2 = Cut!Output
    BY <2>1, Handed
  <2>3. file.start = times2.from /\ file.recs = piece2 /\ input2.recs = piece
    BY <2>2 DEF Recut!Output, Cut!Output
  <2>4. PICK a \in Nat, b \in Nat : a = times2.from /\ b = times2.to
    BY <2>1, <2>2, <2>3, CutDone DEF IInv, RecutOK
  <2>5. PICK I : I = Between(input2, a, b)
    OBVIOUS
  <2>6. /\ input2 \in File /\ piece2 \in Seq(Rec) /\ a > 0
        /\ I \in SUBSET (1..Len(input2.recs))
        /\ Chosen(piece2, input2.recs, I)
        /\ total2.numbers = Len(piece2)
    BY <2>1, <2>2, <2>3, <2>4, <2>5, CutDone DEF IInv, RecutOK
  <2>7. /\ file \in File /\ span \in Span /\ cnt.total = read /\ Spanned(file, read, span)
    BY <2>1 DEF IInv, DescOK, Described
  <2>8. cnt.total = total2.numbers
    BY <2>2, <2>3, <2>6, <2>7
  <2>9. PICK n \in Nat : n = Len(piece2) /\ n > 0 /\ DOMAIN piece2 = 1..n
    BY <2>1, <2>6, EmptySeq
  <2>10. /\ span.start = a
         /\ \E i \in 1..n : span.end - span.start = piece2[i].tv - piece2[1].tv
         /\ \A i \in 1..n : span.end - span.start >= piece2[i].tv - piece2[1].tv
    BY <2>1, <2>2, <2>3, <2>4, <2>6, <2>7, <2>9 DEF Spanned
  <2>11. ASSUME NEW i \in 1..n
         PROVE  piece2[i].tv \in Int /\ a <= Second(input2, piece2[i]) /\ Second(input2, piece2[i]) <= b
    <3>1. PICK k \in I : piece2[i] = input2.recs[k]
      <4>1. PICK m, w, q, J :
              m \in Nat /\ m = Len(input2.recs) /\ w = input2.recs /\ q = piece2 /\ J = I
        BY <2>6, PlainRecords
      <4>2. J \in SUBSET (1..m) /\ Chosen(q, w, J) /\ i \in 1..Len(q) /\ m \in Nat
        BY <2>6, <2>9, <4>1
      <4>3. Len(q) = Cardinality(J) /\ \A k \in J : q[Rank(J, k)] = w[k]
        BY <4>2 DEF Chosen
      <4>4. PICK k \in J : Rank(J, k) = i
        BY <4>2, <4>3, RankOnto
      <4>5. QED
        BY <4>1, <4>3, <4>4
    <3>2. input2.recs[k].tv \in Int
      BY <2>5, <2>6, PlainRecords DEF Between
    <3>3. QED
      BY <2>5, <3>1, <3>2 DEF Between
  <2>12. span.end <= b
    <3>1. 1 \in 1..n
      BY <2>9
    <3>2. PICK i \in 1..n : span.end - span.start = piece2[i].tv - piece2[1].tv
      BY <2>10
    <3>3. span.end \in Int
      BY <2>7 DEF Span
    <3>4. /\ input2.start \in Int /\ input2.recs[1].tv \in Int
          /\ piece2[1].tv \in Int /\ piece2[i].tv \in Int
      <4>1. input2.start \in Int
        BY <2>6, PlainRecords
      <4>2. 1 \in DOMAIN input2.recs
        <5>1. PICK j \in DOMAIN input2.recs : TRUE
          <6>1. I # {}
            <7>1. Len(piece2) = Cardinality(I)
              BY <2>6 DEF Chosen
            <7>2. QED
              BY <2>9, <7>1, FS_EmptySet
          <6>2. QED
            BY <2>5, <6>1 DEF Between
        <5>2. DOMAIN input2.recs = 1..Len(input2.recs) /\ Len(input2.recs) \in Nat
          BY <2>6, PlainRecords
        <5>3. QED
          BY <5>1, <5>2
      <4>3. input2.recs[1].tv \in Int
        BY <2>6, <4>2, PlainRecords
      <4>4. QED
        BY <2>11, <3>1, <4>1, <4>3
    <3>5. a <= Second(input2, piece2[1]) /\ Second(input2, piece2[i]) <= b
      BY <2>11, <3>1
    <3>6. QED
      BY <2>10, <3>2, <3>3, <3>4, <3>5 DEF Second
  <2>13. QED
    BY <2>4, <2>8, <2>9, <2>10, <2>12
<1>2. QED
  BY <1>1, SpecIInv, PTL

\* The sizes printed are those of the records, for every file that releases
\* no more than it allocates and has less than 4 GB in use.
THEOREM SpecDescribedSizes == Spec => []DescribedSizes
<1>1. IInv => DescribedSizes
  <2>1. SUFFICES ASSUME IInv, printed, \A n \in 0..Len(piece2) : InUse(piece2, n) \in 0..(Word32 - 1)
                 PROVE  /\ siz.inUse = InUse(piece2, Len(piece2))
                        /\ \A n \in 0..Len(piece2) : InUse(piece2, n) <= siz.peak
                        /\ \E n \in 0..Len(piece2) : InUse(piece2, n) = siz.peak
                        /\ siz.peakAlloc \in Blocks(piece2) \cup {0}
                        /\ \A b \in Blocks(piece2) : b <= siz.peakAlloc
    BY DEF DescribedSizes
  <2>2. file = Recut!Output /\ read = Len(file.recs)
    BY <2>1, Handed
  <2>3. file.recs = piece2
    BY <2>2 DEF Recut!Output
  <2>4. Weighed(piece2, Len(piece2), siz) /\ file \in File
    BY <2>1, <2>2, <2>3 DEF IInv, DescOK, Described
  <2>5. \A n \in 0..Len(piece2) : SizeOK(InUse(piece2, n))
    BY <2>1 DEF SizeOK
  <2>6. Allocated(piece2, Len(piece2)) = Blocks(piece2)
    <3>1. DOMAIN piece2 = 1..Len(piece2)
      BY <2>3, <2>4, PlainRecords
    <3>2. QED
      BY <3>1 DEF Allocated, Alloc, Blocks
  <2>7. QED
    BY <2>4, <2>5, <2>6 DEF Weighed
<1>2. QED
  BY <1>1, SpecIInv, PTL
=============================================================================
