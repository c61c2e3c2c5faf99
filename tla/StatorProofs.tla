---------------------------- MODULE StatorProofs ----------------------------
(***************************************************************************)
(* Proofs about the converter, for files of any length: the profiles are   *)
(* those of the blocks in use, and their lines add up.                     *)
(***************************************************************************)
EXTENDS Stator, Induction, SequenceTheorems, TLAPS

-----------------------------------------------------------------------------
(* Remainders. *)

\* The next multiple is a whole word away.
LEMMA NextMultiple ==
  ASSUME NEW W \in Nat, W > 0, NEW p \in Int, NEW q \in Int, p < q
  PROVE  W * p + W <= W * q
OBVIOUS

\* A number has one quotient and one remainder.
LEMMA OneRemainder ==
  ASSUME NEW W \in Nat, W > 0, NEW p \in Int, NEW q \in Int,
         NEW r \in 0..(W - 1), NEW s \in 0..(W - 1), W * p + r = W * q + s
  PROVE  r = s
<1> DEFINE a == W * p
           b == W * q
<1>1. a \in Int /\ b \in Int /\ a + r = b + s
  OBVIOUS
<1>2. p < q => a + W <= b
  BY NextMultiple
<1>3. q < p => b + W <= a
  BY NextMultiple
<1>4. p = q => a = b
  OBVIOUS
<1>5. p < q \/ q < p \/ p = q
  OBVIOUS
<1> HIDE DEF a, b
<1>6. QED
  BY <1>1, <1>2, <1>3, <1>4, <1>5

\* Multiples leave the remainder alone.
LEMMA AddMultiple ==
  ASSUME NEW W \in Nat, W > 0, NEW y \in Int, NEW q \in Int
  PROVE  (y + W * q) % W = y % W
<1>1. PICK p \in Int, r \in 0..(W - 1) : y = W * p + r /\ r = y % W
  <2>1. y \div W \in Int /\ y % W \in 0..(W - 1) /\ y = W * (y \div W) + (y % W)
    OBVIOUS
  <2>2. QED
    BY <2>1
<1>2. PICK z \in Int : z = y + W * q
  OBVIOUS
<1>3. PICK t \in Int, s \in 0..(W - 1) : z = W * t + s /\ s = z % W
  <2>1. z \div W \in Int /\ z % W \in 0..(W - 1) /\ z = W * (z \div W) + (z % W)
    OBVIOUS
  <2>2. QED
    BY <2>1
<1>4. W * (p + q) = W * p + W * q
  OBVIOUS
<1>5. W * (p + q) + r = W * t + s
  BY <1>1, <1>2, <1>3, <1>4
<1>6. r = s
  BY <1>5, OneRemainder
<1>7. QED
  BY <1>1, <1>2, <1>3, <1>6

\* The remainder may be taken before the last term is added.
LEMMA RemainderFirst ==
  ASSUME NEW W \in Nat, W > 0, NEW x \in Int, NEW b \in Int
  PROVE  ((x % W) + b) % W = (x + b) % W
<1>1. PICK q \in Int, r \in Int : x = W * q + r /\ r = x % W
  <2>1. x \div W \in Int /\ x % W \in Int /\ x = W * (x \div W) + (x % W)
    OBVIOUS
  <2>2. QED
    BY <2>1
<1>2. PICK y \in Int : y = r + b
  OBVIOUS
<1>3. x + b = y + W * q
  BY <1>1, <1>2
<1>4. (y + W * q) % W = y % W
  BY AddMultiple
<1>5. QED
  BY <1>1, <1>2, <1>3, <1>4

\* The remainder of what is small is itself.
LEMMA SmallRemainder ==
  ASSUME NEW W \in Nat, W > 0, NEW x \in 0..(W - 1)
  PROVE  x % W = x
<1>1. PICK q \in Int, r \in 0..(W - 1) : x = W * q + r /\ r = x % W
  <2>1. x \div W \in Int /\ x % W \in 0..(W - 1) /\ x = W * (x \div W) + (x % W)
    OBVIOUS
  <2>2. QED
    BY <2>1
<1>2. W * q + r = W * 0 + x
  BY <1>1
<1>3. r = x
  BY <1>2, OneRemainder
<1>4. QED
  BY <1>1, <1>3

\* What is wrapped fits a word, and what fits is left alone.
LEMMA WrappedIs ==
  /\ \A x \in Int : Wrapped(x) \in 0..(Word - 1) /\ Wrapped(x) \in Nat
  /\ \A x \in 0..(Word - 1) : Wrapped(x) = x
<1>1. Word \in Nat /\ Word > 0
  BY StatorAssumption
<1>2. \A x \in Int : x % Word \in 0..(Word - 1) /\ x % Word \in Nat
  BY <1>1
<1>3. QED
  BY <1>1, <1>2, SmallRemainder DEF Wrapped

\* A sum may be wrapped before the last term is added.
LEMMA WrapFirst ==
  \A x, b \in Int : Wrapped(Wrapped(x) + b) = Wrapped(x + b)
<1>1. Word \in Nat /\ Word > 0
  BY StatorAssumption
<1>2. QED
  BY <1>1, RemainderFirst DEF Wrapped

-----------------------------------------------------------------------------
(* A statistician keeps its books, whatever it is given. *)

Element == [allocs : Nat, frees : Nat, inUse : 0..(Word - 1)]
Block   == [addr : Addr, size : Nat, stack : Stack, nr : Nat]

Statistician ==
  [elmt : [Stack -> Element], cache : SUBSET Block, allocs : Nat, count : Nat,
   inUse : 0..(Word - 1), peak : 0..(Word - 1), missed : Nat]

CachedOf(st, s) == {c \in st.cache : c.stack = s}

\* Per call stack, the blocks and what they add up to.
Open(st)  == [s \in Stack |-> st.elmt[s].allocs - st.elmt[s].frees]
Sizes(st) == [s \in Stack |-> st.elmt[s].inUse]

\* The cache has each block once, and as many blocks of a call stack as its
\* element says; the sums are those of the elements.
Sound(st) ==
  /\ st \in Statistician
  /\ IsFiniteSet(st.cache)
  /\ \A c \in st.cache : c.nr <= st.allocs
  /\ \A c, d \in st.cache : c.nr = d.nr => c = d
  /\ st.count = Cardinality(st.cache)
  /\ \A s \in Stack : Open(st)[s] = Cardinality(CachedOf(st, s))
  /\ \A s \in Stack : st.elmt[s].allocs = 0 => st.elmt[s].inUse = 0
  /\ st.count = SumFunctionOnSet(Open(st), Stack)
  /\ st.inUse = Wrapped(SumFunctionOnSet(Sizes(st), Stack))

\* The elements are numbers.
LEMMA OpenInt ==
  ASSUME NEW st \in Statistician
  PROVE  /\ \A s \in Stack : Open(st)[s] \in Int /\ Sizes(st)[s] \in Int
         /\ SumFunctionOnSet(Open(st), Stack) \in Int
         /\ SumFunctionOnSet(Sizes(st), Stack) \in Int
<1>1. \A s \in Stack : st.elmt[s] \in Element
  BY DEF Statistician
<1>2. \A s \in Stack : /\ st.elmt[s].allocs \in Int /\ st.elmt[s].frees \in Int
                       /\ st.elmt[s].inUse \in Int
  BY <1>1, StatorAssumption DEF Element
<1>3. \A s \in Stack : Open(st)[s] \in Int /\ Sizes(st)[s] \in Int
  BY <1>2 DEF Open, Sizes
<1>4. QED
  BY <1>3, SumInt, StatorAssumption

\* One element changes, and the sums by as much.
LEMMA ElementChanges ==
  ASSUME NEW st \in Statistician, NEW u \in Statistician, NEW x \in Stack, NEW b \in Int, NEW d \in Int,
         Open(u)[x] = Open(st)[x] + d, Sizes(u)[x] = Wrapped(Sizes(st)[x] + b),
         \A s \in Stack \ {x} : Open(u)[s] = Open(st)[s] /\ Sizes(u)[s] = Sizes(st)[s]
  PROVE  /\ SumFunctionOnSet(Open(u), Stack) = SumFunctionOnSet(Open(st), Stack) + d
         /\ Wrapped(SumFunctionOnSet(Sizes(u), Stack))
              = Wrapped(Wrapped(SumFunctionOnSet(Sizes(st), Stack)) + b)
<1>1. PICK o \in Int, p \in Int, S \in Int, z \in Int :
        /\ o = Open(st)[x] /\ p = SumFunctionOnSet(Open(st), Stack)
        /\ z = Sizes(st)[x] /\ S = SumFunctionOnSet(Sizes(st), Stack)
  BY OpenInt
<1>2. PICK w \in Int : w = Wrapped(z + b)
  BY WrappedIs
<1>3. SumFunctionOnSet(Open(u), Stack) = p + ((o + d) - o)
  <2>1. SumFunctionOnSet(Open(u), Stack) = p + (Open(u)[x] - Open(st)[x])
    BY <1>1, OpenInt, SumChanged, StatorAssumption
  <2>2. QED
    BY <1>1, <2>1
<1>4. SumFunctionOnSet(Sizes(u), Stack) = S + (w - z)
  <2>1. SumFunctionOnSet(Sizes(u), Stack) = S + (Sizes(u)[x] - Sizes(st)[x])
    BY <1>1, OpenInt, SumChanged, StatorAssumption
  <2>2. QED
    BY <1>1, <1>2, <2>1
<1>5. Wrapped(S + (w - z)) = Wrapped(Wrapped(S) + b)
  <2>1. PICK e \in Int : e = S - z
    OBVIOUS
  <2>2. S + (w - z) = w + e /\ (z + b) + e = S + b
    BY <2>1
  <2>3. Wrapped(w + e) = Wrapped((z + b) + e)
    BY <1>2, WrapFirst
  <2>4. Wrapped(Wrapped(S) + b) = Wrapped(S + b)
    BY WrapFirst
  <2>5. QED
    BY <2>2, <2>3, <2>4
<1>6. p + ((o + d) - o) = p + d
  OBVIOUS
<1>7. QED
  BY <1>1, <1>3, <1>4, <1>5, <1>6

\* The sizes of operations are numbers.
LEMMA SizeInt ==
  /\ \A r \in Op : MemBlockSize(r) \in Int
  /\ \A r \in Op : \A c \in Block : FreedSize(r, c) \in Int
<1>1. \A n \in Nat : 2^n \in Int
  OBVIOUS
<1>2. PageSize \in Int /\ Page \in Int
  BY StatorAssumption
<1>3. \A n \in Nat : PageSize * 2^n \in Int /\ Page * 2^n \in Int
  BY <1>1, <1>2
<1>4. QED
  BY <1>3 DEF MemBlockSize, FreedSize, Op, Block

\* What an allocation does.
LEMMA AllocatedIs ==
  ASSUME NEW st \in Statistician, NEW r \in Op
  PROVE  LET u == Allocated(st, r)
             b == MemBlockSize(r)
             c == [addr |-> r.addr, size |-> r.size, stack |-> r.stack, nr |-> st.allocs + 1]
         IN /\ u \in Statistician /\ r.stack \in Stack /\ c \in Block
            /\ u.elmt[r.stack].allocs = st.elmt[r.stack].allocs + 1
            /\ u.elmt[r.stack].frees = st.elmt[r.stack].frees
            /\ u.elmt[r.stack].inUse = Wrapped(st.elmt[r.stack].inUse + b)
            /\ \A s \in Stack \ {r.stack} : u.elmt[s] = st.elmt[s]
            /\ u.cache = st.cache \cup {c}
            /\ u.allocs = st.allocs + 1 /\ u.count = st.count + 1
            /\ u.inUse = Wrapped(st.inUse + b)
            /\ u.peak = IF u.inUse > st.peak THEN u.inUse ELSE st.peak
            /\ u.missed = st.missed
<1> DEFINE b == MemBlockSize(r)
           x == r.stack
           c == [addr |-> r.addr, size |-> r.size, stack |-> r.stack, nr |-> st.allocs + 1]
           e == [st.elmt[x] EXCEPT !.allocs = @ + 1, !.inUse = Wrapped(@ + b)]
           u == Allocated(st, r)
<1>1. /\ st.elmt \in [Stack -> Element] /\ st.cache \in SUBSET Block
      /\ st.allocs \in Nat /\ st.count \in Nat /\ st.missed \in Nat
      /\ st.inUse \in 0..(Word - 1) /\ st.peak \in 0..(Word - 1)
  BY DEF Statistician
<1>2. b \in Int /\ x \in Stack /\ r.addr \in Addr /\ r.size \in Nat
  BY SizeInt DEF Op
<1>3. /\ Wrapped(st.elmt[x].inUse + b) \in 0..(Word - 1)
      /\ Wrapped(st.inUse + b) \in 0..(Word - 1)
  <2>1. st.elmt[x].inUse \in Int /\ st.inUse \in Int
    BY <1>1, <1>2, StatorAssumption DEF Element
  <2>2. st.elmt[x].inUse + b \in Int /\ st.inUse + b \in Int
    BY <1>2, <2>1
  <2>3. QED
    BY <2>2, WrappedIs
<1>4. c \in Block
  BY <1>1, <1>2 DEF Block
<1>5. e \in Element
  <2>1. PICK a \in Element : a = st.elmt[x]
    BY <1>1, <1>2
  <2>2. PICK w \in 0..(Word - 1) : w = Wrapped(st.elmt[x].inUse + b)
    BY <1>3
  <2>3. e = [allocs |-> a.allocs + 1, frees |-> a.frees, inUse |-> w]
    <3>1. e = [a EXCEPT !.allocs = a.allocs + 1, !.inUse = w]
      BY <2>1, <2>2
    <3> HIDE DEF e
    <3>2. QED
      BY <3>1 DEF Element
  <2>4. a.allocs + 1 \in Nat /\ a.frees \in Nat
    BY DEF Element
  <2>5. QED
    BY <2>3, <2>4 DEF Element
<1>6. /\ u.elmt = [st.elmt EXCEPT ![x] = e]
      /\ u.cache = st.cache \cup {c}
      /\ u.allocs = st.allocs + 1 /\ u.count = st.count + 1
      /\ u.inUse = Wrapped(st.inUse + b)
      /\ u.peak = IF u.inUse > st.peak THEN u.inUse ELSE st.peak
      /\ u.missed = st.missed
  BY <1>1, <1>2 DEF Allocated, Statistician
<1>7. u = [elmt |-> u.elmt, cache |-> u.cache, allocs |-> u.allocs, count |-> u.count,
           inUse |-> u.inUse, peak |-> u.peak, missed |-> u.missed]
  BY DEF Allocated
<1>8. /\ e.allocs = st.elmt[x].allocs + 1 /\ e.frees = st.elmt[x].frees
      /\ e.inUse = Wrapped(st.elmt[x].inUse + b)
  BY <1>1, <1>2 DEF Element
<1> HIDE DEF e, b, c, u
<1>9. u.elmt \in [Stack -> Element] /\ u.elmt[x] = e /\ \A s \in Stack \ {x} : u.elmt[s] = st.elmt[s]
  BY <1>1, <1>2, <1>5, <1>6
<1>10. /\ u.cache \in SUBSET Block /\ u.allocs \in Nat /\ u.count \in Nat /\ u.missed \in Nat
       /\ u.inUse \in 0..(Word - 1) /\ u.peak \in 0..(Word - 1)
  BY <1>1, <1>3, <1>4, <1>6
<1>11. u \in Statistician
  BY <1>7, <1>9, <1>10 DEF Statistician
<1>12. QED
  BY <1>2, <1>4, <1>6, <1>8, <1>9, <1>11 DEF u, b, c

\* The newest of blocks is one of them.
LEMMA NewestIs ==
  ASSUME NEW C, NEW n \in Nat, C # {}, \A c \in C : c.nr \in Nat /\ c.nr <= n
  PROVE  Newest(C) \in C /\ \A d \in C : d.nr <= Newest(C).nr
<1> DEFINE A == {n - c.nr : c \in C}
<1>1. A \subseteq Nat /\ A # {}
  OBVIOUS
<1>2. PICK m \in A : \A k \in A : m <= k
  BY <1>1, LeastNumber
<1>3. PICK c \in C : m = n - c.nr
  BY <1>2
<1>4. ASSUME NEW d \in C PROVE d.nr <= c.nr
  <2>1. n - c.nr <= n - d.nr
    BY <1>2, <1>3
  <2>2. QED
    BY <2>1
<1>5. QED
  BY <1>3, <1>4 DEF Newest

\* What the release of a block does.
LEMMA UncachedIs ==
  ASSUME NEW st, Sound(st), NEW c \in st.cache, NEW b \in Int
  PROVE  LET u == Uncached(st, c, b)
             x == c.stack
         IN /\ u \in Statistician /\ x \in Stack
            /\ u.elmt[x].allocs = st.elmt[x].allocs
            /\ u.elmt[x].frees = st.elmt[x].frees + 1
            /\ u.elmt[x].inUse = Wrapped(st.elmt[x].inUse - b)
            /\ \A s \in Stack \ {x} : u.elmt[s] = st.elmt[s]
            /\ u.cache = st.cache \ {c}
            /\ u.allocs = st.allocs /\ u.count = st.count - 1
            /\ u.inUse = Wrapped(st.inUse - b)
            /\ u.peak = st.peak /\ u.missed = st.missed
<1> DEFINE x == c.stack
           e == [st.elmt[x] EXCEPT !.frees = @ + 1, !.inUse = Wrapped(@ - b)]
           u == Uncached(st, c, b)
<1>1. /\ st.elmt \in [Stack -> Element] /\ st.cache \in SUBSET Block
      /\ st.allocs \in Nat /\ st.count \in Nat /\ st.missed \in Nat
      /\ st.inUse \in 0..(Word - 1) /\ st.peak \in 0..(Word - 1)
  BY DEF Statistician, Sound
<1>2. x \in Stack
  BY <1>1 DEF Block
<1>3. /\ Wrapped(st.elmt[x].inUse - b) \in 0..(Word - 1)
      /\ Wrapped(st.inUse - b) \in 0..(Word - 1)
  <2>1. st.elmt[x].inUse \in Int /\ st.inUse \in Int
    BY <1>1, <1>2, StatorAssumption DEF Element
  <2>2. st.elmt[x].inUse - b \in Int /\ st.inUse - b \in Int
    BY <2>1
  <2>3. QED
    BY <2>2, WrappedIs
<1>4. st.count - 1 \in Nat
  <2>1. st.count = Cardinality(st.cache) /\ IsFiniteSet(st.cache) /\ st.cache # {}
    BY DEF Sound
  <2>2. st.count # 0
    BY <2>1, FS_EmptySet
  <2>3. QED
    BY <1>1, <2>2
<1>5. e \in Element
  <2>1. PICK a \in Element : a = st.elmt[x]
    BY <1>1, <1>2
  <2>2. PICK w \in 0..(Word - 1) : w = Wrapped(st.elmt[x].inUse - b)
    BY <1>3
  <2>3. e = [allocs |-> a.allocs, frees |-> a.frees + 1, inUse |-> w]
    <3>1. e = [a EXCEPT !.frees = a.frees + 1, !.inUse = w]
      BY <2>1, <2>2
    <3> HIDE DEF e
    <3>2. QED
      BY <3>1 DEF Element
  <2>4. a.allocs \in Nat /\ a.frees + 1 \in Nat
    BY DEF Element
  <2>5. QED
    BY <2>3, <2>4 DEF Element
<1>6. /\ u.elmt = [st.elmt EXCEPT ![x] = e]
      /\ u.cache = st.cache \ {c}
      /\ u.allocs = st.allocs /\ u.count = st.count - 1
      /\ u.inUse = Wrapped(st.inUse - b)
      /\ u.peak = st.peak /\ u.missed = st.missed
  BY <1>1, <1>2 DEF Uncached
<1>7. u = [elmt |-> u.elmt, cache |-> u.cache, allocs |-> u.allocs, count |-> u.count,
           inUse |-> u.inUse, peak |-> u.peak, missed |-> u.missed]
  BY DEF Uncached
<1>8. /\ e.allocs = st.elmt[x].allocs /\ e.frees = st.elmt[x].frees + 1
      /\ e.inUse = Wrapped(st.elmt[x].inUse - b)
  BY <1>1, <1>2 DEF Element
<1> HIDE DEF e, u
<1>9. u.elmt \in [Stack -> Element] /\ u.elmt[x] = e /\ \A s \in Stack \ {x} : u.elmt[s] = st.elmt[s]
  BY <1>1, <1>2, <1>5, <1>6
<1>10. /\ u.cache \in SUBSET Block /\ u.allocs \in Nat /\ u.count \in Nat /\ u.missed \in Nat
       /\ u.inUse \in 0..(Word - 1) /\ u.peak \in 0..(Word - 1)
  BY <1>1, <1>3, <1>4, <1>6
<1>11. u \in Statistician
  BY <1>7, <1>9, <1>10 DEF Statistician
<1>12. QED
  BY <1>2, <1>6, <1>8, <1>9, <1>11 DEF u

\* One element changes, by a block of b bytes (d is 1) or without it (-1), and
\* the sums and the cache with it.
Moved(st, u, x, b, d) ==
  /\ u \in Statistician /\ x \in Stack /\ b \in Int /\ d \in Int
  /\ Open(u)[x] = Open(st)[x] + d /\ u.elmt[x].inUse = Wrapped(st.elmt[x].inUse + b)
  /\ \A s \in Stack \ {x} : u.elmt[s] = st.elmt[s]
  /\ u.elmt[x].allocs # 0 /\ u.count = st.count + d /\ u.inUse = Wrapped(st.inUse + b)
  /\ IsFiniteSet(u.cache) /\ Cardinality(u.cache) = st.count + d
  /\ Cardinality(CachedOf(u, x)) = Cardinality(CachedOf(st, x)) + d
  /\ \A s \in Stack \ {x} : CachedOf(u, s) = CachedOf(st, s)
  /\ \A k \in u.cache : k.nr <= u.allocs
  /\ \A k, l \in u.cache : k.nr = l.nr => k = l

\* That keeps the books.
LEMMA SoundOne ==
  ASSUME NEW st, Sound(st), NEW u, NEW x, NEW b, NEW d, Moved(st, u, x, b, d)
  PROVE  Sound(u)
<1> USE DEF Moved
<1>1. st \in Statistician
  BY DEF Sound
<1>2. \A s \in Stack \ {x} : Open(u)[s] = Open(st)[s] /\ Sizes(u)[s] = Sizes(st)[s]
  BY DEF Open, Sizes
<1>3. /\ u \in Statistician /\ x \in Stack /\ b \in Int /\ d \in Int
      /\ Sizes(u)[x] = Wrapped(Sizes(st)[x] + b)
  BY DEF Sizes
<1>4. /\ SumFunctionOnSet(Open(u), Stack) = SumFunctionOnSet(Open(st), Stack) + d
      /\ Wrapped(SumFunctionOnSet(Sizes(u), Stack))
           = Wrapped(Wrapped(SumFunctionOnSet(Sizes(st), Stack)) + b)
  BY <1>1, <1>2, <1>3, ElementChanges
<1>5. \A s \in Stack : Open(u)[s] = Cardinality(CachedOf(u, s))
  <2>1. \A s \in Stack : Open(st)[s] = Cardinality(CachedOf(st, s))
    BY DEF Sound
  <2>2. QED
    BY <1>2, <2>1
<1>6. \A s \in Stack : u.elmt[s].allocs = 0 => u.elmt[s].inUse = 0
  BY DEF Sound
<1>7. u.count = Cardinality(u.cache)
  OBVIOUS
<1>8. /\ u.count = SumFunctionOnSet(Open(u), Stack)
      /\ u.inUse = Wrapped(SumFunctionOnSet(Sizes(u), Stack))
  BY <1>4 DEF Sound
<1>9. QED
  BY <1>5, <1>6, <1>7, <1>8 DEF Sound

\* An allocation keeps them.
LEMMA SoundAllocated ==
  ASSUME NEW st, Sound(st), NEW r \in Op
  PROVE  Sound(Allocated(st, r))
<1> DEFINE u == Allocated(st, r)
           x == r.stack
           b == MemBlockSize(r)
           c == [addr |-> r.addr, size |-> r.size, stack |-> r.stack, nr |-> st.allocs + 1]
<1>1. st \in Statistician /\ st.cache \in SUBSET Block /\ st.allocs \in Nat
  BY DEF Sound, Statistician
<1>2. /\ u \in Statistician /\ x \in Stack /\ c \in Block
      /\ u.elmt[x].allocs = st.elmt[x].allocs + 1
      /\ u.elmt[x].frees = st.elmt[x].frees
      /\ u.elmt[x].inUse = Wrapped(st.elmt[x].inUse + b)
      /\ \A s \in Stack \ {x} : u.elmt[s] = st.elmt[s]
      /\ u.cache = st.cache \cup {c}
      /\ u.allocs = st.allocs + 1 /\ u.count = st.count + 1
      /\ u.inUse = Wrapped(st.inUse + b)
  BY <1>1, AllocatedIs
<1>3. b \in Int
  BY SizeInt
<1>4. c.nr = st.allocs + 1 /\ c.stack = x
  OBVIOUS
<1> HIDE DEF u, x, b, c
<1>5. \A k \in st.cache : k.nr \in Nat /\ k.nr <= st.allocs
  BY <1>1 DEF Sound, Block
<1>6. c \notin st.cache
  BY <1>1, <1>4, <1>5
<1>7. IsFiniteSet(st.cache) /\ st.count = Cardinality(st.cache)
  BY DEF Sound
<1>8. IsFiniteSet(u.cache) /\ Cardinality(u.cache) = st.count + 1
  <2>1. /\ IsFiniteSet(st.cache \cup {c})
        /\ Cardinality(st.cache \cup {c}) = Cardinality(st.cache) + 1
    BY <1>6, <1>7, FS_AddElement
  <2>2. QED
    BY <1>2, <1>7, <2>1
<1>9. CachedOf(u, x) = CachedOf(st, x) \cup {c} /\ c \notin CachedOf(st, x)
  BY <1>2, <1>4, <1>6 DEF CachedOf
<1>10. \A s \in Stack \ {x} : CachedOf(u, s) = CachedOf(st, s)
  BY <1>2, <1>4 DEF CachedOf
<1>11. Cardinality(CachedOf(u, x)) = Cardinality(CachedOf(st, x)) + 1
  <2>1. IsFiniteSet(CachedOf(st, x))
    BY <1>7, FS_Subset DEF CachedOf
  <2>2. QED
    BY <1>9, <2>1, FS_AddElement
<1>12. \A k \in u.cache : k.nr <= u.allocs
  BY <1>1, <1>2, <1>4, <1>5
<1>13. \A k, l \in u.cache : k.nr = l.nr => k = l
  <2>1. \A k, l \in st.cache : k.nr = l.nr => k = l
    BY DEF Sound
  <2>2. \A k \in st.cache : k.nr # c.nr
    BY <1>1, <1>4, <1>5
  <2>3. QED
    BY <1>2, <2>1, <2>2
<1>14. Open(u)[x] = Open(st)[x] + 1 /\ u.elmt[x].allocs # 0
  <2>1. st.elmt[x] \in Element
    BY <1>1, <1>2 DEF Statistician
  <2>2. st.elmt[x].allocs \in Nat /\ st.elmt[x].frees \in Nat
    BY <2>1 DEF Element
  <2>3. QED
    BY <1>2, <2>2 DEF Open
<1>15. Sound(u)
  <2>1. Moved(st, u, x, b, 1)
    BY <1>2, <1>3, <1>8, <1>10, <1>11, <1>12, <1>13, <1>14 DEF Moved
  <2>2. QED
    BY <2>1, SoundOne
<1>16. QED
  BY <1>15 DEF u

\* So does the release of a cached block.
LEMMA SoundUncached ==
  ASSUME NEW st, Sound(st), NEW c \in st.cache, NEW b \in Int
  PROVE  Sound(Uncached(st, c, b))
<1> DEFINE u == Uncached(st, c, b)
           x == c.stack
<1>1. st \in Statistician /\ st.cache \in SUBSET Block /\ st.allocs \in Nat
  BY DEF Sound, Statistician
<1>2. /\ u \in Statistician /\ x \in Stack
      /\ u.elmt[x].allocs = st.elmt[x].allocs
      /\ u.elmt[x].frees = st.elmt[x].frees + 1
      /\ u.elmt[x].inUse = Wrapped(st.elmt[x].inUse - b)
      /\ \A s \in Stack \ {x} : u.elmt[s] = st.elmt[s]
      /\ u.cache = st.cache \ {c}
      /\ u.allocs = st.allocs /\ u.count = st.count - 1
      /\ u.inUse = Wrapped(st.inUse - b)
  BY UncachedIs
<1> HIDE DEF u
<1>3. IsFiniteSet(st.cache) /\ st.count = Cardinality(st.cache) /\ st.count \in Nat
  BY <1>1 DEF Sound, Statistician
<1>4. IsFiniteSet(u.cache) /\ Cardinality(u.cache) = st.count - 1
  <2>1. /\ IsFiniteSet(st.cache \ {c})
        /\ Cardinality(st.cache \ {c}) = Cardinality(st.cache) - 1
    BY <1>3, FS_RemoveElement
  <2>2. QED
    BY <1>2, <1>3, <2>1
<1>5. CachedOf(u, x) = CachedOf(st, x) \ {c} /\ c \in CachedOf(st, x)
  BY <1>2 DEF CachedOf
<1>6. \A s \in Stack \ {x} : CachedOf(u, s) = CachedOf(st, s)
  BY <1>2 DEF CachedOf
<1>7. IsFiniteSet(CachedOf(st, x)) /\ Cardinality(CachedOf(st, x)) \in Nat
  BY <1>3, FS_Subset, FS_CardinalityType DEF CachedOf
<1>8. Cardinality(CachedOf(u, x)) = Cardinality(CachedOf(st, x)) - 1
  BY <1>5, <1>7, FS_RemoveElement
<1>9. Open(u)[x] = Open(st)[x] - 1 /\ u.elmt[x].allocs # 0
  <2>1. st.elmt[x] \in Element
    BY <1>1, <1>2 DEF Statistician
  <2>2. st.elmt[x].allocs \in Nat /\ st.elmt[x].frees \in Nat
    BY <2>1 DEF Element
  <2>3. Open(u)[x] = Open(st)[x] - 1 /\ Open(st)[x] = st.elmt[x].allocs - st.elmt[x].frees
    BY <1>2, <2>2 DEF Open
  <2>4. Open(st)[x] = Cardinality(CachedOf(st, x)) /\ Cardinality(CachedOf(st, x)) # 0
    BY <1>2, <1>5, <1>7, FS_EmptySet DEF Sound
  <2>5. QED
    BY <1>2, <1>7, <2>2, <2>3, <2>4
<1>10. PICK a \in Int, m \in Int, i \in Int, j \in Int :
         /\ a = -b /\ m = st.elmt[x].inUse /\ i = st.inUse
         /\ j = Open(st)[x]
  <2>1. st.elmt[x] \in Element /\ st.inUse \in 0..(Word - 1)
    BY <1>1, <1>2 DEF Statistician
  <2>2. st.elmt[x].inUse \in Int /\ st.inUse \in Int
    BY <2>1, StatorAssumption DEF Element
  <2>3. Open(st)[x] \in Int
    BY <1>1, <1>2, OpenInt
  <2>4. QED
    BY <2>2, <2>3
<1>11. m - b = m + a /\ i - b = i + a
  BY <1>10
<1>12. u.elmt[x].inUse = Wrapped(st.elmt[x].inUse + a) /\ u.inUse = Wrapped(st.inUse + a)
  BY <1>2, <1>10, <1>11
<1>13. PICK d \in Int : d = -1
  OBVIOUS
<1>14. /\ Open(u)[x] = Open(st)[x] + d /\ u.count = st.count + d
       /\ Cardinality(u.cache) = st.count + d
       /\ Cardinality(CachedOf(u, x)) = Cardinality(CachedOf(st, x)) + d
  BY <1>2, <1>3, <1>4, <1>7, <1>8, <1>9, <1>10, <1>13
<1>15. /\ \A k \in u.cache : k.nr <= u.allocs
       /\ \A k, l \in u.cache : k.nr = l.nr => k = l
  BY <1>2 DEF Sound
<1>16. Sound(u)
  <2>1. Moved(st, u, x, a, d)
    BY <1>2, <1>4, <1>6, <1>9, <1>10, <1>12, <1>13, <1>14, <1>15 DEF Moved
  <2>2. QED
    BY <2>1, SoundOne
<1>17. QED
  BY <1>16 DEF u

\* And a release of a block that is not cached.
LEMMA SoundMissed ==
  ASSUME NEW st, Sound(st)
  PROVE  LET u == [st EXCEPT !.missed = @ + 1]
         IN /\ Sound(u) /\ u.elmt = st.elmt /\ u.cache = st.cache /\ u.allocs = st.allocs
            /\ u.count = st.count /\ u.inUse = st.inUse /\ u.peak = st.peak
<1> DEFINE u == [st EXCEPT !.missed = @ + 1]
<1>1. /\ st.elmt \in [Stack -> Element] /\ st.cache \in SUBSET Block
      /\ st.allocs \in Nat /\ st.count \in Nat /\ st.missed \in Nat
      /\ st.inUse \in 0..(Word - 1) /\ st.peak \in 0..(Word - 1)
  BY DEF Statistician, Sound
<1>2. u = [elmt |-> st.elmt, cache |-> st.cache, allocs |-> st.allocs, count |-> st.count,
           inUse |-> st.inUse, peak |-> st.peak, missed |-> st.missed + 1]
  BY DEF Statistician, Sound
<1> HIDE DEF u
<1>3. u \in Statistician
  BY <1>1, <1>2 DEF Statistician
<1>4. /\ u.elmt = st.elmt /\ u.cache = st.cache /\ u.allocs = st.allocs
      /\ u.count = st.count /\ u.inUse = st.inUse /\ u.peak = st.peak
  BY <1>2
<1>5. Open(u) = Open(st) /\ Sizes(u) = Sizes(st) /\ \A s : CachedOf(u, s) = CachedOf(st, s)
  BY <1>4 DEF Open, Sizes, CachedOf
<1>6. Sound(u)
  BY <1>3, <1>4, <1>5 DEF Sound
<1>7. QED
  BY <1>4, <1>6 DEF u

-----------------------------------------------------------------------------
(* What is in use, by the records alone. *)

\* A file is a sequence of records.
LEMMA FileIs ==
  ASSUME NEW f \in File
  PROVE  /\ Len(f) \in Nat /\ Len(f) \in 0..MaxLen /\ DOMAIN f = 1..Len(f)
         /\ \A i \in 1..Len(f) : /\ f[i] \in Record /\ f[i] \in Op /\ f[i].free \in BOOLEAN
                                 /\ f[i].addr \in Addr /\ f[i].stack \in Stack /\ f[i].size \in Nat
                                 /\ MemBlockSize(f[i]) \in Int
<1>1. PICK n \in 0..MaxLen : f \in [1..n -> Record]
  BY DEF File
<1>2. n \in Nat /\ f \in Seq(Record) /\ Len(f) = n
  <2>1. n \in Nat
    BY StatorAssumption
  <2>2. f \in Seq(Record)
    BY <1>1, <2>1, SeqDef
  <2>3. QED
    BY <1>1, <2>1, <2>2, LenProperties
<1>3. \A i \in 1..n : f[i] \in Record /\ f[i] \in Op
  BY <1>1, StatorAssumption
<1>4. QED
  BY <1>1, <1>2, <1>3, SizeInt DEF Op

Marks(f, a, n, free) == {k \in 1..n : f[k].addr = a /\ f[k].free = free}

\* The balance, record after record.
LEMMA BalanceStep ==
  ASSUME NEW f \in File, NEW a
  PROVE  /\ \A n \in Nat : Balance(f, a, n) \in Int
         /\ \A n \in 0..(Len(f) - 1) :
              Balance(f, a, n + 1) =
                Balance(f, a, n) + (IF f[n + 1].addr # a THEN 0
                                    ELSE IF f[n + 1].free THEN -1 ELSE 1)
<1>1. \A n \in Nat : \A b : /\ IsFiniteSet(Marks(f, a, n, b))
                            /\ Cardinality(Marks(f, a, n, b)) \in Nat
  <2>1. ASSUME NEW n \in Nat, NEW b
        PROVE  IsFiniteSet(Marks(f, a, n, b)) /\ Cardinality(Marks(f, a, n, b)) \in Nat
    <3>1. IsFiniteSet(1..n) /\ Marks(f, a, n, b) \in SUBSET (1..n)
      BY FS_Interval DEF Marks
    <3>2. QED
      BY <3>1, FS_Subset, FS_CardinalityType
  <2>2. QED
    BY <2>1
<1>2. \A n : Balance(f, a, n) = Cardinality(Marks(f, a, n, FALSE)) - Cardinality(Marks(f, a, n, TRUE))
  BY DEF Balance, Marks
<1>3. ASSUME NEW n \in 0..(Len(f) - 1)
      PROVE  Balance(f, a, n + 1) =
                Balance(f, a, n) + (IF f[n + 1].addr # a THEN 0
                                    ELSE IF f[n + 1].free THEN -1 ELSE 1)
  <2>1. n \in Nat /\ n + 1 \in Nat /\ f[n + 1].free \in BOOLEAN
    BY FileIs
  <2>2. 1..(n + 1) = (1..n) \cup {n + 1} /\ n + 1 \notin 1..n
    BY <2>1
  <2>3. \A b : /\ n + 1 \notin Marks(f, a, n, b)
               /\ Marks(f, a, n + 1, b) =
                    IF f[n + 1].addr = a /\ f[n + 1].free = b
                      THEN Marks(f, a, n, b) \cup {n + 1} ELSE Marks(f, a, n, b)
    BY <2>2 DEF Marks
  <2>4. \A b : Cardinality(Marks(f, a, n + 1, b)) =
                 IF f[n + 1].addr = a /\ f[n + 1].free = b
                   THEN Cardinality(Marks(f, a, n, b)) + 1 ELSE Cardinality(Marks(f, a, n, b))
    <3>1. ASSUME NEW b
          PROVE  Cardinality(Marks(f, a, n, b) \cup {n + 1}) = Cardinality(Marks(f, a, n, b)) + 1
      BY <1>1, <2>1, <2>3, FS_AddElement
    <3>2. QED
      BY <2>3, <3>1
  <2>5. PICK p \in Nat, q \in Nat : /\ p = Cardinality(Marks(f, a, n, FALSE))
                                   /\ q = Cardinality(Marks(f, a, n, TRUE))
    BY <1>1, <2>1
  <2>6. Balance(f, a, n) = p - q
    BY <1>2, <2>5
  <2>7. CASE f[n + 1].addr # a
    <3>1. Balance(f, a, n + 1) = p - q
      BY <1>2, <2>4, <2>5, <2>7
    <3>2. QED
      BY <2>6, <2>7, <3>1
  <2>8. CASE f[n + 1].addr = a /\ f[n + 1].free = TRUE
    <3>1. Balance(f, a, n + 1) = p - (q + 1)
      BY <1>2, <2>4, <2>5, <2>8
    <3>2. QED
      BY <2>6, <2>8, <3>1
  <2>9. CASE f[n + 1].addr = a /\ f[n + 1].free = FALSE
    <3>1. Balance(f, a, n + 1) = (p + 1) - q
      BY <1>2, <2>4, <2>5, <2>9
    <3>2. QED
      BY <2>6, <2>9, <3>1
  <2>10. QED
    BY <2>1, <2>7, <2>8, <2>9
<1>4. ASSUME NEW n \in Nat PROVE Balance(f, a, n) \in Int
  <2>1. PICK p \in Nat, q \in Nat : /\ p = Cardinality(Marks(f, a, n, FALSE))
                                   /\ q = Cardinality(Marks(f, a, n, TRUE))
    BY <1>1, <1>4
  <2>2. Balance(f, a, n) = p - q
    BY <1>2, <2>1
  <2>3. QED
    BY <2>2
<1>5. QED
  BY <1>3, <1>4

\* Where the balance of an address has risen, it has a later block in use.
LEMMA LaterLive ==
  ASSUME NEW f \in File, NEW n \in 0..Len(f), NEW i \in 1..n, NEW a,
         Balance(f, a, i) < Balance(f, a, n)
  PROVE  \E k \in (i + 1)..n : k \in Live(f, n) /\ f[k].addr = a
<1> DEFINE B(j) == Balance(f, a, j)
           K == {j \in i..n : B(j) <= B(i)}
           D == {n - j : j \in K}
<1>1. n \in Nat /\ i \in Nat /\ Len(f) \in Nat /\ \A j \in Nat : B(j) \in Int
  <2>1. Len(f) \in Nat
    BY FileIs
  <2>2. \A j \in Nat : B(j) \in Int
    BY BalanceStep
  <2>3. QED
    BY <2>1, <2>2
<1>2. i \in K /\ D \subseteq Nat /\ D # {}
  BY <1>1
<1>3. PICK d \in D : \A e \in D : d <= e
  <2> HIDE DEF D
  <2>1. QED
    BY <1>2, LeastNumber
<1>4. PICK m \in K : d = n - m
  BY <1>3
<1>5. \A j \in K : j <= m
  <2>1. ASSUME NEW j \in K PROVE j <= m
    <3>1. n - m <= n - j
      BY <1>3, <1>4
    <3>2. QED
      BY <1>1, <3>1
  <2>2. QED
    BY <2>1
<1>6. m \in i..n /\ B(m) <= B(i) /\ m # n
  <2>1. m \in i..n /\ B(m) <= B(i)
    BY <1>4
  <2>2. m # n
    BY <1>1, <2>1
  <2>3. QED
    BY <2>1, <2>2
<1>7. m \in 0..(Len(f) - 1) /\ m + 1 \in (i + 1)..n
  BY <1>1, <1>6
<1>8. \A j \in (m + 1)..n : B(i) < B(j)
  <2>1. ASSUME NEW j \in (m + 1)..n PROVE B(i) < B(j)
    <3>1. j \in i..n /\ j \notin K /\ j \in Nat
      BY <1>1, <1>5, <1>6
    <3>2. ~ (B(j) <= B(i))
      BY <3>1
    <3> HIDE DEF B
    <3>3. QED
      BY <1>1, <3>1, <3>2
  <2>2. QED
    BY <2>1
<1>9. /\ f[m + 1].addr = a /\ f[m + 1].free # TRUE /\ B(m + 1) = B(m) + 1
  <2>1. B(m + 1) = B(m) + (IF f[m + 1].addr # a THEN 0 ELSE IF f[m + 1].free THEN -1 ELSE 1)
    BY <1>7, BalanceStep
  <2>2. B(i) < B(m + 1)
    BY <1>7, <1>8
  <2>3. PICK b \in Int, c \in Int, e \in Int : b = B(i) /\ c = B(m) /\ e = B(m + 1)
    <3>1. m \in Nat /\ m + 1 \in Nat
      BY <1>1, <1>6
    <3> HIDE DEF B
    <3>2. QED
      BY <1>1, <3>1
  <2>4. f[m + 1].free \in BOOLEAN
    <3>1. m + 1 \in 1..Len(f)
      BY <1>1, <1>7
    <3>2. QED
      BY <3>1, FileIs
  <2> HIDE DEF B
  <2>5. f[m + 1].addr # a => FALSE
    BY <1>6, <2>1, <2>2, <2>3
  <2>6. f[m + 1].addr = a /\ f[m + 1].free => FALSE
    BY <1>6, <2>1, <2>2, <2>3
  <2>7. QED
    BY <2>1, <2>4, <2>5, <2>6
<1>10. \A j \in (m + 1)..n : B(m + 1) <= B(j)
  <2> HIDE DEF B
  <2>1. \A j \in (m + 1)..n : B(j) \in Int
    BY <1>1, <1>6
  <2>2. B(i) \in Int /\ B(m) \in Int
    BY <1>1, <1>6
  <2>3. QED
    BY <1>6, <1>8, <1>9, <2>1, <2>2
<1>11. m + 1 \in Live(f, n)
  <2>1. ~ f[m + 1].free
    BY <1>9
  <2>2. m + 1 \in 1..n
    BY <1>1, <1>7
  <2>3. QED
    BY <1>9, <1>10, <2>1, <2>2 DEF Live, InUseAfter
<1>12. QED
  BY <1>7, <1>9, <1>11

\* Whether a record is live after one record more.
LEMMA LiveStep ==
  ASSUME NEW f \in File, NEW n \in 0..(Len(f) - 1)
  PROVE  /\ \A i \in 1..n : i \in Live(f, n + 1) <=>
              /\ i \in Live(f, n)
              /\ Balance(f, f[i].addr, i) <= Balance(f, f[i].addr, n + 1)
         /\ n + 1 \in Live(f, n + 1) <=> ~ f[n + 1].free
         /\ Live(f, n + 1) \subseteq Live(f, n) \cup {n + 1} /\ Live(f, n) \subseteq 1..n
<1>1. n \in Nat /\ 1..(n + 1) = (1..n) \cup {n + 1}
  BY FileIs
<1>2. \A i \in 1..n : i..(n + 1) = (i..n) \cup {n + 1}
  BY <1>1
<1>3. \A i \in 1..n : i \in Live(f, n + 1) <=>
              /\ i \in Live(f, n)
              /\ Balance(f, f[i].addr, i) <= Balance(f, f[i].addr, n + 1)
  BY <1>1, <1>2 DEF Live, InUseAfter
<1>4. n + 1 \in Live(f, n + 1) <=> ~ f[n + 1].free
  <2>1. (n + 1)..(n + 1) = {n + 1}
    BY <1>1
  <2>2. Balance(f, f[n + 1].addr, n + 1) <= Balance(f, f[n + 1].addr, n + 1)
    <3>1. Balance(f, f[n + 1].addr, n + 1) \in Int
      BY <1>1, BalanceStep
    <3>2. QED
      BY <3>1
  <2>3. QED
    BY <1>1, <2>1, <2>2 DEF Live, InUseAfter
<1>5. QED
  BY <1>1, <1>3, <1>4 DEF Live

\* After an allocation its block is in use too.
LEMMA LiveAllocated ==
  ASSUME NEW f \in File, NEW n \in 0..(Len(f) - 1), ~ f[n + 1].free
  PROVE  Live(f, n + 1) = Live(f, n) \cup {n + 1}
<1>1. ASSUME NEW i \in Live(f, n)
      PROVE  Balance(f, f[i].addr, i) <= Balance(f, f[i].addr, n + 1)
  <2> DEFINE a == f[i].addr
  <2>1. n \in Nat /\ i \in 1..n
    BY FileIs DEF Live
  <2>2. Balance(f, a, i) <= Balance(f, a, n)
    BY <2>1 DEF Live, InUseAfter
  <2>3. PICK b \in Int, c \in Int, d \in Int :
          b = Balance(f, a, i) /\ c = Balance(f, a, n) /\ d = Balance(f, a, n + 1)
    BY <2>1, BalanceStep
  <2>4. Balance(f, a, n + 1) = Balance(f, a, n) + (IF f[n + 1].addr # a THEN 0 ELSE 1)
    BY BalanceStep
  <2>5. QED
    BY <2>2, <2>3, <2>4
<1>2. QED
  BY <1>1, LiveStep

\* After a release the newest block in use at its address is not any more.
LEMMA LiveReleased ==
  ASSUME NEW f \in File, NEW n \in 0..(Len(f) - 1), f[n + 1].free
  PROVE  LET L == {i \in Live(f, n) : f[i].addr = f[n + 1].addr}
         IN /\ L = {} => Live(f, n + 1) = Live(f, n)
            /\ \A m \in L : (\A i \in L : i <= m) => Live(f, n + 1) = Live(f, n) \ {m}
<1> DEFINE a == f[n + 1].addr
           L == {i \in Live(f, n) : f[i].addr = a}
<1>1. n \in Nat /\ n \in 0..Len(f) /\ \A i \in Live(f, n) : i \in 1..n /\ i \in Nat
  BY FileIs DEF Live
<1>2. ASSUME NEW i \in Live(f, n), f[i].addr # a
      PROVE  Balance(f, f[i].addr, i) <= Balance(f, f[i].addr, n + 1)
  <2> DEFINE e == f[i].addr
  <2>1. Balance(f, e, i) <= Balance(f, e, n)
    BY <1>1 DEF Live, InUseAfter
  <2>2. PICK b \in Int, c \in Int : b = Balance(f, e, i) /\ c = Balance(f, e, n)
    BY <1>1, BalanceStep
  <2>3. Balance(f, e, n + 1) = Balance(f, e, n) + 0
    BY <1>2, BalanceStep
  <2>4. QED
    BY <2>1, <2>2, <2>3
<1>3. L = {} => Live(f, n + 1) = Live(f, n)
  <2>1. SUFFICES ASSUME L = {} PROVE Live(f, n + 1) = Live(f, n)
    OBVIOUS
  <2>2. \A i \in Live(f, n) : f[i].addr # a
    BY <2>1
  <2>3. \A i \in Live(f, n) : i \in Live(f, n + 1)
    BY <1>1, <1>2, <2>2, LiveStep
  <2>4. n + 1 \notin Live(f, n + 1) /\ Live(f, n + 1) \subseteq Live(f, n) \cup {n + 1}
    BY LiveStep
  <2>5. QED
    BY <2>3, <2>4
<1>4. ASSUME NEW m \in L, \A i \in L : i <= m PROVE Live(f, n + 1) = Live(f, n) \ {m}
  <2>1. m \in Live(f, n) /\ m \in 1..n /\ m \in Nat /\ f[m].addr = a /\ ~ f[m].free
    BY <1>1 DEF Live, InUseAfter
  <2>2. PICK b \in Int, c \in Int, d \in Int, p \in Int :
          /\ b = Balance(f, a, m) /\ c = Balance(f, a, n) /\ d = Balance(f, a, n + 1)
          /\ p = Balance(f, a, m - 1)
    BY <1>1, <2>1, BalanceStep
  <2>3. b <= c
    BY <1>1, <2>1, <2>2 DEF Live, InUseAfter
  <2>4. ~ (b < c)
    <3>1. SUFFICES ASSUME b < c PROVE FALSE
      OBVIOUS
    <3>2. PICK k \in (m + 1)..n : k \in Live(f, n) /\ f[k].addr = a
      BY <1>1, <2>1, <2>2, <3>1, LaterLive
    <3>3. k \in L /\ k \in Nat /\ m < k
      BY <1>1, <2>1, <3>2
    <3>4. QED
      BY <1>4, <2>1, <3>3
  <2>5. d = c - 1
    <3>1. d = c + (-1)
      BY <2>2, BalanceStep
    <3>2. QED
      BY <3>1
  <2>6. b = p + 1
    <3>1. PICK k \in 0..(Len(f) - 1) : k = m - 1 /\ k + 1 = m
      <4>1. Len(f) \in Nat
        BY FileIs
      <4>2. QED
        BY <1>1, <2>1, <4>1
    <3>2. Balance(f, a, k + 1) = Balance(f, a, k) + (IF f[k + 1].addr # a THEN 0
                                                     ELSE IF f[k + 1].free THEN -1 ELSE 1)
      BY BalanceStep
    <3>3. f[k + 1].addr = a /\ ~ f[k + 1].free
      BY <2>1, <3>1
    <3>4. QED
      BY <2>2, <3>1, <3>2, <3>3
  <2>7. m \notin Live(f, n + 1)
    BY <2>1, <2>2, <2>3, <2>4, <2>5, LiveStep
  <2>8. ASSUME NEW i \in L, i # m PROVE Balance(f, a, i) <= Balance(f, a, n + 1)
    <3>1. i \in Live(f, n) /\ i \in 1..n /\ f[i].addr = a /\ i <= m
      <4>1. i \in Live(f, n) /\ f[i].addr = a
        BY <2>8
      <4>2. i <= m
        BY <1>4, <2>8
      <4>3. QED
        BY <1>1, <4>1, <4>2
    <3>2. m - 1 \in i..n
      BY <1>1, <2>1, <2>8, <3>1
    <3>3. Balance(f, a, i) <= p
      BY <2>2, <3>1, <3>2 DEF Live, InUseAfter
    <3>4. PICK e \in Int : e = Balance(f, a, i)
      <4>1. i \in Nat
        BY <1>1, <3>1
      <4>2. QED
        BY <4>1, BalanceStep
    <3>5. p = d
      BY <2>2, <2>3, <2>4, <2>5, <2>6
    <3>6. QED
      BY <2>2, <3>3, <3>4, <3>5
  <2>9. \A i \in Live(f, n) \ {m} : Balance(f, f[i].addr, i) <= Balance(f, f[i].addr, n + 1)
    BY <1>2, <2>8
  <2>10. n + 1 \notin Live(f, n + 1)
    BY LiveStep
  <2>11. QED
    BY <2>7, <2>9, <2>10, LiveStep
<1>5. QED
  BY <1>3, <1>4

\* How many allocations came up to a record.
LEMMA AllocationsStep ==
  ASSUME NEW f \in File
  PROVE  /\ \A n \in Nat : Allocations(f, n) \in Nat
         /\ \A n \in 0..(Len(f) - 1) :
              Allocations(f, n + 1) = Allocations(f, n) + (IF f[n + 1].free THEN 0 ELSE 1)
         /\ \A i, j \in 1..Len(f) : i < j /\ ~ f[j].free => Allocations(f, i) < Allocations(f, j)
<1> DEFINE A(n) == {k \in 1..n : ~ f[k].free}
<1>1. \A n \in Nat : IsFiniteSet(A(n)) /\ Cardinality(A(n)) \in Nat
  <2>1. ASSUME NEW n \in Nat PROVE IsFiniteSet(A(n)) /\ Cardinality(A(n)) \in Nat
    <3>1. IsFiniteSet(1..n) /\ A(n) \in SUBSET (1..n)
      BY FS_Interval
    <3> HIDE DEF A
    <3>2. QED
      BY <3>1, FS_Subset, FS_CardinalityType
  <2>2. QED
    BY <2>1
<1>2. \A n : Allocations(f, n) = Cardinality(A(n))
  BY DEF Allocations
<1>3. ASSUME NEW n \in 0..(Len(f) - 1)
      PROVE  Allocations(f, n + 1) = Allocations(f, n) + (IF f[n + 1].free THEN 0 ELSE 1)
  <2>1. n \in Nat
    BY FileIs
  <2>2. 1..(n + 1) = (1..n) \cup {n + 1} /\ n + 1 \notin 1..n
    BY <2>1
  <2>3. n + 1 \notin A(n) /\ A(n + 1) = IF f[n + 1].free THEN A(n) ELSE A(n) \cup {n + 1}
    BY <2>2
  <2>4. Cardinality(A(n) \cup {n + 1}) = Cardinality(A(n)) + 1
    <3> HIDE DEF A
    <3>1. QED
      BY <1>1, <2>1, <2>3, FS_AddElement
  <2>5. Cardinality(A(n)) \in Nat
    BY <1>1, <2>1
  <2> HIDE DEF A
  <2>6. QED
    BY <1>2, <2>3, <2>4, <2>5
<1>4. ASSUME NEW i \in 1..Len(f), NEW j \in 1..Len(f), i < j, ~ f[j].free
      PROVE  Allocations(f, i) < Allocations(f, j)
  <2>1. i \in Nat /\ j \in Nat
    BY FileIs
  <2>2. A(i) \in SUBSET A(j) /\ j \in A(j) /\ j \notin A(i)
    BY <1>4, <2>1
  <2> HIDE DEF A
  <2>3. IsFiniteSet(A(j)) /\ Cardinality(A(i)) \in Nat /\ Cardinality(A(j)) \in Nat /\ A(i) # A(j)
    BY <1>1, <2>1, <2>2
  <2>4. Cardinality(A(i)) <= Cardinality(A(j)) /\ Cardinality(A(i)) # Cardinality(A(j))
    BY <2>2, <2>3, FS_Subset
  <2>5. QED
    BY <1>2, <2>3, <2>4
<1>5. QED
  BY <1>1, <1>2, <1>3, <1>4

\* What the cache has of a record, and of some.
Entry(f, i) ==
  [addr |-> f[i].addr, size |-> f[i].size, stack |-> f[i].stack, nr |-> Allocations(f, i)]
Entries(f, I) == {Entry(f, i) : i \in I}

\* Records have entries of their own.
LEMMA EntryOnce ==
  ASSUME NEW f \in File, NEW I \in SUBSET (1..Len(f)), \A i \in I : ~ f[i].free
  PROVE  /\ \A i, j \in I : /\ Allocations(f, i) <= Allocations(f, j) => i <= j
                            /\ Entry(f, i) = Entry(f, j) => i = j
         /\ IsFiniteSet(I)
         /\ IsFiniteSet(Entries(f, I)) /\ Cardinality(Entries(f, I)) = Cardinality(I)
<1>1. ASSUME NEW i \in I, NEW j \in I, Allocations(f, i) <= Allocations(f, j) PROVE i <= j
  <2>1. i \in Nat /\ j \in Nat /\ i \in 1..Len(f) /\ j \in 1..Len(f) /\ ~ f[i].free
    BY FileIs
  <2>2. SUFFICES ASSUME j < i PROVE FALSE
    BY <2>1
  <2>3. Allocations(f, j) < Allocations(f, i)
    BY <2>1, <2>2, AllocationsStep
  <2>4. Allocations(f, j) \in Nat /\ Allocations(f, i) \in Nat
    BY <2>1, AllocationsStep
  <2>5. QED
    BY <1>1, <2>3, <2>4
<1>2. ASSUME NEW i \in I, NEW j \in I, Entry(f, i) = Entry(f, j) PROVE i = j
  <2>1. Entry(f, i).nr = Entry(f, j).nr
    BY <1>2
  <2>2. Allocations(f, i) = Allocations(f, j)
    BY <2>1 DEF Entry
  <2>3. i \in Nat /\ j \in Nat
    BY FileIs
  <2>4. Allocations(f, i) \in Nat
    BY <2>3, AllocationsStep
  <2>5. i <= j /\ j <= i
    BY <1>1, <2>2, <2>4
  <2>6. QED
    BY <2>3, <2>5
<1>3. IsFiniteSet(I)
  <2>1. Len(f) \in Nat
    BY FileIs
  <2>2. IsFiniteSet(1..Len(f))
    BY <2>1, FS_Interval
  <2>3. QED
    BY <2>2, FS_Subset
<1>4. ExistsBijection(I, Entries(f, I))
  <2> DEFINE h == [i \in I |-> Entry(f, i)]
  <2>1. h \in [I -> Entries(f, I)]
    BY DEF Entries
  <2>2. \A i, j \in I : h[i] = h[j] => i = j
    BY <1>2
  <2>3. \A e \in Entries(f, I) : \E i \in I : h[i] = e
    BY DEF Entries
  <2> HIDE DEF h
  <2>4. QED
    BY <2>1, <2>2, <2>3 DEF ExistsBijection, Bijection, Injection, Surjection, IsInjective
<1>5. IsFiniteSet(Entries(f, I)) /\ Cardinality(Entries(f, I)) = Cardinality(I)
  BY <1>3, <1>4, FS_Bijection
<1>6. QED
  BY <1>1, <1>2, <1>3, <1>5

\* Sums of sizes, one record more.
LEMMA TotalMore ==
  ASSUME NEW f \in File, NEW S \in SUBSET (1..Len(f)), NEW k \in S
  PROVE  /\ TotalSize(f, S) = TotalSize(f, S \ {k}) + MemBlockSize(f[k])
         /\ TotalSize(f, S) \in Int /\ TotalSize(f, S \ {k}) \in Int
<1> DEFINE g == [i \in DOMAIN f |-> MemBlockSize(f[i])]
<1>1. DOMAIN f = 1..Len(f) /\ \A i \in 1..Len(f) : MemBlockSize(f[i]) \in Int
  BY FileIs
<1>2. \A i \in 1..Len(f) : g[i] = MemBlockSize(f[i]) /\ g[i] \in Int
  BY <1>1
<1>3. \A T : TotalSize(f, T) = SumFunctionOnSet(g, T)
  BY DEF TotalSize
<1> HIDE DEF g
<1>4. IsFiniteSet(S) /\ IsFiniteSet(S \ {k})
  <2>1. Len(f) \in Nat
    BY FileIs
  <2>2. IsFiniteSet(1..Len(f))
    BY <2>1, FS_Interval
  <2>3. IsFiniteSet(S)
    BY <2>2, FS_Subset
  <2>4. QED
    BY <2>3, FS_RemoveElement
<1>5. /\ SumFunctionOnSet(g, S) = g[k] + SumFunctionOnSet(g, S \ {k})
      /\ SumFunctionOnSet(g, S) \in Int
  BY <1>2, <1>4, SumRemove
<1>6. SumFunctionOnSet(g, S \ {k}) \in Int
  BY <1>2, <1>4, SumInt
<1>7. QED
  BY <1>2, <1>3, <1>5, <1>6

\* Sums are numbers.
LEMMA TotalInt ==
  ASSUME NEW f \in File, NEW S \in SUBSET (1..Len(f))
  PROVE  TotalSize(f, S) \in Int /\ TotalSize(f, {}) = 0
<1>1. TotalSize(f, {}) = 0
  BY SumEmpty DEF TotalSize
<1>2. ASSUME NEW k \in S PROVE TotalSize(f, S) \in Int
  BY TotalMore
<1>3. CASE S = {}
  <2>1. TotalSize(f, S) = 0
    BY <1>1, <1>3
  <2>2. QED
    BY <1>1, <2>1
<1>4. QED
  BY <1>1, <1>2, <1>3

-----------------------------------------------------------------------------
(* A statistician and the file it has read a part of. *)

\* Pages are released as pages and recorded in 32-bit records, and a page has
\* the size of the subtraction's.
Matched ==
  /\ PageSize = Page
  /\ \A r \in Record : r.page /\ ~ r.free => r.stack \notin Wide
  /\ \A r, q \in Record : r.addr = q.addr => r.page = q.page

\* After the first n records of f.
Holds(st, f, n) ==
  /\ Sound(st)
  /\ st.allocs = Allocations(f, n)
  /\ st.cache = Entries(f, Live(f, n))
  /\ \A s \in Stack : st.elmt[s].inUse = Wrapped(SizeInUse(f, n, s))
  /\ st.inUse = Wrapped(InUse(f, n))

\* The blocks in use are allocations of the file.
LEMMA LiveIs ==
  ASSUME NEW f \in File, NEW n \in 0..Len(f)
  PROVE  /\ Live(f, n) \in SUBSET (1..Len(f)) /\ Live(f, n) \in SUBSET (1..n)
         /\ \A i \in Live(f, n) : ~ f[i].free
         /\ \A s : LiveOf(f, n, s) \in SUBSET (1..Len(f)) /\ LiveOf(f, n, s) \in SUBSET Live(f, n)
         /\ InUse(f, n) \in Int /\ \A s : SizeInUse(f, n, s) \in Int
<1>1. n \in Nat /\ Len(f) \in Nat /\ n <= Len(f)
  BY FileIs
<1>2. Live(f, n) \in SUBSET (1..n) /\ \A i \in Live(f, n) : ~ f[i].free
  BY DEF Live, InUseAfter
<1>3. Live(f, n) \in SUBSET (1..Len(f))
  BY <1>1, <1>2
<1>4. \A s : LiveOf(f, n, s) \in SUBSET (1..Len(f)) /\ LiveOf(f, n, s) \in SUBSET Live(f, n)
  BY <1>3 DEF LiveOf
<1>5. InUse(f, n) \in Int /\ \A s : SizeInUse(f, n, s) \in Int
  <2>1. TotalSize(f, Live(f, n)) \in Int
    BY <1>3, TotalInt
  <2>2. \A s : TotalSize(f, LiveOf(f, n, s)) \in Int
    BY <1>4, TotalInt
  <2>3. QED
    BY <2>1, <2>2 DEF InUse, SizeInUse
<1>6. QED
  BY <1>2, <1>3, <1>4, <1>5

\* Then its profile is that of the blocks in use.
LEMMA HoldsIsProfile ==
  ASSUME NEW f \in File, NEW n \in 0..Len(f), NEW st, Holds(st, f, n)
  PROVE  IsProfile(st, f, n)
<1>1. \A s \in Stack : CachedOf(st, s) = Entries(f, LiveOf(f, n, s))
  <2>1. \A i : Entry(f, i).stack = f[i].stack
    BY DEF Entry
  <2>2. QED
    BY <2>1 DEF Holds, CachedOf, LiveOf, Entries
<1>2. \A s \in Stack : Cardinality(Entries(f, LiveOf(f, n, s))) = Cardinality(LiveOf(f, n, s))
  <2>1. \A s \in Stack : /\ LiveOf(f, n, s) \in SUBSET (1..Len(f))
                         /\ \A i \in LiveOf(f, n, s) : ~ f[i].free
    BY LiveIs
  <2>2. QED
    BY <2>1, EntryOnce
<1>3. Cardinality(Entries(f, Live(f, n))) = Cardinality(Live(f, n))
  BY LiveIs, EntryOnce
<1>4. \A s \in Stack : st.elmt[s].allocs - st.elmt[s].frees = Cardinality(LiveOf(f, n, s))
  <2>1. \A s \in Stack : Open(st)[s] = Cardinality(CachedOf(st, s))
    BY DEF Holds, Sound
  <2>2. QED
    BY <1>1, <1>2, <2>1 DEF Open
<1>5. st.count = Cardinality(Live(f, n)) /\ Cardinality(st.cache) = st.count
  BY <1>3 DEF Holds, Sound
<1>6. QED
  BY <1>4, <1>5 DEF Holds, IsProfile

\* An allocation.
LEMMA HoldsAllocated ==
  ASSUME NEW f \in File, NEW n \in 0..(Len(f) - 1), NEW st, Holds(st, f, n), ~ f[n + 1].free
  PROVE  Holds(Allocated(st, f[n + 1]), f, n + 1)
<1> DEFINE k == n + 1
           r == f[k]
           x == r.stack
           b == MemBlockSize(r)
           u == Allocated(st, r)
<1>1. /\ n \in Nat /\ k \in Nat /\ k \in 1..Len(f) /\ n \in 0..Len(f) /\ k \in 0..Len(f)
      /\ r \in Op /\ x \in Stack /\ b \in Int
  <2>1. Len(f) \in Nat
    BY FileIs
  <2>2. n \in Nat /\ k \in Nat /\ k \in 1..Len(f) /\ n \in 0..Len(f) /\ k \in 0..Len(f)
    BY <2>1
  <2>3. QED
    BY <2>2, FileIs
<1>2. Sound(st) /\ st \in Statistician
  BY DEF Holds, Sound
<1>3. Sound(u)
  BY <1>1, <1>2, SoundAllocated
<1>4. /\ u.elmt[x].inUse = Wrapped(st.elmt[x].inUse + b)
      /\ \A s \in Stack \ {x} : u.elmt[s] = st.elmt[s]
      /\ u.cache = st.cache \cup {[addr |-> r.addr, size |-> r.size, stack |-> r.stack,
                                   nr |-> st.allocs + 1]}
      /\ u.allocs = st.allocs + 1
      /\ u.inUse = Wrapped(st.inUse + b)
  BY <1>1, <1>2, AllocatedIs
<1>5. Live(f, k) = Live(f, n) \cup {k} /\ k \notin Live(f, n)
  BY <1>1, LiveAllocated, LiveIs
<1>6. Allocations(f, k) = Allocations(f, n) + 1
  BY AllocationsStep
<1> HIDE DEF u
<1>7. u.allocs = Allocations(f, k)
  BY <1>4, <1>6 DEF Holds
<1>8. u.cache = Entries(f, Live(f, k))
  <2>1. Entries(f, Live(f, k)) = Entries(f, Live(f, n)) \cup {Entry(f, k)}
    BY <1>5 DEF Entries
  <2>2. Entry(f, k) = [addr |-> r.addr, size |-> r.size, stack |-> r.stack, nr |-> st.allocs + 1]
    BY <1>6 DEF Entry, Holds
  <2>3. QED
    BY <1>4, <2>1, <2>2 DEF Holds
<1>9. /\ InUse(f, k) = InUse(f, n) + b
      /\ SizeInUse(f, k, x) = SizeInUse(f, n, x) + b
      /\ \A s \in Stack \ {x} : SizeInUse(f, k, s) = SizeInUse(f, n, s)
  <2>1. Live(f, k) \in SUBSET (1..Len(f)) /\ k \in Live(f, k) /\ Live(f, k) \ {k} = Live(f, n)
    BY <1>1, <1>5, LiveIs
  <2>2. /\ LiveOf(f, k, x) \in SUBSET (1..Len(f)) /\ k \in LiveOf(f, k, x)
        /\ LiveOf(f, k, x) \ {k} = LiveOf(f, n, x)
    BY <1>5, <2>1 DEF LiveOf
  <2>3. \A s \in Stack \ {x} : LiveOf(f, k, s) = LiveOf(f, n, s)
    BY <1>5 DEF LiveOf
  <2> HIDE DEF k
  <2>4. TotalSize(f, Live(f, k)) = TotalSize(f, Live(f, n)) + b
    BY <2>1, TotalMore
  <2>5. TotalSize(f, LiveOf(f, k, x)) = TotalSize(f, LiveOf(f, n, x)) + b
    BY <2>2, TotalMore
  <2>6. QED
    BY <2>3, <2>4, <2>5 DEF InUse, SizeInUse
<1>10. u.inUse = Wrapped(InUse(f, k))
  <2>1. PICK i \in Int : i = InUse(f, n)
    BY <1>1, LiveIs
  <2>2. Wrapped(Wrapped(i) + b) = Wrapped(i + b)
    BY <1>1, WrapFirst
  <2>3. QED
    BY <1>4, <1>9, <2>1, <2>2 DEF Holds
<1>11. ASSUME NEW s \in Stack PROVE u.elmt[s].inUse = Wrapped(SizeInUse(f, k, s))
  <2>1. CASE s = x
    <3>1. PICK i \in Int : i = SizeInUse(f, n, x)
      BY <1>1, LiveIs
    <3>2. Wrapped(Wrapped(i) + b) = Wrapped(i + b)
      BY <1>1, WrapFirst
    <3>3. st.elmt[x].inUse = Wrapped(i)
      BY <1>1, <3>1 DEF Holds
    <3>4. QED
      BY <1>4, <1>9, <2>1, <3>1, <3>2, <3>3
  <2>2. CASE s # x
    BY <1>4, <1>9, <2>2 DEF Holds
  <2>3. QED
    BY <2>1, <2>2
<1>12. Holds(u, f, k)
  BY <1>3, <1>7, <1>8, <1>10, <1>11 DEF Holds
<1>13. QED
  BY <1>12 DEF u

\* What the release of a block takes back is what its allocation added.
LEMMA FreedIsAdded ==
  ASSUME Matched, NEW f \in File, NEW k \in 1..Len(f), NEW m \in 1..Len(f),
         ~ f[m].free, f[m].addr = f[k].addr
  PROVE  FreedSize(f[k], Entry(f, m)) = MemBlockSize(f[m])
<1>1. f[m] \in Record /\ f[k] \in Record
  BY FileIs
<1>2. f[k].page = f[m].page
  BY <1>1 DEF Matched
<1>3. f[m].page => f[m].stack \notin Wide
  BY <1>1 DEF Matched
<1>4. Entry(f, m).size = f[m].size
  BY DEF Entry
<1>5. PageSize = Page
  BY DEF Matched
<1>6. QED
  BY <1>2, <1>3, <1>4, <1>5 DEF FreedSize, MemBlockSize

\* A release.
LEMMA HoldsReleased ==
  ASSUME Matched, NEW f \in File, NEW n \in 0..(Len(f) - 1), NEW st, Holds(st, f, n), f[n + 1].free
  PROVE  Holds(Released(st, f[n + 1]), f, n + 1)
<1> DEFINE k == n + 1
           r == f[k]
           C == Cached(st, r.addr)
           L == {i \in Live(f, n) : f[i].addr = r.addr}
           u == Released(st, r)
<1>1. n \in Nat /\ k \in Nat /\ k \in 1..Len(f) /\ n \in 0..Len(f) /\ k \in 0..Len(f)
  <2>1. Len(f) \in Nat
    BY FileIs
  <2>2. QED
    BY <2>1
<1>2. Sound(st)
  BY DEF Holds
<1>3. C = Entries(f, L)
  <2>1. \A i : Entry(f, i).addr = f[i].addr
    BY DEF Entry
  <2>2. QED
    BY <2>1 DEF Holds, Cached, Entries
<1>4. Allocations(f, k) = Allocations(f, n)
  <2>1. Allocations(f, k) = Allocations(f, n) + 0
    BY AllocationsStep
  <2>2. Allocations(f, n) \in Nat
    BY <1>1, AllocationsStep
  <2>3. QED
    BY <2>1, <2>2
<1>5. /\ L = {} => Live(f, k) = Live(f, n)
      /\ \A m \in L : (\A i \in L : i <= m) => Live(f, k) = Live(f, n) \ {m}
  BY LiveReleased
<1>6. CASE C = {}
  <2>1. u = [st EXCEPT !.missed = @ + 1]
    BY <1>6 DEF Released
  <2> HIDE DEF u
  <2>2. L = {}
    BY <1>3, <1>6 DEF Entries
  <2>3. Live(f, k) = Live(f, n) /\ \A s : LiveOf(f, k, s) = LiveOf(f, n, s)
    BY <1>5, <2>2 DEF LiveOf
  <2>4. Sound(u) /\ u.elmt = st.elmt /\ u.cache = st.cache /\ u.allocs = st.allocs /\ u.inUse = st.inUse
    BY <1>2, <2>1, SoundMissed
  <2>5. Holds(u, f, k)
    BY <1>4, <2>3, <2>4 DEF Holds, InUse, SizeInUse
  <2>6. QED
    BY <2>5 DEF u
<1>7. CASE C # {}
  <2> DEFINE c == Newest(C)
             b == FreedSize(r, c)
  <2>1. u = Uncached(st, c, b)
    BY <1>7 DEF Released
  <2> HIDE DEF u
  <2>2. \A d \in C : d.nr \in Nat /\ d.nr <= st.allocs
    <3>1. st.cache \in SUBSET Block
      BY <1>2 DEF Sound, Statistician
    <3>2. QED
      BY <1>2, <3>1 DEF Sound, Cached, Block
  <2>3. c \in C /\ \A d \in C : d.nr <= c.nr
    <3>1. st.allocs \in Nat
      BY <1>2 DEF Sound, Statistician
    <3> HIDE DEF C
    <3>2. QED
      BY <1>7, <2>2, <3>1, NewestIs
  <2>4. PICK m \in L : c = Entry(f, m)
    BY <1>3, <2>3 DEF Entries
  <2>5. /\ Live(f, n) \in SUBSET (1..Len(f)) /\ Live(f, n) \in SUBSET (1..n)
        /\ \A i \in Live(f, n) : ~ f[i].free
    BY <1>1, LiveIs
  <2>6. m \in Live(f, n) /\ m \in 1..Len(f) /\ ~ f[m].free /\ f[m].addr = r.addr
    BY <2>5
  <2>7. \A i \in L : i <= m
    <3>1. ASSUME NEW i \in L PROVE i <= m
      <4>1. Entry(f, i) \in C
        BY <1>3 DEF Entries
      <4>2. Entry(f, i).nr <= Entry(f, m).nr
        BY <2>3, <2>4, <4>1
      <4>3. Allocations(f, i) <= Allocations(f, m)
        BY <4>2 DEF Entry
      <4>4. QED
        BY <2>5, <4>3, EntryOnce
    <3>2. QED
      BY <3>1
  <2>8. Live(f, k) = Live(f, n) \ {m}
    BY <1>5, <2>7
  <2>9. b = MemBlockSize(f[m])
    BY <1>1, <2>4, <2>6, FreedIsAdded
  <2>10. b \in Int
    BY <2>6, <2>9, FileIs
  <2>11. c \in st.cache /\ c.stack = f[m].stack
    <3>1. c \in st.cache
      BY <2>3 DEF Cached
    <3>2. QED
      BY <2>4, <3>1 DEF Entry
  <2> DEFINE x == f[m].stack
  <2> HIDE DEF b, c, C
  <2>12. Sound(u)
    BY <1>2, <2>1, <2>10, <2>11, SoundUncached
  <2>13. /\ x \in Stack
         /\ u.elmt[x].inUse = Wrapped(st.elmt[x].inUse - b)
         /\ \A s \in Stack \ {x} : u.elmt[s] = st.elmt[s]
         /\ u.cache = st.cache \ {c} /\ u.allocs = st.allocs
         /\ u.inUse = Wrapped(st.inUse - b)
    <3>1. c.stack = x
      BY <2>11
    <3> HIDE DEF x
    <3>2. QED
      BY <1>2, <2>1, <2>10, <2>11, <3>1, UncachedIs
  <2>14. u.cache = Entries(f, Live(f, k))
    <3>1. \A i \in Live(f, n) : Entry(f, i) = Entry(f, m) => i = m
      BY <2>5, <2>6, EntryOnce
    <3>2. Entries(f, Live(f, n)) \ {Entry(f, m)} = Entries(f, Live(f, n) \ {m})
      BY <3>1 DEF Entries
    <3>3. QED
      BY <2>4, <2>8, <2>13, <3>2 DEF Holds
  <2>15. /\ InUse(f, n) = InUse(f, k) + b
         /\ SizeInUse(f, n, x) = SizeInUse(f, k, x) + b
         /\ \A s \in Stack \ {x} : SizeInUse(f, k, s) = SizeInUse(f, n, s)
    <3>1. /\ LiveOf(f, n, x) \in SUBSET (1..Len(f)) /\ m \in LiveOf(f, n, x)
          /\ LiveOf(f, n, x) \ {m} = LiveOf(f, k, x)
      BY <2>5, <2>6, <2>8 DEF LiveOf
    <3>2. \A s \in Stack \ {x} : LiveOf(f, k, s) = LiveOf(f, n, s)
      BY <2>8 DEF LiveOf
    <3>3. TotalSize(f, Live(f, n)) = TotalSize(f, Live(f, k)) + b
      BY <2>5, <2>6, <2>8, <2>9, TotalMore
    <3>4. TotalSize(f, LiveOf(f, n, x)) = TotalSize(f, LiveOf(f, k, x)) + b
      <4> HIDE DEF x
      <4>1. QED
        BY <2>9, <3>1, TotalMore
    <3>5. QED
      BY <3>2, <3>3, <3>4 DEF InUse, SizeInUse
  <2> HIDE DEF x
  <2>16. \A i, j \in Int : Wrapped(Wrapped(i) - j) = Wrapped(i - j)
    <3>1. ASSUME NEW i \in Int, NEW j \in Int PROVE Wrapped(Wrapped(i) - j) = Wrapped(i - j)
      <4>1. PICK d \in Int, w \in Int : d = -j /\ w = Wrapped(i)
        BY WrappedIs
      <4>2. w - j = w + d /\ i - j = i + d
        BY <4>1
      <4>3. Wrapped(w + d) = Wrapped(i + d)
        BY <4>1, WrapFirst
      <4>4. QED
        BY <4>1, <4>2, <4>3
    <3>2. QED
      BY <3>1
  <2>17. u.inUse = Wrapped(InUse(f, k))
    <3>1. PICK i \in Int, j \in Int : i = InUse(f, n) /\ j = InUse(f, k)
      BY <1>1, LiveIs
    <3>2. i - b = j
      BY <2>10, <2>15, <3>1
    <3>3. Wrapped(Wrapped(i) - b) = Wrapped(i - b)
      BY <2>10, <2>16
    <3>4. QED
      BY <2>13, <3>1, <3>2, <3>3 DEF Holds
  <2>18. ASSUME NEW s \in Stack PROVE u.elmt[s].inUse = Wrapped(SizeInUse(f, k, s))
    <3>1. CASE s = x
      <4>1. PICK i \in Int, j \in Int : i = SizeInUse(f, n, x) /\ j = SizeInUse(f, k, x)
        BY <1>1, LiveIs
      <4>2. i - b = j
        BY <2>10, <2>15, <4>1
      <4>3. Wrapped(Wrapped(i) - b) = Wrapped(i - b)
        BY <2>10, <2>16
      <4>4. st.elmt[x].inUse = Wrapped(i)
        BY <2>13, <4>1 DEF Holds
      <4>5. QED
        BY <2>13, <3>1, <4>1, <4>2, <4>3, <4>4
    <3>2. CASE s # x
      BY <2>13, <2>15, <3>2 DEF Holds
    <3>3. QED
      BY <3>1, <3>2
  <2>19. u.allocs = Allocations(f, k)
    BY <1>4, <2>13 DEF Holds
  <2>20. Holds(u, f, k)
    BY <2>12, <2>14, <2>17, <2>18, <2>19 DEF Holds
  <2>21. QED
    BY <2>20 DEF u
<1>8. QED
  BY <1>6, <1>7

\* Any record.
LEMMA HoldsUpdated ==
  ASSUME Matched, NEW f \in File, NEW n \in 0..(Len(f) - 1), NEW st, Holds(st, f, n)
  PROVE  Holds(Updated(st, f[n + 1]), f, n + 1)
BY HoldsAllocated, HoldsReleased DEF Updated

-----------------------------------------------------------------------------
(* The books are kept in every state. *)

\* Whatever a record does to a statistician.
LEMMA SoundUpdated ==
  ASSUME NEW st, Sound(st), NEW r \in Op
  PROVE  LET u == Updated(st, r)
         IN /\ Sound(u)
            /\ u.count \in Nat /\ st.count \in Nat /\ u.count - st.count \in {-1, 0, 1}
            /\ u.allocs = st.allocs + (IF r.free THEN 0 ELSE 1)
<1>1. st \in Statistician /\ st.count \in Nat /\ st.allocs \in Nat /\ r.free \in BOOLEAN
  BY DEF Sound, Statistician, Op
<1>2. CASE ~ r.free
  <2> DEFINE u == Allocated(st, r)
  <2>1. Sound(u)
    BY SoundAllocated
  <2>2. u.count = st.count + 1 /\ u.allocs = st.allocs + 1
    BY <1>1, AllocatedIs
  <2>3. Updated(st, r) = u
    BY <1>2 DEF Updated
  <2> HIDE DEF u
  <2>4. QED
    BY <1>1, <1>2, <2>1, <2>2, <2>3
<1>3. CASE r.free
  <2> DEFINE C == Cached(st, r.addr)
             c == Newest(C)
             b == FreedSize(r, c)
  <2>1. CASE C = {}
    <3> DEFINE u == [st EXCEPT !.missed = @ + 1]
    <3>1. Updated(st, r) = u
      BY <1>3, <2>1 DEF Updated, Released
    <3>2. Sound(u) /\ u.count = st.count /\ u.allocs = st.allocs
      BY SoundMissed
    <3> HIDE DEF u
    <3>3. QED
      BY <1>1, <1>3, <3>1, <3>2
  <2>2. CASE C # {}
    <3> DEFINE u == Uncached(st, c, b)
    <3>1. Updated(st, r) = u
      BY <1>3, <2>2 DEF Updated, Released
    <3>2. st.cache \in SUBSET Block
      BY <1>1 DEF Statistician
    <3>3. \A d \in C : d.nr \in Nat /\ d.nr <= st.allocs
      BY <3>2 DEF Sound, Cached, Block
    <3>4. c \in C
      <4> HIDE DEF C
      <4>1. QED
        BY <1>1, <2>2, <3>3, NewestIs
    <3>5. c \in st.cache /\ c \in Block
      BY <3>2, <3>4 DEF Cached
    <3>6. b \in Int
      BY <3>5, SizeInt
    <3> HIDE DEF b, c, C
    <3>7. Sound(u) /\ u.count = st.count - 1 /\ u.allocs = st.allocs
      BY <3>5, <3>6, SoundUncached, UncachedIs
    <3>8. u.count \in Nat
      BY <3>7 DEF Sound, Statistician
    <3> HIDE DEF u
    <3>9. QED
      BY <1>1, <1>3, <3>1, <3>7, <3>8
  <2>3. QED
    BY <2>1, <2>2
<1>4. QED
  BY <1>1, <1>2, <1>3

\* Also in the peak mode.
LEMMA SoundIntoStator ==
  ASSUME NEW st, Sound(st), NEW r \in Op
  PROVE  LET u == IntoStator(st, r)
         IN /\ Sound(u)
            /\ u.count \in Nat /\ st.count \in Nat /\ u.count - st.count \in {-1, 0, 1}
<1>1. st.count \in Nat
  BY DEF Sound, Statistician
<1>2. CASE IntoStator(st, r) = st
  BY <1>1, <1>2
<1>3. CASE IntoStator(st, r) = Updated(st, r)
  BY <1>3, SoundUpdated
<1>4. QED
  BY <1>2, <1>3 DEF IntoStator

\* An empty one, and one that is told the peak.
LEMMA SoundNoBlocks ==
  Sound(NoBlocks)
<1> DEFINE st == NoBlocks
<1>1. 0 \in 0..(Word - 1) /\ Wrapped(0) = 0
  <2>1. 0 \in 0..(Word - 1)
    BY StatorAssumption
  <2>2. QED
    BY <2>1, WrappedIs
<1>2. st \in Statistician
  BY <1>1 DEF NoBlocks, Statistician, Element
<1>3. /\ st.cache = {} /\ st.count = 0 /\ st.inUse = 0
      /\ \A s \in Stack : Open(st)[s] = 0 /\ Sizes(st)[s] = 0 /\ st.elmt[s].inUse = 0
  BY DEF NoBlocks, Open, Sizes
<1> HIDE DEF st
<1>4. IsFiniteSet({}) /\ Cardinality({}) = 0
  BY FS_EmptySet
<1>5. \A s : CachedOf(st, s) = {}
  BY <1>3 DEF CachedOf
<1>6. \A g : (\A s \in Stack : g[s] = 0) => SumFunctionOnSet(g, Stack) = 0
  <2>1. ASSUME NEW g, \A s \in Stack : g[s] = 0 PROVE SumFunctionOnSet(g, Stack) = 0
    <3>1. \A s \in Stack : g[s] \in Int
      BY <2>1
    <3>2. SumFunctionOnSet(g, Stack) = SumFunctionOnSet(g, {})
      BY <2>1, <3>1, SumNonZero, StatorAssumption
    <3>3. QED
      BY <3>2, SumEmpty
  <2>2. QED
    BY <2>1
<1>7. SumFunctionOnSet(Open(st), Stack) = 0 /\ SumFunctionOnSet(Sizes(st), Stack) = 0
  BY <1>3, <1>6
<1>8. Sound(st)
  BY <1>1, <1>2, <1>3, <1>4, <1>5, <1>7 DEF Sound
<1>9. QED
  BY <1>8 DEF st

LEMMA SoundPeak ==
  ASSUME NEW st, Sound(st), NEW p \in 0..(Word - 1)
  PROVE  LET u == [st EXCEPT !.peak = p]
         IN /\ Sound(u) /\ u.elmt = st.elmt /\ u.cache = st.cache /\ u.allocs = st.allocs
            /\ u.count = st.count /\ u.inUse = st.inUse /\ u.peak = p
<1> DEFINE u == [st EXCEPT !.peak = p]
<1>1. /\ st.elmt \in [Stack -> Element] /\ st.cache \in SUBSET Block
      /\ st.allocs \in Nat /\ st.count \in Nat /\ st.missed \in Nat
      /\ st.inUse \in 0..(Word - 1)
  BY DEF Statistician, Sound
<1>2. u = [elmt |-> st.elmt, cache |-> st.cache, allocs |-> st.allocs, count |-> st.count,
           inUse |-> st.inUse, peak |-> p, missed |-> st.missed]
  BY DEF Statistician, Sound
<1> HIDE DEF u
<1>3. u \in Statistician
  BY <1>1, <1>2 DEF Statistician
<1>4. /\ u.elmt = st.elmt /\ u.cache = st.cache /\ u.allocs = st.allocs
      /\ u.count = st.count /\ u.inUse = st.inUse /\ u.peak = p
  BY <1>2
<1>5. Open(u) = Open(st) /\ Sizes(u) = Sizes(st) /\ \A s : CachedOf(u, s) = CachedOf(st, s)
  BY <1>4 DEF Open, Sizes, CachedOf
<1>6. Sound(u)
  BY <1>3, <1>4, <1>5 DEF Sound
<1>7. QED
  BY <1>4, <1>6 DEF u

\* The lines of a statistician's elements add up to its sums.
LEMMA ElementsAddUp ==
  ASSUME NEW st, Sound(st), NEW D, D = {s \in Stack : st.elmt[s].allocs > 0}
  PROVE  /\ SumFunction([s \in D |-> st.elmt[s].allocs - st.elmt[s].frees]) = st.count
         /\ Wrapped(SumFunction([s \in D |-> st.elmt[s].inUse])) = st.inUse
<1> DEFINE g == [s \in D |-> st.elmt[s].allocs - st.elmt[s].frees]
           h == [s \in D |-> st.elmt[s].inUse]
<1>1. st \in Statistician /\ D \in SUBSET Stack /\ IsFiniteSet(Stack)
  BY StatorAssumption DEF Sound
<1>2. IsFiniteSet(D)
  BY <1>1, FS_Subset
<1>3. \A s \in Stack \ D : Open(st)[s] = 0 /\ Sizes(st)[s] = 0
  <2>1. ASSUME NEW s \in Stack \ D PROVE Open(st)[s] = 0 /\ Sizes(st)[s] = 0
    <3>1. st.elmt[s] \in Element
      BY <1>1 DEF Statistician
    <3>2. PICK a \in Nat, b \in Nat : a = st.elmt[s].allocs /\ b = st.elmt[s].frees
      BY <3>1 DEF Element
    <3>3. ~ (a > 0)
      BY <3>2
    <3>4. a = 0
      BY <3>3
    <3>5. Open(st)[s] = a - b
      BY <3>2 DEF Open
    <3>6. Open(st)[s] \in Nat
      <4>1. CachedOf(st, s) \in SUBSET st.cache /\ IsFiniteSet(st.cache)
        BY DEF CachedOf, Sound
      <4>2. Cardinality(CachedOf(st, s)) \in Nat
        BY <4>1, FS_Subset, FS_CardinalityType
      <4>3. QED
        BY <4>2 DEF Sound
    <3>7. Open(st)[s] = 0
      BY <3>4, <3>5, <3>6
    <3>8. st.elmt[s].inUse = 0
      BY <3>2, <3>4 DEF Sound
    <3>9. QED
      BY <3>7, <3>8 DEF Sizes
  <2>2. QED
    BY <2>1
<1>4. \A s \in D : g[s] = Open(st)[s] /\ h[s] = Sizes(st)[s]
  BY <1>1 DEF Open, Sizes
<1>5. SumFunction(g) = SumFunctionOnSet(g, D) /\ SumFunction(h) = SumFunctionOnSet(h, D)
  BY DEF SumFunction
<1> HIDE DEF g, h
<1>6. /\ SumFunctionOnSet(g, D) = SumFunctionOnSet(Open(st), D)
      /\ SumFunctionOnSet(h, D) = SumFunctionOnSet(Sizes(st), D)
  BY <1>2, <1>4, SumSame
<1>7. /\ SumFunctionOnSet(Open(st), Stack) = SumFunctionOnSet(Open(st), D)
      /\ SumFunctionOnSet(Sizes(st), Stack) = SumFunctionOnSet(Sizes(st), D)
  <2>1. \A s \in Stack : Open(st)[s] \in Int /\ Sizes(st)[s] \in Int
    BY <1>1, OpenInt
  <2>2. QED
    BY <1>1, <1>3, <2>1, SumNonZero
<1>8. SumFunction(g) = st.count /\ Wrapped(SumFunction(h)) = st.inUse
  BY <1>5, <1>6, <1>7 DEF Sound
<1>9. QED
  BY <1>8 DEF g, h

\* So do those of a profile, and those that a signal prints.
LEMMA ProfilesAddUp ==
  ASSUME NEW e, Sound(e), NEW m, Sound(m), m.count - e.count \in {-1, 0, 1}, NEW w, NEW p,
         \/ e = m /\ p = Profile(w, m)
         \/ p = [Profile(w, [m EXCEPT !.elmt = e.elmt]) EXCEPT !.whole = e = m]
  PROVE  AddsUp(p)
<1> DEFINE D == {s \in Stack : e.elmt[s].allocs > 0}
           l == [s \in D |-> [count |-> e.elmt[s].allocs - e.elmt[s].frees, size |-> e.elmt[s].inUse]]
<1>1. /\ p.count = m.count /\ p.size = m.inUse /\ p.lines = l /\ p.whole = (e = m)
  <2>1. CASE e = m /\ p = Profile(w, m)
    BY <2>1 DEF Profile
  <2>2. CASE p = [Profile(w, [m EXCEPT !.elmt = e.elmt]) EXCEPT !.whole = e = m]
    <3> DEFINE u == [m EXCEPT !.elmt = e.elmt]
    <3>1. u.elmt = e.elmt /\ u.count = m.count /\ u.inUse = m.inUse
      BY DEF Sound, Statistician
    <3> HIDE DEF u
    <3>2. p = [Profile(w, u) EXCEPT !.whole = e = m]
      BY <2>2 DEF u
    <3>3. /\ p.count = u.count /\ p.size = u.inUse /\ p.whole = (e = m)
          /\ p.lines = [s \in {s \in Stack : u.elmt[s].allocs > 0} |->
                [count |-> u.elmt[s].allocs - u.elmt[s].frees, size |-> u.elmt[s].inUse]]
      BY <3>2 DEF Profile
    <3>4. QED
      BY <3>1, <3>3
  <2>3. QED
    BY <2>1, <2>2
<1>2. DOMAIN p.lines = D /\ \A s \in D : /\ p.lines[s].count = e.elmt[s].allocs - e.elmt[s].frees
                                         /\ p.lines[s].size = e.elmt[s].inUse
  BY <1>1
<1>3. /\ SumFunction([s \in D |-> e.elmt[s].allocs - e.elmt[s].frees]) = e.count
      /\ Wrapped(SumFunction([s \in D |-> e.elmt[s].inUse])) = e.inUse
  <2> DEFINE F == D
  <2>1. F = {s \in Stack : e.elmt[s].allocs > 0}
    OBVIOUS
  <2> HIDE DEF F
  <2>2. /\ SumFunction([s \in F |-> e.elmt[s].allocs - e.elmt[s].frees]) = e.count
        /\ Wrapped(SumFunction([s \in F |-> e.elmt[s].inUse])) = e.inUse
    BY <2>1, ElementsAddUp
  <2>3. QED
    BY <2>2 DEF F
<1> HIDE DEF D, l
<1>4. /\ [s \in DOMAIN p.lines |-> p.lines[s].count] = [s \in D |-> e.elmt[s].allocs - e.elmt[s].frees]
      /\ [s \in DOMAIN p.lines |-> p.lines[s].size] = [s \in D |-> e.elmt[s].inUse]
  BY <1>2
<1>5. QED
  BY <1>1, <1>3, <1>4 DEF AddsUp

-----------------------------------------------------------------------------
(* The inductive invariants: what holds for every constant, and what for   *)
(* matched records or one file.                                            *)

Passes == {"main", "peak"}

\* Where the file is read: what is unread, in the buffer and processed is all of it.
Places ==
  /\ files \in [1..FileNum -> File]
  /\ piped \in BOOLEAN /\ peakMode \in BOOLEAN
  /\ idx \in 1..(FileNum + 1) /\ pass \in Passes
  /\ unread \in Nat /\ avail \in Nat /\ pos \in Nat
  /\ idx <= FileNum => unread + avail + 2 * pos = Units(idx)
  /\ idx > FileNum => pass = "main" /\ unread = 0 /\ avail = 0 /\ pos = 0
  /\ peakMode <=> (idx # 1 \/ pass = "peak")
  /\ ended \in {"", "exit", "signal", "crash"}

Books ==
  /\ DOMAIN stat = Passes
  /\ \A w \in Passes : Sound(stat[w])

\* One profile, and then a second one.
Prints ==
  /\ \/ printed = << >>
     \/ printed = <<printed[1]>>
     \/ printed = <<printed[1], printed[2]>> /\ ended # ""
  /\ LinesAddUp

IInv == Places /\ Books /\ Prints

InFirstPass == idx = 1 /\ pass = "main"

\* How much of the first file has been read by the first pass over it.
FirstRead == IF InFirstPass THEN pos ELSE Len(files[1])

FirstHeld == InFirstPass => Holds(stat.main, files[1], pos)

\* With one file: all of it is in the first statistician, and a signal after
\* the first pass prints that.
FileCounted == stat.main.allocs = Allocations(files[1], FirstRead)

FileHeld == Holds(stat.main, files[1], FirstRead)

SignalWhole ==
  ended = "signal" /\ ~ InFirstPass => printed = <<Profile("main", stat.main)>>

\* What is in use is something, and fits 64 bits.
Fits(f) ==
  /\ InUse(f, PeakAt(f)) # 0
  /\ \A n \in 0..Len(f) : InUse(f, n) \in 0..(Word - 1)

\* The peak of a statistician is the greatest use by the first n records.
Peaked(st, f, n) ==
  /\ st.peak \in Nat
  /\ \A m \in 0..n : InUse(f, m) <= st.peak
  /\ \E m \in 0..n : InUse(f, m) = st.peak

\* A statistician that follows the file up to the place of the peak, which it
\* was told.
Following(f, n) == IF n < PeakAt(f) THEN n ELSE PeakAt(f)

Follows(st, f, n) == Holds(st, f, Following(f, n)) /\ st.peak = InUse(f, PeakAt(f))

\* With one file, of what fits: the first statistician has the peak so far, and
\* the second follows.
PeakHeld ==
  LET f == files[1] IN
  Fits(f) =>
    /\ Peaked(stat.main, f, FirstRead)
    /\ InFirstPass => stat.peak = NoBlocks
    /\ pass = "peak" => Follows(stat.peak, f, pos)
    /\ idx = 2 => Holds(stat.peak, f, PeakAt(f))

\* The file that is read.
LEMMA FileOf ==
  ASSUME Places
  PROVE  /\ FileNum \in Nat /\ idx \in Nat /\ idx # 0 /\ 1 \in 1..FileNum /\ files[1] \in File
         /\ \A i \in 1..FileNum : /\ files[i] \in File /\ Len(files[i]) \in Nat
                                  /\ Len(files[i]) <= MaxLen /\ Units(i) = 2 * Len(files[i]) /\ Units(i) \in Nat
         /\ ~ (idx <= FileNum) => idx = FileNum + 1
         /\ idx <= FileNum => idx \in 1..FileNum
<1>1. FileNum \in Nat /\ 1 \in 1..FileNum /\ idx \in Nat /\ idx # 0
  <2>1. FileNum \in Nat /\ FileNum # 0
    BY StatorAssumption
  <2>2. idx \in 1..(FileNum + 1)
    BY DEF Places
  <2>3. QED
    BY <2>1, <2>2
<1>2. \A i \in 1..FileNum : /\ files[i] \in File /\ Len(files[i]) \in Nat
                            /\ Len(files[i]) <= MaxLen /\ Units(i) = 2 * Len(files[i]) /\ Units(i) \in Nat
  <2>1. ASSUME NEW i \in 1..FileNum
        PROVE  /\ files[i] \in File /\ Len(files[i]) \in Nat
               /\ Len(files[i]) <= MaxLen /\ Units(i) = 2 * Len(files[i]) /\ Units(i) \in Nat
    <3>1. files[i] \in File
      BY <2>1 DEF Places
    <3>2. Len(files[i]) \in Nat /\ Len(files[i]) \in 0..MaxLen
      BY <3>1, FileIs
    <3>3. QED
      BY <3>1, <3>2, StatorAssumption DEF Units
  <2>2. QED
    BY <2>1
<1>3. idx \in 1..(FileNum + 1)
  BY DEF Places
<1>4. QED
  BY <1>1, <1>2, <1>3

\* A step keeps the places.
LEMMA PlacesStep ==
  ASSUME Places, [Next]_vars
  PROVE  Places'
<1>1. PICK n \in Nat, i \in Nat, u \in Nat, v \in Nat, p \in Nat :
        n = FileNum /\ i = idx /\ u = unread /\ v = avail /\ p = pos
  BY FileOf DEF Places
<1>2. i \in 1..(n + 1) /\ (i <= n => Units(i) \in Nat /\ u + v + 2 * p = Units(i))
  <2>1. i \in 1..(n + 1)
    BY <1>1 DEF Places
  <2>2. i <= n => i \in 1..n
    BY <2>1
  <2>3. i <= n => Units(i) \in Nat
    BY <1>1, <2>2, FileOf
  <2>4. i <= n => u + v + 2 * p = Units(i)
    BY <1>1 DEF Places
  <2>5. QED
    BY <2>1, <2>3, <2>4
<1>3. ASSUME UNCHANGED <<files, piped>>, idx' \in 1..(n + 1),
             unread' \in Nat, avail' \in Nat, pos' \in Nat,
             idx' <= n => unread' + avail' + 2 * pos' = Units(idx'),
             idx' > n => pass' = "main" /\ unread' = 0 /\ avail' = 0 /\ pos' = 0,
             peakMode' \in BOOLEAN, pass' \in Passes, peakMode' <=> (idx' # 1 \/ pass' = "peak"),
             ended' \in {"", "exit", "signal", "crash"}
      PROVE  Places'
  <2>1. Units(idx)' = Units(idx')
    BY <1>3 DEF Units
  <2>2. files' \in [1..FileNum -> File] /\ piped' \in BOOLEAN
    BY <1>3 DEF Places
  <2>3. QED
    BY <1>1, <1>3, <2>1, <2>2 DEF Places
<1>4. /\ peakMode \in BOOLEAN /\ pass \in Passes /\ (peakMode <=> (i # 1 \/ pass = "peak"))
      /\ ended \in {"", "exit", "signal", "crash"}
      /\ i > n => pass = "main" /\ u = 0 /\ v = 0 /\ p = 0
  BY <1>1 DEF Places
<1>5. CASE Read
  <2>1. PICK m \in 1..u : unread' = u - m /\ avail' = v + m
    <3>1. u > 0
      BY <1>1, <1>5 DEF Read
    <3>2. u \in 1..u
      BY <3>1
    <3>3. QED
      BY <1>1, <1>5, <3>2 DEF Read
  <2>2. PICK x \in Nat, y \in Nat : x = unread' /\ y = avail' /\ x + y = u + v
    BY <2>1
  <2>3. i <= n
    BY <1>1, <1>5 DEF Read, Reading
  <2>4. UNCHANGED <<files, piped, peakMode, idx, pass, pos, ended>>
    BY <1>5 DEF Read, endVars
  <2>5. idx' = i /\ x + y + 2 * p = u + v + 2 * p /\ ~ (i > n)
    <3>1. x + y + 2 * p = u + v + 2 * p
      BY <2>2
    <3>2. ~ (i > n)
      BY <2>3
    <3>3. QED
      BY <1>1, <2>4, <3>1, <3>2
  <2>6. unread' + avail' + 2 * pos' = Units(idx')
    BY <1>1, <1>2, <2>2, <2>3, <2>4, <2>5
  <2>7. idx' \in 1..(n + 1) /\ unread' \in Nat /\ avail' \in Nat /\ pos' \in Nat /\ ~ (idx' > n)
    BY <1>1, <1>2, <2>2, <2>4, <2>5
  <2>8. QED
    BY <1>1, <1>3, <1>4, <2>4, <2>6, <2>7
<1>6. CASE ProcRecord
  <2>1. i <= n /\ v >= 2 /\ pos' = p + 1 /\ avail' = v - 2
    BY <1>1, <1>6 DEF ProcRecord, Reading
  <2>2. PICK y \in Nat, z \in Nat : y = avail' /\ z = pos' /\ u + y + 2 * z = u + v + 2 * p
    BY <2>1
  <2>3. UNCHANGED <<files, piped, peakMode, idx, pass, unread, ended>>
    BY <1>6 DEF ProcRecord, endVars
  <2>4. idx' = i /\ ~ (i > n)
    BY <1>1, <2>1, <2>3
  <2>5. unread' + avail' + 2 * pos' = Units(idx')
    BY <1>1, <1>2, <2>1, <2>2, <2>3, <2>4
  <2>6. idx' \in 1..(n + 1) /\ unread' \in Nat /\ avail' \in Nat /\ pos' \in Nat /\ ~ (idx' > n)
    BY <1>1, <1>2, <2>2, <2>3, <2>4
  <2>7. QED
    BY <1>1, <1>3, <1>4, <2>3, <2>5, <2>6
<1>7. CASE SecondPass
  <2>1. /\ i <= n /\ unread' = Units(i) /\ avail' = 0 /\ pos' = 0
        /\ pass' = "peak" /\ peakMode' = TRUE
    BY <1>1, <1>7 DEF SecondPass, FileEnds, Reading
  <2>2. PICK x \in Nat : x = Units(i)
    BY <1>2, <2>1
  <2>3. UNCHANGED <<files, piped, idx, ended>>
    BY <1>7 DEF SecondPass, endVars
  <2>4. idx' = i /\ ~ (i > n) /\ x + 0 + 2 * 0 = x
    BY <1>1, <2>1, <2>3
  <2>5. unread' + avail' + 2 * pos' = Units(idx')
    BY <2>1, <2>2, <2>4
  <2>6. idx' \in 1..(n + 1) /\ unread' \in Nat /\ avail' \in Nat /\ pos' \in Nat /\ ~ (idx' > n)
    BY <1>1, <1>2, <2>1, <2>2, <2>4
  <2>7. QED
    BY <1>1, <1>3, <1>4, <2>1, <2>3, <2>5, <2>6 DEF Passes
<1>8. CASE NextFile
  <2>1. /\ i <= n /\ unread' = (IF i < n THEN Units(i + 1) ELSE 0) /\ avail' = 0 /\ pos' = 0
        /\ pass = "peak" /\ pass' = "main" /\ idx' = i + 1
    BY <1>1, <1>8 DEF NextFile, FileEnds, Reading
  <2>2. PICK x \in Nat : x = unread'
    <3>1. i < n => i + 1 \in 1..n
      OBVIOUS
    <3>2. i < n => Units(i + 1) \in Nat
      BY <1>1, <3>1, FileOf
    <3>3. QED
      BY <2>1, <3>2
  <2>3. UNCHANGED <<files, piped, peakMode, ended>>
    BY <1>8 DEF NextFile, endVars
  <2>4. idx' <= n => unread' + avail' + 2 * pos' = Units(idx')
    <3>1. x + 0 + 2 * 0 = x /\ (i + 1 <= n => i < n)
      OBVIOUS
    <3>2. QED
      BY <2>1, <2>2, <3>1
  <2>5. idx' > n => unread' = 0
    BY <2>1
  <2>6. idx' \in 1..(n + 1) /\ unread' \in Nat /\ avail' \in Nat /\ pos' \in Nat /\ idx' # 1
    BY <1>2, <2>1, <2>2
  <2>7. peakMode' \in BOOLEAN /\ (peakMode' <=> (idx' # 1 \/ pass' = "peak"))
    BY <1>4, <2>1, <2>3, <2>6
  <2>8. QED
    BY <1>3, <1>4, <2>1, <2>3, <2>4, <2>5, <2>6, <2>7 DEF Passes
<1>9. CASE PrintMain \/ PrintPeak \/ Signal \/ SignalCrashes \/ UNCHANGED vars
  <2>1. /\ UNCHANGED <<files, piped, peakMode, idx, pass, unread, avail, pos>>
        /\ ended' \in {ended, "exit", "signal", "crash"}
    BY <1>9 DEF PrintMain, PrintPeak, Signal, SignalCrashes, vars, passVars, endVars
  <2>2. /\ idx' = i /\ unread' = u /\ avail' = v /\ pos' = p
        /\ ended' \in {"", "exit", "signal", "crash"}
    BY <1>1, <1>4, <2>1
  <2>3. QED
    BY <1>2, <1>3, <1>4, <2>1, <2>2
<1>10. QED
  BY <1>5, <1>6, <1>7, <1>8, <1>9 DEF Next

\* The record that is processed.
LEMMA RecordAtHand ==
  ASSUME Places, Reading, avail >= 2
  PROVE  /\ idx \in 1..FileNum /\ pos \in 0..(Len(files[idx]) - 1) /\ pos \in Nat
         /\ files[idx] \in File /\ files[idx][pos + 1] \in Op /\ Current \in Passes
<1>1. idx <= FileNum /\ idx \in 1..FileNum
  BY FileOf DEF Reading
<1>2. /\ files[idx] \in File /\ Len(files[idx]) \in Nat
      /\ unread + avail + 2 * pos = 2 * Len(files[idx])
  BY <1>1, FileOf DEF Places
<1>3. unread \in Nat /\ avail \in Nat /\ pos \in Nat
  BY DEF Places
<1>4. pos \in 0..(Len(files[idx]) - 1) /\ pos + 1 \in 1..Len(files[idx])
  BY <1>2, <1>3
<1>5. files[idx][pos + 1] \in Op
  BY <1>2, <1>4, FileIs
<1>6. Current \in Passes
  BY DEF Current, Places, Passes
<1>7. QED
  BY <1>1, <1>2, <1>3, <1>4, <1>5, <1>6

\* What a step does to the statisticians: a record, the second pass's peak, or
\* nothing.
LEMMA StatStep ==
  ASSUME Places, Books, [Next]_vars
  PROVE  /\ DOMAIN stat' = Passes
         /\ ProcRecord =>
              /\ stat'[Current] = IntoStator(stat[Current], files[idx][pos + 1])
              /\ \A w \in Passes \ {Current} : stat'[w] = stat[w]
         /\ SecondPass =>
              /\ stat'["main"] = stat["main"]
              /\ stat'["peak"] = [stat["peak"] EXCEPT !.peak = stat["main"].peak]
         /\ ProcRecord \/ SecondPass \/ stat' = stat
<1>1. DOMAIN stat = Passes
  BY DEF Books
<1>2. ASSUME ProcRecord
      PROVE  /\ DOMAIN stat' = Passes
             /\ stat'[Current] = IntoStator(stat[Current], files[idx][pos + 1])
             /\ \A w \in Passes \ {Current} : stat'[w] = stat[w]
  <2>1. Current \in Passes
    BY <1>2, RecordAtHand DEF ProcRecord
  <2>2. stat' = [stat EXCEPT ![Current] = IntoStator(stat[Current], files[idx][pos + 1])]
    BY <1>2 DEF ProcRecord
  <2>3. QED
    BY <1>1, <2>1, <2>2
<1>3. ASSUME SecondPass
      PROVE  /\ DOMAIN stat' = Passes
             /\ stat'["main"] = stat["main"]
             /\ stat'["peak"] = [stat["peak"] EXCEPT !.peak = stat["main"].peak]
  <2>1. stat' = [stat EXCEPT !["peak"] = [stat["peak"] EXCEPT !.peak = stat["main"].peak]]
    BY <1>3 DEF SecondPass
  <2>2. QED
    BY <1>1, <2>1 DEF Passes
<1>4. ProcRecord \/ SecondPass \/ stat' = stat
  BY DEF Next, Read, NextFile, PrintMain, PrintPeak, Signal, SignalCrashes, vars
<1>5. QED
  BY <1>1, <1>2, <1>3, <1>4

\* It keeps the books.
LEMMA BooksStep ==
  ASSUME Places, Books, [Next]_vars
  PROVE  Books'
<1>1. DOMAIN stat = Passes /\ DOMAIN stat' = Passes /\ \A w \in Passes : Sound(stat[w])
  BY StatStep DEF Books
<1>2. CASE ProcRecord
  <2>1. /\ Current \in Passes /\ files[idx][pos + 1] \in Op
        /\ stat'[Current] = IntoStator(stat[Current], files[idx][pos + 1])
        /\ \A w \in Passes \ {Current} : stat'[w] = stat[w]
    BY <1>2, RecordAtHand, StatStep DEF ProcRecord
  <2>2. Sound(stat'[Current])
    BY <1>1, <2>1, SoundIntoStator
  <2>3. \A w \in Passes : Sound(stat'[w])
    BY <1>1, <2>1, <2>2
  <2>4. QED
    BY <1>1, <2>3 DEF Books, Sound
<1>3. CASE SecondPass
  <2>1. stat["main"].peak \in 0..(Word - 1)
    BY <1>1 DEF Sound, Statistician, Passes
  <2>2. Sound(stat'["peak"]) /\ stat'["main"] = stat["main"]
    BY <1>1, <1>3, <2>1, SoundPeak, StatStep DEF Passes
  <2>3. \A w \in Passes : Sound(stat'[w])
    BY <1>1, <2>2 DEF Passes
  <2>4. QED
    BY <1>1, <2>3 DEF Books
<1>4. CASE stat' = stat
  BY <1>1, <1>4 DEF Books
<1>5. QED
  BY <1>2, <1>3, <1>4, StatStep

\* What a signal finds is at most one block from what it has.
LEMMA InHandIs ==
  ASSUME Places, Books
  PROVE  /\ Sound(stat.main) /\ Sound(InHand)
         /\ \A e, m \in {stat.main, InHand} : m.count - e.count \in {-1, 0, 1}
         /\ ~ (Reading /\ avail >= 2 /\ Current = "main") => InHand = stat.main
<1>1. Sound(stat.main)
  BY DEF Books, Passes
<1>2. stat.main.count \in Nat
  BY <1>1 DEF Sound, Statistician
<1>3. CASE ~ (Reading /\ avail >= 2 /\ Current = "main")
  <2>1. InHand = stat.main
    BY <1>3 DEF InHand
  <2>2. QED
    BY <1>1, <1>2, <2>1
<1>4. CASE Reading /\ avail >= 2 /\ Current = "main"
  <2> DEFINE u == IntoStator(stat.main, files[idx][pos + 1])
  <2>1. InHand = u
    BY <1>4 DEF InHand
  <2>2. files[idx][pos + 1] \in Op
    BY <1>4, RecordAtHand
  <2>3. Sound(u) /\ u.count \in Nat /\ u.count - stat.main.count \in {-1, 0, 1}
    BY <1>1, <2>2, SoundIntoStator
  <2> HIDE DEF u
  <2>4. PICK x \in Nat, y \in Nat : x = u.count /\ y = stat.main.count
    BY <1>2, <2>3
  <2>5. x - y \in {-1, 0, 1} /\ y - x \in {-1, 0, 1} /\ x - x = 0 /\ y - y = 0
    BY <2>3, <2>4
  <2>6. \A e, m \in {stat.main, u} : m.count - e.count \in {-1, 0, 1}
    BY <2>4, <2>5
  <2>7. QED
    BY <1>1, <1>4, <2>1, <2>3, <2>6
<1>5. QED
  BY <1>3, <1>4

\* Sequences of one and two.
LEMMA OneAndTwo ==
  /\ \A x : DOMAIN <<x>> = {1} /\ <<x>>[1] = x
  /\ \A x, y : DOMAIN <<x, y>> = {1, 2} /\ <<x, y>>[1] = x /\ <<x, y>>[2] = y
OBVIOUS

LEMMA AppendOne ==
  ASSUME NEW x, NEW y
  PROVE  Append(<<x>>, y) = <<x, y>>
<1> DEFINE S == {x, y}
           s == <<x>>
           t == <<x, y>>
<1>1. s \in Seq(S) /\ t \in Seq(S) /\ y \in S
  OBVIOUS
<1>2. Len(s) = 1 /\ Len(t) = 2 /\ s[1] = x /\ t[1] = x /\ t[2] = y
  OBVIOUS
<1> HIDE DEF s, t, S
<1>3. /\ Append(s, y) \in Seq(S) /\ Len(Append(s, y)) = Len(s) + 1
      /\ \A i \in 1..Len(s) : Append(s, y)[i] = s[i]
      /\ Append(s, y)[Len(s) + 1] = y
  BY <1>1, AppendProperties
<1>4. /\ Len(Append(s, y)) = 2 /\ Append(s, y)[1] = x /\ Append(s, y)[2] = y
  BY <1>2, <1>3
<1>5. \A i \in 1..Len(Append(s, y)) : Append(s, y)[i] = t[i]
  BY <1>2, <1>4
<1>6. Append(s, y) = t
  BY <1>1, <1>2, <1>3, <1>4, <1>5, SeqEqual
<1>7. QED
  BY <1>6 DEF s, t

\* What is printed adds up.
LEMMA PrintsStep ==
  ASSUME Places, Books, Prints, [Next]_vars
  PROVE  Prints'
<1>1. /\ Sound(stat.main) /\ Sound(stat.peak) /\ stat.main.count \in Nat /\ stat.peak.count \in Nat
  BY DEF Books, Passes, Sound, Statistician
<1>2. AddsUp(Profile("main", stat.main)) /\ AddsUp(Profile("peak", stat.peak))
  <2>1. stat.main.count - stat.main.count \in {-1, 0, 1}
    BY <1>1
  <2>2. stat.peak.count - stat.peak.count \in {-1, 0, 1}
    BY <1>1
  <2>3. AddsUp(Profile("main", stat.main))
    BY <1>1, <2>1, ProfilesAddUp
  <2>4. AddsUp(Profile("peak", stat.peak))
    BY <1>1, <2>2, ProfilesAddUp
  <2>5. QED
    BY <2>3, <2>4
<1>3. ASSUME NEW p, printed' = <<p>>, AddsUp(p) PROVE Prints'
  <2>1. DOMAIN printed' = {1} /\ printed'[1] = p
    BY <1>3, OneAndTwo
  <2>2. \A i \in DOMAIN printed' : AddsUp(printed'[i])
    BY <1>3, <2>1
  <2>3. QED
    BY <1>3, <2>1, <2>2 DEF Prints, LinesAddUp
<1>4. CASE PrintMain
  <2>1. PICK p : p = Profile("main", stat.main)
    OBVIOUS
  <2>2. printed' = <<p>> /\ AddsUp(p)
    BY <1>2, <1>4, <2>1 DEF PrintMain
  <2>3. QED
    BY <1>3, <2>2
<1>5. CASE PrintPeak
  <2>1. CASE printed' = printed
    BY <1>5, <2>1 DEF Prints, LinesAddUp, PrintPeak
  <2>2. CASE printed' = Append(printed, Profile("peak", stat.peak))
    <3> DEFINE p == printed[1]
               q == Profile("peak", stat.peak)
    <3>1. printed = <<p>>
      BY <1>5 DEF PrintPeak, Prints
    <3>2. AddsUp(p)
      <4>1. 1 \in DOMAIN printed
        BY <3>1, OneAndTwo
      <4>2. QED
        BY <4>1 DEF Prints, LinesAddUp
    <3> HIDE DEF p
    <3>4. printed' = <<p, q>> /\ AddsUp(q)
      BY <1>2, <2>2, <3>1, AppendOne
    <3>5. ended' # ""
      BY <1>5 DEF PrintPeak
    <3> HIDE DEF q
    <3>6. printed' = <<printed'[1], printed'[2]>>
      BY <3>4, OneAndTwo
    <3>7. \A i \in DOMAIN printed' : AddsUp(printed'[i])
      <4>1. DOMAIN printed' = {1, 2}
        BY <3>4, OneAndTwo
      <4>2. QED
        BY <3>2, <3>4, <4>1, OneAndTwo
    <3>8. QED
      BY <3>5, <3>6, <3>7 DEF Prints, LinesAddUp
  <2>3. QED
    BY <1>5, <2>1, <2>2 DEF PrintPeak
<1>6. CASE Signal
  <2>1. PICK e \in {stat.main, InHand}, m \in {stat.main, InHand} :
          printed' = <<[Profile("main", [m EXCEPT !.elmt = e.elmt]) EXCEPT !.whole = e = m]>>
    BY <1>6 DEF Signal
  <2>2. Sound(e) /\ Sound(m) /\ m.count - e.count \in {-1, 0, 1}
    BY InHandIs
  <2> DEFINE p == [Profile("main", [m EXCEPT !.elmt = e.elmt]) EXCEPT !.whole = e = m]
  <2>3. AddsUp(p)
    BY <2>2, ProfilesAddUp
  <2>4. QED
    BY <1>3, <2>1, <2>3
<1>7. CASE Read \/ ProcRecord \/ SecondPass \/ NextFile \/ SignalCrashes \/ UNCHANGED vars
  <2>1. printed' = printed /\ (ended' = ended \/ ended' # "")
    BY <1>7 DEF Read, ProcRecord, SecondPass, NextFile, SignalCrashes, vars, endVars
  <2>2. QED
    BY <2>1 DEF Prints, LinesAddUp
<1>8. QED
  BY <1>4, <1>5, <1>6, <1>7 DEF Next

\* At the start.
LEMMA InitIs ==
  ASSUME Init
  PROVE  /\ idx = 1 /\ pass = "main" /\ pos = 0 /\ ended = "" /\ printed = << >>
         /\ DOMAIN stat = Passes /\ stat.main = NoBlocks /\ stat.peak = NoBlocks
         /\ Places /\ Books /\ Prints
<1>1. DOMAIN stat = Passes /\ stat.main = NoBlocks /\ stat.peak = NoBlocks
  BY DEF Init, Passes
<1>2. Books
  BY <1>1, SoundNoBlocks DEF Books, Passes
<1>3. Prints
  <2>1. << >> \in Seq({}) /\ Len(<< >>) = 0
    OBVIOUS
  <2>2. DOMAIN << >> = 1..0
    BY <2>1, LenProperties
  <2>3. \A i \in 1..0 : FALSE
    OBVIOUS
  <2>4. printed = << >>
    BY DEF Init
  <2>5. QED
    BY <2>2, <2>3, <2>4 DEF Prints, LinesAddUp
<1>4. FileNum \in Nat /\ FileNum # 0
  BY StatorAssumption
<1>5. files[1] \in File /\ idx = 1 /\ idx \in 1..(FileNum + 1) /\ ~ (idx > FileNum)
  <2>1. 1 \in 1..FileNum /\ 1 \in 1..(FileNum + 1) /\ ~ (1 > FileNum)
    BY <1>4
  <2>2. QED
    BY <2>1 DEF Init
<1>6. Len(files[1]) \in Nat /\ unread = 2 * Len(files[1])
  BY <1>5, FileIs DEF Init, Units
<1>7. PICK n \in Nat : n = Len(files[1])
  BY <1>6
<1>8. unread \in Nat /\ unread + 0 + 2 * 0 = 2 * n
  BY <1>6, <1>7
<1>9. unread + avail + 2 * pos = Units(idx)
  BY <1>5, <1>7, <1>8 DEF Init, Units
<1>10. Places
  BY <1>5, <1>8, <1>9 DEF Init, Places, Passes
<1>11. QED
  BY <1>1, <1>2, <1>3, <1>10 DEF Init

\* The places, the books and the profiles printed, in every state.
THEOREM SpecIInv == Spec => []IInv
<1>1. Init => IInv
  BY InitIs DEF IInv
<1>2. IInv /\ [Next]_vars => IInv'
  BY PlacesStep, BooksStep, PrintsStep DEF IInv
<1>3. QED
  BY <1>1, <1>2, PTL DEF Spec

\* Every variable has its type: no read goes past what the buffer holds, no
\* call stack has more releases than allocations, and no sum leaves its width.
THEOREM SpecTypeOK == Spec => []TypeOK
<1>1. IInv => TypeOK
  <2> SUFFICES ASSUME IInv PROVE TypeOK
    OBVIOUS
  <2> USE DEF IInv
  <2>1. PICK i \in Nat, u \in Nat, v \in Nat, p \in Nat :
          i = idx /\ u = unread /\ v = avail /\ p = pos
    BY FileOf DEF Places
  <2>2. MaxLen \in Nat
    BY StatorAssumption
  <2>3. u \in 0..(2 * MaxLen) /\ v \in 0..(2 * MaxLen) /\ p \in 0..MaxLen
    <3>1. CASE idx <= FileNum
      <4>1. PICK n \in Nat : n = Len(files[idx]) /\ n <= MaxLen /\ Units(idx) = 2 * n
        BY <3>1, FileOf
      <4>2. u + v + 2 * p = 2 * n
        BY <2>1, <3>1, <4>1 DEF Places
      <4>3. QED
        BY <2>2, <4>1, <4>2
    <3>2. CASE ~ (idx <= FileNum)
      <4>1. idx > FileNum
        BY <3>2, FileOf
      <4>2. u = 0 /\ v = 0 /\ p = 0
        BY <2>1, <4>1 DEF Places
      <4>3. QED
        BY <2>2, <4>2
    <3>3. QED
      BY <3>1, <3>2
  <2>4. ASSUME NEW w \in {"main", "peak"}
        PROVE  /\ stat[w].inUse \in 0..(Word - 1) /\ stat[w].peak \in 0..(Word - 1)
               /\ \A s \in Stack : stat[w].elmt[s].frees <= stat[w].elmt[s].allocs
               /\ stat[w].allocs \in Nat /\ stat[w].missed \in Nat /\ stat[w].count \in Nat
    <3>1. PICK st : st = stat[w] /\ Sound(st)
      BY <2>4 DEF Books, Passes
    <3>2. st \in Statistician
      BY <3>1 DEF Sound
    <3>3. ASSUME NEW s \in Stack PROVE st.elmt[s].frees <= st.elmt[s].allocs
      <4>1. st.elmt[s] \in Element
        BY <3>2 DEF Statistician
      <4>2. PICK a \in Nat, b \in Nat : a = st.elmt[s].allocs /\ b = st.elmt[s].frees
        BY <4>1 DEF Element
      <4>3. IsFiniteSet(st.cache) /\ CachedOf(st, s) \in SUBSET st.cache
        BY <3>1 DEF Sound, CachedOf
      <4>4. Cardinality(CachedOf(st, s)) \in Nat
        BY <4>3, FS_Subset, FS_CardinalityType
      <4>5. a - b \in Nat
        BY <3>1, <4>2, <4>4 DEF Sound, Open
      <4>6. QED
        BY <4>2, <4>5
    <3>4. QED
      BY <3>1, <3>2, <3>3 DEF Statistician
  <2>5. Len(printed) <= 2
    <3>1. Len(<< >>) = 0 /\ \A x, y : Len(<<x>>) = 1 /\ Len(<<x, y>>) = 2
      OBVIOUS
    <3>2. Len(printed) \in {0, 1, 2}
      BY <3>1 DEF Prints
    <3>3. \A n \in {0, 1, 2} : n <= 2
      OBVIOUS
    <3>4. QED
      BY <3>2, <3>3
  <2>6. QED
    BY <2>1, <2>3, <2>4, <2>5 DEF TypeOK, Places, Passes
<1>2. QED
  BY <1>1, SpecIInv, PTL

\* Whatever the files hold and wherever a signal comes, the lines of a profile
\* add up to its heading, or are one block apart.
THEOREM SpecLinesAddUp == Spec => []LinesAddUp
<1>1. IInv => LinesAddUp
  BY DEF IInv, Prints
<1>2. QED
  BY <1>1, SpecIInv, PTL

-----------------------------------------------------------------------------
(* The first pass over the first file. *)

\* Nothing is read.
LEMMA NothingRead ==
  ASSUME NEW f \in File
  PROVE  /\ Allocations(f, 0) = 0 /\ Live(f, 0) = {}
         /\ InUse(f, 0) = 0 /\ \A s : SizeInUse(f, 0, s) = 0
         /\ Holds(NoBlocks, f, 0)
<1>1. \A k \in 1..0 : FALSE
  OBVIOUS
<1>2. Live(f, 0) = {} /\ \A s : LiveOf(f, 0, s) = {}
  BY <1>1 DEF Live, LiveOf
<1>3. TotalSize(f, {}) = 0
  BY TotalInt
<1>4. InUse(f, 0) = 0 /\ \A s : SizeInUse(f, 0, s) = 0
  BY <1>2, <1>3 DEF InUse, SizeInUse
<1>5. Allocations(f, 0) = 0
  <2>1. {k \in 1..0 : ~ f[k].free} = {}
    BY <1>1
  <2>2. QED
    BY <2>1, FS_EmptySet DEF Allocations
<1>6. Wrapped(0) = 0
  <2>1. 0 \in 0..(Word - 1)
    BY StatorAssumption
  <2>2. QED
    BY <2>1, WrappedIs
<1>7. NoBlocks.allocs = 0 /\ NoBlocks.cache = {} /\ NoBlocks.inUse = 0
  BY DEF NoBlocks
<1>8. \A s \in Stack : NoBlocks.elmt[s].inUse = 0
  BY DEF NoBlocks
<1>9. Entries(f, {}) = {}
  BY DEF Entries
<1>10. QED
  BY <1>2, <1>4, <1>5, <1>6, <1>7, <1>8, <1>9, SoundNoBlocks DEF Holds

\* Where the first file is read.
LEMMA FirstPlace ==
  ASSUME Places
  PROVE  /\ unread \in Nat /\ avail \in Nat /\ pos \in Nat /\ Len(files[1]) \in Nat
         /\ idx = 1 => unread + avail + 2 * pos = 2 * Len(files[1]) /\ pos \in 0..Len(files[1])
<1>1. 1 \in 1..FileNum /\ 1 <= FileNum
  BY FileOf
<1>2. Len(files[1]) \in Nat /\ Units(1) = 2 * Len(files[1])
  BY <1>1, FileOf
<1>3. PICK u \in Nat, v \in Nat, p \in Nat, n \in Nat :
        u = unread /\ v = avail /\ p = pos /\ n = Len(files[1])
  BY <1>2 DEF Places
<1>4. idx = 1 => u + v + 2 * p = 2 * n
  <2>1. idx = 1 => unread + avail + 2 * pos = Units(1)
    BY <1>1 DEF Places
  <2>2. QED
    BY <1>2, <1>3, <2>1
<1>5. idx = 1 => p \in 0..n
  BY <1>4
<1>6. QED
  BY <1>3, <1>4, <1>5

\* What a step does in the first pass, and, with one file, after it.
LEMMA FirstStep ==
  ASSUME Places, Books, [Next]_vars
  PROVE  /\ files' = files
         /\ InFirstPass' => InFirstPass
         /\ InFirstPass /\ ProcRecord =>
              /\ InFirstPass' /\ pos' = pos + 1 /\ pos \in 0..(Len(files[1]) - 1)
              /\ stat'.main = Updated(stat.main, files[1][pos + 1]) /\ stat'.peak = stat.peak
         /\ InFirstPass /\ InFirstPass' /\ ~ ProcRecord => pos' = pos /\ stat' = stat
         /\ InFirstPass /\ ~ InFirstPass' => SecondPass /\ pos = Len(files[1]) /\ idx = 1
         /\ SecondPass => stat'.main = stat.main
         /\ ~ InFirstPass /\ FileNum = 1 => stat'.main = stat.main
<1>1. files' = files
  BY DEF Next, Read, ProcRecord, SecondPass, NextFile, PrintMain, PrintPeak, Signal,
         SignalCrashes, vars
<1>2. /\ FileNum \in Nat /\ FileNum # 0 /\ idx \in Nat /\ idx # 0
      /\ (peakMode <=> (idx # 1 \/ pass = "peak")) /\ pass \in Passes
  <2>1. FileNum \in Nat /\ FileNum # 0
    BY StatorAssumption
  <2>2. idx \in Nat /\ idx # 0
    BY FileOf
  <2>3. QED
    BY <2>1, <2>2 DEF Places
<1>3. PICK u \in Nat, v \in Nat, p \in Nat, n \in Nat :
        /\ u = unread /\ v = avail /\ p = pos /\ n = Len(files[1])
        /\ idx = 1 => u + v + 2 * p = 2 * n
  BY FirstPlace
<1>4. CASE ProcRecord
  <2>1. pos' = pos + 1 /\ idx' = idx /\ pass' = pass
    BY <1>4 DEF ProcRecord
  <2>2. ASSUME InFirstPass
        PROVE  /\ pos \in 0..(Len(files[1]) - 1) /\ stat'.peak = stat.peak
               /\ stat'.main = Updated(stat.main, files[1][pos + 1])
    <3>1. idx = 1 /\ pass = "main" /\ ~ peakMode
      BY <1>2, <2>2 DEF InFirstPass
    <3>2. Current = "main"
      BY <3>1 DEF Current
    <3>3. pos \in 0..(Len(files[1]) - 1)
      BY <1>4, <3>1, RecordAtHand DEF ProcRecord
    <3>4. stat'.main = IntoStator(stat.main, files[1][pos + 1]) /\ stat'.peak = stat.peak
      BY <1>4, <3>1, <3>2, StatStep DEF Passes
    <3>5. QED
      BY <3>1, <3>3, <3>4 DEF IntoStator
  <2>3. ASSUME ~ InFirstPass, FileNum = 1 PROVE stat'.main = stat.main
    <3>1. idx <= 1
      BY <1>4, <2>3 DEF ProcRecord, Reading
    <3>2. idx = 1
      BY <1>2, <3>1
    <3>3. pass = "peak" /\ peakMode
      BY <1>2, <2>3, <3>2 DEF InFirstPass, Passes
    <3>4. Current = "peak"
      BY <3>3 DEF Current
    <3>5. QED
      BY <1>4, <3>4, StatStep DEF Passes
  <2>4. InFirstPass' <=> InFirstPass
    BY <2>1 DEF InFirstPass
  <2>5. ~ SecondPass
    BY <2>1, <1>3 DEF SecondPass
  <2>6. QED
    BY <1>1, <1>4, <2>1, <2>2, <2>3, <2>4, <2>5
<1>5. CASE SecondPass
  <2>1. idx' = idx /\ pass' = "peak" /\ pass = "main" /\ unread = 0 /\ avail < 2
    BY <1>5 DEF SecondPass, FileEnds
  <2>2. ~ InFirstPass' /\ stat'.main = stat.main
    BY <1>5, <2>1, StatStep DEF InFirstPass
  <2>3. InFirstPass => pos = Len(files[1]) /\ idx = 1
    <3>1. ASSUME idx = 1 PROVE p = n
      <4>1. v + 2 * p = 2 * n /\ v < 2
        BY <1>3, <2>1, <3>1
      <4>2. QED
        BY <4>1
    <3>2. QED
      BY <1>3, <3>1 DEF InFirstPass
  <2>4. CASE ProcRecord
    BY <1>4, <2>4
  <2>5. QED
    BY <1>1, <1>5, <2>2, <2>3, <2>4
<1>6. CASE ~ ProcRecord /\ ~ SecondPass
  <2>1. stat' = stat
    BY <1>6, StatStep
  <2>2. NextFile => ~ InFirstPass /\ ~ InFirstPass'
    <3>1. NextFile => pass = "peak" /\ idx' = idx + 1
      BY DEF NextFile
    <3>2. idx + 1 # 1
      BY <1>2
    <3>3. QED
      BY <3>1, <3>2 DEF InFirstPass
  <2>3. ~ NextFile => idx' = idx /\ pass' = pass /\ pos' = pos
    BY <1>6 DEF Next, Read, PrintMain, PrintPeak, Signal, SignalCrashes, vars, passVars
  <2>4. ~ NextFile => (InFirstPass' <=> InFirstPass)
    BY <2>3 DEF InFirstPass
  <2>5. QED
    BY <1>1, <1>6, <2>1, <2>2, <2>3, <2>4
<1>7. QED
  BY <1>4, <1>5, <1>6

\* In the first pass the statistician holds what is read.
LEMMA FirstHeldStep ==
  ASSUME Matched, Places, Books, FirstHeld, [Next]_vars
  PROVE  FirstHeld'
<1>1. SUFFICES ASSUME InFirstPass' PROVE Holds(stat.main, files[1], pos)'
  BY DEF FirstHeld
<1>2. InFirstPass /\ files' = files /\ files[1] \in File
  BY <1>1, FirstStep, FileOf
<1>3. Holds(stat.main, files[1], pos)
  BY <1>2 DEF FirstHeld
<1>4. CASE ProcRecord
  <2>1. /\ pos' = pos + 1 /\ pos \in 0..(Len(files[1]) - 1)
        /\ stat'.main = Updated(stat.main, files[1][pos + 1])
    BY <1>2, <1>4, FirstStep
  <2>2. PICK f, n, st :
          f \in File /\ f = files[1] /\ n = pos /\ n \in 0..(Len(f) - 1) /\ st = stat.main
    BY <1>2, <2>1
  <2>3. Holds(Updated(st, f[n + 1]), f, n + 1)
    BY <1>3, <2>2, HoldsUpdated
  <2>4. Holds(stat'.main, files'[1], pos')
    BY <1>2, <2>1, <2>2, <2>3
  <2>5. QED
    BY <2>4
<1>5. CASE ~ ProcRecord
  <2>1. pos' = pos /\ stat' = stat
    BY <1>1, <1>2, <1>5, FirstStep
  <2>2. Holds(stat'.main, files'[1], pos')
    BY <1>2, <1>3, <2>1
  <2>3. QED
    BY <2>2
<1>6. QED
  BY <1>4, <1>5

\* The first pass over a file whose pages are released as pages, and recorded
\* in 32-bit records: the profile is that of the blocks in use.
THEOREM SpecInUseIsLive == Matched => (Spec => []InUseIsLive)
<1> SUFFICES ASSUME Matched PROVE Spec => []InUseIsLive
  OBVIOUS
<1>1. Init => FirstHeld
  <2> SUFFICES ASSUME Init PROVE FirstHeld
    OBVIOUS
  <2>1. files[1] \in File /\ pos = 0 /\ stat.main = NoBlocks
    BY InitIs, FileOf
  <2>2. QED
    BY <2>1, NothingRead DEF FirstHeld
<1>2. IInv /\ FirstHeld /\ [Next]_vars => FirstHeld'
  BY FirstHeldStep DEF IInv
<1>3. IInv /\ FirstHeld => InUseIsLive
  <2> SUFFICES ASSUME IInv, FirstHeld, idx = 1, pass = "main"
               PROVE  IsProfile(stat.main, files[1], pos)
    BY DEF InUseIsLive
  <2>1. Places /\ Holds(stat.main, files[1], pos)
    BY DEF IInv, FirstHeld, InFirstPass
  <2>2. files[1] \in File /\ pos \in 0..Len(files[1])
    BY <2>1, FileOf, FirstPlace
  <2>3. PICK f, p, st :
          f \in File /\ f = files[1] /\ st = stat.main /\ p = pos /\ p \in 0..Len(f)
    BY <2>2
  <2>4. QED
    BY <2>1, <2>3, HoldsIsProfile
<1>4. QED
  BY <1>1, <1>2, <1>3, SpecIInv, PTL DEF Spec

\* With one file, the first statistician has all its allocations.
LEMMA FileCountedStep ==
  ASSUME FileNum = 1, Places, Books, FileCounted, [Next]_vars
  PROVE  FileCounted'
<1>1. files' = files /\ files[1] \in File /\ Len(files[1]) \in Nat
  BY FirstStep, FileOf, FirstPlace
<1>2. CASE InFirstPass /\ ProcRecord
  <2>1. /\ InFirstPass' /\ pos' = pos + 1 /\ pos \in 0..(Len(files[1]) - 1)
        /\ stat'.main = Updated(stat.main, files[1][pos + 1])
    BY <1>2, FirstStep
  <2>2. stat.main.allocs = Allocations(files[1], pos)
    BY <1>2 DEF FileCounted, FirstRead
  <2>3. PICK f, n, st :
          f \in File /\ f = files[1] /\ n = pos /\ n \in 0..(Len(f) - 1) /\ st = stat.main /\ Sound(st)
    BY <1>1, <2>1 DEF Books, Passes
  <2>4. f[n + 1] \in Op
    <3>1. n + 1 \in 1..Len(f)
      BY <1>1, <2>3
    <3>2. QED
      BY <2>3, <3>1, FileIs
  <2>5. Updated(st, f[n + 1]).allocs = st.allocs + (IF f[n + 1].free THEN 0 ELSE 1)
    BY <2>3, <2>4, SoundUpdated
  <2>6. Updated(st, f[n + 1]).allocs = Allocations(f, n + 1)
    BY <2>2, <2>3, <2>5, AllocationsStep
  <2>7. stat'.main.allocs = Allocations(files'[1], pos')
    BY <1>1, <2>1, <2>3, <2>6
  <2>8. QED
    BY <2>1, <2>7 DEF FileCounted, FirstRead
<1>3. CASE ~ (InFirstPass /\ ProcRecord)
  <2>1. stat'.main = stat.main
    BY <1>3, FirstStep
  <2>2. FirstRead' = FirstRead
    BY <1>1, <1>3, FirstStep DEF FirstRead
  <2>3. stat'.main.allocs = Allocations(files'[1], FirstRead')
    BY <1>1, <2>1, <2>2 DEF FileCounted
  <2>4. QED
    BY <2>3 DEF FileCounted
<1>4. QED
  BY <1>2, <1>3

\* With one file, every allocation of it is in the totals at the end, whether
\* the file is mapped or comes in pieces from a pipe, and whatever it lacks.
THEOREM SpecEveryFileCounted == FileNum = 1 => (Spec => []EveryFileCounted)
<1> SUFFICES ASSUME FileNum = 1 PROVE Spec => []EveryFileCounted
  OBVIOUS
<1>1. Init => FileCounted
  <2> SUFFICES ASSUME Init PROVE FileCounted
    OBVIOUS
  <2>1. /\ files[1] \in File /\ stat.main = NoBlocks /\ FirstRead = 0
    BY InitIs, FileOf DEF FirstRead, InFirstPass
  <2>2. NoBlocks.allocs = 0
    BY DEF NoBlocks
  <2>3. QED
    BY <2>1, <2>2, NothingRead DEF FileCounted
<1>2. IInv /\ FileCounted /\ [Next]_vars => FileCounted'
  BY FileCountedStep DEF IInv
<1>3. IInv /\ FileCounted => EveryFileCounted
  <2> SUFFICES ASSUME IInv, FileCounted, idx > FileNum
               PROVE  stat.main.allocs =
                        SumFunctionOnSet([i \in 1..FileNum |-> Allocations(files[i], Len(files[i]))],
                                         1..FileNum)
    BY DEF EveryFileCounted
  <2> DEFINE g == [i \in 1..FileNum |-> Allocations(files[i], Len(files[i]))]
  <2>1. files[1] \in File /\ Len(files[1]) \in Nat /\ idx # 1
    BY FileOf, FirstPlace DEF IInv
  <2>2. stat.main.allocs = Allocations(files[1], Len(files[1]))
    BY <2>1 DEF FileCounted, FirstRead, InFirstPass
  <2>3. 1..FileNum = {1} /\ 1 \in 1..FileNum
    OBVIOUS
  <2>4. g[1] = Allocations(files[1], Len(files[1])) /\ g[1] \in Nat
    BY <2>1, <2>3, AllocationsStep
  <2> HIDE DEF g
  <2>5. IsFiniteSet({1}) /\ {1} \ {1} = {} /\ \A i \in {1} : g[i] \in Int
    <3>1. IsFiniteSet({1})
      BY FS_Singleton
    <3>2. \A i \in {1} : g[i] \in Int
      BY <2>4
    <3>3. QED
      BY <3>1, <3>2
  <2>6. SumFunctionOnSet(g, {1}) = g[1] + SumFunctionOnSet(g, {1} \ {1})
    BY <2>5, SumRemove
  <2>7. SumFunctionOnSet(g, {}) = 0
    BY SumEmpty
  <2>8. SumFunctionOnSet(g, {1}) = g[1]
    BY <2>4, <2>5, <2>6, <2>7
  <2>9. stat.main.allocs = SumFunctionOnSet(g, 1..FileNum)
    BY <2>2, <2>3, <2>4, <2>8
  <2>10. QED
    BY <2>9 DEF g
<1>4. QED
  BY <1>1, <1>2, <1>3, SpecIInv, PTL DEF Spec

-----------------------------------------------------------------------------
(* The peak. *)

\* The sizes are not negative: a power of two is the number of subsets of a set.
LEMMA SizeNat ==
  \A r \in Op : MemBlockSize(r) \in Nat
<1>1. ASSUME NEW n \in Nat PROVE 2^n \in Nat
  <2>1. IsFiniteSet(1..n) /\ Cardinality(1..n) = n
    <3>1. /\ IsFiniteSet(1..n)
          /\ Cardinality(1..n) = IF 1 > n THEN 0 ELSE n - 1 + 1
      BY FS_Interval
    <3>2. QED
      BY <3>1
  <2>2. IsFiniteSet(SUBSET (1..n)) /\ Cardinality(SUBSET (1..n)) = 2^Cardinality(1..n)
    BY <2>1, FS_SUBSET
  <2>3. QED
    BY <2>1, <2>2, FS_CardinalityType
<1>2. PageSize \in Nat
  BY StatorAssumption
<1>3. \A k, m \in Nat : k * m \in Nat
  OBVIOUS
<1>4. \A n \in Nat : PageSize * 2^n \in Nat
  BY <1>1, <1>2, <1>3
<1>5. QED
  BY <1>4 DEF MemBlockSize, Op

\* After a release no more is in use.
LEMMA UseFalls ==
  ASSUME NEW f \in File, NEW n \in 0..(Len(f) - 1), f[n + 1].free
  PROVE  InUse(f, n + 1) <= InUse(f, n)
<1> DEFINE L == {i \in Live(f, n) : f[i].addr = f[n + 1].addr}
<1>1. /\ n \in 0..Len(f) /\ n + 1 \in 0..Len(f) /\ Live(f, n) \in SUBSET (1..Len(f))
      /\ Live(f, n) \in SUBSET (1..n) /\ n \in Nat
      /\ InUse(f, n) \in Int /\ InUse(f, n + 1) \in Int
  <2>1. n \in 0..Len(f) /\ n + 1 \in 0..Len(f) /\ n \in Nat
    <3>1. Len(f) \in Nat
      BY FileIs
    <3>2. QED
      BY <3>1
  <2>2. QED
    BY <2>1, LiveIs
<1>2. CASE L = {}
  <2>1. Live(f, n + 1) = Live(f, n)
    BY <1>2, LiveReleased
  <2>2. QED
    BY <1>1, <2>1 DEF InUse
<1>3. CASE L # {}
  <2> DEFINE D == {n - i : i \in L}
  <2>1. D \subseteq Nat /\ D # {} /\ \A i \in L : i \in Nat /\ i <= n
    BY <1>1, <1>3
  <2>2. PICK d \in D : \A e \in D : d <= e
    <3> HIDE DEF D
    <3>1. QED
      BY <2>1, LeastNumber
  <2>3. PICK m \in L : d = n - m
    BY <2>2
  <2>4. \A i \in L : i <= m
    <3>1. ASSUME NEW i \in L PROVE i <= m
      <4>1. n - m <= n - i
        BY <2>2, <2>3
      <4>2. QED
        BY <1>1, <2>1, <4>1
    <3>2. QED
      BY <3>1
  <2>5. Live(f, n + 1) = Live(f, n) \ {m}
    BY <2>4, LiveReleased
  <2>6. m \in Live(f, n) /\ m \in 1..Len(f)
    BY <1>1
  <2>7. MemBlockSize(f[m]) \in Nat
    BY <2>6, FileIs, SizeNat
  <2>8. InUse(f, n) = InUse(f, n + 1) + MemBlockSize(f[m])
    BY <1>1, <2>5, <2>6, TotalMore DEF InUse
  <2>9. PICK x \in Int, y \in Int, z \in Nat :
          x = InUse(f, n) /\ y = InUse(f, n + 1) /\ z = MemBlockSize(f[m])
    BY <1>1, <2>7
  <2>10. x = y + z
    BY <2>8, <2>9
  <2>11. y <= x
    BY <2>10
  <2>12. QED
    BY <2>9, <2>11
<1>4. QED
  BY <1>2, <1>3

\* The place of the peak is there.
LEMMA PeakIs ==
  ASSUME NEW f \in File, Fits(f)
  PROVE  /\ PeakAt(f) \in 0..Len(f) /\ PeakAt(f) \in Nat /\ Len(f) \in Nat
         /\ \A m \in 0..Len(f) : InUse(f, m) \in Nat /\ Wrapped(InUse(f, m)) = InUse(f, m)
         /\ \A m \in 0..Len(f) : InUse(f, m) <= InUse(f, PeakAt(f))
         /\ \A m \in 0..(PeakAt(f) - 1) : InUse(f, m) < InUse(f, PeakAt(f))
         /\ InUse(f, PeakAt(f)) > 0
<1> DEFINE U(m) == InUse(f, m)
           W == {Word - U(m) : m \in 0..Len(f)}
<1>1. Len(f) \in Nat /\ Word \in Nat /\ 0 \in 0..Len(f)
  <2>1. Len(f) \in Nat
    BY FileIs
  <2>2. QED
    BY <2>1, StatorAssumption
<1>2. \A m \in 0..Len(f) : U(m) \in 0..(Word - 1) /\ U(m) \in Nat /\ Wrapped(U(m)) = U(m)
  <2>1. \A m \in 0..Len(f) : U(m) \in 0..(Word - 1)
    BY DEF Fits
  <2> HIDE DEF U
  <2>2. \A x \in 0..(Word - 1) : x \in Nat /\ Wrapped(x) = x
    BY WrappedIs
  <2>3. QED
    BY <2>1, <2>2
<1> HIDE DEF U
<1>3. W \subseteq Nat /\ W # {}
  <2>1. \A m \in 0..Len(f) : Word - U(m) \in Nat
    BY <1>1, <1>2
  <2>2. QED
    BY <1>1, <2>1
<1>4. PICK w \in W : \A x \in W : w <= x
  <2> HIDE DEF W
  <2>1. QED
    BY <1>3, LeastNumber
<1>5. PICK k \in 0..Len(f) : w = Word - U(k)
  BY <1>4
<1>6. \A m \in 0..Len(f) : U(m) <= U(k)
  <2>1. ASSUME NEW m \in 0..Len(f) PROVE U(m) <= U(k)
    <3>1. Word - U(k) <= Word - U(m)
      BY <1>4, <1>5
    <3>2. U(m) \in Nat /\ U(k) \in Nat
      BY <1>2
    <3>3. QED
      BY <1>1, <3>1, <3>2
  <2>2. QED
    BY <2>1
<1> DEFINE M == {m \in 0..Len(f) : U(m) = U(k)}
<1>7. M \subseteq Nat /\ M # {}
  BY <1>1
<1>8. PICK p \in M : \A m \in M : p <= m
  <2> HIDE DEF M
  <2>1. QED
    BY <1>7, LeastNumber
<1>9. \A m \in 0..Len(f) : U(m) <= U(p)
  BY <1>6, <1>8
<1>10. \A m \in 0..(p - 1) : U(m) < U(p)
  <2>1. ASSUME NEW m \in 0..(p - 1) PROVE U(m) < U(p)
    <3>1. m \in 0..Len(f) /\ p \in Nat /\ m \in Nat /\ m < p
      BY <1>1, <1>8
    <3>2. m \notin M
      BY <1>8, <3>1
    <3>3. U(m) # U(p)
      BY <1>8, <3>1, <3>2
    <3>4. U(m) <= U(p) /\ U(m) \in Nat /\ U(p) \in Nat
      BY <1>2, <1>8, <1>9, <3>1
    <3>5. QED
      BY <3>3, <3>4
  <2>2. QED
    BY <2>1
<1>11. p \in 0..Len(f)
  BY <1>8
<1>12. /\ PeakAt(f) \in 0..Len(f)
       /\ \A m \in 0..Len(f) : InUse(f, m) <= InUse(f, PeakAt(f))
       /\ \A m \in 0..(PeakAt(f) - 1) : InUse(f, m) < InUse(f, PeakAt(f))
  BY <1>9, <1>10, <1>11 DEF PeakAt, U
<1>13. InUse(f, PeakAt(f)) # 0
  BY DEF Fits
<1>14. InUse(f, PeakAt(f)) \in Nat
  BY <1>2, <1>12 DEF U
<1>15. QED
  BY <1>1, <1>2, <1>12, <1>13, <1>14 DEF U

\* What a record does to the peak of a statistician that holds the file so far.
LEMMA PeakUpdated ==
  ASSUME Matched, NEW f \in File, Fits(f), NEW n \in 0..(Len(f) - 1),
         NEW st, Holds(st, f, n), st.peak \in Nat
  PROVE  LET u == Updated(st, f[n + 1])
         IN u.peak = IF InUse(f, n + 1) > st.peak /\ ~ f[n + 1].free
                       THEN InUse(f, n + 1) ELSE st.peak
<1> DEFINE u == Updated(st, f[n + 1])
<1>1. n + 1 \in 1..Len(f) /\ n + 1 \in 0..Len(f)
  <2>1. Len(f) \in Nat
    BY FileIs
  <2>2. QED
    BY <2>1
<1>2. f[n + 1] \in Op
  BY <1>1, FileIs
<1>3. Holds(u, f, n + 1)
  BY HoldsUpdated
<1>4. u.inUse = InUse(f, n + 1)
  <2>1. u.inUse = Wrapped(InUse(f, n + 1))
    BY <1>3 DEF Holds
  <2>2. QED
    BY <1>1, <2>1, PeakIs
<1>5. CASE ~ f[n + 1].free
  <2>1. u = Allocated(st, f[n + 1])
    BY <1>5 DEF Updated
  <2>2. st \in Statistician
    BY DEF Holds, Sound
  <2> HIDE DEF u
  <2>3. u.peak = IF u.inUse > st.peak THEN u.inUse ELSE st.peak
    BY <1>2, <2>1, <2>2, AllocatedIs
  <2>4. QED
    BY <1>4, <1>5, <2>3 DEF u
<1>6. CASE f[n + 1].free
  <2> DEFINE C == Cached(st, f[n + 1].addr)
             c == Newest(C)
  <2>1. u = IF C = {} THEN [st EXCEPT !.missed = @ + 1]
            ELSE Uncached(st, c, FreedSize(f[n + 1], c))
    BY <1>6 DEF Updated, Released
  <2>2. Sound(st)
    BY DEF Holds
  <2>3. [st EXCEPT !.missed = @ + 1].peak = st.peak
    BY <2>2, SoundMissed
  <2>4. \A b : Uncached(st, c, b).peak = st.peak
    BY DEF Uncached
  <2> HIDE DEF u, C, c
  <2>5. u.peak = st.peak
    BY <2>1, <2>3, <2>4
  <2>6. QED
    BY <1>6, <2>5 DEF u
<1>7. QED
  BY <1>5, <1>6

\* In the first pass.
LEMMA PeakedUpdated ==
  ASSUME Matched, NEW f \in File, Fits(f), NEW n \in 0..(Len(f) - 1),
         NEW st, Holds(st, f, n), Peaked(st, f, n)
  PROVE  Peaked(Updated(st, f[n + 1]), f, n + 1)
<1>1. PICK u : u = Updated(st, f[n + 1])
  OBVIOUS
<1>2. Len(f) \in Nat /\ n \in Nat /\ n + 1 \in 0..Len(f) /\ n \in 0..Len(f)
      /\ 0..(n + 1) = (0..n) \cup {n + 1} /\ 0..n \in SUBSET (0..Len(f))
  <2>1. Len(f) \in Nat
    BY FileIs
  <2>2. QED
    BY <2>1
<1>3. PICK x \in Nat, y \in Nat, z \in Nat :
        x = InUse(f, n + 1) /\ y = InUse(f, n) /\ z = st.peak
  BY <1>2, PeakIs DEF Peaked
<1>4. u.peak = IF x > z /\ ~ f[n + 1].free THEN x ELSE z
  BY <1>1, <1>3, PeakUpdated
<1>5. f[n + 1].free => x <= y
  BY <1>3, UseFalls
<1>6. \A m \in 0..n : InUse(f, m) \in Nat /\ InUse(f, m) <= z
  BY <1>2, <1>3, PeakIs DEF Peaked
<1>7. y <= z
  <2>1. n \in 0..n
    BY <1>2
  <2>2. QED
    BY <1>3, <1>6, <2>1
<1>8. PICK k \in 0..n : InUse(f, k) = z
  BY <1>3 DEF Peaked
<1>9. CASE x > z /\ ~ f[n + 1].free
  <2>1. u.peak = x
    BY <1>4, <1>9
  <2>2. \A m \in 0..n : InUse(f, m) <= x
    BY <1>3, <1>6, <1>9
  <2>3. x <= x
    OBVIOUS
  <2>4. QED
    BY <1>1, <1>2, <1>3, <2>1, <2>2, <2>3 DEF Peaked
<1>10. CASE ~ (x > z /\ ~ f[n + 1].free)
  <2>1. u.peak = z
    BY <1>4, <1>10
  <2>2. x <= z
    BY <1>5, <1>7, <1>10
  <2>3. QED
    BY <1>1, <1>2, <1>3, <1>6, <1>8, <2>1, <2>2 DEF Peaked
<1>11. QED
  BY <1>9, <1>10

\* After all of the file it is the peak.
LEMMA PeakedAll ==
  ASSUME NEW f \in File, Fits(f), NEW st, Peaked(st, f, Len(f))
  PROVE  st.peak = InUse(f, PeakAt(f))
<1>1. PICK x \in Nat, z \in Nat : x = InUse(f, PeakAt(f)) /\ z = st.peak
  BY PeakIs DEF Peaked
<1>2. x <= z
  BY <1>1, PeakIs DEF Peaked
<1>3. z <= x
  <2>1. PICK m \in 0..Len(f) : InUse(f, m) = z
    BY <1>1 DEF Peaked
  <2>2. QED
    BY <1>1, <2>1, PeakIs
<1>4. QED
  BY <1>1, <1>2, <1>3

\* Where following begins, and where it ends.
LEMMA FollowsFrom ==
  ASSUME NEW f \in File, Fits(f), NEW st, st.peak = InUse(f, PeakAt(f))
  PROVE  /\ Holds(st, f, 0) => Follows(st, f, 0)
         /\ Follows(st, f, Len(f)) => Holds(st, f, PeakAt(f))
<1>1. PICK p \in Nat, l \in Nat : p = PeakAt(f) /\ l = Len(f) /\ p <= l
  BY PeakIs
<1>2. Following(f, 0) = 0 /\ Following(f, l) = p
  BY <1>1 DEF Following
<1>3. QED
  BY <1>1, <1>2 DEF Follows

\* In the second pass.
LEMMA FollowsUpdated ==
  ASSUME Matched, NEW f \in File, Fits(f), NEW n \in 0..(Len(f) - 1),
         NEW st, Follows(st, f, n), peakMode
  PROVE  Follows(IntoStator(st, f[n + 1]), f, n + 1)
<1>1. PICK p \in Nat, l \in Nat : /\ p = PeakAt(f) /\ l = Len(f) /\ p <= l /\ n \in Nat
                                  /\ n + 1 \in 0..l /\ n \in 0..l /\ p \in 0..l
  <2>1. PeakAt(f) \in 0..Len(f) /\ PeakAt(f) \in Nat /\ Len(f) \in Nat
    BY PeakIs
  <2>2. QED
    BY <2>1
<1>2. PICK z \in Nat : z = InUse(f, p) /\ z > 0 /\ st.peak = z
  BY <1>1, PeakIs DEF Follows
<1>3. CASE n < p
  <2>1. Following(f, n) = n /\ Following(f, n + 1) = n + 1 /\ n \in 0..(p - 1)
    BY <1>1, <1>3 DEF Following
  <2>2. Holds(st, f, n)
    BY <2>1 DEF Follows
  <2>3. st.inUse = InUse(f, n) /\ InUse(f, n) < z /\ InUse(f, n) \in Nat
    <3>1. st.inUse = Wrapped(InUse(f, n))
      BY <2>2 DEF Holds
    <3>2. Wrapped(InUse(f, n)) = InUse(f, n) /\ InUse(f, n) \in Nat
      BY <1>1, PeakIs
    <3>3. InUse(f, n) < z
      BY <1>1, <1>2, <2>1, PeakIs
    <3>4. QED
      BY <3>1, <3>2, <3>3
  <2>4. st.inUse # st.peak
    BY <1>2, <2>3
  <2>5. PICK u : u = Updated(st, f[n + 1])
    OBVIOUS
  <2>6. IntoStator(st, f[n + 1]) = u
    BY <2>4, <2>5 DEF IntoStator
  <2>7. Holds(u, f, n + 1)
    BY <2>2, <2>5, HoldsUpdated
  <2>8. u.peak = IF InUse(f, n + 1) > st.peak /\ ~ f[n + 1].free
                   THEN InUse(f, n + 1) ELSE st.peak
    BY <1>2, <2>2, <2>5, PeakUpdated
  <2>9. PICK x \in Nat : x = InUse(f, n + 1) /\ x <= z
    BY <1>1, <1>2, PeakIs
  <2>10. u.peak = z
    <3>1. ~ (x > z)
      BY <2>9
    <3>2. QED
      BY <1>2, <2>8, <2>9, <3>1
  <2>11. QED
    BY <1>1, <1>2, <2>1, <2>6, <2>7, <2>10 DEF Follows
<1>4. CASE ~ (n < p)
  <2>1. Following(f, n) = p /\ Following(f, n + 1) = p
    <3>1. ~ (n + 1 < p)
      BY <1>1, <1>4
    <3>2. QED
      BY <1>1, <1>4, <3>1 DEF Following
  <2>2. Holds(st, f, p)
    BY <2>1 DEF Follows
  <2>3. st.inUse = z
    <3>1. st.inUse = Wrapped(InUse(f, p))
      BY <2>2 DEF Holds
    <3>2. QED
      BY <1>1, <1>2, <3>1, PeakIs
  <2>4. IntoStator(st, f[n + 1]) = st
    BY <1>2, <2>3 DEF IntoStator
  <2>5. QED
    BY <2>1, <2>4 DEF Follows
<1>5. QED
  BY <1>3, <1>4

-----------------------------------------------------------------------------
(* One file, both passes. *)

\* The first statistician holds what the first pass has read.
LEMMA FileHeldStep ==
  ASSUME Matched, FileNum = 1, Places, Books, FileHeld, [Next]_vars
  PROVE  FileHeld'
<1>1. files' = files /\ files[1] \in File /\ Len(files[1]) \in Nat
  BY FirstStep, FileOf, FirstPlace
<1>2. CASE InFirstPass /\ ProcRecord
  <2>1. /\ InFirstPass' /\ pos' = pos + 1 /\ pos \in 0..(Len(files[1]) - 1)
        /\ stat'.main = Updated(stat.main, files[1][pos + 1])
    BY <1>2, FirstStep
  <2>2. Holds(stat.main, files[1], pos)
    BY <1>2 DEF FileHeld, FirstRead
  <2>3. PICK f, n, st :
          f \in File /\ f = files[1] /\ n = pos /\ n \in 0..(Len(f) - 1) /\ st = stat.main
    BY <1>1, <2>1
  <2>4. Holds(Updated(st, f[n + 1]), f, n + 1)
    BY <2>2, <2>3, HoldsUpdated
  <2>5. Holds(stat'.main, files'[1], pos')
    BY <1>1, <2>1, <2>3, <2>4
  <2>6. QED
    BY <2>1, <2>5 DEF FileHeld, FirstRead
<1>3. CASE ~ (InFirstPass /\ ProcRecord)
  <2>1. stat'.main = stat.main
    BY <1>3, FirstStep
  <2>2. FirstRead' = FirstRead
    BY <1>1, <1>3, FirstStep DEF FirstRead
  <2>3. Holds(stat'.main, files'[1], FirstRead')
    BY <1>1, <2>1, <2>2 DEF FileHeld
  <2>4. QED
    BY <2>3 DEF FileHeld
<1>4. QED
  BY <1>2, <1>3

\* After the first pass a signal takes the first statistician as it is.
LEMMA SignalWholeStep ==
  ASSUME FileNum = 1, Places, Books, SignalWhole, [Next]_vars
  PROVE  SignalWhole'
<1>1. SUFFICES ASSUME ended' = "signal", ~ InFirstPass'
               PROVE  printed' = <<Profile("main", stat'.main)>>
  BY DEF SignalWhole
<1>2. CASE UNCHANGED vars
  <2>1. ~ InFirstPass /\ ended = "signal" /\ printed' = printed /\ stat' = stat
    BY <1>1, <1>2 DEF vars, endVars, InFirstPass
  <2>2. QED
    BY <2>1 DEF SignalWhole
<1>3. CASE Signal
  <2>1. ~ InFirstPass /\ stat' = stat
    BY <1>1, <1>3 DEF Signal, InFirstPass
  <2>2. ~ (Reading /\ Current = "main")
    <3>1. SUFFICES ASSUME Reading, Current = "main" PROVE FALSE
      OBVIOUS
    <3>2. idx = 1
      <4>1. idx <= 1 /\ idx \in Nat /\ idx # 0
        BY <3>1, FileOf DEF Reading
      <4>2. QED
        BY <4>1
    <3>3. pass = "peak" /\ peakMode
      BY <2>1, <3>2 DEF InFirstPass, Places, Passes
    <3>4. QED
      BY <3>1, <3>3 DEF Current
  <2>3. InHand = stat.main
    BY <2>2, InHandIs
  <2>4. PICK st : st = stat.main /\ st \in Statistician
    BY DEF Books, Passes, Sound
  <2>5. [st EXCEPT !.elmt = st.elmt] = st
    BY <2>4 DEF Statistician
  <2>6. printed' = <<[Profile("main", [st EXCEPT !.elmt = st.elmt]) EXCEPT !.whole = st = st]>>
    BY <1>3, <2>3, <2>4 DEF Signal
  <2>7. [Profile("main", st) EXCEPT !.whole = st = st] = Profile("main", st)
    <3>1. PICK b, c, z, l :
            /\ Profile("main", st) = [of |-> "main", whole |-> b, count |-> c, size |-> z, lines |-> l]
            /\ b = TRUE
      BY DEF Profile
    <3>2. [[of |-> "main", whole |-> b, count |-> c, size |-> z, lines |-> l] EXCEPT !.whole = b]
            = [of |-> "main", whole |-> b, count |-> c, size |-> z, lines |-> l]
      OBVIOUS
    <3>3. b = (st = st)
      BY <3>1
    <3>4. QED
      BY <3>1, <3>2, <3>3
  <2>8. QED
    BY <2>1, <2>4, <2>5, <2>6, <2>7
<1>4. CASE Next /\ ~ Signal
  <2>1. ended = "" /\ (ended' = ended \/ ended' \in {"exit", "crash"})
    BY <1>4 DEF Next, Read, ProcRecord, SecondPass, NextFile, PrintMain, PrintPeak, SignalCrashes,
                FileEnds, Reading, endVars
  <2>2. QED
    BY <1>1, <2>1
<1>5. QED
  BY <1>2, <1>3, <1>4

\* A signal that comes after the first pass prints all of what it has found.
THEOREM SpecSignalPrintsFirstPass ==
  Matched /\ FileNum = 1 => (Spec => []SignalPrintsFirstPass)
<1> SUFFICES ASSUME Matched, FileNum = 1 PROVE Spec => []SignalPrintsFirstPass
  OBVIOUS
<1>1. Init => FileHeld /\ SignalWhole
  <2> SUFFICES ASSUME Init PROVE FileHeld /\ SignalWhole
    OBVIOUS
  <2>1. files[1] \in File /\ FirstRead = 0 /\ stat.main = NoBlocks /\ ended = ""
    BY InitIs, FileOf DEF FirstRead, InFirstPass
  <2>2. QED
    BY <2>1, NothingRead DEF FileHeld, SignalWhole
<1>2. IInv /\ FileHeld /\ SignalWhole /\ [Next]_vars => FileHeld' /\ SignalWhole'
  BY FileHeldStep, SignalWholeStep DEF IInv
<1>3. IInv /\ FileHeld /\ SignalWhole => SignalPrintsFirstPass
  <2> SUFFICES ASSUME IInv, FileHeld, SignalWhole, ended = "signal", idx = 2 \/ pass = "peak"
               PROVE  LET n == Len(files[1]) IN
                      /\ printed[1].whole
                      /\ printed[1].count = Cardinality(Live(files[1], n))
                      /\ \A s \in DOMAIN printed[1].lines :
                           printed[1].lines[s].size = Wrapped(SizeInUse(files[1], n, s))
    BY DEF SignalPrintsFirstPass
  <2>1. ~ InFirstPass
    BY DEF InFirstPass
  <2>2. printed = <<Profile("main", stat.main)>> /\ Holds(stat.main, files[1], Len(files[1]))
    BY <2>1 DEF SignalWhole, FileHeld, FirstRead
  <2>3. PICK f, st, n : /\ f \in File /\ f = files[1] /\ st = stat.main
                       /\ n = Len(f) /\ n \in Nat /\ n \in 0..Len(f)
    <3>1. files[1] \in File /\ Len(files[1]) \in Nat
      BY FileOf, FirstPlace DEF IInv
    <3>2. Len(files[1]) \in 0..Len(files[1])
      BY <3>1
    <3>3. QED
      BY <3>1, <3>2
  <2>4. Holds(st, f, n) /\ IsProfile(st, f, n)
    BY <2>2, <2>3, HoldsIsProfile
  <2>5. PICK p : p = printed[1] /\ p = Profile("main", st)
    BY <2>2, <2>3, OneAndTwo
  <2>6. p.whole /\ p.count = st.count
    BY <2>5 DEF Profile
  <2>7. st.count = Cardinality(Live(f, n))
    BY <2>4 DEF IsProfile
  <2>8. \A s \in DOMAIN p.lines : s \in Stack /\ p.lines[s].size = st.elmt[s].inUse
    BY <2>5 DEF Profile
  <2>9. \A s \in DOMAIN p.lines : p.lines[s].size = Wrapped(SizeInUse(f, n, s))
    BY <2>4, <2>8 DEF IsProfile
  <2>10. QED
    BY <2>3, <2>5, <2>6, <2>7, <2>9
<1>4. QED
  BY <1>1, <1>2, <1>3, SpecIInv, PTL DEF Spec

\* The file ends where all of it is processed.
LEMMA FileEndsAll ==
  ASSUME FileNum = 1, Places, FileEnds
  PROVE  idx = 1 /\ pos = Len(files[1]) /\ pos \in Nat
<1>1. idx <= 1 /\ idx \in Nat /\ idx # 0 /\ unread = 0 /\ avail < 2
  BY FileOf DEF FileEnds, Reading
<1>2. idx = 1
  BY <1>1
<1>3. PICK u \in Nat, v \in Nat, p \in Nat, n \in Nat :
        /\ u = unread /\ v = avail /\ p = pos /\ n = Len(files[1])
        /\ u + v + 2 * p = 2 * n
  BY <1>2, FirstPlace
<1>4. 0 + v + 2 * p = 2 * n /\ v < 2
  BY <1>1, <1>3
<1>5. p = n
  BY <1>4
<1>6. QED
  BY <1>2, <1>3, <1>5

\* The second statistician is told the peak and follows the file up to it.
LEMMA PeakHeldStep ==
  ASSUME Matched, FileNum = 1, Places, Books, FileHeld, PeakHeld, [Next]_vars
  PROVE  PeakHeld'
<1>1. /\ files' = files /\ files[1] \in File /\ Len(files[1]) \in Nat
      /\ Books' /\ idx \in Nat /\ idx # 0 /\ pos \in Nat
  BY FirstStep, FileOf, FirstPlace, BooksStep
<1>2. PICK f, st, q : /\ f \in File /\ f = files[1] /\ st = stat.main /\ q = stat.peak
                     /\ Sound(st) /\ Sound(q)
  BY <1>1 DEF Books, Passes
<1>3. SUFFICES ASSUME Fits(f)
               PROVE  /\ Peaked(stat'.main, f, FirstRead')
                      /\ InFirstPass' => stat'.peak = NoBlocks
                      /\ pass' = "peak" => Follows(stat'.peak, f, pos')
                      /\ idx' = 2 => Holds(stat'.peak, f, PeakAt(f))
  BY <1>1, <1>2 DEF PeakHeld
<1>4. /\ Peaked(st, f, FirstRead) /\ Holds(st, f, FirstRead)
      /\ InFirstPass => q = NoBlocks
      /\ pass = "peak" => Follows(q, f, pos)
      /\ idx = 2 => Holds(q, f, PeakAt(f))
  BY <1>2, <1>3 DEF PeakHeld, FileHeld
<1>5. CASE InFirstPass /\ ProcRecord
  <2>1. /\ InFirstPass' /\ pos' = pos + 1 /\ pos \in 0..(Len(f) - 1)
        /\ stat'.main = Updated(st, f[pos + 1]) /\ stat'.peak = q
    BY <1>2, <1>5, FirstStep
  <2>2. FirstRead = pos /\ FirstRead' = pos + 1
    BY <1>5, <2>1 DEF FirstRead
  <2>3. Peaked(st, f, pos) /\ Holds(st, f, pos)
    BY <1>4, <2>2
  <2>4. PICK n : n = pos /\ n \in 0..(Len(f) - 1)
    BY <2>1
  <2>5. Peaked(Updated(st, f[n + 1]), f, n + 1)
    BY <1>2, <1>3, <2>3, <2>4, PeakedUpdated
  <2>6. idx' # 2 /\ pass' # "peak"
    BY <2>1 DEF InFirstPass
  <2>7. QED
    BY <1>4, <1>5, <2>1, <2>2, <2>4, <2>5, <2>6
<1>6. CASE SecondPass
  <2>1. /\ idx = 1 /\ pos = Len(f) /\ InFirstPass /\ idx' = 1 /\ pass' = "peak" /\ pos' = 0
    BY <1>2, <1>6, FileEndsAll DEF SecondPass, InFirstPass
  <2>2. stat'.main = st /\ stat'.peak = [NoBlocks EXCEPT !.peak = st.peak]
    BY <1>2, <1>4, <1>6, <2>1, StatStep
  <2>3. FirstRead = Len(f) /\ FirstRead' = Len(f) /\ ~ InFirstPass'
    BY <1>1, <1>2, <2>1 DEF FirstRead, InFirstPass
  <2>4. st.peak = InUse(f, PeakAt(f))
    BY <1>2, <1>3, <1>4, <2>3, PeakedAll
  <2>5. PICK u : u = [NoBlocks EXCEPT !.peak = st.peak]
    OBVIOUS
  <2>6. Holds(u, f, 0) /\ u.peak = st.peak
    <3>1. st.peak \in 0..(Word - 1)
      BY <1>2 DEF Sound, Statistician
    <3>2. /\ Sound(u) /\ u.elmt = NoBlocks.elmt /\ u.cache = NoBlocks.cache
          /\ u.allocs = NoBlocks.allocs /\ u.inUse = NoBlocks.inUse /\ u.peak = st.peak
      BY <2>5, <3>1, SoundNoBlocks, SoundPeak
    <3>3. Holds(NoBlocks, f, 0)
      BY <1>2, NothingRead
    <3>4. QED
      BY <3>2, <3>3 DEF Holds
  <2>7. Follows(u, f, 0)
    BY <1>2, <1>3, <2>4, <2>6, FollowsFrom
  <2>8. QED
    BY <1>4, <2>1, <2>2, <2>3, <2>5, <2>7
<1>7. CASE ~ InFirstPass /\ ProcRecord
  <2>1. idx = 1 /\ pass = "peak" /\ peakMode
    <3>1. idx <= 1
      BY <1>7 DEF ProcRecord, Reading
    <3>2. idx = 1
      BY <1>1, <3>1
    <3>3. QED
      BY <1>7, <3>2 DEF InFirstPass, Places, Passes
  <2>2. Current = "peak"
    BY <2>1 DEF Current
  <2>3. /\ stat'.main = st /\ stat'.peak = IntoStator(q, f[pos + 1])
        /\ pos \in 0..(Len(f) - 1) /\ pos' = pos + 1 /\ idx' = 1 /\ pass' = "peak"
    <3>1. stat'.main = st /\ stat'.peak = IntoStator(q, f[pos + 1])
      BY <1>2, <1>7, <2>1, <2>2, StatStep DEF Passes
    <3>2. pos \in 0..(Len(f) - 1)
      BY <1>2, <1>7, <2>1, RecordAtHand DEF ProcRecord
    <3>3. QED
      BY <1>7, <2>1, <3>1, <3>2 DEF ProcRecord
  <2>4. PICK n : n = pos /\ n \in 0..(Len(f) - 1)
    BY <2>3
  <2>5. Follows(IntoStator(q, f[n + 1]), f, n + 1)
    BY <1>2, <1>3, <1>4, <2>1, <2>4, FollowsUpdated
  <2>6. ~ InFirstPass' /\ FirstRead' = FirstRead
    BY <1>1, <1>7, <2>3 DEF InFirstPass, FirstRead
  <2>7. QED
    BY <1>4, <2>3, <2>4, <2>5, <2>6
<1>8. CASE NextFile
  <2>1. /\ pos = Len(f) /\ pass = "peak" /\ idx' = 2 /\ pass' = "main" /\ stat' = stat
    BY <1>2, <1>8, FileEndsAll DEF NextFile
  <2>2. ~ InFirstPass /\ ~ InFirstPass' /\ FirstRead' = FirstRead
    BY <1>1, <2>1 DEF InFirstPass, FirstRead
  <2>3. Follows(q, f, Len(f))
    BY <1>4, <2>1
  <2>4. Holds(q, f, PeakAt(f))
    BY <1>2, <1>3, <2>3, FollowsFrom DEF Follows
  <2>5. QED
    BY <1>2, <1>4, <2>1, <2>2, <2>4
<1>9. CASE Read \/ PrintMain \/ PrintPeak \/ Signal \/ SignalCrashes \/ UNCHANGED vars
  <2>1. stat' = stat /\ idx' = idx /\ pass' = pass /\ pos' = pos
    BY <1>9 DEF Read, PrintMain, PrintPeak, Signal, SignalCrashes, vars, passVars
  <2>2. (InFirstPass' <=> InFirstPass) /\ FirstRead' = FirstRead
    BY <1>1, <2>1 DEF InFirstPass, FirstRead
  <2>3. QED
    BY <1>2, <1>4, <2>1, <2>2
<1>10. QED
  BY <1>5, <1>6, <1>7, <1>8, <1>9 DEF Next

\* At the end the second profile is that of the blocks in use where the most is.
THEOREM SpecPeakIsTheProfile ==
  Matched /\ FileNum = 1 => (Spec => []PeakIsTheProfile)
<1> SUFFICES ASSUME Matched, FileNum = 1 PROVE Spec => []PeakIsTheProfile
  OBVIOUS
<1>1. Init => FileHeld /\ PeakHeld
  <2> SUFFICES ASSUME Init PROVE FileHeld /\ PeakHeld
    OBVIOUS
  <2>1. /\ files[1] \in File /\ FirstRead = 0 /\ stat.main = NoBlocks /\ stat.peak = NoBlocks
        /\ pass = "main" /\ idx = 1
    BY InitIs, FileOf DEF FirstRead, InFirstPass
  <2>2. NoBlocks.peak = 0 /\ InUse(files[1], 0) = 0
    BY <2>1, NothingRead DEF NoBlocks
  <2>3. Peaked(NoBlocks, files[1], 0)
    <3>1. \A m \in 0..0 : InUse(files[1], m) = 0
      BY <2>2
    <3>2. 0 \in 0..0 /\ 0 <= 0 /\ 0 \in Nat
      OBVIOUS
    <3>3. QED
      BY <2>2, <3>1, <3>2 DEF Peaked
  <2>4. FileHeld
    BY <2>1, NothingRead DEF FileHeld
  <2>5. PeakHeld
    BY <2>1, <2>3 DEF PeakHeld
  <2>6. QED
    BY <2>4, <2>5
<1>2. IInv /\ FileHeld /\ PeakHeld /\ [Next]_vars => FileHeld' /\ PeakHeld'
  BY FileHeldStep, PeakHeldStep DEF IInv
<1>3. IInv /\ PeakHeld => PeakIsTheProfile
  <2> SUFFICES ASSUME IInv, PeakHeld, idx = 2, Fits(files[1])
               PROVE  IsProfile(stat.peak, files[1], PeakAt(files[1]))
    BY DEF PeakIsTheProfile, Fits
  <2>1. files[1] \in File
    BY FileOf DEF IInv
  <2>2. PICK f, q : f \in File /\ f = files[1] /\ q = stat.peak
    BY <2>1
  <2>3. Holds(q, f, PeakAt(f)) /\ PeakAt(f) \in 0..Len(f)
    BY <2>2, PeakIs DEF PeakHeld
  <2>4. IsProfile(q, f, PeakAt(f))
    BY <2>2, <2>3, HoldsIsProfile
  <2>5. QED
    BY <2>2, <2>4
<1>4. QED
  BY <1>1, <1>2, <1>3, SpecIInv, PTL DEF Spec
=============================================================================
