--------------------------- MODULE RecvTcpProofs ---------------------------
(***************************************************************************)
(* Proofs about the TCP receiver of RecvTcp, for any connections, streams, *)
(* cuts and either build.                                                  *)
(***************************************************************************)
EXTENDS RecvTcp, Induction, SequenceTheorems, TLAPS

-----------------------------------------------------------------------------
(* The inductive invariant. *)

Chunk  == [of : Conn, first : Nat, len : 0..BufLen]
Writer == [pid : {Pid[c] : c \in Conn}, idle : 0..2, file : Nat]
Entry  == [of : Conn, rec : Nat, file : Nat]

\* What a process has written, and to which files.
Outs == {w \in [writers : SUBSET Writer, out : Seq(Entry), files : Nat] :
           \A x \in w.writers : x.file \in 1..w.files}

Records(k) == k.first..(k.first + Whole(k) - 1)

\* Those of them that are d's.
RecordsOf(k, d) == IF d = k.of THEN Records(k) ELSE {}

\* A chunk is a run of records of its stream and perhaps a part of the next.
InStream(k) ==
  /\ k \in Chunk
  /\ k.first <= Len(stream[k.of])
  /\ k.first = 0 => k.len = 0
  /\ k.first + Whole(k) - 1 <= Len(stream[k.of])

\* A chunk lies inside what was read of a stream of the process p.
Fits(k, p) ==
  /\ InStream(k)
  /\ Proc(k.of) = p
  /\ k.first + Whole(k) - 1 <= got[k.of] \div RecLen

Sets ==
  /\ port \in Ports
  /\ stream \in [Conn -> Seq(Nat \ {0})]
  /\ accepted \subseteq Conn /\ closed \subseteq accepted /\ silent \subseteq accepted \ closed
  /\ got \in [Conn -> Nat]
  /\ \A c \in Conn : got[c] <= RecLen * Len(stream[c])
  /\ ticks \in Nat

Loops ==
  /\ buf \in [Conn -> Chunk] /\ left \in [Conn -> 0..(RecLen - 1)]
  /\ \A c \in Conn : Fits(buf[c], Proc(c))
  /\ \A c \in Conn : left[c] = Part(buf[c])
  /\ \A c \in Conn : OnTrack(c) => left[c] = got[c] % RecLen

Processes ==
  /\ expect \in [Procs -> Nat] /\ forward \in [Procs -> BOOLEAN] /\ again \in [Procs -> BOOLEAN]
  /\ astray \in [Procs -> {"", "overrun", "short", "part", "stale"}]
  /\ rord = [p \in Procs |-> rord[p]]
  /\ \A p \in Procs : forward[p] => /\ Fits(rord[p], p)
                                    /\ rord[p].first > 0 /\ Part(rord[p]) = 0

Outputs ==
  /\ DOMAIN writers = Procs /\ DOMAIN out = Procs /\ DOMAIN files = Procs
  /\ \A p \in Procs : Out(p) \in Outs

In(i, S) == IF i \in S THEN 1 ELSE 0

\* How often a record was output or is kept.
Held(c, i) == Times(c, i) + In(i, Kept(c))

\* Every record that was read is output or kept.
Accounted ==
  \A c \in Conn : OnTrack(c) =>
    \A i \in Nat : IF again[Proc(c)] THEN i \in Received(c) => Held(c, i) >= 1
                   ELSE Held(c, i) = In(i, Received(c))

IInv == Sets /\ Loops /\ Processes /\ Outputs /\ Accounted

\* A connection that is alone in its process, or will be once accepted.
AloneYet(c) == port = "linux" \/ accepted \subseteq {c}

\* How many records of a connection that is alone are in its file.
Written(c) == IF forward[Proc(c)] THEN rord[Proc(c)].first - 1 ELSE got[c] \div RecLen

First(c, n) == [i \in 1..n |-> [of |-> c, rec |-> i, file |-> 1]]

\* The file is the first one, and while there may be more to output its
\* writer was written to lately.
OneFile(c) ==
  LET p == Proc(c) IN
  /\ out[p] = First(c, Written(c))
  /\ files[p] = (IF Written(c) = 0 THEN 0 ELSE 1)
  /\ Written(c) = 0 => writers[p] = {}
  /\ Written(c) > 0 /\ c \notin silent /\ (c \notin closed \/ forward[p]) =>
       writers[p] = {[pid |-> Pid[c], idle |-> 0, file |-> 1]}

\* What is kept is what the buffer holds, and is given up by the next pass.
KeptIsLast(c) ==
  LET p == Proc(c) IN
  IF forward[p]
    THEN /\ rord[p].of = c /\ buf[c] = rord[p] /\ left[c] = 0
         /\ Whole(rord[p]) > 0
         /\ rord[p].first + Whole(rord[p]) - 1 = got[c] \div RecLen
         /\ 0 < expect[p] /\ expect[p] < Seq1(rord[p])
    ELSE buf[c].of = c /\ (expect[p] # 0 => Seq1(buf[c]) < expect[p])

Quiet(c) ==
  /\ c \notin closed /\ buf[c].len = 0 => got[c] = 0
  /\ c \notin accepted => Written(c) = 0

Straight ==
  \A c \in Conn : OnTrack(c) /\ AloneYet(c) /\ InOrder(c) /\ ~again[Proc(c)] =>
    OneFile(c) /\ KeptIsLast(c) /\ Quiet(c)

-----------------------------------------------------------------------------
(* Units and records. *)

\* A number is cut into whole parts of length L and a rest.
LEMMA Parts ==
  ASSUME NEW n \in Nat, NEW L \in Nat \ {0}
  PROVE  /\ n \div L \in Nat /\ n % L \in 0..(L - 1)
         /\ n = L * (n \div L) + (n % L)
  OBVIOUS

\* ... in one way.
LEMMA PartsOnce ==
  ASSUME NEW n \in Nat, NEW L \in Nat \ {0}, NEW q \in Nat, NEW r \in 0..(L-1), n = L * q + r
  PROVE n \div L = q /\ n % L = r
<1>1. PICK d, e : d = n \div L /\ e = n % L
  OBVIOUS
<1>2. d \in Int /\ e \in 0..(L-1) /\ n = L * d + e
  BY <1>1
<1>3. L * (d - q) = r - e
  BY <1>2
<1>4. d - q >= 1 => L * (d - q) >= L
  BY <1>2
<1>5. d - q <= -1 => L * (d - q) <= -L
  BY <1>2
<1>6. d = q
  BY <1>2, <1>3, <1>4, <1>5
<1>7. QED
  BY <1>1, <1>2, <1>6

\* What is read after a rest makes up whole parts with it.
LEMMA PartsAdd ==
  ASSUME NEW g \in Nat, NEW n \in Nat, NEW L \in Nat \ {0}
  PROVE  /\ (g + n) \div L = (g \div L) + (((g % L) + n) \div L)
         /\ (g + n) % L = ((g % L) + n) % L
<1> DEFINE m == (g % L) + n
<1>1. PICK a \in Nat, b \in Nat : a = g \div L /\ b = g % L /\ g = L * a + b
  BY Parts
<1>2. m \in Nat /\ m = b + n
  BY <1>1
<1>m. m = (g % L) + n
  OBVIOUS
<1> HIDE DEF m
<1>3. PICK c \in Nat, d \in 0..(L - 1) : c = m \div L /\ d = m % L /\ m = L * c + d
  BY <1>2, Parts
<1>4. g + n = L * (a + c) + d
  <2>1. L * (a + c) = L * a + L * c /\ L * a \in Nat /\ L * c \in Nat
    OBVIOUS
  <2> DEFINE x == L * a  y == L * c  z == L * (a + c)
  <2>2. g = x + b /\ b + n = y + d /\ z = x + y /\ x \in Nat /\ y \in Nat
    BY <1>1, <1>2, <1>3, <2>1
  <2> HIDE DEF x, y, z
  <2>3. g + n = z + d
    BY <2>2
  <2>4. QED
    BY <2>3 DEF z
<1>5. a + c \in Nat /\ g + n \in Nat
  OBVIOUS
<1>6. (g + n) \div L = a + c /\ (g + n) % L = d
  <2> DEFINE s == g + n  q == a + c
  <2>1. s \in Nat /\ q \in Nat /\ s = L * q + d
    BY <1>4, <1>5
  <2> HIDE DEF s, q
  <2>2. s \div L = q /\ s % L = d
    BY <2>1, PartsOnce
  <2>3. QED
    BY <2>2 DEF s, q
<1>7. QED
  BY <1>m, <1>1, <1>3, <1>6

\* More has no fewer whole parts.
LEMMA PartsMore ==
  ASSUME NEW g \in Nat, NEW h \in Nat, g <= h, NEW L \in Nat \ {0}
  PROVE  g \div L \in Nat /\ h \div L \in Nat /\ g \div L <= h \div L
<1>1. PICK a \in Nat, b \in 0..(L - 1) : a = g \div L /\ g = L * a + b
  BY Parts
<1>2. PICK c \in Nat, d \in 0..(L - 1) : c = h \div L /\ h = L * c + d
  BY Parts
<1>3. ASSUME c < a PROVE FALSE
  <2>1. L * (a - c) = L * a - L * c /\ L * (a - c) >= L
    BY <1>3
  <2>2. QED
    BY <1>1, <1>2, <2>1
<1>4. QED
  BY <1>1, <1>2, <1>3

\* Inside N parts, a rest belongs to one of them.
LEMMA PartsInside ==
  ASSUME NEW g \in Nat, NEW L \in Nat \ {0}, NEW N \in Nat, g <= L * N
  PROVE  /\ g \div L <= N
         /\ g < L * N => g \div L < N
         /\ g % L # 0 => g \div L < N
<1>1. PICK d, e : d = g \div L /\ e = g % L
  OBVIOUS
<1>2. d \in Nat /\ e \in 0..(L-1) /\ g = L * d + e
  BY <1>1, Parts
<1>3. ASSUME d >= N PROVE L * d = L * N + L * (d - N) /\ L * (d - N) >= 0 /\ L * N \in Nat
  BY <1>2, <1>3
<1>4. ASSUME d > N PROVE  L * (d - N) >= L
  BY <1>2, <1>4
<1>5. L * d \in Nat
  BY <1>2
<1>6. d <= N /\ (g < L * N => d < N) /\ (e # 0 => d < N)
  BY <1>2, <1>3, <1>4, <1>5
<1>7. QED
  BY <1>1, <1>6
-----------------------------------------------------------------------------
(* Chunks and what is output of them. *)

\* What is known of a chunk.
LEMMA ChunkFacts ==
  ASSUME stream \in [Conn -> Seq(Nat \ {0})], NEW k, InStream(k)
  PROVE  /\ k = [of |-> k.of, first |-> k.first, len |-> k.len]
         /\ k.of \in Conn /\ k.first \in Nat /\ k.len \in 0..BufLen
         /\ Whole(k) \in Nat /\ Part(k) \in 0..(RecLen - 1)
         /\ k.len = RecLen * Whole(k) + Part(k)
         /\ Whole(k) > 0 => k.first > 0
         /\ Seq1(k) \in Nat /\ Tail1(k) \in Nat
         /\ Seq1(k) > 0 <=> k.first > 0
         /\ \A i \in 1..Whole(k) : /\ k.first + i - 1 \in 1..Len(stream[k.of])
                                  /\ stream[k.of][k.first + i - 1] \in Nat \ {0}
<1>1. /\ k.of \in Conn /\ k.first \in Nat /\ k.len \in 0..BufLen
      /\ k = [of |-> k.of, first |-> k.first, len |-> k.len]
  BY DEF InStream, Chunk
<1>2. k.len \in Nat /\ RecLen \in Nat \ {0}
  BY <1>1, RecvTcpAssumption
<1>3. /\ Whole(k) \in Nat /\ Part(k) \in 0..(RecLen - 1)
      /\ k.len = RecLen * Whole(k) + Part(k)
  BY <1>2, Parts DEF Whole, Part
<1>4. Whole(k) > 0 => k.len > 0
  <2>1. SUFFICES ASSUME k.len = 0 PROVE Whole(k) = 0
    BY <1>2, <1>3
  <2>2. 0 = RecLen * 0 + 0 /\ 0 \in 0..(RecLen - 1)
    BY <1>2
  <2>3. QED
    BY <1>2, <2>1, <2>2, PartsOnce DEF Whole
<1>5. Whole(k) > 0 => k.first > 0
  BY <1>1, <1>4 DEF InStream
<1> DEFINE q == stream[k.of]
<1>6. q \in Seq(Nat \ {0}) /\ k.first <= Len(q) /\ k.first + Whole(k) - 1 <= Len(q)
  BY <1>1 DEF InStream
<1> HIDE DEF q
<1>7. \A j \in 1..Len(q) : q[j] \in Nat \ {0}
  BY <1>6
<1>8. Len(q) \in Nat
  BY <1>6
<1>9. \A i \in 1..Whole(k) : k.first + i - 1 \in 1..Len(q)
  <2>1. PICK a \in Nat, w \in Nat, l \in Nat :
          /\ a = k.first /\ w = Whole(k) /\ l = Len(q)
          /\ w > 0 => a > 0 /\ a + w - 1 <= l
    BY <1>1, <1>3, <1>5, <1>6, <1>8
  <2>2. \A i \in 1..w : a + i - 1 \in 1..l
    BY <2>1
  <2>3. QED
    BY <2>1, <2>2
<1>10. \A i \in 1..Whole(k) : q[k.first + i - 1] \in Nat \ {0}
  BY <1>7, <1>9
<1>11. Seq1(k) \in Nat /\ (Seq1(k) > 0 <=> k.first > 0)
  <2>1. CASE k.first = 0
    BY <2>1 DEF Seq1
  <2>2. CASE k.first > 0
    <3>1. k.first \in 1..Len(q)
      BY <1>1, <1>6, <1>8, <2>2
    <3>2. Seq1(k) = q[k.first]
      BY <2>2 DEF Seq1, q
    <3>3. QED
      BY <1>7, <2>2, <3>1, <3>2
  <2>3. QED
    BY <1>1, <2>1, <2>2
<1>12. Tail1(k) \in Nat
  <2>1. CASE Whole(k) = 0
    BY <1>11, <2>1 DEF Tail1
  <2>2. CASE Whole(k) > 0
    <3>1. Tail1(k) = q[k.first + Whole(k) - 1]
      BY <2>2 DEF Tail1, q
    <3>2. QED
      BY <1>3, <1>10, <2>2, <3>1
  <2>3. QED
    BY <1>3, <2>1, <2>2
<1>13. QED
  BY <1>1, <1>3, <1>5, <1>9, <1>10, <1>11, <1>12 DEF q

\* An output is a record with these parts.
LEMMA OutsParts ==
  ASSUME NEW w \in Outs
  PROVE  /\ w = [writers |-> w.writers, out |-> w.out, files |-> w.files]
         /\ w.writers \in SUBSET Writer /\ w.out \in Seq(Entry) /\ w.files \in Nat
         /\ \A x \in w.writers : x.file \in 1..w.files
BY DEF Outs

\* Closing files leaves an output with what is in it.
LEMMA ClosedOuts ==
  ASSUME NEW w \in Outs
  PROVE  Closed(w) \in Outs /\ Closed(w).out = w.out
<1> DEFINE ws == {x \in w.writers : x.idle < 2}
<1>1. Closed(w) = [w EXCEPT !.writers = ws]
  BY DEF Closed
<1>2. ws \subseteq w.writers
  OBVIOUS
<1> HIDE DEF ws
<1>3. Closed(w) = [writers |-> ws, out |-> w.out, files |-> w.files]
  BY <1>1, OutsParts
<1>4. QED
  BY <1>2, <1>3, OutsParts DEF Outs

\* What a record becomes in the output.
Adds1(w, r, v) ==
  /\ v \in Outs
  /\ \E e \in Entry : e.of = r.of /\ e.rec = r.rec /\ v.out = Append(w.out, e)

\* Where a record is put, it is the last one.
LEMMA PutAdds ==
  ASSUME NEW w \in Outs, NEW r, r.of \in Conn, r.rec \in Nat, NEW file \in Nat
  PROVE  Adds1(w, r, Put(w, r, file))
<1> DEFINE e == [of |-> r.of, rec |-> r.rec, file |-> file]
           o == Append(w.out, e)
<1>1. e \in Entry /\ e.of = r.of /\ e.rec = r.rec
  BY DEF Entry
<1>2. Put(w, r, file) = [w EXCEPT !.out = o]
  BY DEF Put
<1>e. o = Append(w.out, e)
  OBVIOUS
<1> HIDE DEF e, o
<1>3. Put(w, r, file) = [writers |-> w.writers, out |-> o, files |-> w.files]
  BY <1>2, OutsParts
<1>4. o \in Seq(Entry)
  BY <1>1, <1>e, OutsParts
<1>5. Put(w, r, file) \in Outs
  BY <1>3, <1>4, OutsParts DEF Outs
<1>6. QED
  BY <1>1, <1>e, <1>3, <1>5 DEF Adds1

\* A new file has a writer of its own.
LEMMA CreateOuts ==
  ASSUME NEW w \in Outs, NEW pid \in {Pid[c] : c \in Conn}
  PROVE  LET v == Create(w, pid)
         IN /\ v \in Outs /\ v.out = w.out /\ v.files = w.files + 1
            /\ v.writers = w.writers \cup {[pid |-> pid, idle |-> 0, file |-> w.files + 1]}
<1> DEFINE x == [pid |-> pid, idle |-> 0, file |-> w.files + 1]
           ws == w.writers \cup {x}
           n == w.files + 1
           v == Create(w, pid)
<1>1. v = [w EXCEPT !.files = n, !.writers = ws]
  BY DEF Create
<1>2. w.files \in Nat /\ n \in Nat /\ n = w.files + 1 /\ x \in Writer /\ x.file = n
  BY OutsParts DEF Writer
<1>3. ws \in SUBSET Writer
  BY <1>2, OutsParts
<1>4. \A y \in ws : y.file \in 1..n
  <2>1. \A y \in w.writers : y.file \in 1..w.files
    BY OutsParts
  <2>2. ASSUME NEW y \in ws PROVE y.file \in 1..n
    <3>1. CASE y \in w.writers
      BY <1>2, <2>1, <3>1
    <3>2. CASE y = x
      BY <1>2, <3>2
    <3>3. QED
      BY <3>1, <3>2
  <2>3. QED
    BY <2>2
<1> HIDE DEF n, v
<1>5. v = [writers |-> ws, out |-> w.out, files |-> n]
  <2> HIDE DEF ws, x
  <2>1. w = [writers |-> w.writers, out |-> w.out, files |-> w.files]
    BY OutsParts
  <2>2. QED
    BY <1>1, <2>1
<1>6. v \in Outs
  BY <1>2, <1>3, <1>4, <1>5, OutsParts DEF Outs
<1>7. QED
  BY <1>2, <1>5, <1>6 DEF v

\* Every record that is output is added at the end.
LEMMA RecordAdded ==
  ASSUME NEW w \in Outs, NEW r, r.of \in Conn, r.rec \in Nat
  PROVE  Adds1(w, r, OutputRecord(w, r))
<1> DEFINE found == Found(w, Pid[r.of])
           new == Create(w, Pid[r.of])
<1>1. CASE r.seq \in CapSeq /\ (r.seq = 1 \/ found = {})
  <2>1. OutputRecord(w, r) = Put(new, r, new.files)
    BY <1>1 DEF OutputRecord
  <2>2. new \in Outs /\ new.out = w.out /\ new.files \in Nat
    BY CreateOuts, OutsParts
  <2> HIDE DEF new
  <2>3. Adds1(new, r, Put(new, r, new.files))
    BY <2>2, PutAdds
  <2>4. QED
    BY <2>1, <2>2, <2>3 DEF Adds1
<1>2. CASE ~(r.seq \in CapSeq /\ (r.seq = 1 \/ found = {})) /\ found = {}
  <2>1. OutputRecord(w, r) = Put(w, r, DevNull)
    BY <1>2 DEF OutputRecord
  <2>2. QED
    BY <2>1, PutAdds DEF DevNull
<1>3. CASE ~(r.seq \in CapSeq /\ (r.seq = 1 \/ found = {})) /\ found # {}
  <2> DEFINE x == CHOOSE y \in found : TRUE
  <2>1. OutputRecord(w, r) = Put(w, r, x.file)
    BY <1>3 DEF OutputRecord
  <2>2. x \in found
    BY <1>3
  <2>3. x.file \in Nat
    BY <2>2, OutsParts DEF Found, Writer
  <2> HIDE DEF x
  <2>4. QED
    BY <2>1, <2>3, PutAdds
<1>4. QED
  BY <1>1, <1>2, <1>3

\* What an output has become after n records of a chunk.
Grown(w, k, n) ==
  {v \in Outs : /\ Len(v.out) = Len(w.out) + n
                /\ \A j \in 1..Len(w.out) : v.out[j] = w.out[j]
                /\ \A j \in 1..n : /\ v.out[Len(w.out) + j].of = k.of
                                   /\ v.out[Len(w.out) + j].rec = k.first + j - 1}

\* What the output of records keeps, turn after turn, it keeps.
LEMMA OutputKeeps ==
  ASSUME NEW w, NEW s, Len(s) \in Nat, NEW T, w \in T[0],
         \A i \in 1..Len(s) : \A v \in T[i - 1] : OutputRecord(v, s[i]) \in T[i]
  PROVE  Output!Over(w, s) \in T[Len(s)]
<1> DEFINE n == Len(s)
           G == [i \in 1..n |-> [v \in T[i - 1] |-> OutputRecord(v, s[i])]]
           k == Output!After(w, s)
<1>1. \A i \in 1..n : \A v \in T[i - 1] : G[i][v] = OutputRecord(v, s[i]) /\ G[i][v] \in T[i]
  OBVIOUS
<1> HIDE DEF G, n
<1>2. n \in Nat
  BY DEF n
<1>3. PICK h : Turns(h, w, G, n)
  BY <1>2, LoopDefined
<1>4. /\ h = [i \in 0..n |-> h[i]]
      /\ h[0] = w /\ \A i \in 1..n : h[i] = G[i][h[i - 1]]
  <2>1. h = [i \in 0..n |-> IF i = 0 THEN w ELSE G[i][h[i - 1]]]
    BY <1>3 DEF Turns
  <2> DEFINE o == [i \in 0..n |-> IF i = 0 THEN w ELSE G[i][h[i - 1]]]
  <2>2. o = [i \in 0..n |-> o[i]] /\ o[0] = w /\ \A i \in 1..n : o[i] = G[i][h[i - 1]]
    BY <1>2
  <2>3. h = o
    BY <2>1
  <2> HIDE DEF o
  <2>4. QED
    BY <2>2, <2>3
<1>5. \A i \in 0..n : h[i] \in T[i]
  <2>1. h[0] \in T[0] /\ \A i \in 1..n : h[i - 1] \in T[i - 1] => h[i] \in T[i]
    BY <1>1, <1>4
  <2>2. QED
    BY <1>2, <2>1, LoopStays
<1>6. h = [i \in 0..n |-> IF i = 0 THEN w ELSE OutputRecord(h[i - 1], s[i])]
  <2>1. ASSUME NEW i \in 1..n PROVE h[i] = OutputRecord(h[i - 1], s[i])
    <3>1. i - 1 \in 0..n
      BY <1>2
    <3>2. QED
      BY <1>1, <1>4, <1>5, <3>1
  <2>2. \A i \in 0..n : h[i] = IF i = 0 THEN w ELSE OutputRecord(h[i - 1], s[i])
    BY <1>2, <1>4, <2>1
  <2>3. QED
    BY <1>4, <2>2
<1>7. k = [i \in 0..n |-> IF i = 0 THEN w ELSE OutputRecord(k[i - 1], s[i])]
  BY <1>6 DEF Output!After, n
<1> HIDE DEF k
<1>8. k[0] = w /\ \A i \in 1..n : k[i] = OutputRecord(k[i - 1], s[i])
  BY <1>2, <1>7
<1>9. \A i \in 0..n : k[i] \in T[i]
  <2>1. k[0] \in T[0] /\ \A i \in 1..n : k[i - 1] \in T[i - 1] => k[i] \in T[i]
    BY <1>8 DEF n
  <2>2. QED
    BY <1>2, <2>1, LoopStays
<1>10. QED
  BY <1>2, <1>9 DEF Output!Over, k, n

\* The records of a chunk are output one after the other.
LEMMA ForEachGrows ==
  ASSUME stream \in [Conn -> Seq(Nat \ {0})], NEW k, InStream(k), NEW w \in Outs
  PROVE  ForEach(w, k) \in Grown(w, k, Whole(k))
<1> DEFINE s == Listed(k)
           T == [n \in 0..Whole(k) |-> Grown(w, k, n)]
<1>1. /\ Whole(k) \in Nat /\ k.of \in Conn /\ k.first \in Nat
      /\ \A i \in 1..Whole(k) : k.first + i - 1 \in 1..Len(stream[k.of])
  BY ChunkFacts
<1>2. Len(s) = Whole(k)
  BY <1>1 DEF Listed
<1>3. w \in T[0]
  BY <1>1, OutsParts DEF Grown
<1>4. ASSUME NEW i \in 1..Len(s), NEW v \in T[i - 1]
      PROVE  OutputRecord(v, s[i]) \in T[i]
  <2> DEFINE u == OutputRecord(v, s[i])
             m == Len(w.out)
  <2>1. i - 1 \in 0..Whole(k) /\ i \in 1..Whole(k) /\ v \in Grown(w, k, i - 1)
    BY <1>1, <1>2
  <2>2. s[i].of = k.of /\ s[i].rec = k.first + i - 1
    BY <2>1 DEF Listed
  <2>3. k.first + i - 1 \in Nat
    BY <1>1, <2>1
  <2>4. Adds1(v, s[i], u)
    <3> HIDE DEF s
    <3>1. v \in Outs
      BY <2>1 DEF Grown
    <3>2. QED
      BY <1>1, <2>2, <2>3, <3>1, RecordAdded
  <2>5. PICK e \in Entry : e.of = k.of /\ e.rec = k.first + i - 1 /\ u.out = Append(v.out, e)
    BY <2>2, <2>4 DEF Adds1
  <2>6. u \in Outs
    BY <2>4 DEF Adds1
  <2>7. /\ v.out \in Seq(Entry) /\ Len(v.out) = m + (i - 1)
        /\ \A j \in 1..m : v.out[j] = w.out[j]
        /\ \A j \in 1..(i - 1) : v.out[m + j].of = k.of /\ v.out[m + j].rec = k.first + j - 1
    BY <2>1, OutsParts DEF Grown
  <2>8. m \in Nat
    BY OutsParts
  <2> HIDE DEF u, m, s
  <2>9. /\ Len(u.out) = m + i /\ u.out[m + i] = e
        /\ \A j \in 1..(m + (i - 1)) : u.out[j] = v.out[j]
    <3>1. PICK x \in Seq(Entry), d \in Nat : x = v.out /\ d = i - 1 /\ Len(x) = m + d
      BY <2>1, <2>7
    <3>2. /\ Len(Append(x, e)) = Len(x) + 1 /\ Append(x, e)[Len(x) + 1] = e
          /\ \A j \in 1..Len(x) : Append(x, e)[j] = x[j]
      BY AppendProperties
    <3>3. (m + d) + 1 = m + i
      BY <2>1, <2>8, <3>1
    <3>4. QED
      BY <2>5, <3>1, <3>2, <3>3
  <2>10. \A j \in 1..m : u.out[j] = w.out[j]
    BY <2>1, <2>7, <2>8, <2>9
  <2>11. \A j \in 1..i : u.out[m + j].of = k.of /\ u.out[m + j].rec = k.first + j - 1
    <3>1. \A j \in 1..(i - 1) : m + j \in 1..(m + (i - 1))
      BY <2>1, <2>8
    <3>2. \A j \in 1..i : j = i \/ j \in 1..(i - 1)
      BY <2>1
    <3>3. QED
      BY <2>5, <2>7, <2>9, <3>1, <3>2
  <2>12. u \in Grown(w, k, i)
    BY <2>6, <2>9, <2>10, <2>11 DEF Grown, m
  <2>13. QED
    BY <2>1, <2>12 DEF u
<1>5. Output!Over(w, s) \in T[Len(s)]
  <2> HIDE DEF s, T
  <2>1. Len(s) \in Nat
    BY <1>1, <1>2
  <2>2. QED
    BY <1>3, <1>4, <2>1, OutputKeeps
<1>6. QED
  BY <1>1, <1>2, <1>5 DEF ForEach

\* How often a record is in an output.
CountIn(q, d, i) == Cardinality({j \in DOMAIN q : q[j].of = d /\ q[j].rec = i})

\* How often a record is output is a number.
LEMMA CountType ==
  ASSUME NEW q \in Seq(Entry), NEW d, NEW i
  PROVE  CountIn(q, d, i) \in Nat
<1> DEFINE S == {j \in 1..Len(q) : q[j].of = d /\ q[j].rec = i}
<1>1. S \subseteq 1..Len(q) /\ IsFiniteSet(1..Len(q))
  BY FS_Interval
<1>2. CountIn(q, d, i) = Cardinality(S)
  <2>1. DOMAIN q = 1..Len(q)
    OBVIOUS
  <2>2. QED
    BY <2>1, Zenon DEF CountIn
<1> HIDE DEF S
<1>3. Cardinality(S) \in Nat
  BY <1>1, FS_Subset, FS_CardinalityType
<1>4. QED
  BY <1>2, <1>3

\* The records of a chunk are output once more, all others as often as before.
LEMMA GrownCounts ==
  ASSUME NEW w \in Outs, NEW k, k.first \in Nat, Whole(k) \in Nat,
         NEW v \in Grown(w, k, Whole(k)), NEW d, NEW i \in Nat
  PROVE  CountIn(v.out, d, i) = CountIn(w.out, d, i) + In(i, RecordsOf(k, d))
<1>0. PICK n \in Nat : n = Whole(k)
  OBVIOUS
<1>g. v \in Grown(w, k, n)
  BY <1>0
<1> DEFINE m == Len(w.out)
           S == {j \in 1..m : w.out[j].of = d /\ w.out[j].rec = i}
           R == {j \in 1..(m + n) : v.out[j].of = d /\ v.out[j].rec = i}
           x == m + (i - k.first + 1)
           hit == d = k.of /\ i \in k.first..(k.first + n - 1)
<1>1. /\ w.out \in Seq(Entry) /\ v.out \in Seq(Entry) /\ m \in Nat /\ Len(v.out) = m + n
      /\ \A j \in 1..m : v.out[j] = w.out[j]
      /\ \A j \in 1..n : v.out[m + j].of = k.of /\ v.out[m + j].rec = k.first + j - 1
  BY <1>g, OutsParts DEF Grown
<1>2. CountIn(w.out, d, i) = Cardinality(S) /\ CountIn(v.out, d, i) = Cardinality(R)
  <2>1. DOMAIN w.out = 1..m /\ DOMAIN v.out = 1..(m + n)
    BY <1>1
  <2>2. QED
    BY <2>1, Zenon DEF CountIn
<1>3. S \subseteq 1..m /\ IsFiniteSet(S) /\ Cardinality(S) \in Nat
  <2>1. S \subseteq 1..m
    OBVIOUS
  <2> HIDE DEF S, m
  <2>2. IsFiniteSet(1..m)
    BY <1>1, FS_Interval
  <2>3. QED
    BY <2>1, <2>2, FS_Subset, FS_CardinalityType
<1> HIDE DEF m
<1>4. \A j \in 1..(m + n) : j \in 1..m \/ \E y \in 1..n : j = m + y
  <2>1. ASSUME NEW j \in 1..(m + n), j > m PROVE j - m \in 1..n /\ j = m + (j - m)
    BY <1>1, <2>1
  <2>2. QED
    BY <1>1, <2>1
<1>5. \A j \in 1..m : j \in R <=> j \in S
  BY <1>1
<1>6. \A y \in 1..n : m + y \in R <=> d = k.of /\ i = k.first + y - 1
  BY <1>1
<1>7. R \subseteq 1..(m + n)
  OBVIOUS
<1> HIDE DEF S, R
<1>8. CASE hit
  <2>1. x = m + (i - k.first + 1) /\ i - k.first + 1 \in 1..n /\ i = k.first + (i - k.first + 1) - 1
    BY <1>8
  <2>2. x \in R /\ x \notin 1..m
    <3>1. PICK y \in 1..n : y = i - k.first + 1 /\ x = m + y /\ i = k.first + y - 1
      BY <2>1
    <3>2. m + y \in R
      BY <1>6, <1>8, <3>1
    <3>3. m + y \notin 1..m
      BY <1>1
    <3>4. QED
      BY <3>1, <3>2, <3>3
  <2>3. ASSUME NEW y \in 1..n, m + y \in R PROVE m + y = x
    <3>1. i = k.first + y - 1
      BY <1>6, <2>3
    <3>2. y = i - k.first + 1
      BY <3>1
    <3>3. QED
      BY <3>2
  <2> HIDE DEF x
  <2>4. R = S \cup {x}
    <3>1. S \cup {x} \subseteq R
      BY <1>3, <1>5, <2>2
    <3>2. ASSUME NEW j \in R PROVE j \in S \cup {x}
      <4>1. j \in 1..m \/ \E y \in 1..n : j = m + y
        BY <1>4, <1>7
      <4>2. QED
        BY <1>5, <2>3, <4>1
    <3>3. QED
      BY <3>1, <3>2
  <2>5. x \notin S
    BY <1>3, <2>2
  <2>6. Cardinality(R) = Cardinality(S) + 1
    BY <1>3, <2>4, <2>5, FS_AddElement
  <2>7. i \in RecordsOf(k, d)
    BY <1>0, <1>8 DEF RecordsOf, Records
  <2>8. QED
    BY <1>2, <2>6, <2>7 DEF In
<1>9. CASE ~hit
  <2>1. \A y \in 1..n : ~(d = k.of /\ i = k.first + y - 1)
    BY <1>9
  <2>2. R = S
    <3>1. S \subseteq R
      BY <1>3, <1>5
    <3>2. ASSUME NEW j \in R PROVE j \in S
      <4>1. j \in 1..m \/ \E y \in 1..n : j = m + y
        BY <1>4, <1>7
      <4>2. QED
        BY <1>5, <1>6, <2>1, <4>1
    <3>3. QED
      BY <3>1, <3>2
  <2>3. i \notin RecordsOf(k, d)
    BY <1>0, <1>9 DEF RecordsOf, Records
  <2>4. QED
    BY <1>2, <1>3, <2>2, <2>3 DEF In
<1>10. QED
  BY <1>8, <1>9

-----------------------------------------------------------------------------
(* A pass. *)

\* A chunk lies inside what was read, also when more has been read.
LEMMA FitsLater ==
  ASSUME UNCHANGED <<port, stream>>, got \in [Conn -> Nat], got' \in [Conn -> Nat],
         \A d \in Conn : got[d] <= got'[d],
         NEW k, NEW q, Fits(k, q)
  PROVE  Fits(k, q)'
<1>1. /\ InStream(k) /\ Proc(k.of) = q /\ k.of \in Conn
      /\ k.first + Whole(k) - 1 <= got[k.of] \div RecLen
  BY DEF Fits, InStream, Chunk
<1>2. InStream(k)' /\ Proc(k.of)' = q
  BY <1>1 DEF InStream, Proc
<1> DEFINE g == got[k.of]  h == got'[k.of]
<1>3. g \in Nat /\ h \in Nat /\ h - g \in Nat /\ h = g + (h - g) /\ RecLen \in Nat \ {0}
  BY <1>1, RecvTcpAssumption
<1>4. g \div RecLen \in Nat /\ h \div RecLen \in Nat /\ g \div RecLen <= h \div RecLen
  <2> HIDE DEF g, h
  <2>1. g <= h
    BY <1>3
  <2>2. QED
    BY <1>3, <2>1, PartsMore
<1>5. k.first \in Nat /\ Whole(k) \in Nat
  <2>1. k.first \in Nat /\ k.len \in Nat
    BY <1>1, RecvTcpAssumption DEF InStream, Chunk
  <2>2. QED
    BY <1>3, <2>1, Parts DEF Whole
<1>6. Whole(k)' = Whole(k)
  BY DEF Whole
<1>7. k.first + Whole(k) - 1 <= h \div RecLen
  <2> DEFINE x == g \div RecLen  y == h \div RecLen
  <2>1. k.first + Whole(k) - 1 <= x /\ x <= y /\ x \in Nat /\ y \in Nat
    BY <1>1, <1>4
  <2> HIDE DEF x, y
  <2>2. k.first + Whole(k) - 1 <= y
    BY <1>5, <2>1
  <2>3. QED
    BY <2>2 DEF y
<1>8. QED
  BY <1>2, <1>6, <1>7 DEF Fits

\* Setting a process's output leaves those of the others.
LEMMA SetOutDoes ==
  ASSUME Outputs, NEW p \in Procs, NEW v \in Outs, EndPass(p, v)
  PROVE  /\ Outputs'
         /\ out'[p] = v.out
         /\ \A q \in Procs \ {p} : out'[q] = out[q]
<1>1. PICK u : u \in Outs /\ u.out = v.out /\ SetOut(p, u)
  BY ClosedOuts DEF EndPass
<1>2. /\ writers' = [writers EXCEPT ![p] = u.writers]
      /\ out' = [out EXCEPT ![p] = u.out]
      /\ files' = [files EXCEPT ![p] = u.files]
      /\ DOMAIN writers = Procs /\ DOMAIN out = Procs /\ DOMAIN files = Procs
  BY <1>1 DEF SetOut, Outputs
<1>3. /\ DOMAIN writers' = Procs /\ DOMAIN out' = Procs /\ DOMAIN files' = Procs
      /\ writers'[p] = u.writers /\ out'[p] = u.out /\ files'[p] = u.files
      /\ \A q \in Procs \ {p} : /\ writers'[q] = writers[q]
                                /\ out'[q] = out[q] /\ files'[q] = files[q]
  BY <1>2
<1>4. Out(p)' = u
  <2>1. u = [writers |-> u.writers, out |-> u.out, files |-> u.files]
    BY <1>1, OutsParts
  <2>2. QED
    BY <1>3, <2>1 DEF Out
<1>5. \A q \in Procs \ {p} : Out(q)' = Out(q)
  BY <1>3 DEF Out
<1>6. \A q \in Procs : Out(q)' \in Outs'
  BY <1>1, <1>4, <1>5 DEF Outputs, Outs
<1>7. QED
  BY <1>1, <1>3, <1>6 DEF Outputs

\* The boundaries of the records are not lost.
Follows(c, k) == Strays(c, Proc(c), k) = ""

\* A step in which c's loop may read.
StepGiven(c) ==
  /\ Sets /\ Loops /\ Processes /\ Outputs
  /\ UNCHANGED <<port, stream>>
  /\ got' \in [Conn -> Nat] /\ again' \in [Procs -> BOOLEAN]
  /\ \A d \in Conn : got[d] <= got'[d]
  /\ \A d \in Conn \ {c} : got'[d] = got[d]

\* A pass of its loop over the chunk k, with the output w, in such a step.
PassGiven(c, k, w) ==
  /\ StepGiven(c)
  /\ w \in Outs /\ w.out = out[Proc(c)]
  /\ Follows(c, k) => Fits(k, Proc(c))' /\ Part(k) = got'[c] % RecLen
  /\ Pass(c, k, w)

\* The process of a connection is one.
LEMMA ProcIs ==
  ASSUME NEW c \in Conn
  PROVE  Proc(c) \in Procs
BY DEF Proc, Procs

\* A chunk that fits is inside its stream.
LEMMA FitsInStream ==
  ASSUME UNCHANGED stream, NEW k, NEW q, Fits(k, q)'
  PROVE  InStream(k)
BY DEF Fits, InStream

\* The buffers, when one comes to hold a chunk that fits.
LEMMA LoopsEnds ==
  ASSUME NEW c \in Conn, NEW k, NEW w, PassGiven(c, k, w), NEW b, Fits(b, Proc(c))',
         Part(b) = got'[c] % RecLen, Ends(c, b), astray' = astray
  PROVE  Loops'
<1>1. /\ buf \in [Conn -> Chunk] /\ left \in [Conn -> 0..(RecLen - 1)]
      /\ \A d \in Conn : Fits(buf[d], Proc(d)) /\ left[d] = Part(buf[d])
      /\ \A d \in Conn : astray[Proc(d)] = "" => left[d] = got[d] % RecLen
  BY DEF PassGiven, StepGiven, Loops, OnTrack
<1>2. /\ port' = port /\ stream' = stream /\ got' \in [Conn -> Nat] /\ got \in [Conn -> Nat]
      /\ \A d \in Conn : got[d] <= got'[d]
      /\ \A d \in Conn \ {c} : got'[d] = got[d]
      /\ stream \in [Conn -> Seq(Nat \ {0})]
  BY DEF PassGiven, StepGiven, Sets
<1>3. InStream(b) /\ b \in Chunk
  BY <1>2, FitsInStream DEF InStream
<1>4. Part(b) \in 0..(RecLen - 1)
  BY <1>2, <1>3, ChunkFacts
<1>5. /\ buf' \in [Conn -> Chunk] /\ left' \in [Conn -> 0..(RecLen - 1)]
      /\ buf'[c] = b /\ left'[c] = Part(b)
      /\ \A d \in Conn \ {c} : buf'[d] = buf[d] /\ left'[d] = left[d]
  BY <1>1, <1>3, <1>4 DEF Ends
<1>6. \A d \in Conn : Proc(d)' = Proc(d)
  BY <1>2 DEF Proc
<1>7. ASSUME NEW d \in Conn
      PROVE  /\ Fits(buf[d], Proc(d))'
             /\ left'[d] = Part(buf'[d])
             /\ astray'[Proc(d)] = "" => left'[d] = got'[d] % RecLen
  <2>1. CASE d = c
    BY <1>5, <1>6, <2>1 DEF Fits, InStream, Proc
  <2>2. CASE d # c
    <3> DEFINE e == buf[d]  q == Proc(d)
    <3>1. Fits(e, q)
      BY <1>1
    <3>2. e = buf'[d] /\ q = Proc(d)'
      BY <1>5, <1>6, <2>2
    <3>3. PICK x, y : x = e /\ y = q
      OBVIOUS
    <3>4. Fits(x, y)'
      BY <1>2, <3>1, <3>3, FitsLater
    <3>5. Fits(buf[d], Proc(d))'
      BY <3>2, <3>3, <3>4
    <3>6. QED
      BY <1>1, <1>2, <1>5, <2>2, <3>5
  <2>3. QED
    BY <2>1, <2>2
<1>8. QED
  BY <1>5, <1>6, <1>7 DEF Loops, OnTrack, Part

\* The processes, when one may come to keep a chunk that fits.
LEMMA ProcessesEnd ==
  ASSUME NEW c \in Conn, NEW k, NEW w, PassGiven(c, k, w), NEW e \in Nat, NEW f \in BOOLEAN, NEW b,
         f => Fits(b, Proc(c))' /\ b.first > 0 /\ Part(b) = 0,
         expect' = [expect EXCEPT ![Proc(c)] = e],
         forward' = [forward EXCEPT ![Proc(c)] = f],
         rord' = [rord EXCEPT ![Proc(c)] = b],
         astray' = astray
  PROVE  Processes'
<1>p. PICK p \in Procs : p = Proc(c) /\ p = Proc(c)'
  BY ProcIs DEF PassGiven, StepGiven, Proc
<1>1. /\ expect \in [Procs -> Nat] /\ forward \in [Procs -> BOOLEAN]
      /\ astray \in [Procs -> {"", "overrun", "short", "part", "stale"}]
      /\ rord = [q \in Procs |-> rord[q]]
      /\ \A q \in Procs : forward[q] => /\ Fits(rord[q], q)
                                        /\ rord[q].first > 0 /\ Part(rord[q]) = 0
  BY DEF PassGiven, StepGiven, Processes
<1>2. /\ port' = port /\ stream' = stream /\ got' \in [Conn -> Nat] /\ got \in [Conn -> Nat]
      /\ \A d \in Conn : got[d] <= got'[d]
      /\ again' \in [Procs -> BOOLEAN]
  BY DEF PassGiven, StepGiven, Sets
<1>3. /\ expect' \in [Procs -> Nat] /\ forward' \in [Procs -> BOOLEAN]
      /\ rord' = [q \in Procs |-> rord'[q]]
      /\ forward'[p] = f /\ rord'[p] = b
      /\ \A q \in Procs \ {p} : forward'[q] = forward[q] /\ rord'[q] = rord[q]
  BY <1>p, <1>1
<1>4. ASSUME NEW q \in Procs, forward'[q]
      PROVE  Fits(rord[q], q)' /\ rord'[q].first > 0 /\ Part(rord'[q]) = 0
  <2>1. CASE q = p
    <3>1. Fits(b, p)' /\ b.first > 0 /\ Part(b) = 0
      BY <1>p, <1>3, <1>4, <2>1
    <3>2. rord'[q] = b /\ q = p
      BY <1>3, <2>1
    <3>3. Fits(b, q)'
      BY <3>1, <3>2
    <3>4. QED
      BY <3>1, <3>2, <3>3
  <2>2. CASE q # p
    <3>1. Fits(rord[q], q) /\ rord[q].first > 0 /\ Part(rord[q]) = 0 /\ rord'[q] = rord[q]
      BY <1>1, <1>3, <1>4, <2>2
    <3>2. PICK x : x = rord[q]
      OBVIOUS
    <3>3. Fits(x, q)'
      BY <1>2, <3>1, <3>2, FitsLater
    <3>4. QED
      BY <3>1, <3>2, <3>3
  <2>3. QED
    BY <2>1, <2>2
<1>5. astray' \in [Procs -> {"", "overrun", "short", "part", "stale"}]
  BY <1>1
<1>6. QED
  BY <1>2, <1>3, <1>4, <1>5 DEF Processes, Part

\* Where the boundaries of the records are lost, nothing else happens.
LEMMA StrayKeeps ==
  ASSUME NEW c \in Conn, StepGiven(c), NEW why,
         why \in {"overrun", "short", "part", "stale"}, GoAstray(Proc(c), why)
  PROVE  Loops' /\ Processes' /\ Outputs' /\ astray'[Proc(c)] # ""
<1>p. PICK p \in Procs : p = Proc(c) /\ p = Proc(c)'
  BY ProcIs DEF StepGiven, Proc
<1>1. /\ port' = port /\ stream' = stream /\ got' \in [Conn -> Nat] /\ got \in [Conn -> Nat]
      /\ \A d \in Conn : got[d] <= got'[d]
      /\ \A d \in Conn \ {c} : got'[d] = got[d]
      /\ again' \in [Procs -> BOOLEAN]
      /\ astray \in [Procs -> {"", "overrun", "short", "part", "stale"}]
  BY DEF StepGiven, Sets, Processes
<1>2. /\ UNCHANGED <<loopVars, procVars, outVars>>
      /\ astray'[p] = why /\ \A q \in Procs \ {p} : astray'[q] = astray[q]
      /\ astray' \in [Procs -> {"", "overrun", "short", "part", "stale"}]
  BY <1>p, <1>1 DEF GoAstray
<1>3. \A d \in Conn : Proc(d)' = Proc(d)
  BY <1>1 DEF Proc
<1>4. \A x, q : Fits(x, q) => Fits(x, q)'
  BY <1>1, FitsLater
<1>5. Outputs'
  BY <1>2 DEF StepGiven, Outputs, Out, Outs, outVars
<1>6. Processes'
  <2>1. ASSUME NEW q \in Procs, forward[q] PROVE Fits(rord[q], q)'
    <3>1. Fits(rord[q], q)
      BY <2>1 DEF StepGiven, Processes
    <3>2. PICK x : x = rord[q] /\ x = rord'[q]
      BY <1>2 DEF procVars
    <3>3. Fits(x, q)'
      BY <1>4, <3>1, <3>2
    <3>4. QED
      BY <3>2, <3>3
  <2>2. QED
    BY <1>1, <1>2, <2>1 DEF StepGiven, Processes, procVars, Part
<1>7. Loops'
  <2>1. ASSUME NEW d \in Conn PROVE Fits(buf[d], Proc(d))'
    <3>1. Fits(buf[d], Proc(d))
      BY DEF StepGiven, Loops
    <3>2. PICK x, q : x = buf[d] /\ x = buf'[d] /\ q = Proc(d) /\ q = Proc(d)'
      BY <1>2, <1>3 DEF loopVars
    <3>3. Fits(x, q)'
      BY <1>4, <3>1, <3>2
    <3>4. QED
      BY <3>2, <3>3
  <2>2. ASSUME NEW d \in Conn, astray'[Proc(d)] = "" PROVE left'[d] = got'[d] % RecLen
    <3>1. d # c /\ Proc(d) # p /\ Proc(d) \in Procs
      BY <1>p, <1>2, <2>2, ProcIs
    <3>2. left[d] = got[d] % RecLen
      BY <1>2, <2>2, <3>1 DEF StepGiven, Loops, OnTrack
    <3>3. QED
      BY <1>1, <1>2, <3>1, <3>2 DEF loopVars
  <2>3. QED
    BY <1>2, <1>3, <2>1, <2>2 DEF StepGiven, Loops, OnTrack, loopVars, Part
<1>8. QED
  BY <1>p, <1>2, <1>5, <1>6, <1>7

\* How often a record is in q, or in the chunk b where that is kept.
HeldAt(q, f, b, d, i) == CountIn(q, d, i) + In(i, IF f THEN RecordsOf(b, d) ELSE {})

\* The records of d that the process p keeps.
KeptOf(p, d) == IF forward[p] THEN RecordsOf(rord[p], d) ELSE {}

\* What a pass does to what a process holds: it gains the records of the chunk.
Gains(p, k) ==
  \A d \in Conn : \A i \in Nat :
    HeldAt(out'[p], forward'[p], rord'[p], d, i) =
      HeldAt(out[p], forward[p], rord[p], d, i) + In(i, RecordsOf(k, d))

\* The state after a pass, and what it did to its process and to the others.
PassResult(p, k) ==
  /\ Loops' /\ Processes' /\ Outputs'
  /\ \A q \in Procs \ {p} : /\ out'[q] = out[q] /\ forward'[q] = forward[q]
                            /\ rord'[q] = rord[q] /\ astray'[q] = astray[q]
  /\ astray'[p] = "" => astray[p] = "" /\ Gains(p, k)

\* A chunk is output: the process gains its records.
LEMMA OutputGains ==
  ASSUME stream \in [Conn -> Seq(Nat \ {0})], NEW k, InStream(k), NEW w \in Outs
  PROVE  /\ ForEach(w, k) \in Outs
         /\ \A d \in Conn : \A i \in Nat :
              CountIn(ForEach(w, k).out, d, i) =
                CountIn(w.out, d, i) + In(i, RecordsOf(k, d))
<1> DEFINE v == ForEach(w, k)
<1>1. v \in Grown(w, k, Whole(k)) /\ Whole(k) \in Nat /\ k.first \in Nat
  BY ForEachGrows, ChunkFacts
<1>2. v \in Outs
  BY <1>1 DEF Grown
<1> HIDE DEF v
<1>3. Whole(k) \in Nat
  BY <1>1
<1>4. \A d \in Conn : \A i \in Nat :
        CountIn(v.out, d, i) = CountIn(w.out, d, i) + In(i, RecordsOf(k, d))
  BY <1>1, <1>3, GrownCounts
<1>5. QED
  BY <1>2, <1>4 DEF v

\* Counts are numbers.
LEMMA HeldType ==
  ASSUME NEW q \in Seq(Entry), NEW d, NEW i
  PROVE  CountIn(q, d, i) \in Nat /\ \A S : In(i, S) \in Nat
BY CountType DEF In

\* Where nothing was kept, what is output is gained.
LEMMA GainsOut ==
  ASSUME NEW p, NEW k, out[p] \in Seq(Entry), forward'[p] = forward[p], rord'[p] = rord[p],
         \A d \in Conn : \A i \in Nat :
           CountIn(out'[p], d, i) = CountIn(out[p], d, i) + In(i, RecordsOf(k, d))
  PROVE  Gains(p, k)
<1> SUFFICES ASSUME NEW d \in Conn, NEW i \in Nat
             PROVE  HeldAt(out'[p], forward'[p], rord'[p], d, i) =
                      HeldAt(out[p], forward[p], rord[p], d, i) + In(i, RecordsOf(k, d))
  BY DEF Gains
<1> DEFINE x == CountIn(out[p], d, i)  y == In(i, RecordsOf(k, d))
           z == In(i, IF forward[p] THEN RecordsOf(rord[p], d) ELSE {})
<1>1. x \in Nat /\ y \in Nat /\ z \in Nat
  BY HeldType
<1>2. /\ HeldAt(out[p], forward[p], rord[p], d, i) = x + z
      /\ HeldAt(out'[p], forward'[p], rord'[p], d, i) = (x + y) + z
  BY DEF HeldAt
<1> HIDE DEF x, z
<1>3. QED
  <2> HIDE DEF y
  <2>1. (x + y) + z = (x + z) + y
    BY <1>1
  <2>2. HeldAt(out'[p], forward'[p], rord'[p], d, i) =
          HeldAt(out[p], forward[p], rord[p], d, i) + y
    BY <1>2, <2>1
  <2>3. QED
    BY <2>2 DEF y

\* Where what was kept is output with the chunk, the chunk is gained.
LEMMA GainsKept ==
  ASSUME NEW p, NEW k, out[p] \in Seq(Entry), forward'[p] = FALSE,
         \A d \in Conn : \A i \in Nat :
           CountIn(out'[p], d, i) =
             (CountIn(out[p], d, i) + In(i, RecordsOf(k, d)))
               + In(i, KeptOf(p, d))
  PROVE  Gains(p, k)
<1> SUFFICES ASSUME NEW d \in Conn, NEW i \in Nat
             PROVE  HeldAt(out'[p], forward'[p], rord'[p], d, i) =
                      HeldAt(out[p], forward[p], rord[p], d, i) + In(i, RecordsOf(k, d))
  BY DEF Gains
<1> DEFINE x == CountIn(out[p], d, i)  y == In(i, RecordsOf(k, d))
           z == In(i, KeptOf(p, d))
<1>1. x \in Nat /\ y \in Nat /\ z \in Nat
  BY HeldType
<1>2. HeldAt(out[p], forward[p], rord[p], d, i) = x + z
  BY DEF HeldAt, KeptOf
<1>3. HeldAt(out'[p], forward'[p], rord'[p], d, i) = ((x + y) + z) + 0
  BY DEF HeldAt, In
<1> HIDE DEF x, z
<1>4. QED
  <2> HIDE DEF y
  <2>1. ((x + y) + z) + 0 = (x + z) + y
    BY <1>1
  <2>2. HeldAt(out'[p], forward'[p], rord'[p], d, i) =
          HeldAt(out[p], forward[p], rord[p], d, i) + y
    BY <1>2, <1>3, <2>1
  <2>3. QED
    BY <2>2 DEF y

\* What is known when a pass does not lose the boundaries.
LEMMA PassFacts ==
  ASSUME NEW c \in Conn, NEW k, NEW w, PassGiven(c, k, w), Follows(c, k)
  PROVE  \E p \in Procs :
           /\ p = Proc(c) /\ p = Proc(c)'
           /\ InStream(k) /\ Fits(k, p)' /\ Part(k) = got'[c] % RecLen
           /\ out[p] \in Seq(Entry) /\ w \in Outs /\ w.out = out[p]
           /\ forward[p] => /\ InStream(rord[p]) /\ Part(rord[p]) = 0 /\ rord[p].first > 0
                            /\ Fits(rord[p], p)
           /\ stream \in [Conn -> Seq(Nat \ {0})]
<1>1. PICK p \in Procs : p = Proc(c) /\ p = Proc(c)'
  BY ProcIs DEF PassGiven, StepGiven, Proc
<1>2. Fits(k, p)' /\ Part(k) = got'[c] % RecLen
  BY <1>1 DEF PassGiven, StepGiven
<1>3. InStream(k)
  BY <1>2, FitsInStream DEF PassGiven, StepGiven
<1>4. out[p] \in Seq(Entry)
  <2>1. Out(p) \in Outs /\ Out(p).out = out[p]
    BY DEF PassGiven, StepGiven, Outputs, Out
  <2> HIDE DEF Outs
  <2>2. QED
    BY <2>1, OutsParts
<1>5. QED
  BY <1>1, <1>2, <1>3, <1>4 DEF PassGiven, StepGiven, Processes, Sets, Fits

\* A chunk that is kept is not output yet, and is gained.
LEMMA KeepGains ==
  ASSUME NEW p, NEW k, out'[p] = out[p], ~forward[p], forward'[p], rord'[p] = k,
         out[p] \in Seq(Entry)
  PROVE  Gains(p, k)
<1> SUFFICES ASSUME NEW d \in Conn, NEW i \in Nat
             PROVE  HeldAt(out'[p], forward'[p], rord'[p], d, i) =
                      HeldAt(out[p], forward[p], rord[p], d, i) + In(i, RecordsOf(k, d))
  BY DEF Gains
<1> DEFINE x == CountIn(out[p], d, i)  y == In(i, RecordsOf(k, d))
<1>1. x \in Nat /\ y \in Nat
  BY HeldType
<1>2. HeldAt(out'[p], forward'[p], rord'[p], d, i) = x + y
  BY DEF HeldAt
<1>3. HeldAt(out[p], forward[p], rord[p], d, i) = x + 0
  BY DEF HeldAt, In
<1> HIDE DEF x, y
<1>4. x + y = (x + 0) + y
  BY <1>1
<1>5. HeldAt(out'[p], forward'[p], rord'[p], d, i) =
        HeldAt(out[p], forward[p], rord[p], d, i) + y
  BY <1>2, <1>3, <1>4
<1>6. QED
  BY <1>5 DEF y

\* What is output of two chunks.
LEMMA TwoOutput ==
  ASSUME stream \in [Conn -> Seq(Nat \ {0})], NEW w \in Outs,
         NEW a, InStream(a), NEW b, InStream(b)
  PROVE  LET v == ForEach(ForEach(w, a), b)
         IN /\ v \in Outs
            /\ \A d \in Conn : \A i \in Nat :
                 CountIn(v.out, d, i) =
                   (CountIn(w.out, d, i) + In(i, RecordsOf(a, d))) + In(i, RecordsOf(b, d))
<1>1. PICK u \in Outs : u = ForEach(w, a)
  BY OutputGains
<1>2. PICK v : v = ForEach(u, b)
  OBVIOUS
<1>3. \A d \in Conn : \A i \in Nat :
        CountIn(u.out, d, i) = CountIn(w.out, d, i) + In(i, RecordsOf(a, d))
  BY <1>1, OutputGains
<1>4. v \in Outs /\ \A d \in Conn : \A i \in Nat :
        CountIn(v.out, d, i) = CountIn(u.out, d, i) + In(i, RecordsOf(b, d))
  BY <1>2, OutputGains
<1>5. QED
  BY <1>1, <1>2, <1>3, <1>4

\* A kept chunk: the first from ahead.
LEMMA KeepDoes ==
  ASSUME NEW c \in Conn, NEW k, NEW w, PassGiven(c, k, w), Follows(c, k),
         Keep(c, Proc(c), k)
  PROVE  PassResult(Proc(c), k)
<1>1. PICK p \in Procs :
           /\ p = Proc(c) /\ p = Proc(c)'
           /\ InStream(k) /\ Fits(k, p)' /\ Part(k) = got'[c] % RecLen
           /\ out[p] \in Seq(Entry) /\ stream \in [Conn -> Seq(Nat \ {0})]
  BY PassFacts
<1>2. /\ Near(p, k) /\ buf' = [buf EXCEPT ![c] = k] /\ rord' = [rord EXCEPT ![p] = k]
      /\ forward' = [forward EXCEPT ![p] = TRUE] /\ left' = left /\ expect' = expect
      /\ writers' = writers /\ out' = out /\ files' = files /\ astray' = astray
  BY <1>1 DEF Keep, outVars
<1>3. Part(k) = 0 /\ left[c] = 0
  BY <1>1, <1>2 DEF Follows, Strays
<1>4. /\ forward \in [Procs -> BOOLEAN] /\ expect \in [Procs -> Nat]
      /\ left \in [Conn -> 0..(RecLen - 1)] /\ rord = [q \in Procs |-> rord[q]]
  BY DEF PassGiven, StepGiven, Processes, Loops
<1>5. k.first > 0
  <2>1. Seq1(k) \in Nat /\ (Seq1(k) > 0 <=> k.first > 0)
    BY <1>1, ChunkFacts
  <2>2. Seq1(k) > Expect(p, k) /\ Expect(p, k) \in Nat
    BY <1>2, <1>4, <2>1 DEF Near, Early, Expect
  <2>3. Seq1(k) > 0
    <3>1. PICK x \in Nat, y \in Nat : x = Seq1(k) /\ y = Expect(p, k)
      BY <2>1, <2>2
    <3>2. x > y
      BY <2>2, <3>1
    <3>3. x > 0
      BY <3>2
    <3>4. QED
      BY <3>1, <3>3
  <2>4. QED
    BY <2>1, <2>3
<1>6. Loops'
  <2>1. left' = [left EXCEPT ![c] = Part(k)]
    BY <1>2, <1>3, <1>4
  <2>2. Ends(c, k)
    BY <1>2, <2>1 DEF Ends
  <2>3. Fits(k, Proc(c))'
    BY <1>1
  <2>4. QED
    BY <1>1, <1>2, <2>2, <2>3, LoopsEnds
<1>7. Processes'
  <2>1. expect' = [expect EXCEPT ![p] = expect[p]] /\ expect[p] \in Nat
    BY <1>2, <1>4
  <2>2. Fits(k, Proc(c))' /\ k.first > 0 /\ Part(k) = 0
    BY <1>1, <1>3, <1>5
  <2>3. PICK e \in Nat : e = expect[p]
    BY <2>1
  <2>4. /\ expect' = [expect EXCEPT ![Proc(c)] = e]
        /\ forward' = [forward EXCEPT ![Proc(c)] = TRUE]
        /\ rord' = [rord EXCEPT ![Proc(c)] = k]
        /\ astray' = astray
    BY <1>1, <1>2, <2>1, <2>3
  <2>5. QED
    BY <2>2, <2>4, ProcessesEnd
<1>8. Outputs'
  BY <1>2 DEF PassGiven, StepGiven, Outputs, Out, Outs
<1>9. Gains(p, k)
  <2>1. ~forward[p] /\ forward'[p] /\ rord'[p] = k /\ out'[p] = out[p]
    BY <1>1, <1>2, <1>4 DEF Near
  <2>2. QED
    BY <1>1, <2>1, KeepGains
<1>10. \A q \in Procs \ {p} : /\ out'[q] = out[q] /\ forward'[q] = forward[q]
                              /\ rord'[q] = rord[q] /\ astray'[q] = astray[q]
  BY <1>1, <1>2, <1>4
<1>11. QED
  BY <1>1, <1>2, <1>6, <1>7, <1>8, <1>9, <1>10 DEF PassResult

\* A pass that ends with a chunk in the buffer and records output.
LEMMA EndsDoes ==
  ASSUME NEW c \in Conn, NEW k, NEW w, PassGiven(c, k, w), Follows(c, k),
         NEW b, Fits(b, Proc(c))', Part(b) = got'[c] % RecLen, Ends(c, b),
         NEW v \in Outs, EndPass(Proc(c), v),
         NEW e \in Nat, expect' = [expect EXCEPT ![Proc(c)] = e],
         NEW f \in BOOLEAN, forward' = [forward EXCEPT ![Proc(c)] = f], f => forward[Proc(c)],
         UNCHANGED <<rord, astray>>,
         Gains(Proc(c), k)
  PROVE  PassResult(Proc(c), k)
<1>1. PICK p \in Procs :
           /\ p = Proc(c) /\ p = Proc(c)'
           /\ forward[p] => /\ InStream(rord[p]) /\ Part(rord[p]) = 0 /\ rord[p].first > 0
                            /\ Fits(rord[p], p)
  BY PassFacts
<1>2. Loops'
  BY LoopsEnds
<1>3. /\ Outputs'
      /\ \A q \in Procs \ {p} : out'[q] = out[q]
  <2>1. Outputs /\ EndPass(p, v)
    BY <1>1 DEF PassGiven, StepGiven
  <2>2. QED
    BY <2>1, SetOutDoes
<1>4. /\ forward \in [Procs -> BOOLEAN] /\ rord = [q \in Procs |-> rord[q]]
      /\ UNCHANGED <<port, stream>> /\ got \in [Conn -> Nat] /\ got' \in [Conn -> Nat]
      /\ \A d \in Conn : got[d] <= got'[d]
  BY DEF PassGiven, StepGiven, Processes, Sets
<1>5. Processes'
  <2>1. PICK x : x = rord[p]
    OBVIOUS
  <2>2. ASSUME f PROVE Fits(x, Proc(c))' /\ x.first > 0 /\ Part(x) = 0
    <3>1. Fits(x, p) /\ x.first > 0 /\ Part(x) = 0
      BY <1>1, <2>1, <2>2
    <3>2. Fits(x, p)'
      BY <1>4, <3>1, FitsLater
    <3>3. QED
      BY <1>1, <3>1, <3>2
  <2>3. rord' = [rord EXCEPT ![Proc(c)] = x]
    BY <1>1, <1>4, <2>1
  <2>4. QED
    BY <2>2, <2>3, ProcessesEnd
<1>6. \A q \in Procs \ {p} : forward'[q] = forward[q] /\ rord'[q] = rord[q] /\ astray'[q] = astray[q]
  BY <1>1, <1>4
<1>7. astray[p] = ""
  BY <1>1 DEF PassGiven, StepGiven, Pass
<1>8. QED
  BY <1>1, <1>2, <1>3, <1>5, <1>6, <1>7 DEF PassResult

\* The one expected next is a number.
LEMMA NextNumber ==
  ASSUME stream \in [Conn -> Seq(Nat \ {0})], NEW k, InStream(k)
  PROVE  Tail1(k) + 1 \in Nat
BY ChunkFacts

\* What is copied back over the kept chunk is a chunk of the same whole and
\* part as the one that came.
LEMMA CopiedBackIs ==
  ASSUME NEW c \in Conn, NEW k, NEW w, PassGiven(c, k, w), Follows(c, k)
  PROVE  \E b : /\ b = CopiedBack(Proc(c), k)
                /\ InStream(b) /\ Fits(b, Proc(c))' /\ Part(b) = got'[c] % RecLen
<1>1. PICK p \in Procs :
           /\ p = Proc(c) /\ p = Proc(c)'
           /\ InStream(k) /\ Fits(k, p)' /\ Part(k) = got'[c] % RecLen
           /\ forward[p] => InStream(rord[p]) /\ rord[p].first > 0 /\ Fits(rord[p], p)
           /\ stream \in [Conn -> Seq(Nat \ {0})]
  BY PassFacts
<1>2. CASE ~ (forward[p] /\ k.len = 0)
  <2>1. k = CopiedBack(Proc(c), k)
    BY <1>1, <1>2 DEF CopiedBack
  <2>2. Fits(k, Proc(c))'
    BY <1>1
  <2>3. QED
    BY <1>1, <2>1, <2>2
<1>3. CASE forward[p] /\ k.len = 0
  <2>1. PICK r : r = rord[p]
    OBVIOUS
  <2>2. PICK b : b = [r EXCEPT !.len = 0]
    OBVIOUS
  <2>3. CopiedBack(Proc(c), k) = b
    BY <1>1, <1>3, <2>1, <2>2 DEF CopiedBack
  <2>4. InStream(r) /\ r.first > 0 /\ Fits(r, p)
    BY <1>1, <1>3, <2>1
  <2>5. /\ r = [of |-> r.of, first |-> r.first, len |-> r.len]
        /\ r.of \in Conn /\ r.first \in Nat /\ Whole(r) \in Nat
    BY <1>1, <2>4, ChunkFacts
  <2>6. b = [of |-> r.of, first |-> r.first, len |-> 0]
    BY <2>2, <2>5
  <2>7. RecLen \in Nat \ {0} /\ 0 = RecLen * 0 + 0 /\ 0 \in 0..(RecLen - 1) /\ BufLen \in Nat
    BY RecvTcpAssumption
  <2>8. Whole(b) = 0 /\ Part(b) = 0 /\ Part(k) = 0
    BY <1>3, <2>6, <2>7, PartsOnce DEF Whole, Part
  <2>9. b \in Chunk
    BY <2>5, <2>6, <2>7 DEF Chunk
  <2>10. r.first <= Len(stream[r.of]) /\ Len(stream[r.of]) \in Nat
    BY <1>1, <2>4, <2>5 DEF InStream
  <2>11. InStream(b)
    <3>1. r.first + 0 - 1 <= Len(stream[r.of])
      BY <2>5, <2>10
    <3>2. QED
      BY <2>6, <2>8, <2>9, <2>10, <3>1 DEF InStream
  <2>12. /\ UNCHANGED <<port, stream>> /\ got \in [Conn -> Nat] /\ got' \in [Conn -> Nat]
         /\ \A d \in Conn : got[d] <= got'[d]
    BY DEF PassGiven, StepGiven, Sets
  <2>13. Fits(b, p)
    <3>1. Proc(r.of) = p /\ r.first + Whole(r) - 1 <= got[r.of] \div RecLen
      BY <2>4 DEF Fits
    <3>2. got[r.of] \div RecLen \in Int
      BY <2>5, <2>7, <2>12
    <3>3. r.first + 0 - 1 <= got[r.of] \div RecLen
      BY <2>5, <3>1, <3>2
    <3>4. QED
      BY <2>6, <2>8, <2>11, <3>1, <3>3 DEF Fits
  <2>14. Fits(b, p)'
    BY <2>12, <2>13, FitsLater
  <2>15. Fits(b, Proc(c))'
    BY <1>1, <2>14
  <2>16. Part(b) = got'[c] % RecLen
    BY <1>1, <2>8
  <2>17. QED
    BY <2>3, <2>11, <2>15, <2>16
<1>4. QED
  BY <1>2, <1>3

\* What is missing is given up.
LEMMA GiveUpDoes ==
  ASSUME NEW c \in Conn, NEW k, NEW w, PassGiven(c, k, w), Follows(c, k),
         GiveUp(c, Proc(c), k, w)
  PROVE  PassResult(Proc(c), k)
<1>1. PICK p \in Procs :
           /\ p = Proc(c) /\ p = Proc(c)'
           /\ InStream(k) /\ Fits(k, p)' /\ Part(k) = got'[c] % RecLen
           /\ out[p] \in Seq(Entry) /\ w \in Outs /\ w.out = out[p]
           /\ forward[p] => InStream(rord[p])
           /\ stream \in [Conn -> Seq(Nat \ {0})]
  BY PassFacts
<1>2. PICK v : v = ForEach(IF forward[p] THEN ForEach(w, rord[p]) ELSE w, k)
  OBVIOUS
<1>3. PICK x :
        /\ InStream(x) /\ Fits(x, Proc(c))' /\ Part(x) = got'[c] % RecLen
        /\ Ends(c, x) /\ EndPass(p, v)
        /\ expect' = [expect EXCEPT ![p] = Tail1(x) + 1]
        /\ forward' = [forward EXCEPT ![p] = FALSE]
        /\ UNCHANGED <<rord, astray>>
  <2>1. PICK x : /\ x = CopiedBack(Proc(c), k)
                 /\ InStream(x) /\ Fits(x, Proc(c))' /\ Part(x) = got'[c] % RecLen
    BY CopiedBackIs
  <2>2. /\ Ends(c, x) /\ EndPass(p, v)
        /\ expect' = [expect EXCEPT ![p] = Tail1(x) + 1]
        /\ forward' = [forward EXCEPT ![p] = FALSE]
        /\ UNCHANGED <<rord, astray>>
    BY <1>1, <1>2, <2>1 DEF GiveUp
  <2>3. QED
    BY <2>1, <2>2
<1>4. PICK b : b = rord[p]
  OBVIOUS
<1>5. /\ v \in Outs
      /\ \A d \in Conn : \A i \in Nat :
           CountIn(v.out, d, i) =
             (CountIn(out[p], d, i) + In(i, RecordsOf(k, d)))
               + In(i, KeptOf(p, d))
  <2>1. CASE forward[p]
    <3>1. InStream(b) /\ v = ForEach(ForEach(w, b), k)
      BY <1>1, <1>2, <1>4, <2>1
    <3>2. /\ v \in Outs
          /\ \A d \in Conn : \A i \in Nat :
                 CountIn(v.out, d, i) =
                   (CountIn(w.out, d, i) + In(i, RecordsOf(b, d))) + In(i, RecordsOf(k, d))
      BY <1>1, <3>1, TwoOutput
    <3>3. ASSUME NEW d \in Conn, NEW i \in Nat
          PROVE  CountIn(v.out, d, i) =
                   (CountIn(out[p], d, i) + In(i, RecordsOf(k, d))) + In(i, RecordsOf(b, d))
      <4> DEFINE u == CountIn(out[p], d, i)
                 y == In(i, RecordsOf(b, d))
                 z == In(i, RecordsOf(k, d))
      <4>1. u \in Nat /\ y \in Nat /\ z \in Nat
        BY <1>1, HeldType
      <4>2. CountIn(v.out, d, i) = (u + y) + z
        BY <1>1, <3>2
      <4> HIDE DEF u, y, z
      <4>3. CountIn(v.out, d, i) = (u + z) + y
        BY <4>1, <4>2
      <4>4. QED
        BY <4>3 DEF u, y, z
    <3>4. QED
      BY <1>4, <2>1, <3>2, <3>3 DEF KeptOf
  <2>2. CASE ~forward[p]
    <3>1. v = ForEach(w, k)
      BY <1>2, <2>2
    <3>2. /\ v \in Outs
          /\ \A d \in Conn : \A i \in Nat :
               CountIn(v.out, d, i) = CountIn(w.out, d, i) + In(i, RecordsOf(k, d))
      BY <1>1, <3>1, OutputGains
    <3>3. ASSUME NEW d \in Conn, NEW i \in Nat
          PROVE  CountIn(v.out, d, i) = (CountIn(out[p], d, i) + In(i, RecordsOf(k, d))) + In(i, {})
      <4>1. CountIn(out[p], d, i) \in Nat /\ In(i, RecordsOf(k, d)) \in Nat /\ In(i, {}) = 0
        BY <1>1, HeldType DEF In
      <4>2. QED
        BY <1>1, <3>2, <4>1
    <3>4. QED
      BY <2>2, <3>2, <3>3 DEF KeptOf
  <2>3. QED
    BY <2>1, <2>2
<1>6. /\ out'[p] = v.out /\ forward'[p] = FALSE
  <2>1. Outputs /\ forward \in [Procs -> BOOLEAN]
    BY DEF PassGiven, StepGiven, Processes
  <2>2. out'[p] = v.out
    BY <1>3, <1>5, <2>1, SetOutDoes
  <2>3. QED
    BY <1>3, <2>1, <2>2
<1>7. Gains(p, k)
  <2>1. \A d \in Conn : \A i \in Nat :
          CountIn(out'[p], d, i) =
             (CountIn(out[p], d, i) + In(i, RecordsOf(k, d)))
               + In(i, KeptOf(p, d))
    BY <1>5, <1>6
  <2>2. QED
    BY <1>1, <1>6, <2>1, GainsKept
<1>8. Tail1(x) + 1 \in Nat
  BY <1>1, <1>3, NextNumber
<1>9. /\ EndPass(Proc(c), v) /\ Gains(Proc(c), k)
      /\ expect' = [expect EXCEPT ![Proc(c)] = Tail1(x) + 1]
      /\ forward' = [forward EXCEPT ![Proc(c)] = FALSE]
  BY <1>1, <1>3, <1>7
<1>10. PICK e \in Nat : e = Tail1(x) + 1
  BY <1>8
<1>11. expect' = [expect EXCEPT ![Proc(c)] = e]
  BY <1>9, <1>10
<1>12. QED
  BY <1>1, <1>3, <1>5, <1>9, <1>11, EndsDoes

\* The chunk is output and nothing else changes: what GoOn and FillHole have in common.
LEMMA OutputDoes ==
  ASSUME NEW c \in Conn, NEW k, NEW w, PassGiven(c, k, w), Follows(c, k),
         Ends(c, k), EndPass(Proc(c), ForEach(w, k)),
         expect' = [expect EXCEPT ![Proc(c)] = Tail1(k) + 1], UNCHANGED <<forward, rord, astray>>
  PROVE  PassResult(Proc(c), k)
<1>1. PICK p \in Procs :
           /\ p = Proc(c) /\ p = Proc(c)'
           /\ InStream(k) /\ Fits(k, p)' /\ Part(k) = got'[c] % RecLen
           /\ out[p] \in Seq(Entry) /\ w \in Outs /\ w.out = out[p]
           /\ stream \in [Conn -> Seq(Nat \ {0})]
  BY PassFacts
<1>2. PICK v \in Outs : v = ForEach(w, k) /\
          \A d \in Conn : \A i \in Nat :
            CountIn(v.out, d, i) = CountIn(out[p], d, i) + In(i, RecordsOf(k, d))
  BY <1>1, OutputGains
<1>3. forward \in [Procs -> BOOLEAN] /\ Outputs
  BY DEF PassGiven, StepGiven, Processes
<1>4. out'[p] = v.out
  BY <1>1, <1>2, <1>3, SetOutDoes
<1>5. Gains(p, k)
  <2>1. \A d \in Conn : \A i \in Nat :
            CountIn(out'[p], d, i) = CountIn(out[p], d, i) + In(i, RecordsOf(k, d))
    BY <1>2, <1>4
  <2>2. forward'[p] = forward[p] /\ rord'[p] = rord[p]
    OBVIOUS
  <2>3. QED
    BY <1>1, <2>1, <2>2, GainsOut
<1>6. PICK e \in Nat : e = Tail1(k) + 1
  BY <1>1, NextNumber
<1>7. PICK f \in BOOLEAN : f = forward[p]
  BY <1>3
<1>8. /\ Fits(k, Proc(c))' /\ EndPass(Proc(c), v) /\ Gains(Proc(c), k)
      /\ expect' = [expect EXCEPT ![Proc(c)] = e]
      /\ forward' = [forward EXCEPT ![Proc(c)] = f]
      /\ f => forward[Proc(c)]
      /\ UNCHANGED <<rord, astray>>
  BY <1>1, <1>2, <1>3, <1>5, <1>6, <1>7
<1>9. QED
  BY <1>1, <1>8, EndsDoes

\* The chunk that was awaited, with the one that was kept.
LEMMA ApplyKeptDoes ==
  ASSUME NEW c \in Conn, NEW k, NEW w, PassGiven(c, k, w), Follows(c, k),
         ApplyKept(c, Proc(c), k, w)
  PROVE  PassResult(Proc(c), k)
<1>1. PICK p \in Procs :
           /\ p = Proc(c) /\ p = Proc(c)'
           /\ InStream(k) /\ Fits(k, p)' /\ Part(k) = got'[c] % RecLen
           /\ out[p] \in Seq(Entry) /\ w \in Outs /\ w.out = out[p]
           /\ forward[p] => /\ InStream(rord[p]) /\ Part(rord[p]) = 0 /\ rord[p].first > 0
                            /\ Fits(rord[p], p)
           /\ stream \in [Conn -> Seq(Nat \ {0})]
  BY PassFacts
<1>2. PICK b : b = rord[p]
  OBVIOUS
<1>3. PICK v : v = ForEach(ForEach(w, k), b)
  OBVIOUS
<1>4. /\ Awaited(p, k) /\ Ends(c, b) /\ EndPass(p, v)
      /\ expect' = [expect EXCEPT ![p] = Tail1(b) + 1]
      /\ forward' = [forward EXCEPT ![p] = FALSE]
      /\ UNCHANGED <<rord, astray>>
  BY <1>1, <1>2, <1>3 DEF ApplyKept
<1>5. /\ forward[p] /\ Part(k) = 0
      /\ InStream(b) /\ Part(b) = 0 /\ Fits(b, p)
  BY <1>1, <1>2, <1>4 DEF Awaited, Follows, Strays
<1>6. Fits(b, Proc(c))' /\ Part(b) = got'[c] % RecLen
  <2>1. /\ UNCHANGED <<port, stream>> /\ got \in [Conn -> Nat] /\ got' \in [Conn -> Nat]
        /\ \A d \in Conn : got[d] <= got'[d]
    BY DEF PassGiven, StepGiven, Sets
  <2>2. Fits(b, p)'
    BY <1>5, <2>1, FitsLater
  <2>3. QED
    BY <1>1, <1>5, <2>2
<1>7. /\ v \in Outs
      /\ \A d \in Conn : \A i \in Nat :
           CountIn(v.out, d, i) =
             (CountIn(w.out, d, i) + In(i, RecordsOf(k, d))) + In(i, RecordsOf(b, d))
  BY <1>1, <1>3, <1>5, TwoOutput
<1>8. /\ out'[p] = v.out /\ forward'[p] = FALSE
  <2>1. Outputs /\ forward \in [Procs -> BOOLEAN]
    BY DEF PassGiven, StepGiven, Processes
  <2>2. out'[p] = v.out
    BY <1>4, <1>7, <2>1, SetOutDoes
  <2>3. QED
    BY <1>4, <2>1, <2>2
<1>9. Gains(p, k)
  <2>1. \A d \in Conn : KeptOf(p, d) = RecordsOf(b, d)
    BY <1>2, <1>5 DEF KeptOf
  <2>2. \A d \in Conn : \A i \in Nat :
          CountIn(out'[p], d, i) =
             (CountIn(out[p], d, i) + In(i, RecordsOf(k, d))) + In(i, KeptOf(p, d))
    BY <1>1, <1>7, <1>8, <2>1
  <2>3. QED
    BY <1>1, <1>8, <2>2, GainsKept
<1>10. PICK e \in Nat : e = Tail1(b) + 1
  BY <1>1, <1>5, NextNumber
<1>11. /\ EndPass(Proc(c), v) /\ Gains(Proc(c), k) /\ Ends(c, b)
       /\ expect' = [expect EXCEPT ![Proc(c)] = e]
       /\ forward' = [forward EXCEPT ![Proc(c)] = FALSE]
       /\ UNCHANGED <<rord, astray>>
  BY <1>1, <1>4, <1>9, <1>10
<1>12. QED
  BY <1>6, <1>7, <1>11, EndsDoes

\* What a pass does.
LEMMA PassDoes ==
  ASSUME NEW c \in Conn, NEW k, NEW w, PassGiven(c, k, w)
  PROVE  PassResult(Proc(c), k)
<1>1. CASE ~Follows(c, k)
  <2>1. PICK why : why = Strays(c, Proc(c), k)
    OBVIOUS
  <2>2. why \in {"overrun", "short", "part", "stale"}
    BY <1>1, <2>1 DEF Strays, Follows
  <2>3. GoAstray(Proc(c), why)
    BY <1>1, <2>1 DEF PassGiven, StepGiven, Pass, Follows
  <2>4. Loops' /\ Processes' /\ Outputs' /\ astray'[Proc(c)] # ""
    BY <2>2, <2>3, StrayKeeps DEF PassGiven
  <2>5. \A q \in Procs \ {Proc(c)} : /\ out'[q] = out[q] /\ forward'[q] = forward[q]
                                     /\ rord'[q] = rord[q] /\ astray'[q] = astray[q]
    BY <2>3 DEF GoAstray, outVars, procVars, PassGiven, StepGiven, Processes
  <2>6. QED
    BY <2>4, <2>5 DEF PassResult
<1>2. CASE Follows(c, k)
  <2>1. \/ Keep(c, Proc(c), k) \/ GiveUp(c, Proc(c), k, w) \/ GoOn(c, Proc(c), k, w)
        \/ FillHole(c, Proc(c), k, w) \/ ApplyKept(c, Proc(c), k, w)
    BY <1>2 DEF PassGiven, StepGiven, Pass, Follows
  <2>2. CASE Keep(c, Proc(c), k)
    BY <1>2, <2>2, KeepDoes
  <2>3. CASE GiveUp(c, Proc(c), k, w)
    BY <1>2, <2>3, GiveUpDoes
  <2>4. CASE GoOn(c, Proc(c), k, w)
    BY <1>2, <2>4, OutputDoes DEF GoOn
  <2>5. CASE FillHole(c, Proc(c), k, w)
    BY <1>2, <2>5, OutputDoes DEF FillHole, EndPass
  <2>6. CASE ApplyKept(c, Proc(c), k, w)
    BY <1>2, <2>6, ApplyKeptDoes
  <2>7. QED
    BY <2>1, <2>2, <2>3, <2>4, <2>5, <2>6
<1>3. QED
  BY <1>1, <1>2

-----------------------------------------------------------------------------
(* What is read is output or kept. *)

\* While a process is on track its passes follow the records.
LEMMA OnTrackFollows ==
  ASSUME NEW c \in Conn, NEW k, NEW w, PassGiven(c, k, w), astray'[Proc(c)] = ""
  PROVE  Follows(c, k)
<1>1. SUFFICES ASSUME ~Follows(c, k) PROVE FALSE
  OBVIOUS
<1>2. GoAstray(Proc(c), Strays(c, Proc(c), k)) /\ Strays(c, Proc(c), k) # ""
  BY <1>1 DEF PassGiven, Pass, Follows
<1>3. astray \in [Procs -> {"", "overrun", "short", "part", "stale"}] /\ Proc(c) \in Procs
  BY ProcIs DEF PassGiven, StepGiven, Processes
<1>4. astray'[Proc(c)] = Strays(c, Proc(c), k)
  BY <1>2, <1>3 DEF GoAstray
<1>5. QED
  BY <1>2, <1>4

\* What a connection's process holds of it.
LEMMA HeldIs ==
  ASSUME NEW d, NEW i, NEW q, Proc(d) = q, Proc(d)' = q
  PROVE  /\ Held(d, i) = HeldAt(out[q], forward[q], rord[q], d, i)
         /\ Held(d, i)' = HeldAt(out'[q], forward'[q], rord'[q], d, i)
<1>1. /\ Kept(d) = (IF forward[q] THEN RecordsOf(rord[q], d) ELSE {})
      /\ Kept(d)' = (IF forward'[q] THEN RecordsOf(rord'[q], d) ELSE {})
  BY DEF Kept, RecordsOf, Records, Whole
<1>2. Times(d, i) = CountIn(out[q], d, i) /\ Times(d, i)' = CountIn(out'[q], d, i)
  BY Zenon DEF Times, CountIn
<1>3. /\ Held(d, i) = Times(d, i) + In(i, Kept(d))
      /\ Held(d, i)' = Times(d, i)' + In(i, Kept(d)')
  BY DEF Held, In
<1>4. QED
  BY <1>1, <1>2, <1>3, Zenon DEF HeldAt

\* The records the chunk brings are the newly received ones, or have come again.
Brings(k, p) ==
  \A d \in Conn : Proc(d) = p => \A i \in Nat :
    IF again'[p] THEN i \in Received(d)' => i \in Received(d) \/ i \in RecordsOf(k, d)
    ELSE In(i, Received(d)') = In(i, Received(d)) + In(i, RecordsOf(k, d))

\* A pass over a chunk of new records, or one that is noted to be over old ones.
LEMMA PassAccounts ==
  ASSUME NEW c \in Conn, NEW k, NEW w, PassGiven(c, k, w), Accounted,
         again[Proc(c)] => again'[Proc(c)],
         \A q \in Procs \ {Proc(c)} : again'[q] = again[q],
         Follows(c, k) => Brings(k, Proc(c))
  PROVE  Accounted'
<1>1. PICK p \in Procs : p = Proc(c)
  BY ProcIs
<1>2. PassResult(p, k)
  BY <1>1, PassDoes
<1>3. /\ again' \in [Procs -> BOOLEAN] /\ got' \in [Conn -> Nat]
      /\ \A d \in Conn : Proc(d)' = Proc(d)
      /\ \A d \in Conn \ {c} : got'[d] = got[d]
  BY DEF PassGiven, StepGiven, Proc
<1> SUFFICES ASSUME NEW d \in Conn, OnTrack(d)', NEW i \in Nat
             PROVE  IF again'[Proc(d)] THEN i \in Received(d)' => Held(d, i)' >= 1
                    ELSE Held(d, i)' = In(i, Received(d)')
  BY <1>3, Zenon DEF Accounted
<1>4. PICK q \in Procs : q = Proc(d)
  BY ProcIs
<1>5. /\ Held(d, i) = HeldAt(out[q], forward[q], rord[q], d, i)
      /\ Held(d, i)' = HeldAt(out'[q], forward'[q], rord'[q], d, i)
  BY <1>3, <1>4, HeldIs
<1>6. CASE q # p
  <2>1. /\ out'[q] = out[q] /\ forward'[q] = forward[q] /\ rord'[q] = rord[q]
        /\ astray'[q] = astray[q] /\ again'[q] = again[q]
    BY <1>1, <1>2, <1>6 DEF PassResult
  <2>2. Held(d, i)' = Held(d, i)
    BY <1>5, <2>1
  <2>3. Received(d)' = Received(d)
    BY <1>1, <1>3, <1>4, <1>6 DEF Received
  <2>4. IF again[q] THEN i \in Received(d) => Held(d, i) >= 1
        ELSE Held(d, i) = In(i, Received(d))
    <3>1. OnTrack(d)
      BY <1>3, <1>4, <2>1 DEF OnTrack
    <3>2. QED
      BY <1>4, <3>1, Zenon DEF Accounted
  <2>5. QED
    BY <1>4, <2>1, <2>2, <2>3, <2>4
<1>7. CASE q = p
  <2>1. astray'[p] = "" /\ Proc(d) = p
    BY <1>3, <1>4, <1>7 DEF OnTrack
  <2>2. Follows(c, k)
    BY <1>1, <2>1, OnTrackFollows
  <2>3. astray[p] = "" /\ Gains(p, k)
    BY <1>2, <2>1 DEF PassResult
  <2> DEFINE x == Held(d, i)  y == In(i, RecordsOf(k, d))  z == Held(d, i)'
             r == In(i, Received(d))  s == In(i, Received(d)')
  <2>4. z = x + y
    BY <1>5, <1>7, <2>3 DEF Gains
  <2>5. IF again'[p] THEN i \in Received(d)' => i \in Received(d) \/ i \in RecordsOf(k, d)
        ELSE s = r + y
    BY <1>1, <2>1, <2>2 DEF Brings
  <2>6. IF again[p] THEN i \in Received(d) => x >= 1 ELSE x = r
    <3>1. OnTrack(d)
      BY <2>1, <2>3 DEF OnTrack
    <3>2. QED
      BY <2>1, <3>1, Zenon DEF Accounted
  <2>7. y \in Nat /\ r \in Nat /\ x \in Nat
    <3>1. out[p] \in Seq(Entry)
      <4>1. Out(p) \in Outs /\ Out(p).out = out[p]
        BY DEF PassGiven, StepGiven, Outputs, Out
      <4> HIDE DEF Outs
      <4>2. QED
        BY <4>1, OutsParts
    <3>2. HeldAt(out[p], forward[p], rord[p], d, i) \in Nat
      <4>1. \A S : CountIn(out[p], d, i) + In(i, S) \in Nat
        BY <3>1, HeldType
      <4>2. QED
        BY <4>1 DEF HeldAt
    <3>3. QED
      BY <1>5, <1>7, <3>2 DEF In
  <2>8. CASE again'[p]
    <3>1. i \in Received(d) => x >= 1
      <4>1. r >= 1 <=> i \in Received(d)
        BY DEF In
      <4> HIDE DEF x, r
      <4>2. QED
        BY <2>6, <4>1
    <3>2. i \in RecordsOf(k, d) => y = 1
      BY DEF In
    <3> HIDE DEF x, y, z, r, s
    <3>3. i \in Received(d)' => z >= 1
      <4>1. ASSUME i \in Received(d) PROVE z >= 1
        <5>1. x >= 1
          BY <3>1, <4>1
        <5>2. QED
          BY <2>4, <2>7, <5>1
      <4>2. ASSUME i \in RecordsOf(k, d) PROVE z >= 1
        <5>1. y = 1
          BY <3>2, <4>2
        <5>2. QED
          BY <2>4, <2>7, <5>1
      <4>3. QED
        BY <2>5, <2>8, <4>1, <4>2
    <3>4. QED
      BY <1>4, <1>7, <2>8, <3>3 DEF z
  <2>9. CASE ~again'[p]
    <3>1. ~again[p]
      BY <1>1, <2>9
    <3>2. x = r /\ s = r + y
      BY <2>5, <2>6, <2>9, <3>1
    <3> HIDE DEF x, y, z, r, s
    <3>3. z = s
      BY <2>4, <3>2
    <3>4. QED
      BY <1>4, <1>7, <2>9, <3>3 DEF z, s
  <2>10. QED
    BY <2>8, <2>9
<1>8. QED
  BY <1>6, <1>7

-----------------------------------------------------------------------------
(* The steps. *)

\* The chunk k in the buffer of c is what the read has added, and lies inside it.
Loads(k, c) ==
  /\ Fits(k, Proc(c))' /\ Part(k) = got'[c] % RecLen
  /\ k.of = c /\ k.first = (got[c] \div RecLen) + 1
  /\ k.first + Whole(k) - 1 = got'[c] \div RecLen

\* That is what a read makes of the buffer.
LEMMA LoadedFits ==
  ASSUME NEW c \in Conn, Sets, Loops, port' = port, stream' = stream, OnTrack(c), NEW n \in Nat,
         n <= Rest(c), got' = [got EXCEPT ![c] = @ + n], n > 0 \/ left[c] # 0,
         NEW k, k = Loaded(c, n), k.len <= BufLen
  PROVE  Loads(k, c)
<1> DEFINE g == got[c]  l == Len(stream[c])
<1>1. /\ g \in Nat /\ l \in Nat /\ RecLen \in Nat \ {0} /\ BufLen \in Nat /\ g <= RecLen * l
      /\ left[c] = g % RecLen /\ left[c] \in Nat
      /\ got \in [Conn -> Nat]
  BY RecvTcpAssumption DEF Sets, Loops
<1>2. k = [of |-> c, first |-> (g \div RecLen) + 1, len |-> (g % RecLen) + n]
  BY <1>1 DEF Loaded
<1>3. got'[c] = g + n
  BY <1>1
<1>4. n <= RecLen * l - g
  BY DEF Rest
<1> HIDE DEF g, l
<1> DEFINE m == (g % RecLen) + n
<1>5. g % RecLen \in Nat /\ g \div RecLen \in Nat /\ m \in Nat
  <2>1. g % RecLen \in Nat
    BY <1>1
  <2>2. g \div RecLen \in Nat
    BY <1>1, Parts
  <2>3. QED
    BY <2>1, <2>2
<1>6. /\ (g + n) \div RecLen = (g \div RecLen) + (m \div RecLen)
      /\ (g + n) % RecLen = m % RecLen
  BY <1>1, PartsAdd
<1>7. k.of = c /\ k.first = (g \div RecLen) + 1 /\ k.len = m
  BY <1>2
<1>m. m = (g % RecLen) + n
  OBVIOUS
<1> HIDE DEF m
<1>8. m \div RecLen \in Nat /\ Whole(k) = m \div RecLen /\ Part(k) = m % RecLen
  BY <1>1, <1>5, <1>7, Parts DEF Whole, Part
<1>9. k.first + Whole(k) - 1 = got'[c] \div RecLen
  <2> DEFINE x == g \div RecLen  y == m \div RecLen  z == got'[c] \div RecLen
  <2>1. x \in Nat /\ y \in Nat /\ z = x + y /\ k.first = x + 1 /\ Whole(k) = y
    BY <1>3, <1>5, <1>6, <1>7, <1>8
  <2> HIDE DEF x, y, z
  <2>2. k.first + Whole(k) - 1 = z
    BY <2>1
  <2>3. QED
    BY <2>2 DEF z
<1>10. Part(k) = got'[c] % RecLen
  BY <1>3, <1>6, <1>8
<1>11. g \div RecLen < l
  <2>1. RecLen * l \in Nat
    BY <1>1
  <2>2. CASE n > 0
    <3>1. g < RecLen * l
      BY <1>1, <1>4, <2>1, <2>2
    <3>2. QED
      BY <1>1, <3>1, PartsInside
  <2>3. CASE g % RecLen # 0
    BY <1>1, <2>3, PartsInside
  <2>4. QED
    BY <1>1, <2>2, <2>3
<1>12. (g + n) \div RecLen <= l
  <2>1. RecLen * l \in Nat
    BY <1>1
  <2>2. g + n <= RecLen * l /\ g + n \in Nat
    BY <1>1, <1>4, <2>1
  <2> DEFINE h == g + n
  <2>3. h \in Nat /\ h <= RecLen * l
    BY <2>2
  <2> HIDE DEF h
  <2>4. h \div RecLen <= l
    BY <1>1, <2>3, PartsInside
  <2>5. QED
    BY <2>4 DEF h
<1>13. InStream(k)
  <2>1. k \in Chunk
    <3>1. (g \div RecLen) + 1 \in Nat /\ m \in 0..BufLen
      BY <1>1, <1>5, <1>7
    <3>2. k = [of |-> c, first |-> (g \div RecLen) + 1, len |-> m]
      BY <1>2, <1>m
    <3>3. QED
      BY <3>1, <3>2 DEF Chunk
  <2>2. k.first <= l /\ k.first # 0
    BY <1>1, <1>5, <1>7, <1>11
  <2>3. k.first + Whole(k) - 1 <= l
    BY <1>3, <1>9, <1>12
  <2>4. QED
    BY <1>7, <2>1, <2>2, <2>3 DEF InStream, l
<1>14. Fits(k, Proc(c))'
  <2>1. InStream(k)'
    BY <1>13 DEF InStream, Whole
  <2>2. Proc(k.of)' = Proc(c)'
    BY <1>7
  <2>3. k.first + Whole(k) - 1 <= got'[k.of] \div RecLen
    <3>1. got'[c] \div RecLen \in Int
      BY <1>3, <1>5, <1>6, <1>8
    <3>2. QED
      BY <1>7, <1>9, <3>1
  <2>4. QED
    BY <2>1, <2>2, <2>3 DEF Fits, Whole
<1>15. QED
  BY <1>7, <1>9, <1>10, <1>14 DEF g, Loads

\* The records it brings are the newly received ones.
LEMMA LoadedBrings ==
  ASSUME NEW c \in Conn, Sets, Loops, UNCHANGED <<port, stream, again>>, OnTrack(c), NEW n \in Nat,
         n <= Rest(c), got' = [got EXCEPT ![c] = @ + n], n > 0 \/ left[c] # 0,
         NEW k, k = Loaded(c, n), k.len <= BufLen
  PROVE  Brings(k, Proc(c))
<1>1. /\ k.of = c /\ k.first = (got[c] \div RecLen) + 1
      /\ k.first + Whole(k) - 1 = got'[c] \div RecLen
  <2>1. port' = port /\ stream' = stream
    OBVIOUS
  <2>2. Loads(k, c)
    BY <2>1, LoadedFits
  <2>3. QED
    BY <2>2, Zenon DEF Loads
<1>2. PICK x, y : x = got[c] \div RecLen /\ y = got'[c] \div RecLen
  OBVIOUS
<1>3. x \in Nat /\ y \in Nat /\ x <= y
  <2>1. got[c] \in Nat /\ got'[c] \in Nat /\ got[c] <= got'[c] /\ RecLen \in Nat \ {0}
    BY RecvTcpAssumption DEF Sets
  <2>2. QED
    BY <1>2, <2>1, PartsMore
<1>4. Received(c) = 1..x /\ Received(c)' = 1..y /\ Records(k) = (x + 1)..y
  BY <1>1, <1>2 DEF Received, Records
<1>5. \A d \in Conn \ {c} : Received(d)' = Received(d) /\ RecordsOf(k, d) = {}
  BY <1>1 DEF Sets, Received, RecordsOf
<1>6. ASSUME NEW d \in Conn, NEW i \in Nat
      PROVE  /\ In(i, Received(d)') = In(i, Received(d)) + In(i, RecordsOf(k, d))
             /\ i \in Received(d)' => i \in Received(d) \/ i \in RecordsOf(k, d)
  <2>1. CASE d = c
    <3>1. RecordsOf(k, d) = (x + 1)..y
      BY <1>1, <1>4, <2>1 DEF RecordsOf
    <3>2. i \in 1..y <=> i \in 1..x \/ i \in (x + 1)..y
      BY <1>3
    <3>3. ~(i \in 1..x /\ i \in (x + 1)..y)
      BY <1>3
    <3>4. QED
      BY <1>4, <2>1, <3>1, <3>2, <3>3 DEF In
  <2>2. CASE d # c
    BY <1>5, <2>2 DEF In
  <2>3. QED
    BY <2>1, <2>2
<1>7. QED
  BY <1>6 DEF Brings

\* A step that leaves the loops, the processes and what was output alone.
LEMMA UntouchedButWriters ==
  ASSUME Loops, Processes, Accounted,
         UNCHANGED <<port, stream, got, loopVars, procVars, out, files, markVars>>
  PROVE  Loops' /\ Processes' /\ Accounted'
<1> USE DEF loopVars, procVars, markVars
<1>1. Loops'
  BY DEF Loops, OnTrack, Proc, Fits, InStream, Part, Whole
<1>2. Processes'
  BY DEF Processes, Proc, Fits, InStream, Part, Whole
<1>3. Accounted'
  <2>1. \A c \in Conn : OnTrack(c)' <=> OnTrack(c)
    BY DEF OnTrack, Proc
  <2>p. \A c \in Conn : Proc(c)' = Proc(c)
    BY DEF Proc
  <2>r. \A c \in Conn : Received(c)' = Received(c)
    BY DEF Received
  <2>2. \A c \in Conn : \A i \in Nat : Held(c, i)' = Held(c, i)
    <3>1. ASSUME NEW c \in Conn, NEW i \in Nat PROVE Held(c, i)' = Held(c, i)
      <4>1. PICK q : q = Proc(c) /\ q = Proc(c)'
        BY <2>p
      <4>2. /\ Held(c, i) = HeldAt(out[q], forward[q], rord[q], c, i)
            /\ Held(c, i)' = HeldAt(out'[q], forward'[q], rord'[q], c, i)
        BY <4>1, HeldIs
      <4>3. QED
        BY <4>2
    <3>2. QED
      BY <3>1
  <2>3. again' = again
    OBVIOUS
  <2>4. ASSUME NEW c \in Conn, OnTrack(c)', NEW i \in Nat
        PROVE  IF again'[Proc(c)'] THEN i \in Received(c)' => Held(c, i)' >= 1
               ELSE Held(c, i)' = In(i, Received(c)')
    <3>1. IF again[Proc(c)] THEN i \in Received(c) => Held(c, i) >= 1
          ELSE Held(c, i) = In(i, Received(c))
      BY <2>1, <2>4, Zenon DEF Accounted
    <3>2. /\ again'[Proc(c)'] = again[Proc(c)]
          /\ Received(c)' = Received(c) /\ Held(c, i)' = Held(c, i)
      BY <2>p, <2>r, <2>2, <2>3
    <3>3. QED
      BY <3>1, <3>2, Zenon
  <2>5. QED
    BY <2>4, Zenon DEF Accounted, In
<1>4. QED
  BY <1>1, <1>2, <1>3

\* A step that leaves the writers alone too.
LEMMA Untouched ==
  ASSUME Loops, Processes, Outputs, Accounted,
         UNCHANGED <<port, stream, got, loopVars, procVars, outVars, markVars>>
  PROVE  Loops' /\ Processes' /\ Outputs' /\ Accounted'
<1>1. Outputs'
  BY DEF Outputs, Out, Outs, outVars
<1>2. QED
  BY <1>1, UntouchedButWriters DEF outVars

\* Sets of connections after a step.
LEMMA SetsLater ==
  ASSUME Sets, UNCHANGED <<port, stream>>, ticks' \in Nat,
         accepted' \subseteq Conn, closed' \subseteq accepted', silent' \subseteq accepted' \ closed',
         got' \in [Conn -> Nat], \A c \in Conn : got'[c] <= RecLen * Len(stream[c])
  PROVE  Sets'
BY DEF Sets

\* The pass of a read.
LEMMA ReadGiven ==
  ASSUME NEW c \in Conn, IInv, UNCHANGED <<port, stream, again>>, NEW n \in Nat,
         n <= Rest(c), got' = [got EXCEPT ![c] = @ + n], n > 0 \/ left[c] # 0,
         NEW k, k = Loaded(c, n), NEW w, w = Out(Proc(c)), Pass(c, k, w)
  PROVE  PassGiven(c, k, w) /\ (Follows(c, k) => k.len <= BufLen /\ Brings(k, Proc(c)))
<1>3. OnTrack(c)
  BY DEF Pass, OnTrack
<1>4. Sets /\ Loops /\ Processes /\ Outputs /\ Accounted
  BY DEF IInv
<1>5. Follows(c, k) => k.len <= BufLen
  <2>1. SUFFICES ASSUME Follows(c, k) PROVE k.len <= BufLen
    OBVIOUS
  <2>2. ~ (k.len > BufLen)
    BY <2>1 DEF Follows, Strays
  <2>3. k.len \in Nat
    <3>1. left[c] \in Nat /\ got[c] \in Nat
      BY <1>4, RecvTcpAssumption DEF Loops, Sets
    <3>2. ~ (n = 0 /\ left[c] = 0)
      BY <3>1
    <3>3. k.len = left[c] + n
      BY <3>2 DEF Loaded
    <3>4. QED
      BY <3>1, <3>3
  <2>4. QED
    BY <2>2, <2>3, RecvTcpAssumption
<1>6. Follows(c, k) => Fits(k, Proc(c))' /\ Part(k) = got'[c] % RecLen
  <2>1. Follows(c, k) => Loads(k, c)
    BY <1>3, <1>4, <1>5, LoadedFits
  <2>2. QED
    BY <2>1, Zenon DEF Loads
<1>7. Follows(c, k) => Brings(k, Proc(c))
  BY <1>3, <1>4, <1>5, LoadedBrings
<1>8. /\ got' \in [Conn -> Nat] /\ \A d \in Conn : got[d] <= got'[d]
      /\ \A d \in Conn \ {c} : got'[d] = got[d]
      /\ again' \in [Procs -> BOOLEAN]
  <2>1. got \in [Conn -> Nat] /\ again' \in [Procs -> BOOLEAN]
    BY <1>4 DEF Sets, Processes
  <2>2. /\ got'[c] = got[c] + n /\ got[c] \in Nat /\ got'[c] \in Nat
        /\ \A d \in Conn \ {c} : got'[d] = got[d] /\ got[d] \in Nat
    BY <2>1
  <2>3. got' \in [Conn -> Nat]
    BY <2>1, <2>2
  <2>4. \A d \in Conn : got[d] <= got'[d]
    BY <2>2
  <2>5. QED
    BY <2>1, <2>2, <2>3, <2>4
<1>9. w \in Outs /\ w.out = out[Proc(c)]
  <2>1. Out(Proc(c)) \in Outs
    BY <1>4, ProcIs DEF Outputs
  <2>2. QED
    BY <2>1 DEF Out
<1>10. PassGiven(c, k, w)
  BY <1>4, <1>6, <1>8, <1>9 DEF PassGiven, StepGiven
<1>11. QED
  BY <1>5, <1>7, <1>10

LEMMA ReadPass ==
  ASSUME NEW c \in Conn, IInv, UNCHANGED <<port, stream, again>>, NEW n \in Nat,
         n <= Rest(c), got' = [got EXCEPT ![c] = @ + n], n > 0 \/ left[c] # 0,
         Pass(c, Loaded(c, n), Out(Proc(c)))
  PROVE  Loops' /\ Processes' /\ Outputs' /\ Accounted'
<1>1. PICK k : k = Loaded(c, n)
  OBVIOUS
<1>2. PICK w : w = Out(Proc(c))
  OBVIOUS
<1>3. Pass(c, k, w)
  BY <1>1, <1>2
<1>4. PassGiven(c, k, w) /\ (Follows(c, k) => Brings(k, Proc(c)))
  BY <1>1, <1>2, <1>3, ReadGiven
<1>5. Accounted'
  BY <1>4, PassAccounts DEF IInv
<1>6. Loops' /\ Processes' /\ Outputs'
  BY <1>4, PassDoes DEF PassResult
<1>7. QED
  BY <1>5, <1>6

\* The pass of a read that returned nothing and found nothing.
LEMMA EmptyGiven ==
  ASSUME NEW c \in Conn, IInv, UNCHANGED <<port, stream, got, again>>, left[c] = 0,
         NEW k, k = [buf[c] EXCEPT !.len = 0], NEW w, w = Out(Proc(c)), Pass(c, k, w)
  PROVE  /\ PassGiven(c, k, w) /\ Brings(k, Proc(c))
         /\ k.of = buf[c].of /\ k.first = buf[c].first /\ k.len = 0
         /\ Whole(k) = 0 /\ Part(k) = 0
<1>3. OnTrack(c) /\ Pass(c, k, w)
  BY DEF Pass, OnTrack
<1>4. Sets /\ Loops /\ Processes /\ Outputs /\ Accounted
  BY DEF IInv
<1>5. /\ RecLen \in Nat \ {0} /\ BufLen \in Nat
      /\ got \in [Conn -> Nat] /\ stream \in [Conn -> Seq(Nat \ {0})]
      /\ Fits(buf[c], Proc(c)) /\ 0 = got[c] % RecLen
  BY <1>3, <1>4, RecvTcpAssumption DEF Loops, Sets
<1>6. PICK b : b = buf[c]
  OBVIOUS
<1>7. /\ b = [of |-> b.of, first |-> b.first, len |-> b.len] /\ b.of \in Conn /\ b.first \in Nat
      /\ InStream(b) /\ Proc(b.of) = Proc(c)
      /\ b.first + Whole(b) - 1 <= got[b.of] \div RecLen
      /\ Whole(b) \in Nat
  BY <1>5, <1>6, ChunkFacts DEF Fits
<1>8. k = [of |-> b.of, first |-> b.first, len |-> 0]
  BY <1>6, <1>7
<1>9. Whole(k) = 0 /\ Part(k) = 0
  <2>1. 0 = RecLen * 0 + 0 /\ 0 \in 0..(RecLen - 1)
    BY <1>5
  <2>2. QED
    BY <1>5, <1>8, <2>1, PartsOnce DEF Whole, Part
<1>10. Records(k) = {}
  BY <1>7, <1>8, <1>9 DEF Records
<1>11. Fits(k, Proc(c))
  <2>1. k \in Chunk
    BY ONLY <1>5, <1>7, <1>8 DEF Chunk
  <2>2. b.first <= Len(stream[b.of]) /\ b.first + Whole(b) - 1 <= Len(stream[b.of])
    BY <1>7 DEF InStream
  <2>3. Len(stream[b.of]) \in Nat /\ got[b.of] \div RecLen \in Nat
    BY <1>5, <1>7, Parts
  <2>4. b.first - 1 <= got[b.of] \div RecLen
    <3> DEFINE x == got[b.of] \div RecLen  y == Whole(b)
    <3>1. x \in Nat /\ y \in Nat /\ b.first + y - 1 <= x
      BY <1>7, <2>3
    <3> HIDE DEF x, y
    <3>2. b.first - 1 <= x
      BY <1>7, <3>1
    <3>3. QED
      BY <3>2 DEF x
  <2>5. b.first - 1 <= Len(stream[b.of])
    BY <1>7, <2>2, <2>3
  <2>6. k.of = b.of /\ k.first = b.first /\ k.len = 0
    BY <1>8
  <2>7. k.first + Whole(k) - 1 = b.first - 1
    BY <1>7, <1>9, <2>6
  <2>8. QED
    BY <1>7, <2>1, <2>2, <2>4, <2>5, <2>6, <2>7 DEF Fits, InStream
<1>12. Fits(k, Proc(c))' /\ Part(k) = got'[c] % RecLen
  <2>1. PICK q : q = Proc(c) /\ q = Proc(c)'
    BY DEF Proc
  <2>2. \A d \in Conn : got[d] <= got'[d]
    BY <1>5
  <2>3. Fits(k, q)'
    BY <1>5, <1>11, <2>1, <2>2, FitsLater
  <2>4. QED
    BY <1>5, <1>9, <2>1, <2>3
<1>13. Brings(k, Proc(c))
  <2>1. \A d \in Conn : RecordsOf(k, d) = {} /\ Received(d)' = Received(d)
    BY <1>10 DEF RecordsOf, Received
  <2>2. QED
    BY <2>1 DEF Brings, In
<1>14. w \in Outs /\ w.out = out[Proc(c)]
  <2>1. Out(Proc(c)) \in Outs
    BY <1>4, ProcIs DEF Outputs
  <2>2. QED
    BY <2>1 DEF Out
<1>15. PassGiven(c, k, w)
  <2>1. \A d \in Conn : got[d] <= got'[d]
    BY <1>5
  <2>2. again' \in [Procs -> BOOLEAN]
    BY <1>4 DEF Processes
  <2>3. QED
    BY <1>3, <1>4, <1>5, <1>12, <1>14, <2>1, <2>2 DEF PassGiven, StepGiven
<1>16. QED
  BY <1>6, <1>8, <1>9, <1>13, <1>15

LEMMA EmptyPass ==
  ASSUME NEW c \in Conn, IInv, UNCHANGED <<port, stream, got, again>>, left[c] = 0,
         Pass(c, Loaded(c, 0), Out(Proc(c)))
  PROVE  Loops' /\ Processes' /\ Outputs' /\ Accounted'
<1>1. PICK k : k = [buf[c] EXCEPT !.len = 0]
  OBVIOUS
<1>2. PICK w : w = Out(Proc(c))
  OBVIOUS
<1>3. Pass(c, k, w)
  BY <1>1, <1>2 DEF Loaded
<1>4. PassGiven(c, k, w) /\ Brings(k, Proc(c))
  BY <1>1, <1>2, <1>3, EmptyGiven
<1>5. Accounted'
  BY <1>4, PassAccounts DEF IInv
<1>6. Loops' /\ Processes' /\ Outputs'
  BY <1>4, PassDoes DEF PassResult
<1>7. QED
  BY <1>5, <1>6

\* A process that is astray has nothing to account for; the others are as before.
LEMMA StrayAccounts ==
  ASSUME NEW c \in Conn, IInv, UNCHANGED <<port, stream, got>>, GoAstray(Proc(c), "stale"),
         \A q \in Procs \ {Proc(c)} : again'[q] = again[q]
  PROVE  Accounted'
<1>1. PICK p \in Procs : p = Proc(c)
  BY ProcIs
<1>2. /\ astray \in [Procs -> {"", "overrun", "short", "part", "stale"}]
      /\ out' = out /\ forward' = forward /\ rord' = rord
      /\ astray' = [astray EXCEPT ![p] = "stale"]
  BY <1>1 DEF IInv, Processes, GoAstray, outVars, procVars
<1>3. \A d \in Conn : Proc(d)' = Proc(d)
  BY DEF Proc
<1>4. \A d \in Conn : Received(d)' = Received(d)
  BY DEF Received
<1>5. SUFFICES ASSUME NEW d \in Conn, OnTrack(d)', NEW i \in Nat
               PROVE  IF again'[Proc(d)'] THEN i \in Received(d)' => Held(d, i)' >= 1
                      ELSE Held(d, i)' = In(i, Received(d)')
  BY Zenon DEF Accounted, In
<1>6. PICK q \in Procs : q = Proc(d) /\ q = Proc(d)'
  BY <1>3, ProcIs
<1>7. /\ Held(d, i) = HeldAt(out[q], forward[q], rord[q], d, i)
      /\ Held(d, i)' = HeldAt(out'[q], forward'[q], rord'[q], d, i)
  BY <1>6, HeldIs
<1>8. q # p /\ astray[q] = ""
  BY <1>2, <1>5, <1>6 DEF OnTrack
<1>9. OnTrack(d)
  BY <1>6, <1>8 DEF OnTrack
<1>10. again'[q] = again[q]
  BY <1>1, <1>8
<1>11. IF again[Proc(d)] THEN i \in Received(d) => Held(d, i) >= 1
       ELSE Held(d, i) = In(i, Received(d))
  BY <1>9, Zenon DEF IInv, Accounted
<1>12. /\ again'[Proc(d)'] = again[Proc(d)]
       /\ Received(d)' = Received(d) /\ Held(d, i)' = Held(d, i)
  BY <1>2, <1>4, <1>6, <1>7, <1>10
<1>13. QED
  BY <1>11, <1>12, Zenon

\* A pass over what the buffer held before.
LEMMA AgainGiven ==
  ASSUME NEW c \in Conn, IInv, UNCHANGED <<port, stream, got>>,
         NEW w \in Outs, w.out = out[Proc(c)], PassAgain(c, w)
  PROVE  /\ again' \in [Procs -> BOOLEAN]
         /\ \A q \in Procs \ {Proc(c)} : again'[q] = again[q]
         /\ again[Proc(c)] => again'[Proc(c)]
         /\ buf[c].len > 0 => again'[Proc(c)]
         /\ StepGiven(c)
         /\ left[c] \in {0, buf[c].len} => PassGiven(c, buf[c], w)
<1>1. Sets /\ Loops /\ Processes /\ Outputs
  BY DEF IInv
<1>2. PICK p \in Procs : p = Proc(c) /\ p = Proc(c)'
  BY ProcIs DEF Proc
<1>3. again \in [Procs -> BOOLEAN] /\ again' = [again EXCEPT ![p] = again[p] \/ buf[c].len > 0]
  BY <1>1, <1>2 DEF Processes, PassAgain
<1>4. /\ again' \in [Procs -> BOOLEAN]
      /\ \A q \in Procs \ {p} : again'[q] = again[q]
      /\ again[p] => again'[p]
      /\ buf[c].len > 0 => again'[p]
  BY <1>3
<1>5. got' \in [Conn -> Nat] /\ got' = got /\ \A d \in Conn : got[d] <= got'[d]
  BY <1>1 DEF Sets
<1>6. StepGiven(c)
  BY <1>1, <1>4, <1>5 DEF StepGiven
<1>7. left[c] \in {0, buf[c].len} => PassGiven(c, buf[c], w)
  <2>1. SUFFICES ASSUME left[c] \in {0, buf[c].len} PROVE PassGiven(c, buf[c], w)
    OBVIOUS
  <2>2. PICK k : k = buf[c]
    OBVIOUS
  <2>3. Pass(c, k, w) /\ OnTrack(c)
    BY <1>2, <2>1, <2>2 DEF PassAgain, Pass, OnTrack
  <2>4. Fits(k, p) /\ Part(k) = got[c] % RecLen
    BY <1>1, <1>2, <2>2, <2>3 DEF Loops
  <2>5. Fits(k, p)'
    BY <1>1, <1>5, <2>4, FitsLater DEF Sets
  <2>6. Fits(k, Proc(c))' /\ Part(k) = got'[c] % RecLen
    BY <1>2, <1>5, <2>4, <2>5
  <2>7. PassGiven(c, k, w)
    BY <1>2, <1>6, <2>3, <2>6 DEF PassGiven
  <2>8. QED
    BY <2>2, <2>7
<1>8. QED
  BY <1>2, <1>4, <1>6, <1>7

LEMMA PassAgainKeeps ==
  ASSUME NEW c \in Conn, IInv, UNCHANGED <<port, stream, got>>,
         NEW w \in Outs, w.out = out[Proc(c)], PassAgain(c, w)
  PROVE  Loops' /\ Processes' /\ Outputs' /\ Accounted'
<1>1. Sets /\ Loops /\ Processes /\ Outputs /\ Accounted
  BY DEF IInv
<1>2. PICK p \in Procs : p = Proc(c) /\ p = Proc(c)'
  BY ProcIs DEF Proc
<1>4. /\ again' \in [Procs -> BOOLEAN]
      /\ \A q \in Procs \ {p} : again'[q] = again[q]
      /\ again[p] => again'[p]
      /\ buf[c].len > 0 => again'[p]
      /\ StepGiven(c)
      /\ left[c] \in {0, buf[c].len} => PassGiven(c, buf[c], w)
  BY <1>2, AgainGiven
<1>7. CASE left[c] \notin {0, buf[c].len}
  <2>1. GoAstray(p, "stale")
    BY <1>2, <1>7 DEF PassAgain
  <2>2. Loops' /\ Processes' /\ Outputs'
    BY <1>2, <1>4, <2>1, StrayKeeps
  <2>3. Accounted'
    BY <1>2, <1>4, <2>1, StrayAccounts
  <2>4. QED
    BY <2>2, <2>3
<1>8. CASE left[c] \in {0, buf[c].len}
  <2>1. PICK k : k = buf[c]
    OBVIOUS
  <2>5. PassGiven(c, k, w)
    BY <1>4, <1>8, <2>1
  <2>6. Brings(k, p)
    <3>1. \A d \in Conn : Received(d)' = Received(d)
      BY DEF Received
    <3>2. CASE again'[p]
      BY <3>1, <3>2 DEF Brings
    <3>3. CASE ~again'[p]
      <4>1. InStream(k) /\ stream \in [Conn -> Seq(Nat \ {0})]
        BY <1>1, <2>1 DEF Loops, Fits, Sets
      <4>2. k.len = 0 /\ k.first \in Nat
        <5>1. k.len \in Nat /\ k.first \in Nat
          BY <4>1, RecvTcpAssumption DEF InStream, Chunk
        <5>2. QED
          BY <1>4, <2>1, <3>3, <5>1
      <4>3. Whole(k) = 0
        <5>1. 0 = RecLen * 0 + 0 /\ 0 \in 0..(RecLen - 1) /\ RecLen \in Nat \ {0}
          BY RecvTcpAssumption
        <5>2. QED
          BY <4>2, <5>1, PartsOnce DEF Whole
      <4>4. Records(k) = {}
        BY <4>2, <4>3 DEF Records
      <4>5. \A d \in Conn : RecordsOf(k, d) = {}
        BY <4>4 DEF RecordsOf
      <4>6. QED
        BY <3>1, <3>3, <4>5 DEF Brings, In
    <3>4. QED
      BY <3>2, <3>3
  <2>7. Accounted'
    BY <1>1, <1>2, <1>4, <2>5, <2>6, PassAccounts
  <2>8. Loops' /\ Processes' /\ Outputs'
    BY <2>5, PassDoes DEF PassResult
  <2>9. QED
    BY <2>7, <2>8
<1>9. QED
  BY <1>7, <1>8

\* Time passes: the writers get older, the files stay.
LEMMA TickOutputs ==
  ASSUME Outputs,
         writers' = [p \in DOMAIN writers |->
                       {[x EXCEPT !.idle = IF @ < 2 THEN @ + 1 ELSE 2] : x \in writers[p]}],
         UNCHANGED <<out, files>>
  PROVE  Outputs'
<1>1. DOMAIN writers = Procs /\ DOMAIN out = Procs /\ DOMAIN files = Procs
  BY DEF Outputs
<1>2. ASSUME NEW p \in Procs PROVE Out(p)' \in Outs
  <2>1. PICK w \in Outs : w = Out(p)
    BY DEF Outputs
  <2>2. /\ writers[p] = w.writers /\ out'[p] = w.out /\ files'[p] = w.files
    BY <2>1 DEF Out
  <2>3. writers'[p] = {[x EXCEPT !.idle = IF @ < 2 THEN @ + 1 ELSE 2] : x \in w.writers}
    BY <1>1, <2>2
  <2>4. ASSUME NEW x \in w.writers
        PROVE  LET y == [x EXCEPT !.idle = IF @ < 2 THEN @ + 1 ELSE 2]
               IN y \in Writer /\ y.file \in 1..w.files
    <3> DEFINE n == IF x.idle < 2 THEN x.idle + 1 ELSE 2
               y == [x EXCEPT !.idle = n]
    <3>1. x \in Writer /\ x.file \in 1..w.files
      BY OutsParts
    <3>2. n \in 0..2
      BY <3>1 DEF Writer
    <3> HIDE DEF n
    <3>3. y \in Writer /\ y.file = x.file
      BY <3>1, <3>2 DEF Writer
    <3>4. QED
      BY <3>1, <3>3 DEF n
  <2>5. writers'[p] \subseteq Writer /\ \A y \in writers'[p] : y.file \in 1..w.files
    BY <2>3, <2>4
  <2>6. Out(p)' = [writers |-> writers'[p], out |-> w.out, files |-> w.files]
    BY <2>2 DEF Out
  <2>7. QED
    BY <2>5, <2>6, OutsParts DEF Outs
<1>3. QED
  BY <1>1, <1>2 DEF Outputs

\* The invariant holds at the start.
LEMMA InitIInv ==
  ASSUME Init
  PROVE  IInv
<1>i. /\ port \in Ports /\ stream \in [Conn -> UNION {Streams[c] : c \in Conn}]
      /\ \A c \in Conn : stream[c] \in Streams[c]
      /\ accepted = {} /\ closed = {} /\ silent = {} /\ ticks = 0
  BY DEF Init
<1>l. /\ got = [c \in Conn |-> 0] /\ buf = [c \in Conn |-> Nothing(c)]
      /\ left = [c \in Conn |-> 0]
  BY DEF Init
<1>o. /\ writers = [p \in Procs |-> {}] /\ out = [p \in Procs |-> << >>]
      /\ files = [p \in Procs |-> 0]
  BY DEF Init
<1>1. Sets
  <2>1. stream \in [Conn -> Seq(Nat \ {0})]
    <3>1. \A c \in Conn : stream[c] \in Seq(Nat \ {0})
      BY <1>i, RecvTcpAssumption
    <3>2. stream = [c \in Conn |-> stream[c]]
      BY <1>i
    <3>3. QED
      BY <3>1, <3>2
  <2>2. \A c \in Conn : got[c] <= RecLen * Len(stream[c])
    <3>1. ASSUME NEW c \in Conn PROVE 0 <= RecLen * Len(stream[c])
      <4>1. Len(stream[c]) \in Nat /\ RecLen \in Nat
        BY <2>1, RecvTcpAssumption
      <4>2. QED
        BY <4>1
    <3>2. QED
      BY <1>l, <3>1
  <2>3. QED
    BY <1>i, <1>l, <2>1, <2>2 DEF Sets
<1>2. /\ RecLen \in Nat \ {0} /\ BufLen \in Nat
      /\ 0 \div RecLen = 0 /\ 0 % RecLen = 0
  <2>1. RecLen \in Nat \ {0} /\ BufLen \in Nat /\ 0 \in 0..(RecLen - 1) /\ 0 = RecLen * 0 + 0
    BY RecvTcpAssumption
  <2>2. QED
    BY <2>1, PartsOnce
<1>3. Loops
  <2>1. ASSUME NEW c \in Conn
        PROVE  /\ Nothing(c) \in Chunk /\ Part(Nothing(c)) = 0
               /\ Fits(Nothing(c), Proc(c))
    <3>1. Nothing(c) = [of |-> c, first |-> 0, len |-> 0]
      BY DEF Nothing
    <3>2. Nothing(c) \in Chunk /\ Part(Nothing(c)) = 0 /\ Whole(Nothing(c)) = 0
      BY <1>2, <3>1 DEF Chunk, Part, Whole
    <3>3. Len(stream[c]) \in Nat /\ got[c] \div RecLen = 0
      <4>1. Len(stream[c]) \in Nat
        BY <1>1 DEF Sets
      <4>2. QED
        BY <1>2, <1>l, <4>1
    <3>4. QED
      BY <3>1, <3>2, <3>3 DEF Fits, InStream
  <2>2. 0 \in 0..(RecLen - 1)
    BY <1>2
  <2>3. QED
    BY <1>2, <1>l, <2>1, <2>2 DEF Loops
<1>4. Processes
  BY DEF Processes, Init
<1>5. Outputs
  <2>1. [writers |-> {}, out |-> << >>, files |-> 0] \in Outs
    <3>1. << >> \in Seq(Entry) /\ {} \in SUBSET Writer /\ 0 \in Nat
      OBVIOUS
    <3>2. QED
      BY <3>1 DEF Outs
  <2>2. QED
    BY <1>o, <2>1 DEF Outputs, Out
<1>6. Accounted
  <2>1. ASSUME NEW c \in Conn, NEW i \in Nat
        PROVE  Held(c, i) = In(i, Received(c)) /\ ~again[Proc(c)]
    <3>1. PICK q \in Procs : q = Proc(c)
      BY ProcIs
    <3>2. out[q] = << >> /\ forward[q] = FALSE /\ again[q] = FALSE
      BY DEF Init
    <3>3. Kept(c) = {}
      BY <3>1, <3>2 DEF Kept
    <3>4. Times(c, i) = 0
      <4>1. {j \in DOMAIN out[Proc(c)] : out[Proc(c)][j].of = c /\ out[Proc(c)][j].rec = i} = {}
        <5>1. DOMAIN out[Proc(c)] = {}
          BY <3>1, <3>2
        <5>2. QED
          BY <5>1
      <4>2. QED
        BY <4>1, FS_EmptySet, Zenon DEF Times
    <3>5. Received(c) = {}
      <4>1. got[c] = 0
        BY <1>l
      <4>2. got[c] \div RecLen = 0
        BY <1>2, <4>1
      <4>3. QED
        BY <4>2 DEF Received
    <3>6. QED
      BY <3>1, <3>2, <3>3, <3>4, <3>5 DEF Held, In
  <2>2. QED
    BY <2>1 DEF Accounted
<1>7. QED
  BY <1>1, <1>3, <1>4, <1>5, <1>6 DEF IInv

\* Every step keeps it.
LEMMA NextIInv ==
  ASSUME IInv, [Next]_vars
  PROVE  IInv'
<1>1. Sets /\ Loops /\ Processes /\ Outputs /\ Accounted
  BY DEF IInv
<1>2. /\ accepted \subseteq Conn /\ closed \subseteq accepted /\ silent \subseteq accepted \ closed
      /\ ticks \in Nat /\ got \in [Conn -> Nat]
      /\ \A c \in Conn : got[c] <= RecLen * Len(stream[c])
  BY <1>1 DEF Sets
<1> DEFINE Rests == Loops' /\ Processes' /\ Outputs' /\ Accounted'
<1>3. ASSUME NEW c \in Conn, Accept(c) PROVE IInv'
  <2>1. Sets'
    BY <1>1, <1>2, <1>3, SetsLater DEF Accept, timeVars
  <2>2. Rests
    BY <1>1, <1>3, Untouched DEF Accept
  <2>3. QED
    BY <2>1, <2>2 DEF IInv
<1>4. ASSUME NEW c \in Conn, Read(c) PROVE IInv'
  <2>1. PICK n \in 1..BufLen : /\ n <= Rest(c)
                               /\ got' = [got EXCEPT ![c] = @ + n]
                               /\ Pass(c, Loaded(c, n), Out(Proc(c)))
    BY <1>4 DEF Read
  <2>2. n \in Nat /\ n > 0
    BY RecvTcpAssumption
  <2>3. UNCHANGED <<port, stream, accepted, closed, again, timeVars>>
    BY <1>4 DEF Read
  <2>4. Sets'
    <3>1. Len(stream[c]) \in Nat /\ RecLen \in Nat /\ got[c] \in Nat /\ RecLen * Len(stream[c]) \in Nat
      BY <1>1, RecvTcpAssumption DEF Sets
    <3>2. got[c] + n <= RecLen * Len(stream[c])
      <4> DEFINE m == RecLen * Len(stream[c])  g == got[c]
      <4>1. n <= m - g /\ m \in Nat /\ g \in Nat
        BY <2>1, <3>1 DEF Rest
      <4> HIDE DEF m, g
      <4>2. g + n <= m
        BY <2>2, <4>1
      <4>3. QED
        BY <4>2 DEF m, g
    <3>3. got'[c] = got[c] + n /\ got'[c] \in Nat /\ \A d \in Conn \ {c} : got'[d] = got[d]
      BY <1>2, <2>1, <2>2
    <3>4. got' \in [Conn -> Nat]
      BY <1>2, <2>1, <3>3
    <3>5. \A d \in Conn : got'[d] <= RecLen * Len(stream[d])
      BY <1>2, <3>2, <3>3
    <3>6. QED
      BY <1>1, <1>2, <2>3, <3>4, <3>5, SetsLater DEF timeVars
  <2>5. Rests
    BY <2>1, <2>2, <2>3, ReadPass
  <2>6. QED
    BY <2>4, <2>5 DEF IInv
<1>5. ASSUME NEW c \in Conn, Close(c) PROVE IInv'
  <2>1. Sets'
    <3>1. closed' \subseteq accepted /\ silent \subseteq accepted \ closed'
      BY <1>2, <1>5 DEF Close, Open
    <3>2. QED
      BY <1>1, <1>2, <1>5, <3>1, SetsLater DEF Close, timeVars
  <2>2. Rests
    BY <1>1, <1>5, Untouched DEF Close
  <2>3. QED
    BY <2>1, <2>2 DEF IInv
<1>o. ASSUME NEW c \in Conn PROVE Out(Proc(c)) \in Outs /\ Out(Proc(c)).out = out[Proc(c)]
  BY <1>1, ProcIs DEF Outputs, Out
<1>6. ASSUME NEW c \in Conn, Reset(c) PROVE IInv'
  <2>1. Sets'
    <3>1. closed' \subseteq accepted /\ silent \subseteq accepted \ closed'
      BY <1>2, <1>6 DEF Reset, Open
    <3>2. QED
      BY <1>1, <1>2, <1>6, <3>1, SetsLater DEF Reset, timeVars
  <2>2. PICK w \in Outs : w = Out(Proc(c)) /\ w.out = out[Proc(c)]
    BY <1>o
  <2>3. PassAgain(c, w)
    BY <1>6, <2>2 DEF Reset
  <2>4. Rests
    BY <1>6, <2>2, <2>3, PassAgainKeeps DEF Reset
  <2>5. QED
    BY <2>1, <2>4 DEF IInv
<1>7. ASSUME NEW c \in Conn, EndOfFile(c) PROVE IInv'
  <2>1. /\ UNCHANGED <<port, stream, connVars, again, timeVars>>
        /\ Pass(c, Loaded(c, 0), Out(Proc(c)))
    BY <1>7 DEF EndOfFile
  <2>2. Sets'
    BY <1>1, <1>2, <2>1, SetsLater DEF connVars, timeVars
  <2>3. CASE left[c] = 0
    <3>1. Rests
      BY <2>1, <2>3, EmptyPass DEF connVars
    <3>2. QED
      BY <2>2, <3>1 DEF IInv
  <2>4. CASE left[c] # 0
    <3>1. Len(stream[c]) \in Nat /\ RecLen \in Nat /\ got[c] \in Nat /\ RecLen * Len(stream[c]) \in Nat
      BY <1>1, RecvTcpAssumption DEF Sets
    <3>2. 0 <= Rest(c)
      <4> DEFINE m == RecLen * Len(stream[c])  g == got[c]
      <4>1. g <= m /\ m \in Nat /\ g \in Nat
        BY <1>2, <3>1
      <4> HIDE DEF m, g
      <4>2. 0 <= m - g
        BY <4>1
      <4>3. QED
        BY <4>2 DEF m, g, Rest
    <3>3. got' = [got EXCEPT ![c] = got[c] + 0]
      BY <1>2, <2>1, <3>1 DEF connVars
    <3>4. Rests
      BY <2>1, <2>4, <3>2, <3>3, ReadPass
    <3>5. QED
      BY <2>2, <3>4 DEF IInv
  <2>5. QED
    BY <2>3, <2>4
<1>8. ASSUME NEW c \in Conn, TimeOut(c) PROVE IInv'
  <2>1. Sets'
    <3>1. silent' \subseteq accepted \ closed
      BY <1>2, <1>8 DEF TimeOut
    <3>2. QED
      BY <1>1, <1>2, <1>8, <3>1, SetsLater DEF TimeOut, connVars
  <2>2. PICK w \in Outs : w = Closed(Out(Proc(c))) /\ w.out = out[Proc(c)]
    BY <1>o, ClosedOuts
  <2>3. PassAgain(c, w)
    BY <1>8, <2>2 DEF TimeOut
  <2>4. Rests
    BY <1>8, <2>2, <2>3, PassAgainKeeps DEF TimeOut, connVars
  <2>5. QED
    BY <2>1, <2>4 DEF IInv
<1>9. ASSUME Tick PROVE IInv'
  <2>1. Sets'
    <3>1. ticks' = ticks + 1 /\ silent' = accepted \ closed
      BY <1>9 DEF Tick
    <3>2. ticks' \in Nat
      BY <1>2, <3>1
    <3>3. UNCHANGED <<port, stream, accepted, closed, got>>
      BY <1>9 DEF Tick, connVars
    <3>4. QED
      BY <1>1, <1>2, <3>1, <3>2, <3>3, SetsLater
  <2>2. Outputs'
    BY <1>1, <1>9, TickOutputs DEF Tick
  <2>3. UNCHANGED <<port, stream, got, loopVars, procVars, out, files, markVars>>
    BY <1>9 DEF Tick, connVars
  <2>4. Loops' /\ Processes' /\ Accounted'
    BY <1>1, <2>3, UntouchedButWriters
  <2>5. QED
    BY <2>1, <2>2, <2>4 DEF IInv
<1>10. CASE UNCHANGED vars
  <2>1. UNCHANGED <<port, stream, accepted, closed, got, silent, ticks>>
    BY <1>10 DEF vars, connVars, timeVars
  <2>2. Sets'
    BY <1>1, <2>1 DEF Sets
  <2>3. Rests
    BY <1>1, <1>10, Untouched DEF vars, connVars
  <2>4. QED
    BY <2>2, <2>3 DEF IInv
<1>11. QED
  BY <1>3, <1>4, <1>5, <1>6, <1>7, <1>8, <1>9, <1>10 DEF Next

-----------------------------------------------------------------------------
(* The theorems. *)

\* The inductive invariant holds in every state.
LEMMA SpecIInv == Spec => []IInv
<1>1. Init => IInv
  BY InitIInv
<1>2. IInv /\ [Next]_vars => IInv'
  BY NextIInv
<1>3. QED
  BY <1>1, <1>2, PTL DEF Spec

\* The variables have their types; the part of a record that a buffer holds is
\* the part of it that was read (recvDiagMemInfo, 473-700).
THEOREM SpecTypeOK == Spec => []TypeOK
<1>1. IInv => TypeOK
  <2> SUFFICES ASSUME IInv PROVE TypeOK
    OBVIOUS
  <2>1. Sets /\ Loops /\ Processes /\ Outputs
    BY DEF IInv
  <2>2. accepted \subseteq Conn /\ closed \subseteq accepted /\ silent \subseteq accepted \ closed
    BY <2>1 DEF Sets
  <2>3. ASSUME NEW c \in Conn
        PROVE  /\ got[c] \in 0..(RecLen * Len(stream[c]))
               /\ buf[c] \in [of : Conn, first : Nat, len : 0..BufLen]
               /\ left[c] \in 0..(RecLen - 1)
               /\ OnTrack(c) => left[c] = got[c] % RecLen
    <3>1. got[c] \in Nat /\ got[c] <= RecLen * Len(stream[c])
      BY <2>1 DEF Sets
    <3>2. RecLen * Len(stream[c]) \in Nat
      <4>1. RecLen \in Nat /\ Len(stream[c]) \in Nat
        BY <2>1, RecvTcpAssumption DEF Sets
      <4>2. QED
        BY <4>1
    <3>3. got[c] \in 0..(RecLen * Len(stream[c]))
      BY <3>1, <3>2
    <3>4. QED
      BY <2>1, <3>3 DEF Loops, Chunk
  <2>4. ASSUME NEW p \in Procs
        PROVE  /\ expect[p] \in Nat /\ forward[p] \in BOOLEAN /\ again[p] \in BOOLEAN
               /\ forward[p] => rord[p].first > 0 /\ Part(rord[p]) = 0
               /\ \A x \in writers[p] : x.file \in 1..files[p]
               /\ astray[p] \in {"", "overrun", "short", "part", "stale"}
    <3>1. \A x \in writers[p] : x.file \in 1..files[p]
      BY <2>1 DEF Outputs, Outs, Out
    <3>2. QED
      BY <2>1, <3>1 DEF Processes
  <2>5. QED
    BY <2>2, <2>3, <2>4 DEF TypeOK
<1>2. QED
  BY <1>1, SpecIInv, PTL

\* Whatever the cuts and the gaps, on one process or on several: a complete
\* record that was read is output exactly once or is kept (recvDiagMemInfo,
\* 514-700).
THEOREM SpecNothingLost == Spec => []NothingLost
<1>1. IInv => NothingLost
  <2> SUFFICES ASSUME IInv, NEW c \in Conn, OnTrack(c), NEW i \in Received(c) \ Kept(c)
               PROVE  IF again[Proc(c)] THEN Times(c, i) >= 1 ELSE Times(c, i) = 1
    BY Zenon DEF NothingLost
  <2>1. i \in Nat
    BY DEF Received
  <2>2. IF again[Proc(c)] THEN Held(c, i) >= 1 ELSE Held(c, i) = 1
    BY <2>1 DEF IInv, Accounted, In
  <2>3. Held(c, i) = Times(c, i) + 0 /\ Times(c, i) \in Nat
    <3>1. Held(c, i) = Times(c, i) + 0
      BY DEF Held, In
    <3>2. PICK w \in Outs : w = Out(Proc(c)) /\ w.out = out[Proc(c)]
      BY ProcIs DEF IInv, Outputs, Out
    <3>3. Times(c, i) = CountIn(w.out, c, i)
      BY <3>2, Zenon DEF Times, CountIn
    <3>4. QED
      BY <3>1, <3>2, <3>3, OutsParts, CountType
  <2>4. PICK x \in Nat : x = Times(c, i)
    BY <2>3
  <2>5. QED
    BY <2>2, <2>3, <2>4
<1>2. QED
  BY <1>1, SpecIInv, PTL

-----------------------------------------------------------------------------
(* A connection that is alone in its process. *)

\* In a stream whose neighbours are in order, all numbers are.
LEMMA Increases ==
  ASSUME stream \in [Conn -> Seq(Nat \ {0})], NEW c \in Conn, InOrder(c),
         NEW i \in 1..Len(stream[c]), NEW j \in 1..Len(stream[c]), i < j
  PROVE  stream[c][i] < stream[c][j]
<1> DEFINE q == stream[c]
           T == {n \in Nat : i + 1 + n <= Len(q) => q[i] < q[i + 1 + n]}
<1>1. /\ Len(q) \in Nat /\ \A n \in 1..Len(q) : q[n] \in Nat
      /\ \A n \in 1..(Len(q) - 1) : q[n] < q[n + 1]
  BY DEF InOrder
<1> HIDE DEF q
<1>2. 0 \in T
  <2>1. SUFFICES ASSUME i + 1 <= Len(q) PROVE q[i] < q[i + 1]
    OBVIOUS
  <2>2. i \in 1..(Len(q) - 1)
    BY <1>1, <2>1
  <2>3. QED
    BY <1>1, <2>2
<1>3. ASSUME NEW n \in Nat, n \in T PROVE n + 1 \in T
  <2>1. SUFFICES ASSUME i + 1 + (n + 1) <= Len(q) PROVE q[i] < q[i + 1 + (n + 1)]
    OBVIOUS
  <2> DEFINE m == i + 1 + n
  <2>2. m \in 1..(Len(q) - 1) /\ m + 1 = i + 1 + (n + 1) /\ i \in 1..Len(q)
    BY <1>1, <2>1
  <2>3. q[i] < q[m]
    BY <1>1, <1>3, <2>2
  <2> HIDE DEF m
  <2>4. q[m] < q[m + 1] /\ q[i] \in Nat /\ q[m] \in Nat /\ q[m + 1] \in Nat
    <3>1. m \in 1..Len(q) /\ m + 1 \in 1..Len(q)
      BY <1>1, <2>2
    <3>2. QED
      BY <1>1, <2>2, <3>1
  <2>5. q[i] < q[m + 1]
    BY <2>3, <2>4
  <2>6. QED
    BY <2>2, <2>5
<1>4. Nat \subseteq T
  <2> HIDE DEF T
  <2>1. QED
    BY <1>2, <1>3, SetInduction
<1>5. j - i - 1 \in Nat /\ i + 1 + (j - i - 1) = j /\ j <= Len(q)
  BY <1>1 DEF q
<1>6. j - i - 1 \in T
  BY <1>4, <1>5
<1>7. q[i] < q[j]
  BY <1>5, <1>6
<1>8. QED
  BY <1>7 DEF q

\* An output that holds the first n records of c, in one file with a fresh writer.
Shape(w, c, n) ==
  /\ w \in Outs
  /\ w.out = First(c, n)
  /\ w.files = (IF n = 0 THEN 0 ELSE 1)
  /\ w.writers = (IF n = 0 THEN {} ELSE {[pid |-> Pid[c], idle |-> 0, file |-> 1]})

\* The first records are a sequence.
LEMMA FirstIs ==
  ASSUME NEW c, NEW n \in Nat, NEW E, \A i \in Nat : [of |-> c, rec |-> i, file |-> 1] \in E
  PROVE  /\ First(c, n) \in Seq(E) /\ Len(First(c, n)) = n
         /\ \A i \in 1..n : First(c, n)[i] = [of |-> c, rec |-> i, file |-> 1]
<1> DEFINE f == First(c, n)
<1>1. DOMAIN f = 1..n /\ \A i \in 1..n : f[i] = [of |-> c, rec |-> i, file |-> 1]
  BY DEF First
<1>2. f = [i \in 1..n |-> f[i]]
  BY DEF First
<1>3. \A i \in 1..n : f[i] \in E
  BY <1>1
<1> HIDE DEF f
<1>4. f \in [1..n -> E]
  BY <1>2, <1>3
<1>5. f \in Seq(E) /\ Len(f) = n
  BY <1>1, <1>4
<1>6. QED
  BY <1>1, <1>5 DEF f

\* One record more.
LEMMA FirstAppend ==
  ASSUME NEW c, NEW n \in Nat
  PROVE  Append(First(c, n), [of |-> c, rec |-> n + 1, file |-> 1]) = First(c, n + 1)
<1> DEFINE e == [of |-> c, rec |-> n + 1, file |-> 1]
           a == First(c, n)
           b == First(c, n + 1)
           E == {[of |-> c, rec |-> i, file |-> 1] : i \in Nat}
<1>1. /\ a \in Seq(E) /\ Len(a) = n /\ \A i \in 1..n : a[i] = [of |-> c, rec |-> i, file |-> 1]
      /\ b \in Seq(E) /\ Len(b) = n + 1
      /\ \A i \in 1..(n + 1) : b[i] = [of |-> c, rec |-> i, file |-> 1]
      /\ e \in E
  <2>1. \A i \in Nat : [of |-> c, rec |-> i, file |-> 1] \in E
    OBVIOUS
  <2>2. e \in E
    BY <2>1
  <2> HIDE DEF E, e
  <2>3. a \in Seq(E) /\ Len(a) = n /\ \A i \in 1..n : a[i] = [of |-> c, rec |-> i, file |-> 1]
    BY <2>1, FirstIs
  <2>4. PICK m \in Nat : m = n + 1
    OBVIOUS
  <2>5. /\ First(c, m) \in Seq(E) /\ Len(First(c, m)) = m
        /\ \A i \in 1..m : First(c, m)[i] = [of |-> c, rec |-> i, file |-> 1]
    BY <2>1, FirstIs
  <2>6. QED
    BY <2>2, <2>3, <2>4, <2>5
<1> HIDE DEF a, b, e, E
<1>2. /\ Append(a, e) \in Seq(E) /\ Len(Append(a, e)) = n + 1
      /\ \A i \in 1..n : Append(a, e)[i] = a[i]
      /\ Append(a, e)[n + 1] = e
  BY <1>1
<1>3. \A i \in 1..(n + 1) : Append(a, e)[i] = b[i]
  BY <1>1, <1>2 DEF e
<1>4. Append(a, e) = b
  BY <1>1, <1>2, <1>3, SeqEqual
<1>5. QED
  BY <1>4 DEF a, b, e

\* A record more, in the same file.
LEMMA ShapeGrows ==
  ASSUME NEW c \in Conn, NEW n \in Nat, NEW w, Shape(w, c, n),
         NEW r, r.of = c, r.rec = n + 1, n = 0 => r.seq \in CapSeq, n > 0 => r.seq # 1
  PROVE  Shape(OutputRecord(w, r), c, n + 1)
<1> DEFINE v == OutputRecord(w, r)
           found == Found(w, Pid[r.of])
           new == Create(w, Pid[r.of])
           x == [pid |-> Pid[c], idle |-> 0, file |-> 1]
           e == [of |-> c, rec |-> n + 1, file |-> 1]
<1>1. w \in Outs
  BY DEF Shape
<1>2. v \in Outs
  <2>1. Adds1(w, r, v)
    BY <1>1, RecordAdded
  <2>2. QED
    BY <2>1 DEF Adds1
<1>3. CASE n = 0
  <2>1. w.writers = {} /\ w.files = 0 /\ w.out = First(c, 0)
    BY <1>3 DEF Shape
  <2>2. found = {}
    BY <2>1 DEF Found
  <2>3. v = Put(new, r, new.files)
    BY <1>3, <2>2 DEF OutputRecord
  <2>4. /\ new \in Outs /\ new.out = w.out /\ new.files = 1 /\ new.writers = {x}
    <3>1. /\ new \in Outs /\ new.out = w.out /\ new.files = w.files + 1
          /\ new.writers = w.writers \cup {[pid |-> Pid[r.of], idle |-> 0, file |-> w.files + 1]}
      BY <1>1, CreateOuts
    <3>2. QED
      BY <2>1, <3>1
  <2> HIDE DEF new
  <2>5. v = [new EXCEPT !.out = Append(First(c, 0), e)]
    BY <1>3, <2>1, <2>3, <2>4 DEF Put
  <2>6. Append(First(c, 0), e) = First(c, 1)
    BY <1>3, FirstAppend
  <2>7. v.out = First(c, 1) /\ v.files = 1 /\ v.writers = {x}
    <3>1. new = [writers |-> new.writers, out |-> new.out, files |-> new.files]
      BY <2>4, OutsParts
    <3> HIDE DEF v, e, x
    <3>2. v = [new EXCEPT !.out = First(c, 1)]
      BY <2>5, <2>6
    <3>3. QED
      BY <2>4, <3>1, <3>2
  <2>8. QED
    BY <1>2, <1>3, <2>7 DEF Shape
<1>4. CASE n > 0
  <2>1. w.writers = {x} /\ w.files = 1 /\ w.out = First(c, n)
    BY <1>4 DEF Shape
  <2>2. found = {x}
    <3>1. x.pid = Pid[r.of] /\ x.idle = 0 /\ x.file = 1
      OBVIOUS
    <3> HIDE DEF x
    <3>2. QED
      BY <2>1, <3>1 DEF Found
  <2>3. v = Put(w, r, x.file)
    <3>1. (CHOOSE y \in found : TRUE) = x /\ found # {} /\ ~(r.seq \in CapSeq /\ (r.seq = 1 \/ found = {}))
      BY <1>4, <2>2
    <3>2. QED
      BY <3>1 DEF OutputRecord
  <2>4. v = [w EXCEPT !.out = Append(First(c, n), e)]
    BY <2>1, <2>3 DEF Put
  <2>5. Append(First(c, n), e) = First(c, n + 1)
    BY FirstAppend
  <2>6. v.out = First(c, n + 1) /\ v.files = 1 /\ v.writers = {x}
    <3>1. w = [writers |-> w.writers, out |-> w.out, files |-> w.files]
      BY <1>1, OutsParts
    <3> HIDE DEF v, e, x
    <3>2. v = [w EXCEPT !.out = First(c, n + 1)]
      BY <2>4, <2>5
    <3>3. QED
      BY <2>1, <3>1, <3>2
  <2>7. QED
    BY <1>2, <1>4, <2>6 DEF Shape
<1>5. QED
  BY <1>3, <1>4

\* The stream begins with a number that identifies its source.
Starts(c) == Len(stream[c]) > 0 => stream[c][1] \in CapSeq

\* A chunk more.
LEMMA ShapeForEach ==
  ASSUME stream \in [Conn -> Seq(Nat \ {0})], NEW c \in Conn, InOrder(c), Starts(c),
         NEW n \in Nat, NEW w, Shape(w, c, n),
         NEW k, InStream(k), k.of = c, Whole(k) > 0 => k.first = n + 1
  PROVE  Shape(ForEach(w, k), c, n + Whole(k))
<1> DEFINE s == Listed(k)
           T == [i \in 0..Whole(k) |-> {v \in Outs : Shape(v, c, n + i)}]
<1>1. /\ Whole(k) \in Nat /\ k.first \in Nat
      /\ \A i \in 1..Whole(k) : k.first + i - 1 \in 1..Len(stream[k.of])
  BY ChunkFacts
<1>2. Len(s) = Whole(k) /\ Len(s) \in Nat
  BY <1>1 DEF Listed
<1>3. w \in T[0]
  BY <1>1 DEF Shape
<1>4. ASSUME NEW i \in 1..Len(s), NEW v \in T[i - 1]
      PROVE  OutputRecord(v, s[i]) \in T[i]
  <2>1. i - 1 \in 0..Whole(k) /\ i \in 0..Whole(k) /\ i \in 1..Whole(k) /\ Whole(k) > 0
    BY <1>1, <1>2
  <2>2. Shape(v, c, n + (i - 1))
    BY <2>1
  <2>3. PICK m \in Nat : m = n + (i - 1)
    BY <2>1
  <2>4. k.first + i - 1 = m + 1 /\ m + 1 \in 1..Len(stream[c])
    BY <1>1, <2>1, <2>3
  <2>5. PICK r : r = s[i]
    OBVIOUS
  <2>6. r.of = c /\ r.rec = m + 1 /\ r.seq = stream[c][m + 1]
    BY <2>1, <2>4, <2>5 DEF Listed
  <2>7. m = 0 => r.seq \in CapSeq
    BY <2>4, <2>6 DEF Starts
  <2>8. m > 0 => r.seq # 1
    <3>1. SUFFICES ASSUME m > 0 PROVE stream[c][m + 1] # 1
      BY <2>6
    <3>2. Len(stream[c]) \in Nat /\ stream[c][1] \in Nat \ {0}
      BY <2>4
    <3>3. 1 \in 1..Len(stream[c]) /\ 1 < m + 1
      BY <2>4, <3>1, <3>2
    <3>4. stream[c][1] < stream[c][m + 1]
      BY <2>4, <3>3, Increases
    <3>5. QED
      BY <3>2, <3>4
  <2>9. Shape(OutputRecord(v, r), c, m + 1)
    BY <2>2, <2>3, <2>6, <2>7, <2>8, ShapeGrows
  <2>10. m + 1 = n + i
    BY <2>1, <2>3
  <2>11. OutputRecord(v, r) \in {u \in Outs : Shape(u, c, n + i)}
    BY <2>9, <2>10 DEF Shape
  <2>12. QED
    BY <2>1, <2>5, <2>11
<1>5. Output!Over(w, s) \in T[Len(s)]
  <2> HIDE DEF s, T
  <2>1. QED
    BY <1>2, <1>3, <1>4, OutputKeeps
<1>6. QED
  BY <1>1, <1>2, <1>5 DEF ForEach

\* A chunk with no whole record leaves the output as it is.
LEMMA ForEachNone ==
  ASSUME NEW w \in Outs, NEW k, Whole(k) = 0
  PROVE  ForEach(w, k) = w
<1> DEFINE s == Listed(k)
           T == [i \in 0..0 |-> {w}]
<1>1. Len(s) = 0
  BY DEF Listed
<1>2. w \in T[0] /\ \A i \in 1..0 : \A v \in T[i - 1] : OutputRecord(v, s[i]) \in T[i]
  OBVIOUS
<1>3. Output!Over(w, s) \in T[Len(s)]
  <2> HIDE DEF s, T
  <2>1. Len(s) \in Nat
    BY <1>1
  <2>2. \A i \in 1..Len(s) : \A v \in T[i - 1] : OutputRecord(v, s[i]) \in T[i]
    BY <1>1, <1>2
  <2>3. QED
    BY <1>2, <2>1, <2>2, OutputKeeps
<1>4. QED
  BY <1>1, <1>3 DEF ForEach

\* Closing old files does not concern a fresh writer, or none.
LEMMA ShapeClosed ==
  ASSUME NEW c, NEW n \in Nat, NEW w, Shape(w, c, n)
  PROVE  Closed(w) = w
<1>1. w.writers = {x \in w.writers : x.idle < 2}
  <2>1. \A x \in w.writers : x.idle = 0
    BY DEF Shape
  <2>2. QED
    BY <2>1
<1>2. w = [writers |-> w.writers, out |-> w.out, files |-> w.files]
  BY OutsParts DEF Shape
<1> DEFINE ws == {x \in w.writers : x.idle < 2}
<1>3. Closed(w) = [w EXCEPT !.writers = ws]
  BY DEF Closed
<1>4. ws = w.writers
  BY <1>1
<1> HIDE DEF ws
<1>5. QED
  BY <1>2, <1>3, <1>4

\* The last number of a chunk is not less than the first.
LEMMA TailNotLess ==
  ASSUME stream \in [Conn -> Seq(Nat \ {0})], NEW k, InStream(k), InOrder(k.of)
  PROVE  Seq1(k) \in Nat /\ Tail1(k) \in Nat /\ Seq1(k) < Tail1(k) + 1
<1>1. /\ k.of \in Conn /\ k.first \in Nat
      /\ Whole(k) \in Nat /\ Seq1(k) \in Nat /\ Tail1(k) \in Nat
      /\ Whole(k) > 0 => k.first > 0
      /\ \A i \in 1..Whole(k) : k.first + i - 1 \in 1..Len(stream[k.of])
  BY ChunkFacts
<1>2. CASE Whole(k) = 0
  BY <1>1, <1>2 DEF Tail1
<1>3. CASE Whole(k) = 1
  <2>1. Tail1(k) = stream[k.of][k.first] /\ k.first # 0
    BY <1>1, <1>3 DEF Tail1
  <2>2. Seq1(k) = Tail1(k)
    BY <2>1 DEF Seq1
  <2>3. QED
    BY <1>1, <2>2
<1>4. CASE Whole(k) > 1
  <2> DEFINE a == k.first  b == k.first + Whole(k) - 1  q == stream[k.of]
  <2>1. a # 0 /\ a < b
    BY <1>1, <1>4
  <2>2. a \in 1..Len(q) /\ b \in 1..Len(q)
    <3>1. 1 \in 1..Whole(k) /\ Whole(k) \in 1..Whole(k) /\ k.first + 1 - 1 = a
      BY <1>1, <1>4
    <3>2. QED
      BY <1>1, <3>1
  <2>3. Seq1(k) = q[a] /\ Tail1(k) = q[b]
    BY <1>4, <2>1 DEF Seq1, Tail1
  <2> HIDE DEF a, b
  <2>4. q[a] < q[b]
    BY <1>1, <2>1, <2>2, Increases
  <2>5. QED
    BY <1>1, <2>3, <2>4
<1>5. QED
  BY <1>1, <1>2, <1>3, <1>4


\* A connection whose file holds its first records after a step.
LEMMA AloneAfter ==
  ASSUME NEW c \in Conn, NEW p, p = Proc(c)', NEW n, n = Written(c)',
         out'[p] = First(c, n), files'[p] = (IF n = 0 THEN 0 ELSE 1), n = 0 => writers'[p] = {},
         n > 0 => \/ c \in closed' /\ ~forward'[p]
                  \/ writers'[p] = {[pid |-> Pid[c], idle |-> 0, file |-> 1]}
  PROVE  OneFile(c)'
BY DEF OneFile, First

\* What a pass of a connection that is alone starts from: the chunk is the next
\* of its stream, or the old one with nothing in it, and the writer is fresh, or
\* will not be used.
Ready(c, k, w) ==
  LET n == got[c] \div RecLen IN
  /\ k.of = c
  /\ Whole(k) > 0 => k.first = n + 1
  /\ n + Whole(k) = got'[c] \div RecLen
  /\ \/ k.first = buf[c].first
     \/ k.first = n + 1 /\ w = Out(Proc(c)) /\ (Part(k) # 0 \/ Whole(k) > 0)
  /\ \/ Shape(w, c, Written(c))
     \/ /\ c \in closed' /\ ~forward[Proc(c)] /\ Whole(k) = 0
        /\ w.out = First(c, n) /\ w.files = (IF n = 0 THEN 0 ELSE 1)
        /\ n = 0 => w.writers = {}
        /\ k.first = buf[c].first \/ Part(k) # 0
  /\ k.len > 0 \/ c \in closed' \/ got'[c] = 0

\* The facts that the passes of a connection that is alone share.
AloneGiven(c, k, w) ==
  /\ PassGiven(c, k, w) /\ Follows(c, k)
  /\ InOrder(c) /\ Starts(c) /\ OneFile(c) /\ KeptIsLast(c) /\ c \in accepted'
  /\ Ready(c, k, w)

LEMMA AloneFacts ==
  ASSUME NEW c \in Conn, NEW k, NEW w, AloneGiven(c, k, w)
  PROVE  \E p \in Procs : \E n \in Nat :
           /\ p = Proc(c) /\ p = Proc(c)' /\ n = got[c] \div RecLen
           /\ got'[c] \div RecLen = n + Whole(k) /\ Whole(k) \in Nat
           /\ InStream(k) /\ k.of = c
           /\ w \in Outs /\ out[p] \in Seq(Entry) /\ w.out = out[p]
           /\ stream \in [Conn -> Seq(Nat \ {0})]
           /\ buf \in [Conn -> Chunk] /\ forward \in [Procs -> BOOLEAN]
           /\ expect \in [Procs -> Nat] /\ DOMAIN rord = Procs
           /\ Outputs
<1>1. PICK p \in Procs :
           /\ p = Proc(c) /\ p = Proc(c)'
           /\ InStream(k) /\ out[p] \in Seq(Entry) /\ w \in Outs /\ w.out = out[p]
           /\ stream \in [Conn -> Seq(Nat \ {0})]
  BY PassFacts DEF AloneGiven
<1>2. got[c] \div RecLen \in Nat
  <2>1. got[c] \in Nat /\ RecLen \in Nat \ {0}
    BY RecvTcpAssumption DEF AloneGiven, PassGiven, StepGiven, Sets
  <2>2. QED
    BY <2>1, Parts
<1>3. PICK n \in Nat : n = got[c] \div RecLen
  BY <1>2
<1>4. got'[c] \div RecLen = n + Whole(k) /\ k.of = c
  BY <1>3 DEF AloneGiven, Ready
<1>5. Whole(k) \in Nat
  BY <1>1, ChunkFacts
<1>6. /\ buf \in [Conn -> Chunk] /\ forward \in [Procs -> BOOLEAN]
      /\ expect \in [Procs -> Nat] /\ DOMAIN rord = Procs /\ Outputs
  BY DEF AloneGiven, PassGiven, StepGiven, Loops, Processes
<1>7. QED
  BY <1>1, <1>3, <1>4, <1>5, <1>6

\* What a pass does to the output of a connection that is alone, given what it
\* outputs before the chunk.
LEMMA AloneOutput ==
  ASSUME NEW c \in Conn, NEW k, NEW w, AloneGiven(c, k, w),
         NEW v, EndPass(Proc(c), v), ~forward'[Proc(c)], Ends(c, k),
         \/ Shape(v, c, got'[c] \div RecLen)
         \/ ~Shape(w, c, Written(c)) /\ v = w,
         expect' = [expect EXCEPT ![Proc(c)] = Tail1(k) + 1]
  PROVE  OneFile(c)' /\ KeptIsLast(c)' /\ Quiet(c)'
<1>1. PICK p \in Procs, n \in Nat :
           /\ p = Proc(c) /\ p = Proc(c)' /\ n = got[c] \div RecLen
           /\ got'[c] \div RecLen = n + Whole(k) /\ Whole(k) \in Nat
           /\ InStream(k) /\ k.of = c
           /\ w \in Outs /\ stream \in [Conn -> Seq(Nat \ {0})]
           /\ buf \in [Conn -> Chunk] /\ expect \in [Procs -> Nat]
           /\ Outputs
  BY AloneFacts
<1>2. PICK m \in Nat : m = n + Whole(k)
  BY <1>1
<1>3. Written(c)' = m
  BY <1>1, <1>2 DEF Written
<1>4. OneFile(c)'
  <2>1. PICK u : (u = v \/ u = Closed(v)) /\ SetOut(p, u)
    BY <1>1 DEF EndPass
  <2>2. out'[p] = u.out /\ files'[p] = u.files /\ writers'[p] = u.writers
    BY <1>1, <2>1 DEF SetOut, Outputs
  <2>3. CASE Shape(v, c, m)
    <3>1. u = v
      BY <2>1, <2>3, ShapeClosed
    <3>2. /\ out'[p] = First(c, m) /\ files'[p] = (IF m = 0 THEN 0 ELSE 1)
          /\ m = 0 => writers'[p] = {}
          /\ m > 0 => writers'[p] = {[pid |-> Pid[c], idle |-> 0, file |-> 1]}
      BY <1>2, <2>2, <2>3, <3>1 DEF Shape
    <3>3. QED
      BY <1>1, <1>3, <3>2, AloneAfter
  <2>4. CASE ~Shape(w, c, Written(c)) /\ v = w
    <3>1. /\ c \in closed' /\ Whole(k) = 0
          /\ w.out = First(c, n) /\ w.files = (IF n = 0 THEN 0 ELSE 1)
          /\ n = 0 => w.writers = {}
      BY <1>1, <2>4 DEF AloneGiven, Ready
    <3>2. m = n
      BY <1>2, <3>1
    <3>3. u.out = First(c, m) /\ u.files = (IF m = 0 THEN 0 ELSE 1) /\ (m = 0 => u.writers = {})
      <4>1. CASE u = w
        BY <3>1, <3>2, <4>1
      <4>2. CASE u = Closed(w)
        <5>1. u.out = w.out /\ u.files = w.files /\ u.writers = {x \in w.writers : x.idle < 2}
          <6>1. w = [writers |-> w.writers, out |-> w.out, files |-> w.files]
            BY <1>1, OutsParts
          <6> DEFINE ws == {x \in w.writers : x.idle < 2}
          <6>2. u = [w EXCEPT !.writers = ws]
            BY <4>2 DEF Closed
          <6> HIDE DEF ws
          <6>3. u.out = w.out /\ u.files = w.files /\ u.writers = ws
            BY <6>1, <6>2
          <6>4. QED
            BY <6>3 DEF ws
        <5>2. QED
          BY <3>1, <3>2, <5>1
      <4>3. QED
        BY <2>1, <2>4, <4>1, <4>2
    <3>4. QED
      BY <1>1, <1>3, <2>2, <3>1, <3>3, AloneAfter
  <2>5. QED
    BY <1>1, <1>2, <2>3, <2>4
<1>5. KeptIsLast(c)'
  <2>1. buf'[c] = k
    BY <1>1 DEF Ends
  <2>2. expect'[p] = Tail1(k) + 1
    BY <1>1
  <2>3. Seq1(k) < Tail1(k) + 1
    BY <1>1, TailNotLess DEF AloneGiven
  <2>4. Seq1(buf[c])' = Seq1(k)
    BY <2>1 DEF Seq1, AloneGiven, PassGiven, StepGiven
  <2>5. QED
    BY <1>1, <2>1, <2>2, <2>3, <2>4 DEF KeptIsLast
<1>6. Quiet(c)'
  <2>1. buf'[c] = k
    BY <1>1 DEF Ends
  <2>2. k.len \in Nat
    BY <1>1, RecvTcpAssumption DEF InStream, Chunk
  <2>3. QED
    BY <2>1, <2>2 DEF Quiet, AloneGiven, Ready
<1>7. QED
  BY <1>4, <1>5, <1>6

\* A pass of a connection that is alone, with nothing kept.
LEMMA AlonePassPlain ==
  ASSUME NEW c \in Conn, NEW k, NEW w, AloneGiven(c, k, w), ~forward[Proc(c)]
  PROVE  OneFile(c)' /\ KeptIsLast(c)' /\ Quiet(c)'
<1>1. PICK p \in Procs, n \in Nat :
           /\ p = Proc(c) /\ p = Proc(c)' /\ n = got[c] \div RecLen
           /\ got'[c] \div RecLen = n + Whole(k) /\ Whole(k) \in Nat
           /\ InStream(k) /\ k.of = c
           /\ w \in Outs /\ out[p] \in Seq(Entry) /\ w.out = out[p]
           /\ stream \in [Conn -> Seq(Nat \ {0})]
           /\ buf \in [Conn -> Chunk] /\ forward \in [Procs -> BOOLEAN]
           /\ expect \in [Procs -> Nat] /\ DOMAIN rord = Procs
           /\ Outputs
  BY AloneFacts
<1>2. Written(c) = n
  BY <1>1 DEF Written
<1>3. \/ Keep(c, p, k) \/ GiveUp(c, p, k, w) \/ GoOn(c, p, k, w)
  <2>1. \/ Keep(c, p, k) \/ GiveUp(c, p, k, w) \/ GoOn(c, p, k, w)
        \/ FillHole(c, p, k, w) \/ ApplyKept(c, p, k, w)
    BY <1>1 DEF AloneGiven, PassGiven, Pass, Follows
  <2>2. ~Awaited(p, k)
    BY <1>1 DEF Awaited
  <2>3. QED
    BY <2>1, <2>2 DEF FillHole, ApplyKept
<1>4. CASE Keep(c, p, k)
  <2>1. /\ Near(p, k) /\ buf' = [buf EXCEPT ![c] = k] /\ rord' = [rord EXCEPT ![p] = k]
        /\ forward' = [forward EXCEPT ![p] = TRUE] /\ left' = left /\ expect' = expect
        /\ writers' = writers /\ out' = out /\ files' = files
    BY <1>4 DEF Keep, outVars
  <2>2. Part(k) = 0 /\ left[c] = 0
    BY <1>1, <2>1 DEF AloneGiven, Follows, Strays
  <2>3. Seq1(k) \in Nat /\ expect[p] \in Nat /\ 0 < expect[p] /\ expect[p] < Seq1(k)
    <3>1. Seq1(k) \in Nat /\ expect[p] \in Nat
      BY <1>1, ChunkFacts
    <3>2. Seq1(k) > Expect(p, k)
      BY <2>1 DEF Near, Early
    <3>3. expect[p] # 0
      <4>1. SUFFICES ASSUME expect[p] = 0 PROVE FALSE
        OBVIOUS
      <4>2. Seq1(k) > Seq1(k)
        BY <3>2, <4>1 DEF Expect
      <4> DEFINE x == Seq1(k)
      <4>3. x \in Nat /\ x > x
        BY <3>1, <4>2
      <4> HIDE DEF x
      <4>4. QED
        BY <4>3
    <3>4. QED
      BY <3>1, <3>2, <3>3 DEF Expect
  <2>4. k.first # buf[c].first
    <3>1. SUFFICES ASSUME k.first = buf[c].first PROVE FALSE
      OBVIOUS
    <3>2. buf[c].of = c /\ Seq1(buf[c]) < expect[p]
      BY <1>1, <2>3 DEF AloneGiven, KeptIsLast
    <3>3. Seq1(buf[c]) = Seq1(k)
      BY <1>1, <3>1, <3>2 DEF Seq1
    <3>4. QED
      BY <2>3, <3>2, <3>3
  <2>5. k.first = n + 1 /\ w = Out(p) /\ Whole(k) > 0
    BY <1>1, <2>2, <2>4 DEF AloneGiven, Ready
  <2>6. Shape(Out(p), c, n)
    BY <1>1, <1>2, <2>5 DEF AloneGiven, Ready
  <2>7. /\ out[p] = First(c, n) /\ files[p] = (IF n = 0 THEN 0 ELSE 1)
        /\ n = 0 => writers[p] = {}
        /\ n > 0 => writers[p] = {[pid |-> Pid[c], idle |-> 0, file |-> 1]}
    BY <1>1, <2>6 DEF Shape, Out
  <2>8. buf'[c] = k /\ rord'[p] = k /\ forward'[p] /\ expect'[p] = expect[p] /\ left'[c] = 0
    BY <1>1, <2>1, <2>2
  <2>9. Written(c)' = n
    BY <1>1, <2>5, <2>8 DEF Written
  <2>10. OneFile(c)'
    BY <1>1, <2>1, <2>7, <2>9, AloneAfter
  <2>11. KeptIsLast(c)'
    <3>1. rord'[p] = k /\ Seq1(rord[p])' = Seq1(k) /\ Whole(rord[p])' = Whole(k)
      BY <2>8 DEF Seq1, Whole, AloneGiven, PassGiven, StepGiven
    <3>2. k.first + Whole(k) - 1 = got'[c] \div RecLen
      BY <1>1, <2>5
    <3>3. QED
      BY <1>1, <2>3, <2>5, <2>8, <3>1, <3>2 DEF KeptIsLast
  <2>12. Quiet(c)'
    <3>1. k.len \in Nat
      BY <1>1, RecvTcpAssumption DEF InStream, Chunk
    <3>2. QED
      BY <2>8, <3>1 DEF Quiet, AloneGiven, Ready
  <2>13. QED
    BY <2>10, <2>11, <2>12
<1>5. CASE GiveUp(c, p, k, w) \/ GoOn(c, p, k, w)
  <2>1. PICK v : v = ForEach(w, k)
    OBVIOUS
  <2>2. /\ EndPass(p, v) /\ ~forward'[p] /\ Ends(c, k)
        /\ expect' = [expect EXCEPT ![p] = Tail1(k) + 1]
    BY <1>1, <1>5, <2>1 DEF GiveUp, GoOn, CopiedBack
  <2>3. CASE Shape(w, c, n)
    <3>1. Shape(v, c, n + Whole(k))
      BY <1>1, <2>1, <2>3, ShapeForEach DEF AloneGiven, Ready
    <3>2. QED
      BY <1>1, <2>2, <3>1, AloneOutput
  <2>4. CASE ~Shape(w, c, n)
    <3>1. Whole(k) = 0
      BY <1>2, <2>4 DEF AloneGiven, Ready
    <3>2. v = w
      BY <1>1, <2>1, <3>1, ForEachNone
    <3>3. QED
      BY <1>1, <1>2, <2>2, <2>4, <3>2, AloneOutput
  <2>5. QED
    BY <2>3, <2>4
<1>6. QED
  BY <1>3, <1>4, <1>5

\* A pass of a connection that is alone, with a chunk kept: it is given up.
LEMMA AlonePassKept ==
  ASSUME NEW c \in Conn, NEW k, NEW w, AloneGiven(c, k, w), forward[Proc(c)]
  PROVE  OneFile(c)' /\ KeptIsLast(c)' /\ Quiet(c)'
<1>1. PICK p \in Procs, n \in Nat :
           /\ p = Proc(c) /\ p = Proc(c)' /\ n = got[c] \div RecLen
           /\ got'[c] \div RecLen = n + Whole(k) /\ Whole(k) \in Nat
           /\ InStream(k) /\ k.of = c
           /\ w \in Outs /\ out[p] \in Seq(Entry) /\ w.out = out[p]
           /\ stream \in [Conn -> Seq(Nat \ {0})]
           /\ buf \in [Conn -> Chunk] /\ forward \in [Procs -> BOOLEAN]
           /\ expect \in [Procs -> Nat] /\ DOMAIN rord = Procs
           /\ Outputs
  BY AloneFacts
<1>2. PICK b : b = rord[p]
  OBVIOUS
<1>3. /\ b.of = c /\ buf[c] = b /\ Whole(b) > 0
      /\ b.first + Whole(b) - 1 = n
      /\ 0 < expect[p] /\ expect[p] < Seq1(b)
  BY <1>1, <1>2 DEF AloneGiven, KeptIsLast
<1>4. InStream(b) /\ b.first > 0
  BY <1>1, <1>2 DEF AloneGiven, PassGiven, StepGiven, Processes, Fits
<1>5. /\ Whole(b) \in Nat /\ b.first \in Nat /\ Seq1(b) \in Nat /\ Seq1(k) \in Nat
      /\ k.first \in Nat /\ k.first <= Len(stream[c]) /\ b.first <= Len(stream[c])
      /\ Len(stream[c]) \in Nat
  <2>1. /\ Whole(b) \in Nat /\ b.first \in Nat /\ Seq1(b) \in Nat
        /\ k.first \in Nat /\ Seq1(k) \in Nat
    BY <1>1, <1>4, ChunkFacts
  <2>2. k.first <= Len(stream[c]) /\ b.first <= Len(stream[c])
    BY <1>1, <1>3, <1>4 DEF InStream
  <2>3. Len(stream[c]) \in Nat
    BY <1>1
  <2>4. QED
    BY <2>1, <2>2, <2>3
<1>6. PICK m \in Nat : m = b.first - 1
  BY <1>4, <1>5
<1>7. Written(c) = m /\ m + Whole(b) = n
  <2>1. m + Whole(b) = n
    BY <1>3, <1>5, <1>6
  <2>2. QED
    BY <1>1, <1>2, <1>6, <2>1 DEF Written
<1>8. Seq1(k) > expect[p]
  <2>1. CASE k.first = buf[c].first
    BY <1>1, <1>3, <2>1 DEF Seq1
  <2>2. CASE k.first = n + 1
    <3>1. b.first \in 1..Len(stream[c]) /\ n + 1 \in 1..Len(stream[c]) /\ b.first < n + 1
      <4> DEFINE l == Len(stream[c])  x == b.first  y == Whole(b)
      <4>1. /\ l \in Nat /\ x \in Nat /\ y \in Nat /\ x > 0 /\ y > 0
            /\ x <= l /\ n + 1 <= l /\ x + y - 1 = n
        BY <1>3, <1>4, <1>5, <2>2
      <4> HIDE DEF l, x, y
      <4>2. x \in 1..l /\ n + 1 \in 1..l /\ x < n + 1
        BY <4>1
      <4>3. QED
        BY <4>2 DEF l, x
    <3>2. stream[c][b.first] < stream[c][n + 1]
      BY <1>1, <3>1, Increases DEF AloneGiven
    <3>3. Seq1(b) = stream[c][b.first] /\ Seq1(k) = stream[c][n + 1]
      BY <1>1, <1>3, <1>4, <2>2 DEF Seq1
    <3>4. Seq1(b) < Seq1(k)
      BY <3>2, <3>3
    <3>5. PICK x \in Nat, y \in Nat, z \in Nat : x = expect[p] /\ y = Seq1(b) /\ z = Seq1(k)
      BY <1>1, <1>5
    <3>6. z > x
      BY <1>3, <3>4, <3>5
    <3>7. QED
      BY <3>5, <3>6
  <2>3. QED
    BY <1>1, <2>1, <2>2 DEF AloneGiven, Ready
<1>9. GiveUp(c, p, k, w)
  <2>1. \/ Keep(c, p, k) \/ GiveUp(c, p, k, w) \/ GoOn(c, p, k, w)
        \/ FillHole(c, p, k, w) \/ ApplyKept(c, p, k, w)
    BY <1>1 DEF AloneGiven, PassGiven, Pass, Follows
  <2>2. Expect(p, k) = expect[p]
    BY <1>3, <1>1 DEF Expect
  <2>3. Early(p, k) /\ ~Near(p, k) /\ ~Awaited(p, k)
    BY <1>1, <1>5, <1>8, <2>2 DEF Early, Near, Awaited
  <2>4. QED
    BY <2>1, <2>3 DEF Keep, GoOn, FillHole, ApplyKept
<1>10. Shape(w, c, m)
  BY <1>1, <1>7 DEF AloneGiven, Ready
<1>11. PICK u : u = ForEach(w, b)
  OBVIOUS
<1>12. Shape(u, c, n)
  <2>1. b.first = m + 1
    BY <1>5, <1>6
  <2>2. Shape(u, c, m + Whole(b))
    BY <1>1, <1>3, <1>4, <1>10, <1>11, <2>1, ShapeForEach DEF AloneGiven
  <2>3. QED
    BY <1>7, <2>2
<1>13. PICK v : v = ForEach(u, k)
  OBVIOUS
<1>14. Shape(v, c, n + Whole(k))
  BY <1>1, <1>12, <1>13, ShapeForEach DEF AloneGiven, Ready
\* A chunk of no length is what the buffer held anyway.
<1>15. CopiedBack(p, k) = k
  <2>1. SUFFICES ASSUME k.len = 0 PROVE [b EXCEPT !.len = 0] = k
    BY <1>1, <1>2 DEF CopiedBack
  <2>2. RecLen \in Nat \ {0} /\ 0 = RecLen * 0 + 0 /\ 0 \in 0..(RecLen - 1)
    BY RecvTcpAssumption
  <2>3. Whole(k) = 0 /\ Part(k) = 0
    BY <2>1, <2>2, PartsOnce DEF Whole, Part
  <2>4. k.first = buf[c].first
    BY <1>1, <1>5, <2>3 DEF AloneGiven, Ready
  <2>5. /\ k = [of |-> k.of, first |-> k.first, len |-> k.len]
        /\ b = [of |-> b.of, first |-> b.first, len |-> b.len]
    BY <1>1, <1>4, ChunkFacts
  <2>6. QED
    BY <1>1, <1>3, <2>1, <2>4, <2>5
<1>16. /\ EndPass(p, v) /\ ~forward'[p] /\ Ends(c, k)
       /\ expect' = [expect EXCEPT ![p] = Tail1(k) + 1]
  BY <1>1, <1>2, <1>9, <1>11, <1>13, <1>15 DEF GiveUp
<1>17. QED
  BY <1>1, <1>14, <1>16, AloneOutput

\* A pass of a connection that is alone.
LEMMA AlonePass ==
  ASSUME NEW c \in Conn, NEW k, NEW w, AloneGiven(c, k, w)
  PROVE  OneFile(c)' /\ KeptIsLast(c)' /\ Quiet(c)'
<1>1. CASE forward[Proc(c)]
  BY <1>1, AlonePassKept
<1>2. CASE ~forward[Proc(c)]
  BY <1>2, AlonePassPlain
<1>3. QED
  BY <1>1, <1>2

\* What a pass of c's loop leaves alone.
LEMMA PassFrame ==
  ASSUME NEW c \in Conn, NEW k, NEW w, PassGiven(c, k, w)
  PROVE  /\ \A q \in Procs \ {Proc(c)} :
              /\ writers'[q] = writers[q] /\ out'[q] = out[q] /\ files'[q] = files[q]
              /\ expect'[q] = expect[q] /\ forward'[q] = forward[q] /\ rord'[q] = rord[q]
              /\ astray'[q] = astray[q]
         /\ \A d \in Conn \ {c} : buf'[d] = buf[d] /\ left'[d] = left[d]
<1>1. PICK p \in Procs : p = Proc(c)
  BY ProcIs
<1>2. /\ DOMAIN writers = Procs /\ DOMAIN out = Procs /\ DOMAIN files = Procs
      /\ DOMAIN expect = Procs /\ DOMAIN forward = Procs /\ DOMAIN rord = Procs
      /\ DOMAIN astray = Procs /\ DOMAIN buf = Conn /\ DOMAIN left = Conn
  BY DEF PassGiven, StepGiven, Outputs, Processes, Loops
<1>3. ASSUME NEW u, EndPass(p, u)
      PROVE  \A q \in Procs \ {p} :
               writers'[q] = writers[q] /\ out'[q] = out[q] /\ files'[q] = files[q]
  BY <1>2, <1>3 DEF EndPass, SetOut
<1>4. ASSUME NEW b, Ends(c, b)
      PROVE  \A d \in Conn \ {c} : buf'[d] = buf[d] /\ left'[d] = left[d]
  BY <1>2, <1>4 DEF Ends
<1>5. CASE ~Follows(c, k)
  <2>1. PICK why : why = Strays(c, p, k)
    OBVIOUS
  <2>2. GoAstray(p, why)
    BY <1>1, <1>5, <2>1 DEF PassGiven, Pass, Follows
  <2>3. QED
    BY <1>1, <1>2, <2>2 DEF GoAstray, loopVars, procVars, outVars
<1>6. CASE Follows(c, k)
  <2>1. \/ Keep(c, p, k) \/ GiveUp(c, p, k, w) \/ GoOn(c, p, k, w)
        \/ FillHole(c, p, k, w) \/ ApplyKept(c, p, k, w)
    BY <1>1, <1>6 DEF PassGiven, Pass, Follows
  <2>2. CASE Keep(c, p, k)
    BY <1>1, <1>2, <2>2 DEF Keep, outVars
  <2>3. CASE GiveUp(c, p, k, w)
    BY <1>1, <1>2, <1>3, <1>4, <2>3 DEF GiveUp
  <2>4. CASE GoOn(c, p, k, w)
    BY <1>1, <1>2, <1>3, <1>4, <2>4 DEF GoOn
  <2>5. CASE FillHole(c, p, k, w)
    <3>1. EndPass(p, ForEach(w, k))
      BY <2>5 DEF FillHole, EndPass
    <3>2. QED
      BY <1>1, <1>2, <1>3, <1>4, <2>5, <3>1 DEF FillHole
  <2>6. CASE ApplyKept(c, p, k, w)
    BY <1>1, <1>2, <1>3, <1>4, <2>6 DEF ApplyKept
  <2>7. QED
    BY <2>1, <2>2, <2>3, <2>4, <2>5, <2>6
<1>7. QED
  BY <1>5, <1>6

\* A connection whose own state is as it was, and that can do no more than before.
SameOf(d) ==
  LET q == Proc(d) IN
  /\ writers'[q] = writers[q] /\ out'[q] = out[q] /\ files'[q] = files[q]
  /\ expect'[q] = expect[q] /\ forward'[q] = forward[q] /\ rord'[q] = rord[q]
  /\ astray'[q] = astray[q] /\ again'[q] = again[q]
  /\ buf'[d] = buf[d] /\ left'[d] = left[d] /\ got'[d] = got[d]
  /\ d \in closed => d \in closed'
  /\ d \in silent => d \in silent'

LEMMA SameStays ==
  ASSUME NEW d \in Conn, UNCHANGED <<port, stream>>, accepted \subseteq accepted',
         SameOf(d), Straight,
         OnTrack(d)', AloneYet(d)', InOrder(d)', ~again'[Proc(d)']
  PROVE  OneFile(d)' /\ KeptIsLast(d)' /\ Quiet(d)'
<1>1. PICK q : q = Proc(d) /\ q = Proc(d)'
  BY DEF Proc
<1>2. OnTrack(d) /\ AloneYet(d) /\ InOrder(d) /\ ~again[Proc(d)]
  BY <1>1 DEF OnTrack, AloneYet, InOrder, SameOf
<1>3. OneFile(d) /\ KeptIsLast(d) /\ Quiet(d)
  BY <1>2 DEF Straight
<1>4. Written(d)' = Written(d)
  BY <1>1 DEF Written, SameOf
<1>5. OneFile(d)'
  BY <1>1, <1>3, <1>4 DEF OneFile, First, SameOf
<1>6. KeptIsLast(d)'
  BY <1>1, <1>3 DEF KeptIsLast, SameOf, Seq1, Whole
<1>7. Quiet(d)'
  BY <1>1, <1>3, <1>4 DEF Quiet, SameOf
<1>8. QED
  BY <1>5, <1>6, <1>7

\* A step of one connection leaves the others as they were if each has a process.
LEMMA OthersStay ==
  ASSUME NEW c \in Conn, c \in accepted, UNCHANGED <<port, stream, accepted>>, Straight, Sets,
         port = "linux" => \A d \in Conn \ {c} : SameOf(d),
         OnTrack(c)' /\ AloneYet(c)' /\ InOrder(c)' /\ ~again'[Proc(c)'] =>
           OneFile(c)' /\ KeptIsLast(c)' /\ Quiet(c)'
  PROVE  Straight'
<1> SUFFICES ASSUME NEW d \in Conn, OnTrack(d)', AloneYet(d)', InOrder(d)', ~again'[Proc(d)']
             PROVE  OneFile(d)' /\ KeptIsLast(d)' /\ Quiet(d)'
  BY Zenon DEF Straight
<1>1. CASE d = c
  BY <1>1
<1>2. CASE d # c
  <2>1. port = "linux"
    BY <1>2 DEF AloneYet
  <2>2. SameOf(d)
    BY <1>2, <2>1
  <2>3. QED
    BY <2>2, SameStays
<1>3. QED
  BY <1>1, <1>2

\* After a pass of c's loop that is so for a receiver of processes.
LEMMA PassOthers ==
  ASSUME NEW c \in Conn, NEW k, NEW w, PassGiven(c, k, w), port = "linux",
         \A q \in Procs \ {Proc(c)} : again'[q] = again[q],
         closed' \in {closed, closed \cup {c}}, silent' \in {silent, silent \ {c}},
         NEW d \in Conn \ {c}
  PROVE  SameOf(d)
<1>1. Proc(d) \in Procs \ {Proc(c)}
  BY DEF Proc, Procs
<1>2. got'[d] = got[d]
  BY DEF PassGiven, StepGiven
<1>3. QED
  BY <1>1, <1>2, PassFrame DEF SameOf

\* What is known of a connection that is alone after a pass of its loop.
LEMMA AloneBefore ==
  ASSUME NEW c \in Conn, NEW k, NEW w, PassGiven(c, k, w), Straight, c \in accepted,
         accepted' = accepted, again[Proc(c)] => again'[Proc(c)],
         OnTrack(c)', AloneYet(c)', InOrder(c)', ~again'[Proc(c)']
  PROVE  /\ Follows(c, k) /\ InOrder(c)
         /\ OneFile(c) /\ KeptIsLast(c) /\ Quiet(c)
<1>1. PICK p : p = Proc(c) /\ p = Proc(c)'
  BY DEF PassGiven, StepGiven, Proc
<1>2. Follows(c, k)
  BY <1>1, OnTrackFollows DEF OnTrack
<1>3. OnTrack(c) /\ AloneYet(c) /\ InOrder(c) /\ ~again[Proc(c)]
  BY <1>1 DEF PassGiven, StepGiven, Pass, OnTrack, AloneYet, InOrder
<1>4. QED
  BY <1>2, <1>3 DEF Straight

\* The output of a connection that is alone, while its writer is fresh.
LEMMA FreshShape ==
  ASSUME NEW c \in Conn, IInv, OneFile(c), c \notin silent,
         \/ c \notin closed \/ forward[Proc(c)] \/ Written(c) = 0
  PROVE  Shape(Out(Proc(c)), c, Written(c))
<1>1. PICK p \in Procs : p = Proc(c)
  BY ProcIs
<1>2. Out(p) \in Outs
  BY DEF IInv, Outputs
<1>3. Written(c) \in Nat
  <2>1. got[c] \div RecLen \in Nat
    <3>1. got[c] \in Nat
      BY DEF IInv, Sets
    <3>2. RecLen \in Nat \ {0}
      BY RecvTcpAssumption
    <3>3. QED
      BY <3>1, <3>2
  <2>2. forward[p] => rord[p].first \in Nat /\ rord[p].first > 0
    BY DEF IInv, Processes, Fits, InStream, Chunk
  <2>3. QED
    BY <1>1, <2>1, <2>2 DEF Written
<1>4. /\ Out(p).out = First(c, Written(c))
      /\ Out(p).files = (IF Written(c) = 0 THEN 0 ELSE 1)
      /\ Out(p).writers = (IF Written(c) = 0 THEN {} ELSE {[pid |-> Pid[c], idle |-> 0, file |-> 1]})
  <2>1. Out(p).writers = writers[p] /\ Out(p).out = out[p] /\ Out(p).files = files[p]
    BY DEF Out
  <2>2. out[p] = First(c, Written(c)) /\ files[p] = (IF Written(c) = 0 THEN 0 ELSE 1)
    BY <1>1 DEF OneFile
  <2>3. Written(c) = 0 => writers[p] = {}
    BY <1>1 DEF OneFile
  <2>4. Written(c) # 0 => writers[p] = {[pid |-> Pid[c], idle |-> 0, file |-> 1]}
    <3>1. Written(c) # 0 => Written(c) > 0
      BY <1>3
    <3>2. QED
      BY <1>1, <3>1 DEF OneFile
  <2>5. QED
    BY <2>1, <2>2, <2>3, <2>4
<1>5. QED
  BY <1>1, <1>2, <1>4 DEF Shape

\* A read.
LEMMA AloneRead ==
  ASSUME NEW c \in Conn, IInv, Straight, Starts(c), Read(c)
  PROVE  Straight'
<1>1. PICK n \in 1..BufLen : /\ n <= Rest(c)
                             /\ got' = [got EXCEPT ![c] = @ + n]
                             /\ Pass(c, Loaded(c, n), Out(Proc(c)))
  BY DEF Read
<1>2. n \in Nat /\ n > 0
  BY RecvTcpAssumption
<1>3. /\ UNCHANGED <<port, stream, accepted, closed, again, silent>>
      /\ c \in accepted /\ c \notin closed /\ c \notin silent
  BY DEF Read, Open, timeVars
<1>4. PICK k : k = Loaded(c, n)
  OBVIOUS
<1>5. PICK w : w = Out(Proc(c))
  OBVIOUS
<1>6. Pass(c, k, w)
  BY <1>1, <1>4, <1>5
<1>7. PassGiven(c, k, w) /\ (Follows(c, k) => k.len <= BufLen)
  BY <1>1, <1>2, <1>3, <1>4, <1>5, <1>6, ReadGiven
<1>8. Sets
  BY DEF IInv
<1>9. ASSUME OnTrack(c)', AloneYet(c)', InOrder(c)', ~again'[Proc(c)']
      PROVE  OneFile(c)' /\ KeptIsLast(c)' /\ Quiet(c)'
  <2>1. Follows(c, k) /\ InOrder(c) /\ OneFile(c) /\ KeptIsLast(c)
    BY <1>3, <1>7, <1>9, AloneBefore
  <2>2. OnTrack(c)
    BY <1>6 DEF Pass, OnTrack
  <2>3. /\ k.of = c /\ k.first = (got[c] \div RecLen) + 1
        /\ k.first + Whole(k) - 1 = got'[c] \div RecLen
    <3>1. Sets /\ Loops
      BY DEF IInv
    <3>2. port' = port /\ stream' = stream
      BY <1>3
    <3>3. n <= Rest(c) /\ got' = [got EXCEPT ![c] = @ + n] /\ k = Loaded(c, n)
      BY <1>1, <1>4
    <3>4. k.len <= BufLen
      BY <1>7, <2>1
    <3>5. Loads(k, c)
      BY <1>2, <2>2, <3>1, <3>2, <3>3, <3>4, LoadedFits
    <3>6. QED
      BY <3>5, Zenon DEF Loads
  <2>4. InStream(k) /\ stream \in [Conn -> Seq(Nat \ {0})]
    BY <1>7, <2>1, PassFacts
  <2>5. Whole(k) \in Nat /\ got[c] \div RecLen \in Nat
    <3>1. got[c] \div RecLen \in Nat
      <4>1. got[c] \in Nat
        BY <1>8 DEF Sets
      <4>2. RecLen \in Nat \ {0}
        BY RecvTcpAssumption
      <4>3. QED
        BY <4>1, <4>2
    <3>2. QED
      BY <2>4, <3>1, ChunkFacts
  <2>6. PICK g \in Nat : g = got[c] \div RecLen
    BY <2>5
  <2>7. g + Whole(k) = got'[c] \div RecLen
    BY <2>3, <2>5, <2>6
  <2>8. k.len > 0
    <3>1. left[c] \in Nat
      BY RecvTcpAssumption DEF IInv, Loops
    <3>2. k.len = left[c] + n
      BY <1>2, <1>4 DEF Loaded
    <3>3. QED
      BY <1>2, <3>1, <3>2
  <2>9. Part(k) # 0 \/ Whole(k) > 0
    <3>1. k.len \in Nat /\ RecLen \in Nat \ {0}
      BY <2>4, RecvTcpAssumption DEF InStream, Chunk
    <3>2. k.len = RecLen * Whole(k) + Part(k)
      BY <3>1, Parts DEF Whole, Part
    <3>3. SUFFICES ASSUME Whole(k) = 0, Part(k) = 0 PROVE FALSE
      BY <2>5
    <3>4. k.len = RecLen * 0 + 0
      BY <3>2, <3>3
    <3>5. QED
      BY <2>8, <3>1, <3>4
  <2>10. Shape(w, c, Written(c))
    BY <1>3, <1>5, <2>1, FreshShape
  <2>11. Ready(c, k, w)
    BY <1>5, <2>3, <2>6, <2>7, <2>8, <2>9, <2>10 DEF Ready
  <2>12. AloneGiven(c, k, w)
    BY <1>3, <1>7, <2>1, <2>11 DEF AloneGiven
  <2>13. QED
    BY <2>12, AlonePass
<1>10. port = "linux" => \A d \in Conn \ {c} : SameOf(d)
  BY <1>3, <1>7, PassOthers
<1>11. QED
  BY <1>3, <1>8, <1>9, <1>10, OthersStay

\* A read at the end of the stream.
LEMMA AloneEndOfFile ==
  ASSUME NEW c \in Conn, IInv, Straight, Starts(c), EndOfFile(c)
  PROVE  Straight'
<1>1. /\ UNCHANGED <<port, stream, accepted, closed, got, again, silent>>
      /\ c \in closed /\ c \in accepted /\ c \notin silent
      /\ Pass(c, Loaded(c, 0), Out(Proc(c)))
  BY DEF EndOfFile, connVars, timeVars, IInv, Sets
<1>2. PICK k : k = Loaded(c, 0)
  OBVIOUS
<1>3. PICK w : w = Out(Proc(c))
  OBVIOUS
<1>4. Pass(c, k, w)
  BY <1>1, <1>2, <1>3
<1>5. PICK g \in Nat : g = got[c] \div RecLen /\ g = got'[c] \div RecLen
  <2>1. got[c] \in Nat /\ RecLen \in Nat \ {0}
    BY RecvTcpAssumption DEF IInv, Sets
  <2>2. got[c] \div RecLen \in Nat
    BY <2>1, Parts
  <2>3. QED
    BY <1>1, <2>2
<1>6. Sets /\ 0 <= Rest(c) /\ got' = [got EXCEPT ![c] = got[c] + 0]
  <2>1. /\ Len(stream[c]) \in Nat /\ RecLen \in Nat /\ got[c] \in Nat
        /\ RecLen * Len(stream[c]) \in Nat /\ got \in [Conn -> Nat]
        /\ got[c] <= RecLen * Len(stream[c])
    BY RecvTcpAssumption DEF IInv, Sets
  <2>2. 0 <= Rest(c)
    <3> DEFINE m == RecLen * Len(stream[c])  x == got[c]
    <3>1. x <= m /\ m \in Nat /\ x \in Nat
      BY <2>1
    <3> HIDE DEF m, x
    <3>2. 0 <= m - x
      BY <3>1
    <3>3. QED
      BY <3>2 DEF m, x, Rest
  <2>3. QED
    BY <1>1, <2>1, <2>2 DEF IInv
<1>7. CASE left[c] = 0
  <2>1. k = [buf[c] EXCEPT !.len = 0]
    BY <1>2, <1>7 DEF Loaded
  <2>2. /\ PassGiven(c, k, w)
        /\ k.of = buf[c].of /\ k.first = buf[c].first /\ k.len = 0
        /\ Whole(k) = 0 /\ Part(k) = 0
    BY <1>1, <1>3, <1>4, <1>7, <2>1, EmptyGiven
  <2>3. ASSUME OnTrack(c)', AloneYet(c)', InOrder(c)', ~again'[Proc(c)']
        PROVE  OneFile(c)' /\ KeptIsLast(c)' /\ Quiet(c)'
    <3>1. Follows(c, k) /\ InOrder(c) /\ OneFile(c) /\ KeptIsLast(c)
      BY <1>1, <2>2, <2>3, AloneBefore
    <3>2. k.of = c
      BY <2>2, <3>1 DEF KeptIsLast
    <3>3. \/ Shape(w, c, Written(c))
          \/ /\ ~forward[Proc(c)]
             /\ w.out = First(c, g) /\ w.files = (IF g = 0 THEN 0 ELSE 1)
             /\ g = 0 => w.writers = {}
      <4>1. CASE forward[Proc(c)]
        BY <1>1, <1>3, <3>1, <4>1, FreshShape
      <4>2. CASE ~forward[Proc(c)]
        BY <1>3, <1>5, <3>1, <4>2 DEF OneFile, Written, Out
      <4>3. QED
        BY <4>1, <4>2
    <3>4. Ready(c, k, w)
      BY <1>1, <1>5, <2>2, <3>2, <3>3 DEF Ready
    <3>5. AloneGiven(c, k, w)
      BY <1>1, <2>2, <3>1, <3>4 DEF AloneGiven
    <3>6. QED
      BY <3>5, AlonePass
  <2>4. port = "linux" => \A d \in Conn \ {c} : SameOf(d)
    BY <1>1, <2>2, PassOthers
  <2>5. QED
    BY <1>1, <1>6, <2>3, <2>4, OthersStay
<1>8. CASE left[c] # 0
  <2>1. PassGiven(c, k, w) /\ (Follows(c, k) => k.len <= BufLen)
    BY <1>1, <1>2, <1>3, <1>4, <1>6, <1>8, ReadGiven
  <2>2. ASSUME OnTrack(c)', AloneYet(c)', InOrder(c)', ~again'[Proc(c)']
        PROVE  OneFile(c)' /\ KeptIsLast(c)' /\ Quiet(c)'
    <3>1. Follows(c, k) /\ InOrder(c) /\ OneFile(c) /\ KeptIsLast(c)
      BY <1>1, <2>1, <2>2, AloneBefore
    <3>2. OnTrack(c)
      BY <1>4 DEF Pass, OnTrack
    <3>3. /\ Part(k) = got'[c] % RecLen /\ k.of = c /\ k.first = (got[c] \div RecLen) + 1
          /\ k.first + Whole(k) - 1 = got'[c] \div RecLen
      <4>1. Loads(k, c)
        BY <1>1, <1>2, <1>6, <1>8, <2>1, <3>1, <3>2, LoadedFits DEF IInv
      <4>2. QED
        BY <4>1, Zenon DEF Loads
    <3>4. Whole(k) = 0
      <4>1. Whole(k) \in Nat
        BY <2>1, <3>1, PassFacts, ChunkFacts
      <4>2. (g + 1) + Whole(k) - 1 = g
        BY <1>5, <3>3
      <4>3. QED
        BY <4>1, <4>2
    <3>5. Part(k) # 0
      BY <1>1, <1>8, <3>2, <3>3 DEF IInv, Loops
    <3>6. ~forward[Proc(c)]
      BY <1>8, <3>1 DEF KeptIsLast
    <3>7. /\ w.out = First(c, g) /\ w.files = (IF g = 0 THEN 0 ELSE 1)
          /\ g = 0 => w.writers = {}
      BY <1>3, <1>5, <3>1, <3>6 DEF OneFile, Written, Out
    <3>8. Ready(c, k, w)
      BY <1>1, <1>3, <1>5, <3>3, <3>4, <3>5, <3>6, <3>7 DEF Ready
    <3>9. AloneGiven(c, k, w)
      BY <1>1, <2>1, <3>1, <3>8 DEF AloneGiven
    <3>10. QED
      BY <3>9, AlonePass
  <2>3. port = "linux" => \A d \in Conn \ {c} : SameOf(d)
    BY <1>1, <2>1, PassOthers
  <2>4. QED
    BY <1>1, <1>6, <2>2, <2>3, OthersStay
<1>9. QED
  BY <1>7, <1>8

\* A pass over an old chunk with nothing in it.
LEMMA AloneAgain ==
  ASSUME NEW c \in Conn, IInv, Straight, Starts(c), c \in accepted, c \notin closed,
         UNCHANGED <<port, stream, accepted, got>>,
         closed' \in {closed, closed \cup {c}}, silent' \in {silent, silent \ {c}},
         NEW w \in Outs, w \in {Out(Proc(c)), Closed(Out(Proc(c)))}, w.out = out[Proc(c)],
         PassAgain(c, w)
  PROVE  Straight'
<1>1. PICK p \in Procs : p = Proc(c) /\ p = Proc(c)'
  BY ProcIs DEF Proc
<1>2. /\ \A q \in Procs \ {Proc(c)} : again'[q] = again[q]
      /\ again[Proc(c)] => again'[Proc(c)]
      /\ buf[c].len > 0 => again'[Proc(c)]
      /\ StepGiven(c)
      /\ left[c] \in {0, buf[c].len} => PassGiven(c, buf[c], w)
  BY AgainGiven
<1>3. Sets
  BY DEF IInv
<1>4. CASE left[c] \notin {0, buf[c].len}
  <2>1. GoAstray(p, "stale")
    BY <1>1, <1>4 DEF PassAgain
  <2>2. astray'[p] = "stale" /\ \A q \in Procs \ {p} : astray'[q] = astray[q]
    BY <2>1 DEF GoAstray, IInv, Processes
  <2>3. ~OnTrack(c)'
    BY <1>1, <2>2 DEF OnTrack
  <2>4. ASSUME port = "linux", NEW d \in Conn \ {c} PROVE SameOf(d)
    <3>1. Proc(d) \in Procs \ {p}
      BY <1>1, <2>4 DEF Proc, Procs
    <3>2. QED
      BY <1>1, <1>2, <2>1, <2>2, <3>1 DEF SameOf, GoAstray, loopVars, procVars, outVars
  <2>5. QED
    BY <1>3, <2>3, <2>4, OthersStay
<1>5. CASE left[c] \in {0, buf[c].len}
  <2>1. PICK k : k = buf[c]
    OBVIOUS
  <2>2. PassGiven(c, k, w)
    BY <1>2, <1>5, <2>1
  <2>3. ASSUME OnTrack(c)', AloneYet(c)', InOrder(c)', ~again'[Proc(c)']
        PROVE  OneFile(c)' /\ KeptIsLast(c)' /\ Quiet(c)'
    <3>1. Follows(c, k) /\ InOrder(c) /\ OneFile(c) /\ KeptIsLast(c) /\ Quiet(c)
      BY <1>2, <2>2, <2>3, AloneBefore
    <3>2. InStream(k)
      BY <2>2, <3>1, PassFacts
    <3>3. k.len = 0
      <4>1. k.len \in Nat
        BY <3>2, RecvTcpAssumption DEF InStream, Chunk
      <4>2. ~(k.len > 0)
        BY <1>1, <1>2, <2>1, <2>3
      <4>3. QED
        BY <4>1, <4>2
    <3>4. RecLen \in Nat \ {0} /\ 0 = RecLen * 0 + 0 /\ 0 \in 0..(RecLen - 1)
      BY RecvTcpAssumption
    <3>5. Whole(k) = 0
      BY <3>3, <3>4, PartsOnce DEF Whole
    <3>6. ~forward[p]
      <4>1. SUFFICES ASSUME forward[p] PROVE FALSE
        OBVIOUS
      <4>2. buf[c] = rord[p] /\ Whole(rord[p]) > 0
        BY <1>1, <3>1, <4>1 DEF KeptIsLast
      <4>3. 0 > 0
        BY <2>1, <3>5, <4>2
      <4>4. QED
        BY <4>3
    <3>7. got[c] = 0
      BY <2>1, <3>1, <3>3 DEF Quiet
    <3>8. got[c] \div RecLen = 0 /\ got'[c] \div RecLen = 0 /\ got'[c] = 0
      BY <3>4, <3>7, PartsOnce
    <3>9. Written(c) = 0
      BY <1>1, <3>6, <3>8 DEF Written
    <3>10. Shape(Out(p), c, 0)
      <4>1. /\ out[p] = First(c, 0) /\ files[p] = 0 /\ writers[p] = {}
        BY <1>1, <3>1, <3>9 DEF OneFile
      <4>2. Out(p) \in Outs
        BY DEF IInv, Outputs
      <4>3. QED
        BY <4>1, <4>2 DEF Shape, Out
    <3>11. w = Out(p)
      BY <1>1, <3>10, ShapeClosed
    <3>12. Shape(w, c, Written(c))
      BY <3>9, <3>10, <3>11
    <3>13. k.of = c
      BY <1>1, <2>1, <3>1, <3>6 DEF KeptIsLast
    <3>14. Ready(c, k, w)
      BY <2>1, <3>5, <3>8, <3>12, <3>13 DEF Ready
    <3>15. AloneGiven(c, k, w)
      BY <2>2, <3>1, <3>14 DEF AloneGiven
    <3>16. QED
      BY <3>15, AlonePass
  <2>4. port = "linux" => \A d \in Conn \ {c} : SameOf(d)
    BY <1>2, <2>2, PassOthers
  <2>5. QED
    BY <1>3, <2>3, <2>4, OthersStay
<1>6. QED
  BY <1>4, <1>5

\* A step that leaves every loop and every process as it was.
LEMMA AllStay ==
  ASSUME Straight, UNCHANGED <<port, stream, got, loopVars, procVars, outVars, markVars>>,
         accepted \subseteq accepted', closed \subseteq closed', silent \subseteq silent'
  PROVE  Straight'
<1> SUFFICES ASSUME NEW d \in Conn, OnTrack(d)', AloneYet(d)', InOrder(d)', ~again'[Proc(d)']
             PROVE  OneFile(d)' /\ KeptIsLast(d)' /\ Quiet(d)'
  BY Zenon DEF Straight
<1>1. SameOf(d)
  BY DEF SameOf, loopVars, procVars, outVars, markVars
<1>2. QED
  BY <1>1, SameStays

\* Time passes: a writer gets old, and its connection is silent or has ended.
LEMMA AloneTick ==
  ASSUME IInv, Straight, Tick
  PROVE  Straight'
<1>1. /\ UNCHANGED <<port, stream, accepted, closed, got, buf, left, expect, forward, rord>>
      /\ UNCHANGED <<out, files, astray, again>>
      /\ silent' = accepted \ closed
      /\ \A c \in closed : ~forward[Proc(c)] \/ astray[Proc(c)] # ""
      /\ writers' = [p \in DOMAIN writers |->
                   {[x EXCEPT !.idle = IF @ < 2 THEN @ + 1 ELSE 2] : x \in writers[p]}]
  BY DEF Tick, connVars, loopVars, procVars, markVars
<1>2. DOMAIN writers = Procs
  BY DEF IInv, Outputs
<1> SUFFICES ASSUME NEW d \in Conn, OnTrack(d)', AloneYet(d)', InOrder(d)', ~again'[Proc(d)']
             PROVE  OneFile(d)' /\ KeptIsLast(d)' /\ Quiet(d)'
  BY Zenon DEF Straight
<1>3. PICK q \in Procs : q = Proc(d) /\ q = Proc(d)'
  BY <1>1, ProcIs DEF Proc
<1>4. OnTrack(d) /\ AloneYet(d) /\ InOrder(d) /\ ~again[Proc(d)]
  BY <1>1, <1>3 DEF OnTrack, AloneYet, InOrder
<1>5. OneFile(d) /\ KeptIsLast(d) /\ Quiet(d)
  BY <1>4 DEF Straight
<1>6. PICK n : n = Written(d) /\ n = Written(d)'
  BY <1>1, <1>3 DEF Written
<1>7. n = 0 => writers'[q] = {}
  <2>1. SUFFICES ASSUME n = 0 PROVE writers'[q] = {}
    OBVIOUS
  <2>2. writers[q] = {}
    BY <1>3, <1>5, <1>6, <2>1 DEF OneFile
  <2>3. QED
    BY <1>1, <1>2, <2>2
<1>8. n > 0 => ~(d \notin silent' /\ (d \notin closed' \/ forward'[q]))
  <2>1. SUFFICES ASSUME n > 0, d \notin silent', d \notin closed' \/ forward'[q] PROVE FALSE
    OBVIOUS
  <2>2. d \in accepted
    <3>1. SUFFICES ASSUME d \notin accepted PROVE FALSE
      OBVIOUS
    <3>2. n = 0
      BY <1>5, <1>6, <3>1 DEF Quiet
    <3>3. QED
      BY <2>1, <3>2
  <2>3. d \in closed /\ forward[q]
    BY <1>1, <2>1, <2>2
  <2>4. QED
    BY <1>1, <1>3, <1>4, <2>3 DEF OnTrack
<1>9. OneFile(d)'
  <2>1. /\ out'[q] = First(d, n) /\ files'[q] = (IF n = 0 THEN 0 ELSE 1)
    BY <1>1, <1>3, <1>5, <1>6 DEF OneFile
  <2>2. QED
    BY <1>3, <1>6, <1>7, <1>8, <2>1 DEF OneFile, First
<1>10. KeptIsLast(d)'
  BY <1>1, <1>3, <1>5 DEF KeptIsLast, Seq1, Whole
<1>11. Quiet(d)'
  BY <1>1, <1>5, <1>6 DEF Quiet
<1>12. QED
  BY <1>9, <1>10, <1>11

\* At the start nothing was read or written.
LEMMA InitStraight ==
  ASSUME Init
  PROVE  Straight
<1>1. /\ accepted = {} /\ closed = {} /\ got = [c \in Conn |-> 0]
      /\ buf = [c \in Conn |-> Nothing(c)] /\ expect = [p \in Procs |-> 0]
      /\ forward = [p \in Procs |-> FALSE] /\ writers = [p \in Procs |-> {}]
      /\ out = [p \in Procs |-> << >>] /\ files = [p \in Procs |-> 0]
  BY DEF Init
<1>2. SUFFICES ASSUME NEW c \in Conn PROVE OneFile(c) /\ KeptIsLast(c) /\ Quiet(c)
  BY DEF Straight
<1>3. PICK p \in Procs : p = Proc(c)
  BY ProcIs
<1>4. /\ ~forward[p] /\ expect[p] = 0 /\ writers[p] = {} /\ out[p] = << >> /\ files[p] = 0
      /\ got[c] = 0 /\ buf[c] = Nothing(c)
  BY ONLY <1>1, <1>3
<1>5. got[c] \div RecLen = 0
  <2>1. RecLen \in Nat \ {0} /\ 0 = RecLen * 0 + 0 /\ 0 \in 0..(RecLen - 1)
    BY RecvTcpAssumption
  <2>2. 0 \div RecLen = 0
    BY ONLY <2>1, PartsOnce
  <2>3. QED
    BY ONLY <1>4, <2>2
<1>6. Written(c) = 0
  BY <1>3, <1>4, <1>5 DEF Written
<1>7. << >> = First(c, 0)
  <2>1. /\ First(c, 0) \in Seq({[of |-> c, rec |-> i, file |-> 1] : i \in Nat})
        /\ Len(First(c, 0)) = 0
    BY ONLY FirstIs
  <2>2. QED
    BY ONLY <2>1
<1>8. OneFile(c)
  BY <1>3, <1>4, <1>6, <1>7 DEF OneFile
<1>9. KeptIsLast(c)
  BY <1>3, <1>4 DEF KeptIsLast, Nothing
<1>10. Quiet(c)
  BY <1>4, <1>6 DEF Quiet
<1>11. QED
  BY <1>8, <1>9, <1>10

\* Every step keeps the file straight.
LEMMA NextStraight ==
  ASSUME IInv, Straight, \A c \in Conn : Starts(c), [Next]_vars
  PROVE  Straight'
<1>1. accepted \subseteq Conn /\ closed \subseteq accepted /\ silent \subseteq accepted \ closed
  BY DEF IInv, Sets
<1>2. ASSUME NEW c \in Conn, Accept(c) PROVE Straight'
  <2>1. /\ UNCHANGED <<port, stream, got, loopVars, procVars, outVars, markVars>>
        /\ accepted \subseteq accepted' /\ closed' = closed /\ silent' = silent
    BY <1>2 DEF Accept, timeVars
  <2>2. QED
    BY <2>1, AllStay
<1>3. ASSUME NEW c \in Conn, Close(c) PROVE Straight'
  <2>1. /\ UNCHANGED <<port, stream, got, loopVars, procVars, outVars, markVars>>
        /\ accepted' = accepted /\ closed \subseteq closed' /\ silent' = silent
    BY <1>3 DEF Close, timeVars
  <2>2. QED
    BY <2>1, AllStay
<1>4. ASSUME NEW c \in Conn, Read(c) PROVE Straight'
  BY <1>4, AloneRead
<1>5. ASSUME NEW c \in Conn, EndOfFile(c) PROVE Straight'
  BY <1>5, AloneEndOfFile
<1>o. ASSUME NEW c \in Conn PROVE Out(Proc(c)) \in Outs /\ Out(Proc(c)).out = out[Proc(c)]
  BY ProcIs DEF IInv, Outputs, Out
<1>6. ASSUME NEW c \in Conn, Reset(c) PROVE Straight'
  <2>1. PICK w \in Outs : w = Out(Proc(c)) /\ w.out = out[Proc(c)]
    BY <1>o
  <2>2. PassAgain(c, w)
    BY <1>6, <2>1 DEF Reset
  <2>3. /\ UNCHANGED <<port, stream, accepted, got>> /\ c \in accepted /\ c \notin closed
        /\ closed' \in {closed, closed \cup {c}} /\ silent' \in {silent, silent \ {c}}
    BY <1>6 DEF Reset, Open, timeVars
  <2>4. QED
    BY <2>1, <2>2, <2>3, AloneAgain
<1>7. ASSUME NEW c \in Conn, TimeOut(c) PROVE Straight'
  <2>1. PICK w \in Outs : w = Closed(Out(Proc(c))) /\ w.out = out[Proc(c)]
    BY <1>o, ClosedOuts
  <2>2. PassAgain(c, w)
    BY <1>7, <2>1 DEF TimeOut
  <2>3. /\ UNCHANGED <<port, stream, accepted, got>> /\ c \in accepted /\ c \notin closed
        /\ closed' \in {closed, closed \cup {c}} /\ silent' \in {silent, silent \ {c}}
    BY <1>1, <1>7 DEF TimeOut, connVars
  <2>4. QED
    BY <2>1, <2>2, <2>3, AloneAgain
<1>8. ASSUME Tick PROVE Straight'
  BY <1>8, AloneTick
<1>9. CASE UNCHANGED vars
  <2>1. /\ UNCHANGED <<port, stream, got, loopVars, procVars, outVars, markVars>>
        /\ accepted' = accepted /\ closed' = closed /\ silent' = silent
    BY <1>9 DEF vars, connVars, timeVars
  <2>2. QED
    BY <2>1, AllStay
<1>10. QED
  BY <1>2, <1>3, <1>4, <1>5, <1>6, <1>7, <1>8, <1>9 DEF Next

\* The records of a connection that is alone and were output are the first ones.
LEMMA WrittenIs ==
  ASSUME IInv, NEW c \in Conn, KeptIsLast(c)
  PROVE  Written(c) = Cardinality(Received(c) \ Kept(c))
<1>1. PICK p \in Procs : p = Proc(c)
  BY ProcIs
<1>2. PICK g \in Nat : g = got[c] \div RecLen
  <2>1. got[c] \in Nat
    BY DEF IInv, Sets
  <2>2. RecLen \in Nat \ {0}
    BY RecvTcpAssumption
  <2>3. got[c] \div RecLen \in Nat
    BY <2>1, <2>2
  <2>4. QED
    BY <2>3
<1>3. PICK n \in Nat : n = Written(c) /\ Received(c) \ Kept(c) = 1..n
  <2>1. CASE ~forward[p]
    <3>1. g = Written(c) /\ Received(c) = 1..g /\ Kept(c) = {}
      BY <1>1, <1>2, <2>1 DEF Written, Received, Kept
    <3>2. QED
      BY <3>1
  <2>2. CASE forward[p]
    <3>1. PICK b : b = rord[p]
      OBVIOUS
    <3>2. /\ b.of = c /\ b.first \in Nat /\ b.first > 0
          /\ b.first + Whole(b) - 1 = g /\ Whole(b) > 0
      BY <1>1, <1>2, <2>2, <3>1 DEF KeptIsLast, IInv, Processes, Fits, InStream, Chunk
    <3>3. Whole(b) \in Nat
      BY <1>1, <2>2, <3>1, ChunkFacts DEF IInv, Processes, Fits, Sets
    <3>4. PICK n \in Nat : n = b.first - 1
      BY <3>2
    <3>5. n = Written(c)
      BY <1>1, <2>2, <3>1, <3>4 DEF Written
    <3>6. Kept(c) = (n + 1)..g
      <4>1. Kept(c) = b.first..(b.first + Whole(b) - 1)
        BY <1>1, <2>2, <3>1, <3>2 DEF Kept
      <4>2. b.first = n + 1
        BY <3>2, <3>4
      <4>3. QED
        BY <3>2, <4>1, <4>2
    <3>7. n <= g
      <4>1. \A y \in Nat : y > 0 /\ b.first + y - 1 = g => b.first - 1 <= g
        BY <3>2
      <4>2. QED
        BY <3>2, <3>3, <3>4, <4>1
    <3>8. (1..g) \ ((n + 1)..g) = 1..n
      BY <3>7
    <3>9. QED
      BY <1>2, <3>5, <3>6, <3>8 DEF Received
  <2>3. QED
    BY <2>1, <2>2
<1>4. Cardinality(1..n) = n
  <2>1. Cardinality(1..n) = IF 1 > n THEN 0 ELSE n - 1 + 1
    BY FS_Interval
  <2>2. QED
    BY <2>1
<1>5. QED
  BY <1>3, <1>4

\* If every stream begins with a number that identifies its source, then a
\* connection that is alone in its process has one file, and that holds the
\* beginning of its stream in order, up to what is kept (recvDiagMemInfo,
\* 473-700, and outputDiagMemInfo).
THEOREM SpecStandaloneStream ==
  ASSUME \A c \in Conn : \A s \in Streams[c] : Len(s) > 0 => s[1] \in CapSeq
  PROVE  Spec => []StandaloneStream
<1> DEFINE J == IInv /\ Straight /\ \A c \in Conn : Starts(c)
<1>1. Init => J
  <2>1. Init => \A c \in Conn : Starts(c)
    BY DEF Init, Starts
  <2>2. QED
    BY <2>1, InitIInv, InitStraight
<1>2. J /\ [Next]_vars => J'
  <2> SUFFICES ASSUME J, [Next]_vars PROVE J'
    OBVIOUS
  <2>1. IInv'
    BY NextIInv
  <2>2. Straight'
    BY NextStraight
  <2>3. stream' = stream
    BY DEF Next, vars, Accept, Read, Close, Reset, EndOfFile, TimeOut, Tick
  <2>4. \A c \in Conn : Starts(c)'
    BY <2>3 DEF Starts
  <2>5. QED
    BY <2>1, <2>2, <2>4
<1>3. J => StandaloneStream
  <2> SUFFICES ASSUME J, NEW c \in Conn, OnTrack(c), Alone(c), InOrder(c), ~again[Proc(c)]
               PROVE  out[Proc(c)] = First(c, Cardinality(Received(c) \ Kept(c)))
    BY Zenon DEF StandaloneStream, First
  <2>1. AloneYet(c)
    BY DEF Alone, AloneYet
  <2>2. OneFile(c) /\ KeptIsLast(c)
    BY <2>1 DEF Straight
  <2>3. Written(c) = Cardinality(Received(c) \ Kept(c))
    BY <2>2, WrittenIs
  <2>4. QED
    BY <2>2, <2>3 DEF OneFile
<1>4. QED
  <2> HIDE DEF J
  <2>1. QED
    BY <1>1, <1>2, <1>3, PTL DEF Spec
=============================================================================
