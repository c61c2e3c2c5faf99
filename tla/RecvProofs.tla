----------------------------- MODULE RecvProofs -----------------------------
(***************************************************************************)
(* Proofs about the receiver of Recv, for any sources, any number of       *)
(* records and datagrams, any network and any clock.                       *)
(***************************************************************************)
EXTENDS Recv, Induction, FiniteSetTheorems, SequenceTheorems, TLAPS

-----------------------------------------------------------------------------
(* What the output is. *)

Key    == {Ip(s) : s \in Src} \X {Pid(s) : s \in Src}
Record == [ip : {Ip(s) : s \in Src}, src : Src, seq : 1..N]
Writer == [key : Key, idle : 0..2, file : Nat]
File   == [last : 1..N, sorted : BOOLEAN, from : SUBSET (Src \X (1..N))]

Outs == [writers : SUBSET Writer, files : Seq(File),
         written : [Src -> [1..N -> Nat]], dropped : SUBSET (Src \X (1..N))]

\* Every writer has a file of its own, and a file belongs to one pid, its
\* writer's.
Good(w) ==
  /\ w \in Outs
  /\ \A x \in w.writers : x.file \in 1..Len(w.files)
  /\ \A x, y \in w.writers : x.file = y.file => x.key = y.key
  /\ \A x \in w.writers : \A s \in w.files[x.file].from : Pid(s[1]) = x.key[2]
  /\ \A k \in 1..Len(w.files) : \A s, t \in w.files[k].from : Pid(s[1]) = Pid(t[1])

KeyOf(r) == <<r.ip, Pid(r.src)>>

Bumped(w, r) == [w.written EXCEPT ![r.src][r.seq] = @ + 1]

\* The three things that happen to a record.
Filed(w, r, v) ==
  /\ v.writers = w.writers \cup {[key |-> KeyOf(r), idle |-> 0, file |-> Len(w.files) + 1]}
  /\ v.files = Append(w.files, [last |-> r.seq, sorted |-> TRUE, from |-> {<<r.src, r.seq>>}])
  /\ v.dropped = w.dropped

Added(w, r, v) ==
  /\ v.writers = w.writers
  /\ \E x \in Found(w, KeyOf(r)) :
       v.files = [w.files EXCEPT ![x.file] =
                    [last   |-> r.seq,
                     sorted |-> @.sorted /\ @.last < r.seq,
                     from   |-> @.from \cup {<<r.src, r.seq>>}]]
  /\ v.dropped = w.dropped

Lost(w, r, v) ==
  /\ v.writers = w.writers
  /\ v.files = w.files
  /\ v.dropped = w.dropped \cup {<<r.src, r.seq>>}
  /\ Found(w, KeyOf(r)) = {}
  /\ r.seq # 1 \/ r.seq \notin CapSeq

\* A new file with its first record.
WithLast(q, a, b) == [Append(q, a) EXCEPT ![Len(q) + 1] = b]

\* The new entry of a sequence, changed.
LEMMA LastChanged ==
  ASSUME NEW S, NEW q \in Seq(S), NEW a \in S, NEW b \in S
  PROVE  WithLast(q, a, b) = Append(q, b)
<1> DEFINE c == [Append(q, a) EXCEPT ![Len(q) + 1] = b]
<1>1. /\ Append(q, a) \in Seq(S) /\ Len(Append(q, a)) = Len(q) + 1
      /\ \A i \in 1..Len(q) : Append(q, a)[i] = q[i]
  OBVIOUS
<1>2. /\ Append(q, b) \in Seq(S) /\ Len(Append(q, b)) = Len(q) + 1
      /\ \A i \in 1..Len(q) : Append(q, b)[i] = q[i]
      /\ Append(q, b)[Len(q) + 1] = b
  OBVIOUS
<1>3. c \in Seq(S) /\ Len(c) = Len(q) + 1
  BY <1>1
<1>4. \A i \in 1..Len(q) : c[i] = q[i]
  <2> DEFINE h == Append(q, a)
  <2>1. DOMAIN h = 1..(Len(q) + 1) /\ \A i \in 1..Len(q) : h[i] = q[i]
    BY <1>1
  <2> HIDE DEF h
  <2>2. \A i \in 1..Len(q) : [h EXCEPT ![Len(q) + 1] = b][i] = q[i]
    BY <2>1
  <2>3. QED
    BY <2>2 DEF h
<1>5. c[Len(q) + 1] = b
  BY <1>1
<1> HIDE DEF c
<1>6. \A i \in 1..(Len(q) + 1) : c[i] = Append(q, b)[i]
  BY <1>2, <1>4, <1>5
<1>7. QED
  BY <1>2, <1>3, <1>6, SeqEqual DEF c, WithLast

\* A record begins a file, goes to the end of one, or to /dev/null.
LEMMA RecordCases ==
  ASSUME NEW w, Good(w), NEW r \in Record
  PROVE  LET v == OutputRecord(w, r)
         IN /\ v = [writers |-> v.writers, files |-> v.files,
                    written |-> Bumped(w, r), dropped |-> v.dropped]
            /\ Filed(w, r, v) \/ Added(w, r, v) \/ Lost(w, r, v)
<1> DEFINE key == KeyOf(r)
           found == Found(w, key)
           new == Create(w, key)
           v == OutputRecord(w, r)
<1>0. /\ w = [writers |-> w.writers, files |-> w.files,
              written |-> w.written, dropped |-> w.dropped]
      /\ w.files \in Seq(File) /\ r.seq \in 1..N /\ r.src \in Src
  BY DEF Good, Outs, Record
<1>1. CASE r.seq \in CapSeq /\ (r.seq = 1 \/ found = {})
  <2>1. v = Put(new, Len(new.files), r.src, r.seq)
    BY <1>1 DEF OutputRecord, KeyOf
  <2>2. /\ new.files = Append(w.files, NewFile)
        /\ new.writers = w.writers \cup {[key |-> key, idle |-> 0, file |-> Len(w.files) + 1]}
        /\ new.written = w.written /\ new.dropped = w.dropped
        /\ new = [writers |-> new.writers, files |-> new.files,
                  written |-> new.written, dropped |-> new.dropped]
    <3> DEFINE fs == Append(w.files, NewFile)
               ws == w.writers \cup {[key |-> key, idle |-> 0, file |-> Len(w.files) + 1]}
    <3>1. new = [w EXCEPT !.files = fs, !.writers = ws]
      BY DEF Create
    <3> HIDE DEF fs, ws, new
    <3>2. new = [writers |-> ws, files |-> fs, written |-> w.written, dropped |-> w.dropped]
      BY <1>0, <3>1
    <3>3. QED
      BY <3>2 DEF fs, ws
  <2>3. Len(new.files) = Len(w.files) + 1 /\ Len(w.files) \in Nat
    BY <1>0, <2>2
  <2>4. new.files[Len(w.files) + 1] = NewFile
    BY <1>0, <2>2
  <2> HIDE DEF new, key, found
  <2>5. /\ v = [writers |-> v.writers, files |-> v.files,
                written |-> v.written, dropped |-> v.dropped]
        /\ v.writers = new.writers /\ v.dropped = new.dropped
        /\ v.written = [new.written EXCEPT ![r.src][r.seq] = @ + 1]
        /\ v.files = [new.files EXCEPT ![Len(w.files) + 1] =
                        [last   |-> r.seq,
                         sorted |-> NewFile.sorted /\ NewFile.last < r.seq,
                         from   |-> NewFile.from \cup {<<r.src, r.seq>>}]]
    BY <2>1, <2>2, <2>3, <2>4 DEF Put
  <2>6. [last   |-> r.seq,
         sorted |-> NewFile.sorted /\ NewFile.last < r.seq,
         from   |-> NewFile.from \cup {<<r.src, r.seq>>}]
          = [last |-> r.seq, sorted |-> TRUE, from |-> {<<r.src, r.seq>>}]
    <3>1. (NewFile.sorted /\ NewFile.last < r.seq) = TRUE
      BY <1>0 DEF NewFile
    <3>2. NewFile.from \cup {<<r.src, r.seq>>} = {<<r.src, r.seq>>}
      BY DEF NewFile
    <3>3. QED
      BY <3>1, <3>2
  <2>7. v.files = Append(w.files, [last |-> r.seq, sorted |-> TRUE, from |-> {<<r.src, r.seq>>}])
    <3> DEFINE e == [last |-> r.seq, sorted |-> TRUE, from |-> {<<r.src, r.seq>>}]
               S == File \cup {NewFile}
    <3>1. w.files \in Seq(S)
      BY <1>0
    <3>2. e \in S
      BY <1>0 DEF File
    <3>3. NewFile \in S
      OBVIOUS
    <3> HIDE DEF e, S
    <3>4. WithLast(w.files, NewFile, e) = Append(w.files, e)
      BY <3>1, <3>2, <3>3, LastChanged
    <3>5. v.files = WithLast(w.files, NewFile, e)
      BY <2>2, <2>5, <2>6 DEF e, WithLast
    <3>6. QED
      BY <3>4, <3>5 DEF e
  <2>8. Filed(w, r, v)
    BY <2>2, <2>5, <2>7 DEF Filed, key
  <2>9. v.written = Bumped(w, r)
    BY <2>2, <2>5 DEF Bumped
  <2>10. QED
    BY <2>5, <2>8, <2>9
<1>2. CASE ~ (r.seq \in CapSeq /\ (r.seq = 1 \/ found = {})) /\ found = {}
  <2>1. v = Drop(w, r.src, r.seq)
    BY <1>2 DEF OutputRecord, KeyOf
  <2>2. /\ v = [writers |-> v.writers, files |-> v.files,
                written |-> v.written, dropped |-> v.dropped]
        /\ v.writers = w.writers /\ v.files = w.files
        /\ v.written = [w.written EXCEPT ![r.src][r.seq] = @ + 1]
        /\ v.dropped = w.dropped \cup {<<r.src, r.seq>>}
    BY <1>0, <2>1 DEF Drop
  <2> HIDE DEF v, found
  <2>3. Lost(w, r, v)
    BY <1>2, <2>2 DEF Lost, found, key
  <2>4. v.written = Bumped(w, r)
    BY <2>2 DEF Bumped
  <2>5. QED
    BY <2>2, <2>3, <2>4 DEF v
<1>3. CASE ~ (r.seq \in CapSeq /\ (r.seq = 1 \/ found = {})) /\ found # {}
  <2>1. PICK x \in found : v = Put(w, x.file, r.src, r.seq)
    BY <1>3 DEF OutputRecord, KeyOf
  <2> DEFINE e == [last   |-> r.seq,
                   sorted |-> w.files[x.file].sorted /\ w.files[x.file].last < r.seq,
                   from   |-> w.files[x.file].from \cup {<<r.src, r.seq>>}]
  <2>2. /\ v = [writers |-> v.writers, files |-> v.files,
                written |-> v.written, dropped |-> v.dropped]
        /\ v.writers = w.writers /\ v.dropped = w.dropped
        /\ v.written = [w.written EXCEPT ![r.src][r.seq] = @ + 1]
        /\ v.files = [w.files EXCEPT ![x.file] = e]
    BY <1>0, <2>1 DEF Put
  <2> HIDE DEF v, found
  <2>3. Added(w, r, v)
    BY <2>1, <2>2 DEF Added, found, key
  <2>4. v.written = Bumped(w, r)
    BY <2>2 DEF Bumped
  <2>5. QED
    BY <2>2, <2>3, <2>4 DEF v
<1>4. QED
  BY <1>1, <1>2, <1>3

\* One record is counted once more, whatever happens to it, and the files stay
\* those of one pid each.
LEMMA RecordGood ==
  ASSUME NEW w, Good(w), NEW r \in Record
  PROVE  LET v == OutputRecord(w, r)
         IN /\ Good(v)
            /\ v.written = Bumped(w, r)
            /\ v.dropped \subseteq w.dropped \cup {<<r.src, r.seq>>}
<1> DEFINE v == OutputRecord(w, r)
<1>0. /\ w.writers \in SUBSET Writer /\ w.files \in Seq(File)
      /\ w.written \in [Src -> [1..N -> Nat]] /\ w.dropped \in SUBSET (Src \X (1..N))
      /\ Len(w.files) \in Nat
      /\ r.ip \in {Ip(s) : s \in Src} /\ r.src \in Src /\ r.seq \in 1..N
  BY DEF Good, Outs, Record
<1>1. /\ v = [writers |-> v.writers, files |-> v.files,
              written |-> Bumped(w, r), dropped |-> v.dropped]
      /\ Filed(w, r, v) \/ Added(w, r, v) \/ Lost(w, r, v)
  BY RecordCases
<1> HIDE DEF v
<1>2. v.written = Bumped(w, r) /\ v.written \in [Src -> [1..N -> Nat]]
  <2>1. v.written = Bumped(w, r)
    BY <1>1
  <2>2. Bumped(w, r) \in [Src -> [1..N -> Nat]]
    <3> DEFINE old == w.written[r.src]
               n == old[r.seq] + 1
               m == [old EXCEPT ![r.seq] = n]
    <3>1. old \in [1..N -> Nat]
      BY <1>0
    <3>2. m \in [1..N -> Nat]
      <4> HIDE DEF old
      <4>1. n \in Nat
        <5>1. r.seq \in 1..N
          BY <1>0
        <5>2. QED
          BY <3>1, <5>1
      <4> HIDE DEF n
      <4>2. QED
        BY <3>1, <4>1
    <3>3. Bumped(w, r) = [w.written EXCEPT ![r.src] = m]
      BY DEF Bumped
    <3> HIDE DEF m
    <3>4. QED
      BY <1>0, <3>2, <3>3
  <2>3. QED
    BY <2>1, <2>2
<1>3. /\ v.dropped \subseteq w.dropped \cup {<<r.src, r.seq>>}
      /\ v.dropped \in SUBSET (Src \X (1..N))
  BY <1>0, <1>1 DEF Filed, Added, Lost
<1>4. SUFFICES /\ v.writers \in SUBSET Writer
               /\ v.files \in Seq(File)
               /\ \A x \in v.writers : x.file \in 1..Len(v.files)
               /\ \A x, y \in v.writers : x.file = y.file => x.key = y.key
               /\ \A x \in v.writers : \A s \in v.files[x.file].from : Pid(s[1]) = x.key[2]
               /\ \A k \in 1..Len(v.files) : \A s, t \in v.files[k].from : Pid(s[1]) = Pid(t[1])
  <2>1. v \in Outs
    BY <1>1, <1>2, <1>3, <1>4 DEF Outs
  <2>2. QED
    BY <1>2, <1>3, <1>4, <2>1 DEF Good, v
<1>5. /\ \A x \in w.writers : x.file \in 1..Len(w.files)
      /\ \A x, y \in w.writers : x.file = y.file => x.key = y.key
      /\ \A x \in w.writers : \A s \in w.files[x.file].from : Pid(s[1]) = x.key[2]
      /\ \A k \in 1..Len(w.files) : \A s, t \in w.files[k].from : Pid(s[1]) = Pid(t[1])
  BY DEF Good
<1>6. CASE Filed(w, r, v)
  <2> DEFINE e == [last |-> r.seq, sorted |-> TRUE, from |-> {<<r.src, r.seq>>}]
             y == [key |-> KeyOf(r), idle |-> 0, file |-> Len(w.files) + 1]
  <2>1. e \in File /\ e.from = {<<r.src, r.seq>>}
    BY <1>0 DEF File
  <2>2. y \in Writer /\ y.key[2] = Pid(r.src) /\ y.file = Len(w.files) + 1
    BY <1>0 DEF Writer, Key, KeyOf
  <2> HIDE DEF e, y
  <2>3. v.files = Append(w.files, e) /\ v.writers = w.writers \cup {y}
    BY <1>6 DEF Filed, e, y
  <2>4. /\ v.files \in Seq(File) /\ Len(v.files) = Len(w.files) + 1
        /\ v.files[Len(w.files) + 1] = e
        /\ \A k \in 1..Len(w.files) : v.files[k] = w.files[k]
    BY <1>0, <2>1, <2>3
  <2>5. \A x \in v.writers : x.file \in 1..Len(v.files)
    BY <1>0, <1>5, <2>2, <2>3, <2>4
  <2>6. \A x \in v.writers : \A s \in v.files[x.file].from : Pid(s[1]) = x.key[2]
    BY <1>0, <1>5, <2>1, <2>2, <2>3, <2>4
  <2>7. \A k \in 1..Len(v.files) : \A s, t \in v.files[k].from : Pid(s[1]) = Pid(t[1])
    <3>1. \A k \in 1..Len(w.files) : \A s, t \in v.files[k].from : Pid(s[1]) = Pid(t[1])
      BY <1>5, <2>4
    <3>2. \A s, t \in v.files[Len(w.files) + 1].from : Pid(s[1]) = Pid(t[1])
      BY <2>1, <2>4
    <3>3. 1..Len(v.files) = (1..Len(w.files)) \cup {Len(w.files) + 1}
      BY <1>0, <2>4
    <3>4. QED
      BY <3>1, <3>2, <3>3
  <2>8. \A x, z \in v.writers : x.file = z.file => x.key = z.key
    BY <1>0, <1>5, <2>2, <2>3
  <2>9. QED
    BY <1>0, <2>2, <2>3, <2>4, <2>5, <2>6, <2>7, <2>8
<1>7. CASE Added(w, r, v)
  <2>1. PICK x \in Found(w, KeyOf(r)) :
          v.files = [w.files EXCEPT ![x.file] =
                       [last   |-> r.seq,
                        sorted |-> @.sorted /\ @.last < r.seq,
                        from   |-> @.from \cup {<<r.src, r.seq>>}]]
    BY <1>7 DEF Added
  <2>2. x \in w.writers /\ x.key = KeyOf(r) /\ x.file \in 1..Len(w.files)
    BY <1>5, <2>1 DEF Found
  <2> DEFINE d == w.files[x.file]
             e == [last |-> r.seq, sorted |-> d.sorted /\ d.last < r.seq,
                   from |-> d.from \cup {<<r.src, r.seq>>}]
  <2>3. d \in File
    BY <1>0, <2>2
  <2>4. e \in File /\ e.from = d.from \cup {<<r.src, r.seq>>}
    <3> HIDE DEF d
    <3>1. d.from \cup {<<r.src, r.seq>>} \in SUBSET (Src \X (1..N))
      <4>1. d.from \subseteq Src \X (1..N)
        BY <2>3 DEF File
      <4>2. <<r.src, r.seq>> \in Src \X (1..N)
        BY <1>0
      <4>3. QED
        BY <4>1, <4>2
    <3>2. (d.sorted /\ d.last < r.seq) \in BOOLEAN
      OBVIOUS
    <3>3. QED
      BY <1>0, <3>1, <3>2 DEF File
  <2>5. v.files = [w.files EXCEPT ![x.file] = e]
    BY <2>1
  <2> HIDE DEF e
  <2>6. /\ v.files \in Seq(File) /\ Len(v.files) = Len(w.files)
        /\ v.files[x.file] = e
        /\ \A k \in 1..Len(w.files) : k # x.file => v.files[k] = w.files[k]
    BY <1>0, <2>2, <2>4, <2>5
  <2>7. v.writers = w.writers
    BY <1>7 DEF Added
  <2>8. Pid(r.src) = x.key[2] /\ \A s \in d.from : Pid(s[1]) = x.key[2]
    BY <1>5, <2>2 DEF KeyOf
  <2>9. \A s \in e.from : Pid(s[1]) = x.key[2]
    BY <2>4, <2>8
  <2> HIDE DEF d
  <2>10. \A z \in v.writers : \A s \in v.files[z.file].from : Pid(s[1]) = z.key[2]
    <3> SUFFICES ASSUME NEW z \in w.writers, NEW s \in v.files[z.file].from
                 PROVE  Pid(s[1]) = z.key[2]
      BY <2>7
    <3>1. CASE z.file # x.file
      BY <1>5, <2>6, <3>1
    <3>2. CASE z.file = x.file /\ s \in d.from
      <4>1. w.files[z.file] = d
        BY <3>2 DEF d
      <4>2. \A t \in d.from : Pid(t[1]) = z.key[2]
        BY <1>5, <4>1
      <4>3. QED
        BY <3>2, <4>2
    <3>3. CASE z.file = x.file /\ s = <<r.src, r.seq>>
      BY <1>5, <2>2, <2>8, <3>3
    <3>4. z.file = x.file => s \in e.from
      BY <2>6
    <3>5. z.file = x.file => s \in d.from \/ s = <<r.src, r.seq>>
      BY <2>4, <3>4
    <3>6. CASE z.file = x.file
      BY <3>2, <3>3, <3>5, <3>6
    <3>7. QED
      BY <3>1, <3>6
  <2>11. \A k \in 1..Len(v.files) : \A s, t \in v.files[k].from : Pid(s[1]) = Pid(t[1])
    BY <1>5, <2>6, <2>9
  <2>12. QED
    BY <1>0, <1>5, <2>6, <2>7, <2>10, <2>11
<1>8. CASE Lost(w, r, v)
  BY <1>0, <1>5, <1>8 DEF Lost
<1>9. QED
  BY <1>1, <1>6, <1>7, <1>8

-----------------------------------------------------------------------------
(* What happens to the records of a datagram: the loop over them.          *)

\* The first i records of a datagram.
Part(p, i) == {p.src} \X (p.first..(p.first + i - 1))

\* v comes of w by counting the records of R once more, some of them dropped.
Counted(w, v, R) ==
  /\ Good(v)
  /\ v.dropped \subseteq w.dropped \cup R
  /\ \A s \in Src, q \in 1..N :
       v.written[s][q] = IF <<s, q>> \in R THEN w.written[s][q] + 1 ELSE w.written[s][q]

\* The records of a datagram, listed.
LEMMA ListedIs ==
  ASSUME NEW p \in Packet, NEW ip \in {Ip(s) : s \in Src}
  PROVE  /\ Len(Listed(ip, p)) = p.last - p.first + 1
         /\ p.last - p.first + 1 \in Nat \ {0}
         /\ \A i \in 1..(p.last - p.first + 1) :
              /\ Listed(ip, p)[i] = [ip |-> ip, src |-> p.src, seq |-> p.first + i - 1]
              /\ Listed(ip, p)[i] \in Record
         /\ Part(p, 0) = {} /\ Part(p, p.last - p.first + 1) = Records(p)
<1>1. /\ p.first \in 1..N /\ p.last \in 1..N /\ p.first <= p.last /\ p.src \in Src
      /\ N \in Nat
  BY RecvAssumption DEF Packet
<1> DEFINE n == p.last - p.first + 1
<1>2. n \in Nat \ {0}
  BY <1>1
<1>3. Listed(ip, p) = [i \in 1..n |-> [ip |-> ip, src |-> p.src, seq |-> p.first + i - 1]]
  BY DEF Listed
<1>4. Len(Listed(ip, p)) = n
  <2> HIDE DEF n
  <2>1. QED
    BY <1>2, <1>3
<1>5. \A i \in 1..n : /\ Listed(ip, p)[i] = [ip |-> ip, src |-> p.src, seq |-> p.first + i - 1]
                      /\ p.first + i - 1 \in 1..N
  BY <1>1, <1>3
<1>6. \A i \in 1..n : Listed(ip, p)[i] \in Record
  <2> SUFFICES ASSUME NEW i \in 1..n PROVE Listed(ip, p)[i] \in Record
    OBVIOUS
  <2> DEFINE q == p.first + i - 1
  <2>1. Listed(ip, p)[i] = [ip |-> ip, src |-> p.src, seq |-> q] /\ q \in 1..N
    BY <1>5
  <2> HIDE DEF q
  <2>2. QED
    BY <1>1, <2>1 DEF Record
<1>7. Part(p, 0) = {} /\ Part(p, n) = Records(p)
  <2>1. p.first..(p.first + 0 - 1) = {} /\ p.first + n - 1 = p.last
    BY <1>1
  <2>2. QED
    BY <2>1 DEF Part, Records
<1>8. QED
  BY <1>2, <1>4, <1>5, <1>6, <1>7

\* One record more.
LEMMA OneCounted ==
  ASSUME NEW w, NEW u, NEW R, Counted(w, u, R), NEW r \in Record, <<r.src, r.seq>> \notin R,
         w.written \in [Src -> [1..N -> Nat]]
  PROVE  Counted(w, OutputRecord(u, r), R \cup {<<r.src, r.seq>>})
<1> DEFINE v == OutputRecord(u, r)
<1>1. Good(v) /\ v.written = Bumped(u, r) /\ v.dropped \subseteq u.dropped \cup {<<r.src, r.seq>>}
  BY RecordGood DEF Counted
<1> HIDE DEF v
<1>2. v.dropped \subseteq w.dropped \cup (R \cup {<<r.src, r.seq>>})
  BY <1>1 DEF Counted
<1>3. u.written \in [Src -> [1..N -> Nat]] /\ r.src \in Src /\ r.seq \in 1..N
  BY DEF Counted, Good, Outs, Record
<1>4. ASSUME NEW s \in Src, NEW q \in 1..N
      PROVE  v.written[s][q] = IF s = r.src /\ q = r.seq THEN u.written[s][q] + 1
                                                         ELSE u.written[s][q]
  <2> DEFINE old == u.written[r.src]
             m == [old EXCEPT ![r.seq] = @ + 1]
  <2>1. v.written = [u.written EXCEPT ![r.src] = m]
    BY <1>1 DEF Bumped
  <2>2. old \in [1..N -> Nat]
    BY <1>3
  <2>3. m[q] = IF q = r.seq THEN old[q] + 1 ELSE old[q]
    <3> HIDE DEF old
    <3>1. QED
      BY <1>3, <2>2
  <2> HIDE DEF m
  <2>4. v.written[s] = IF s = r.src THEN m ELSE u.written[s]
    BY <1>3, <2>1
  <2>5. QED
    BY <2>3, <2>4
<1>5. ASSUME NEW s \in Src, NEW q \in 1..N
      PROVE  v.written[s][q] = IF <<s, q>> \in R \cup {<<r.src, r.seq>>}
                                 THEN w.written[s][q] + 1 ELSE w.written[s][q]
  <2>1. u.written[s][q] = IF <<s, q>> \in R THEN w.written[s][q] + 1 ELSE w.written[s][q]
    BY DEF Counted
  <2>2. <<s, q>> = <<r.src, r.seq>> <=> s = r.src /\ q = r.seq
    OBVIOUS
  <2>3. QED
    BY <1>4, <2>1, <2>2
<1>6. QED
  BY <1>1, <1>2, <1>5 DEF Counted, v

\* What the output of records keeps, turn after turn, it keeps.
LEMMA OutputKeeps ==
  ASSUME NEW w, NEW s, Len(s) \in Nat, NEW T, w \in T[0],
         \A i \in 1..Len(s) : \A v \in T[i - 1] : OutputRecord(v, s[i]) \in T[i]
  PROVE  Output!Over(w, s) \in T[Len(s)]
<1> DEFINE n == Len(s)
           G == [i \in 1..n |-> [v \in T[i - 1] |-> OutputRecord(v, s[i])]]
           k == Output!After(w, s)
<1>1. \A i \in 1..n : \A v \in T[i - 1] : G[i][v] = OutputRecord(v, s[i]) /\ G[i][v] \in T[i]
  OBVIOUS
<1> HIDE DEF G, n
<1>2. n \in Nat
  BY DEF n
<1>3. PICK h : Turns(h, w, G, n)
  BY <1>2, LoopDefined
<1>4. /\ h = [i \in 0..n |-> h[i]]
      /\ h[0] = w /\ \A i \in 1..n : h[i] = G[i][h[i - 1]]
  <2>1. h = [i \in 0..n |-> IF i = 0 THEN w ELSE G[i][h[i - 1]]]
    BY <1>3 DEF Turns
  <2> DEFINE o == [i \in 0..n |-> IF i = 0 THEN w ELSE G[i][h[i - 1]]]
  <2>2. o = [i \in 0..n |-> o[i]] /\ o[0] = w /\ \A i \in 1..n : o[i] = G[i][h[i - 1]]
    BY <1>2
  <2>3. h = o
    BY <2>1
  <2> HIDE DEF o
  <2>4. QED
    BY <2>2, <2>3
<1>5. \A i \in 0..n : h[i] \in T[i]
  <2>1. h[0] \in T[0] /\ \A i \in 1..n : h[i - 1] \in T[i - 1] => h[i] \in T[i]
    BY <1>1, <1>4
  <2>2. QED
    BY <1>2, <2>1, LoopStays
<1>6. h = [i \in 0..n |-> IF i = 0 THEN w ELSE OutputRecord(h[i - 1], s[i])]
  <2>1. ASSUME NEW i \in 1..n PROVE h[i] = OutputRecord(h[i - 1], s[i])
    <3>1. i - 1 \in 0..n
      BY <1>2
    <3>2. QED
      BY <1>1, <1>4, <1>5, <3>1
  <2>2. \A i \in 0..n : h[i] = IF i = 0 THEN w ELSE OutputRecord(h[i - 1], s[i])
    BY <1>2, <1>4, <2>1
  <2>3. QED
    BY <1>4, <2>2
<1>7. k = [i \in 0..n |-> IF i = 0 THEN w ELSE OutputRecord(k[i - 1], s[i])]
  BY <1>6 DEF Output!After, n
<1> HIDE DEF k
<1>8. k[0] = w /\ \A i \in 1..n : k[i] = OutputRecord(k[i - 1], s[i])
  BY <1>2, <1>7
<1>9. \A i \in 0..n : k[i] \in T[i]
  <2>1. k[0] \in T[0] /\ \A i \in 1..n : k[i - 1] \in T[i - 1] => k[i] \in T[i]
    BY <1>8 DEF n
  <2>2. QED
    BY <1>2, <2>1, LoopStays
<1>10. QED
  BY <1>2, <1>9 DEF Output!Over, k, n

\* Every record of a datagram is output or dropped, once.
LEMMA PacketCounted ==
  ASSUME NEW w, Good(w), NEW p \in Packet, NEW ip \in {Ip(s) : s \in Src}
  PROVE  Counted(w, OutputPacket(w, ip, p), Records(p))
<1> DEFINE n == p.last - p.first + 1
           l == Listed(ip, p)
           T == [i \in Nat |-> {v \in Outs : Counted(w, v, Part(p, i))}]
<1>1. /\ Len(l) = n /\ n \in Nat \ {0} /\ Part(p, 0) = {} /\ Part(p, n) = Records(p)
      /\ \A i \in 1..n : /\ l[i] = [ip |-> ip, src |-> p.src, seq |-> p.first + i - 1]
                         /\ l[i] \in Record
  BY ListedIs
<1>2. w \in Outs /\ w.written \in [Src -> [1..N -> Nat]]
  BY DEF Good, Outs
<1>3. w \in T[0]
  <2>1. Counted(w, w, {})
    BY DEF Counted
  <2>2. QED
    BY <1>1, <1>2, <2>1
<1>4. ASSUME NEW i \in 1..n, NEW u \in T[i - 1] PROVE OutputRecord(u, l[i]) \in T[i]
  <2>1. i - 1 \in Nat /\ i \in Nat /\ p.first \in Nat /\ Counted(w, u, Part(p, i - 1))
    BY <1>1, RecvAssumption DEF Packet
  <2>2. /\ <<l[i].src, l[i].seq>> \notin Part(p, i - 1)
        /\ Part(p, i - 1) \cup {<<l[i].src, l[i].seq>>} = Part(p, i)
    <3>1. l[i].src = p.src /\ l[i].seq = p.first + i - 1
      BY <1>1
    <3>2. /\ p.first + i - 1 \notin p.first..(p.first + (i - 1) - 1)
          /\ (p.first..(p.first + (i - 1) - 1)) \cup {p.first + i - 1}
               = p.first..(p.first + i - 1)
      BY <2>1
    <3>3. QED
      BY <3>1, <3>2 DEF Part
  <2>3. Counted(w, OutputRecord(u, l[i]), Part(p, i))
    BY <1>1, <1>2, <2>1, <2>2, OneCounted
  <2>4. OutputRecord(u, l[i]) \in Outs
    BY <2>3 DEF Counted, Good
  <2>5. QED
    BY <2>1, <2>3, <2>4
<1> HIDE DEF T, l, n
<1>5. Output!Over(w, l) \in T[n]
  BY <1>1, <1>3, <1>4, OutputKeeps
<1>6. QED
  BY <1>1, <1>5 DEF T, OutputPacket, l

\* Two datagrams one after the other.
LEMMA CountedTwice ==
  ASSUME NEW w, NEW u, NEW v, NEW R, NEW S,
         Counted(w, u, R), Counted(u, v, S), R \cap S = {}
  PROVE  Counted(w, v, R \cup S)
<1>1. Good(v) /\ v.dropped \subseteq w.dropped \cup (R \cup S)
  BY DEF Counted
<1>2. ASSUME NEW s \in Src, NEW q \in 1..N
      PROVE  v.written[s][q] = IF <<s, q>> \in R \cup S THEN w.written[s][q] + 1
                                                        ELSE w.written[s][q]
  <2>1. u.written[s][q] = IF <<s, q>> \in R THEN w.written[s][q] + 1 ELSE w.written[s][q]
    BY DEF Counted
  <2>2. v.written[s][q] = IF <<s, q>> \in S THEN u.written[s][q] + 1 ELSE u.written[s][q]
    BY DEF Counted
  <2>3. QED
    BY <2>1, <2>2
<1>3. QED
  BY <1>1, <1>2 DEF Counted

-----------------------------------------------------------------------------
(* The invariant. *)

\* A record is sent once, and is then on its way or arrived or lost.
NetOK ==
  /\ sent \in [Src -> 0..N]
  /\ net \subseteq Packet
  /\ arrived \subseteq Src \X (1..N)
  /\ \A p \in net : p.last <= sent[p.src]
  /\ \A r \in arrived : r[2] <= sent[r[1]]
  /\ \A p \in net : Records(p) \cap arrived = {}
  /\ \A p, q \in net : p # q => Records(p) \cap Records(q) = {}

RordOK ==
  /\ expect \in 0..(N + 1)
  /\ expect = 0 <=> arrived = {}
  /\ forward \in BOOLEAN
  /\ rord \in Packet \cup {NoPacket}
  /\ forward => rord \in Packet /\ Records(rord) \subseteq arrived

\* The records that were output or dropped.
Done == arrived \ Buffered

OutOK ==
  /\ Good(Out)
  /\ dropped \subseteq Done
  /\ \A s \in Src, q \in 1..N : written[s][q] = IF <<s, q>> \in Done THEN 1 ELSE 0

RInv == NetOK /\ RordOK /\ OutOK /\ tame \in BOOLEAN /\ ticks \in 0..MaxTicks

\* A datagram has a first and a last record.
LEMMA PacketIs ==
  ASSUME NEW p \in Packet
  PROVE  /\ p.src \in Src /\ p.first \in 1..N /\ p.last \in 1..N /\ p.first <= p.last
         /\ N \in Nat /\ Ip(p.src) \in {Ip(s) : s \in Src}
         /\ Records(p) = {p.src} \X (p.first..p.last)
         /\ Records(p) \subseteq Src \X (1..N)
         /\ <<p.src, p.first>> \in Records(p) /\ <<p.src, p.last>> \in Records(p)
         /\ \A r \in Records(p) : r[1] = p.src /\ r[2] \in p.first..p.last
<1>1. /\ p.src \in Src /\ p.first \in 1..N /\ p.last \in 1..N /\ p.first <= p.last
      /\ N \in Nat
  BY RecvAssumption DEF Packet
<1>2. p.first..p.last \subseteq 1..N /\ p.first \in p.first..p.last /\ p.last \in p.first..p.last
  BY <1>1
<1>3. QED
  BY <1>1, <1>2 DEF Records

\* What a source sends is new.
LEMMA SendNet ==
  ASSUME NetOK, NEW s \in Src, Send(s)
  PROVE  NetOK'
<1>1. PICK n \in 1..MaxLen :
        /\ sent[s] + n <= N
        /\ net'  = net \cup {[src |-> s, first |-> sent[s] + 1, last |-> sent[s] + n]}
        /\ sent' = [sent EXCEPT ![s] = @ + n]
  BY DEF Send
<1> DEFINE p == [src |-> s, first |-> sent[s] + 1, last |-> sent[s] + n]
<1>2. sent[s] \in 0..N /\ n \in Nat /\ n >= 1 /\ n <= MaxLen /\ N \in Nat /\ MaxLen \in Nat
  BY RecvAssumption DEF NetOK
<1>3. /\ p.src = s /\ p.first = sent[s] + 1 /\ p.last = sent[s] + n
      /\ p \in [src : Src, first : 1..N, last : 1..N]
  BY <1>1, <1>2
<1>4. p \in Packet
  BY <1>1, <1>2, <1>3 DEF Packet
<1> HIDE DEF p
<1>5. net' = net \cup {p} /\ arrived' = arrived
  BY <1>1 DEF Send, p
<1>6. /\ sent' \in [Src -> 0..N]
      /\ \A t \in Src : sent'[t] = IF t = s THEN sent[s] + n ELSE sent[t]
  BY <1>1, <1>2 DEF NetOK
<1>7. \A r \in Records(p) : r[1] = s /\ r[2] > sent[s]
  <2>1. Records(p) = {s} \X ((sent[s] + 1)..(sent[s] + n))
    BY <1>3 DEF Records
  <2>2. \A k \in (sent[s] + 1)..(sent[s] + n) : k > sent[s]
    BY <1>2
  <2>3. QED
    BY <2>1, <2>2
<1>8. \A q \in net : \A r \in Records(q) : r[1] = s => r[2] <= sent[s]
  <2> SUFFICES ASSUME NEW q \in net, NEW r \in Records(q), r[1] = s PROVE r[2] <= sent[s]
    OBVIOUS
  <2>1. q \in Packet /\ q.last <= sent[q.src]
    BY DEF NetOK
  <2>2. r[1] = q.src /\ r[2] \in q.first..q.last /\ q.first \in 1..N /\ q.last \in 1..N
    BY <2>1, PacketIs
  <2>3. q.last <= sent[s] /\ r[2] \in 1..N
    BY <1>2, <2>1, <2>2
  <2>4. QED
    BY <1>2, <2>2, <2>3
<1>9. Records(p) \cap arrived = {}
  BY <1>2, <1>7 DEF NetOK
<1>10. \A q \in net : Records(p) \cap Records(q) = {}
  <2> SUFFICES ASSUME NEW q \in net, NEW r, r \in Records(p), r \in Records(q) PROVE FALSE
    OBVIOUS
  <2>1. r[1] = s /\ r[2] > sent[s] /\ r[2] <= sent[s]
    BY <1>7, <1>8
  <2>2. r \in Src \X (1..N)
    BY <1>4, PacketIs
  <2>3. QED
    BY <1>2, <2>1, <2>2
<1>11. \A q \in net' : q.last <= sent'[q.src]
  <2> SUFFICES ASSUME NEW q \in net PROVE q.last <= sent'[q.src]
    BY <1>2, <1>3, <1>5, <1>6
  <2>1. q \in Packet /\ q.last <= sent[q.src]
    BY DEF NetOK
  <2>2. q.src \in Src /\ q.last \in 1..N
    BY <2>1, PacketIs
  <2>3. sent[q.src] \in 0..N
    BY <2>2 DEF NetOK
  <2>4. QED
    BY <1>2, <1>6, <2>1, <2>2, <2>3
<1>12. \A r \in arrived' : r[2] <= sent'[r[1]]
  <2> SUFFICES ASSUME NEW r \in arrived PROVE r[2] <= sent'[r[1]]
    BY <1>5
  <2>1. r[1] \in Src /\ r[2] \in 1..N /\ r[2] <= sent[r[1]] /\ sent[r[1]] \in 0..N
    BY DEF NetOK
  <2>2. QED
    BY <1>2, <1>6, <2>1
<1>13. QED
  BY <1>4, <1>5, <1>6, <1>9, <1>10, <1>11, <1>12 DEF NetOK

\* A datagram received: its records have not arrived before.
LEMMA ReceiveNet ==
  ASSUME NetOK, NEW p, Receive(p)
  PROVE  /\ NetOK'
         /\ p \in Packet /\ Records(p) \cap arrived = {}
         /\ arrived' = arrived \cup Records(p) /\ arrived' # {}
<1>1. /\ p \in net /\ net' = net \ {p} /\ arrived' = arrived \cup Records(p) /\ sent' = sent
      /\ p \in Packet /\ p.last <= sent[p.src]
      /\ Records(p) \cap arrived = {}
  BY DEF Receive, NetOK
<1>2. arrived' \subseteq Src \X (1..N) /\ arrived' # {}
  BY <1>1, PacketIs DEF NetOK
<1>3. \A r \in Records(p) : r[2] <= sent[r[1]]
  <2>1. \A r \in Records(p) : r[1] = p.src /\ r[2] \in p.first..p.last
    BY <1>1, PacketIs
  <2>2. p.src \in Src /\ p.first \in 1..N /\ p.last \in 1..N /\ N \in Nat
    BY <1>1, PacketIs
  <2>3. sent[p.src] \in 0..N
    BY <2>2 DEF NetOK
  <2>4. QED
    BY <1>1, <2>1, <2>2, <2>3
<1>4. \A q \in net' : Records(q) \cap arrived' = {}
  BY <1>1 DEF NetOK
<1>5. QED
  BY <1>1, <1>2, <1>3, <1>4 DEF NetOK

-----------------------------------------------------------------------------
(* The end of a pass. *)

\* Closing writers touches nothing that was output.
LEMMA PassKeeps ==
  ASSUME NEW v, Good(v), EndPass(v)
  PROVE  /\ Good(Out)'
         /\ writers' \subseteq v.writers
         /\ files' = v.files /\ written' = v.written /\ dropped' = v.dropped
         /\ (\A x \in v.writers : x.idle = 0) => writers' = v.writers
<1>1. v = [writers |-> v.writers, files |-> v.files,
           written |-> v.written, dropped |-> v.dropped]
  BY DEF Good, Outs
<1> DEFINE ws == {x \in v.writers : x.idle < 2}
<1>2. /\ Closed(v).writers = ws /\ Closed(v).files = v.files
      /\ Closed(v).written = v.written /\ Closed(v).dropped = v.dropped
  BY <1>1 DEF Closed
<1>3. writers' = v.writers \/ writers' = ws
  BY <1>2 DEF EndPass, SetOut
<1>4. files' = v.files /\ written' = v.written /\ dropped' = v.dropped
  BY <1>2 DEF EndPass, SetOut
<1>5. writers' \subseteq v.writers
  BY <1>3
<1>6. Good([writers |-> writers', files |-> files', written |-> written', dropped |-> dropped'])
  BY <1>4, <1>5 DEF Good, Outs
<1>7. Good(Out)'
  BY <1>6 DEF Out, Good, Outs
<1>8. QED
  BY <1>3, <1>4, <1>5, <1>7

\* A pass that outputs the records of R and no others.
LEMMA OutStep ==
  ASSUME RInv, NEW v, NEW R, Counted(Out, v, R), EndPass(v),
         R \cap Done = {}, Done' = Done \cup R
  PROVE  OutOK'
<1>1. /\ Good(Out)' /\ written' = v.written /\ dropped' = v.dropped
  BY PassKeeps DEF Counted
<1>2. dropped' \subseteq Done'
  BY <1>1 DEF Counted, RInv, OutOK, Out
<1>3. ASSUME NEW s \in Src, NEW q \in 1..N
      PROVE  written'[s][q] = IF <<s, q>> \in Done' THEN 1 ELSE 0
  <2>1. v.written[s][q] = IF <<s, q>> \in R THEN written[s][q] + 1 ELSE written[s][q]
    BY DEF Counted, Out
  <2>2. written[s][q] = IF <<s, q>> \in Done THEN 1 ELSE 0
    BY DEF RInv, OutOK
  <2>3. QED
    BY <1>1, <2>1, <2>2
<1>4. QED
  BY <1>1, <1>2, <1>3 DEF OutOK

-----------------------------------------------------------------------------
(* Every step keeps the invariant. *)

\* Nothing has arrived, nothing was output.
LEMMA InitRInv == Init => RInv
<1> SUFFICES ASSUME Init PROVE RInv
  OBVIOUS
<1> USE RecvAssumption DEF Init
<1>1. NetOK /\ RordOK
  <2>1. NetOK
    BY DEF NetOK
  <2>2. 0 \in 0..(N + 1)
    OBVIOUS
  <2>3. QED
    BY <2>1, <2>2 DEF RordOK
<1>2. Done = {}
  BY DEF Done
<1>3. Good(Out)
  <2>1. written \in [Src -> [1..N -> Nat]]
    OBVIOUS
  <2>2. Out \in Outs
    BY <2>1 DEF Out, Outs
  <2>3. Out.writers = {} /\ Len(Out.files) = 0
    BY DEF Out
  <2>4. QED
    BY <2>2, <2>3 DEF Good
<1>4. QED
  BY <1>1, <1>2, <1>3 DEF RInv, OutOK

\* What a step needs that outputs nothing.
LEMMA QuietStep ==
  ASSUME RInv, UNCHANGED outVars, Done' = Done
  PROVE  OutOK'
BY DEF RInv, OutOK, Out, outVars

\* What is kept has arrived and is not output yet.
LEMMA BufferInv ==
  ASSUME RInv, NEW p, Buffer(p)
  PROVE  RInv'
<1>1. /\ Early(p) /\ ~forward /\ Receive(p) /\ rord' = p /\ forward' = TRUE
      /\ UNCHANGED <<expect, outVars>>
  BY DEF Buffer
<1>2. /\ NetOK' /\ p \in Packet /\ Records(p) \cap arrived = {}
      /\ arrived' = arrived \cup Records(p) /\ arrived' # {}
  BY <1>1, ReceiveNet DEF RInv
<1>3. Done = arrived /\ Done' = arrived
  BY <1>1, <1>2 DEF Done, Buffered
<1>4. OutOK'
  BY <1>1, <1>3, QuietStep
<1>5. RordOK'
  BY <1>1, <1>2 DEF RInv, RordOK, Early
<1>6. tame' \in BOOLEAN /\ ticks' = ticks
  BY <1>1 DEF Receive, RInv
<1>7. QED
  BY <1>2, <1>4, <1>5, <1>6 DEF RInv

\* What the deliveries have in common that output the datagram.
LEMMA DeliverNet ==
  ASSUME RInv, NEW p, Receive(p)
  PROVE  /\ NetOK' /\ tame' \in BOOLEAN /\ ticks' \in 0..MaxTicks
         /\ p \in Packet /\ p.last + 1 \in 1..(N + 1) /\ N \in Nat
         /\ Records(p) \cap arrived = {}
         /\ arrived' = arrived \cup Records(p) /\ arrived' # {}
         /\ Ip(p.src) \in {Ip(s) : s \in Src}
         /\ Counted(Out, OutputPacket(Out, Ip(p.src), p), Records(p))
         /\ Records(p) \cap Done = {}
<1>1. /\ NetOK' /\ p \in Packet /\ Records(p) \cap arrived = {}
      /\ arrived' = arrived \cup Records(p) /\ arrived' # {}
  BY ReceiveNet DEF RInv
<1>2. /\ p.last \in 1..N /\ N \in Nat /\ Ip(p.src) \in {Ip(s) : s \in Src}
  BY <1>1, PacketIs
<1>3. Counted(Out, OutputPacket(Out, Ip(p.src), p), Records(p))
  BY <1>1, <1>2, PacketCounted DEF RInv, OutOK
<1>4. tame' \in BOOLEAN /\ ticks' \in 0..MaxTicks
  BY DEF Receive, RInv
<1>5. QED
  BY <1>1, <1>2, <1>3, <1>4 DEF Done

\* OutOfOrder, InSequence and FillHole: the datagram is output, and what is
\* kept stays kept.
LEMMA PlainDelivery ==
  ASSUME RInv, NEW p, Receive(p), EndPass(OutputPacket(Out, Ip(p.src), p)),
         expect' = p.last + 1, UNCHANGED <<forward, rord>>
  PROVE  RInv'
<1> DEFINE v == OutputPacket(Out, Ip(p.src), p)
<1>1. /\ NetOK' /\ tame' \in BOOLEAN /\ ticks' \in 0..MaxTicks
      /\ p \in Packet /\ p.last + 1 \in 1..(N + 1) /\ N \in Nat
      /\ Records(p) \cap arrived = {} /\ Records(p) \cap Done = {}
      /\ arrived' = arrived \cup Records(p) /\ arrived' # {}
      /\ Counted(Out, v, Records(p))
  BY DeliverNet
<1> HIDE DEF v
<1>2. forward => Records(rord) \subseteq arrived
  BY DEF RInv, RordOK
<1>3. Buffered' = Buffered /\ Buffered \subseteq arrived
  BY <1>2 DEF Buffered
<1>4. Done' = Done \cup Records(p)
  BY <1>1, <1>3 DEF Done
<1>5. EndPass(v)
  BY DEF v
<1>6. OutOK'
  BY <1>1, <1>4, <1>5, OutStep
<1>7. RordOK'
  BY <1>1 DEF RInv, RordOK
<1>8. QED
  BY <1>1, <1>6, <1>7 DEF RInv

\* The datagram kept is output in the same pass, before or after p.
LEMMA DoubleDelivery ==
  ASSUME RInv, NEW p, Receive(p), forward, forward' = FALSE, rord' = rord,
         \/ /\ EndPass(OutputPacket(OutputPacket(Out, Ip(p.src), rord), Ip(p.src), p))
            /\ expect' = p.last + 1
         \/ /\ EndPass(OutputPacket(OutputPacket(Out, Ip(p.src), p), Ip(p.src), rord))
            /\ expect' = rord.last + 1
  PROVE  RInv'
<1> DEFINE ip == Ip(p.src)
<1>1. /\ NetOK' /\ tame' \in BOOLEAN /\ ticks' \in 0..MaxTicks
      /\ p \in Packet /\ p.last + 1 \in 1..(N + 1) /\ N \in Nat
      /\ Records(p) \cap arrived = {}
      /\ arrived' = arrived \cup Records(p) /\ arrived' # {}
      /\ ip \in {Ip(s) : s \in Src}
  BY DeliverNet
<1>2. rord \in Packet /\ Records(rord) \subseteq arrived
  BY DEF RInv, RordOK
<1>3. rord.last + 1 \in 1..(N + 1)
  <2>1. rord.last \in 1..N /\ N \in Nat
    BY <1>2, PacketIs
  <2>2. QED
    BY <2>1
<1>4. Records(p) \cap Records(rord) = {} /\ Records(rord) \cap Records(p) = {}
  BY <1>1, <1>2
<1> DEFINE R == Records(p) \cup Records(rord)
<1>5. R \cap Done = {} /\ Done' = Done \cup R
  BY <1>1, <1>2, <1>4 DEF Done, Buffered
<1>6. Good(Out)
  BY DEF RInv, OutOK
<1> HIDE DEF ip
<1>7. Counted(Out, OutputPacket(OutputPacket(Out, ip, p), ip, rord), R)
  <2> DEFINE u == OutputPacket(Out, ip, p)
             v == OutputPacket(u, ip, rord)
  <2>1. Counted(Out, u, Records(p))
    BY <1>1, <1>6, PacketCounted
  <2> HIDE DEF u
  <2>2. Good(u)
    BY <2>1 DEF Counted
  <2>3. Counted(u, v, Records(rord))
    BY <1>1, <1>2, <2>2, PacketCounted
  <2> HIDE DEF v
  <2>4. Counted(Out, v, Records(p) \cup Records(rord))
    BY <1>4, <2>1, <2>3, CountedTwice
  <2>5. QED
    BY <2>4 DEF u, v
<1>8. Counted(Out, OutputPacket(OutputPacket(Out, ip, rord), ip, p), R)
  <2> DEFINE u == OutputPacket(Out, ip, rord)
             v == OutputPacket(u, ip, p)
  <2>1. Counted(Out, u, Records(rord))
    BY <1>1, <1>2, <1>6, PacketCounted
  <2> HIDE DEF u
  <2>2. Good(u)
    BY <2>1 DEF Counted
  <2>3. Counted(u, v, Records(p))
    BY <1>1, <2>2, PacketCounted
  <2> HIDE DEF v
  <2>4. Counted(Out, v, Records(rord) \cup Records(p))
    BY <1>4, <2>1, <2>3, CountedTwice
  <2>5. Records(rord) \cup Records(p) = Records(p) \cup Records(rord)
    OBVIOUS
  <2>6. QED
    BY <2>4, <2>5 DEF u, v
<1> HIDE DEF R
<1>9. OutOK'
  <2>1. CASE EndPass(OutputPacket(OutputPacket(Out, ip, rord), ip, p))
    BY <1>5, <1>8, <2>1, OutStep
  <2>2. CASE EndPass(OutputPacket(OutputPacket(Out, ip, p), ip, rord))
    BY <1>5, <1>7, <2>2, OutStep
  <2>3. QED
    BY <2>1, <2>2 DEF ip
<1>10. RordOK'
  <2>1. expect' \in 0..(N + 1) /\ expect' # 0
    BY <1>1, <1>3
  <2>2. rord' \in Packet \cup {NoPacket}
    BY DEF RInv, RordOK
  <2>3. expect' = 0 <=> arrived' = {}
    BY <1>1, <2>1
  <2>4. forward' \in BOOLEAN /\ ~forward'
    OBVIOUS
  <2>5. QED
    BY <2>1, <2>2, <2>3, <2>4 DEF RordOK
<1>11. QED
  BY <1>1, <1>9, <1>10 DEF RInv

\* Every way a datagram is taken outputs it alone, or with the one kept.
LEMMA DeliverInv ==
  ASSUME RInv, NEW p, Deliver(p)
  PROVE  RInv'
<1>1. CASE Buffer(p)
  BY <1>1, BufferInv
<1>2. CASE GiveUp(p) /\ forward
  BY <1>2, DoubleDelivery DEF GiveUp
<1>3. CASE GiveUp(p) /\ ~forward
  <2>1. /\ Receive(p) /\ EndPass(OutputPacket(Out, Ip(p.src), p))
        /\ expect' = p.last + 1 /\ UNCHANGED <<forward, rord>>
    BY <1>3 DEF GiveUp, RInv, RordOK
  <2>2. QED
    BY <2>1, PlainDelivery
<1>4. CASE OutOfOrder(p)
  BY <1>4, PlainDelivery DEF OutOfOrder
<1>5. CASE InSequence(p)
  BY <1>5, PlainDelivery DEF InSequence
<1>6. CASE FillHole(p)
  BY <1>6, PlainDelivery DEF FillHole, EndPass
<1>7. CASE ApplyBuffered(p)
  BY <1>7, DoubleDelivery DEF ApplyBuffered
<1>8. QED
  BY <1>1, <1>2, <1>3, <1>4, <1>5, <1>6, <1>7 DEF Deliver

\* A writer that ages is the same writer.
LEMMA TickInv ==
  ASSUME RInv, Tick
  PROVE  RInv'
<1>1. /\ ticks < MaxTicks /\ ticks' = ticks + 1
      /\ writers' = {[x EXCEPT !.idle = IF @ < 2 THEN @ + 1 ELSE 2] : x \in writers}
      /\ UNCHANGED <<netVars, arrived, rordVars, files, written, dropped>>
  BY DEF Tick
<1>2. ticks' \in 0..MaxTicks
  BY <1>1, RecvAssumption DEF RInv
<1>3. NetOK' /\ RordOK' /\ tame' \in BOOLEAN /\ Done' = Done
  BY <1>1 DEF RInv, NetOK, RordOK, Done, Buffered, netVars, rordVars
<1> DEFINE older(x) == [x EXCEPT !.idle = IF @ < 2 THEN @ + 1 ELSE 2]
<1>4. \A x \in Writer : older(x) \in Writer /\ older(x).key = x.key /\ older(x).file = x.file
  BY DEF Writer
<1>5. writers' = {older(x) : x \in writers}
  BY <1>1
<1> HIDE DEF older
<1>6. Good(Out) /\ writers \subseteq Writer
  BY DEF RInv, OutOK, Good, Outs, Out
<1>7. Good([writers |-> writers', files |-> files, written |-> written, dropped |-> dropped])
  BY <1>4, <1>5, <1>6 DEF Good, Outs, Out
<1>8. Good(Out)'
  BY <1>1, <1>7 DEF Good, Outs, Out
<1>9. OutOK'
  BY <1>1, <1>3, <1>8 DEF RInv, OutOK
<1>10. QED
  BY <1>2, <1>3, <1>9 DEF RInv

\* poll's timeout closes writers and does nothing else.
LEMMA PollInv ==
  ASSUME RInv, PollTimeout
  PROVE  RInv'
<1>1. Good(Out) /\ EndPass(Out) /\ UNCHANGED <<netVars, arrived, rordVars, ticks>>
  BY DEF PollTimeout, EndPass, RInv, OutOK
<1>2. Good(Out)' /\ files' = files /\ written' = written /\ dropped' = dropped
  BY <1>1, PassKeeps DEF Out
<1>3. NetOK' /\ RordOK' /\ tame' \in BOOLEAN /\ ticks' = ticks /\ Done' = Done
  BY <1>1 DEF RInv, NetOK, RordOK, Done, Buffered, netVars, rordVars
<1>4. QED
  BY <1>2, <1>3 DEF RInv, OutOK

\* One step per action.
LEMMA StepRInv == RInv /\ [Next]_vars => RInv'
<1> SUFFICES ASSUME RInv, [Next]_vars PROVE RInv'
  OBVIOUS
<1>1. ASSUME NEW s \in Src, Send(s) PROVE RInv'
  <2>1. NetOK'
    BY <1>1, SendNet DEF RInv
  <2>2. UNCHANGED <<tame, arrived, rordVars, outVars, ticks>>
    BY <1>1 DEF Send
  <2>3. Done' = Done /\ RordOK' /\ tame' \in BOOLEAN /\ ticks' = ticks
    BY <2>2 DEF RInv, RordOK, Done, Buffered, rordVars
  <2>4. OutOK'
    BY <2>2, <2>3, QuietStep
  <2>5. QED
    BY <2>1, <2>3, <2>4 DEF RInv
<1>2. CASE Lose
  <2>1. /\ tame' = FALSE /\ net' \subseteq net
        /\ UNCHANGED <<sent, arrived, rordVars, outVars, ticks>>
    BY <1>2 DEF Lose
  <2>2. NetOK'
    BY <2>1 DEF RInv, NetOK
  <2>3. Done' = Done /\ RordOK' /\ tame' \in BOOLEAN /\ ticks' = ticks
    BY <2>1 DEF RInv, RordOK, Done, Buffered, rordVars
  <2>4. OutOK'
    BY <2>1, <2>3, QuietStep
  <2>5. QED
    BY <2>2, <2>3, <2>4 DEF RInv
<1>3. CASE Tick
  BY <1>3, TickInv
<1>4. ASSUME NEW p \in net, Deliver(p) PROVE RInv'
  BY <1>4, DeliverInv
<1>5. CASE PollTimeout
  BY <1>5, PollInv
<1>6. CASE UNCHANGED vars
  <2>1. UNCHANGED <<netVars, arrived, rordVars, outVars, ticks>>
    BY <1>6 DEF vars
  <2>2. NetOK' /\ Done' = Done /\ RordOK' /\ tame' \in BOOLEAN /\ ticks' = ticks
    BY <2>1 DEF RInv, NetOK, RordOK, Done, Buffered, netVars, rordVars
  <2>3. OutOK'
    BY <2>1, <2>2, QuietStep
  <2>4. QED
    BY <2>2, <2>3 DEF RInv
<1>7. QED
  BY <1>1, <1>2, <1>3, <1>4, <1>5, <1>6 DEF Next

\* What holds of the receiver at all times.
THEOREM ReceiverInvariant == Spec => []RInv
<1>1. Init => RInv
  BY InitRInv
<1>2. RInv /\ [Next]_vars => RInv'
  BY StepRInv
<1>3. QED
  BY <1>1, <1>2, PTL DEF Spec

-----------------------------------------------------------------------------
(* The records of a file are its writer's, except those that were kept     *)
(* while another address was heard.                                        *)

\* Leaving the records of C out, a file holds records of one address, its
\* writer's.
Own(w, C) ==
  /\ \A k \in 1..Len(w.files) : \A r, t \in w.files[k].from \ C : Ip(r[1]) = Ip(t[1])
  /\ \A x \in w.writers : \A r \in w.files[x.file].from \ C : Ip(r[1]) = x.key[1]

\* A record under its own address, or one of C, goes to a file where it may.
LEMMA RecordOwn ==
  ASSUME NEW w, Good(w), NEW C, Own(w, C), NEW r \in Record,
         Ip(r.src) = r.ip \/ <<r.src, r.seq>> \in C
  PROVE  Own(OutputRecord(w, r), C)
<1> DEFINE v == OutputRecord(w, r)
           c == <<r.src, r.seq>>
<1>1. /\ w.files \in Seq(File) /\ Len(w.files) \in Nat
      /\ \A x \in w.writers : x.file \in 1..Len(w.files)
      /\ \A x, y \in w.writers : x.file = y.file => x.key = y.key
  BY DEF Good, Outs
<1>2. Filed(w, r, v) \/ Added(w, r, v) \/ Lost(w, r, v)
  BY RecordCases
<1>3. c \notin C => Ip(c[1]) = KeyOf(r)[1]
  BY DEF KeyOf
<1> HIDE DEF v, c
<1>4. /\ \A k \in 1..Len(w.files) : \A q, t \in w.files[k].from \ C : Ip(q[1]) = Ip(t[1])
      /\ \A x \in w.writers : \A q \in w.files[x.file].from \ C : Ip(q[1]) = x.key[1]
  BY DEF Own
<1>5. CASE Filed(w, r, v)
  <2> DEFINE e == [last |-> r.seq, sorted |-> TRUE, from |-> {c}]
             y == [key |-> KeyOf(r), idle |-> 0, file |-> Len(w.files) + 1]
  <2>1. e.from = {c} /\ y.key = KeyOf(r) /\ y.file = Len(w.files) + 1
    OBVIOUS
  <2> HIDE DEF e, y
  <2>2. v.files = Append(w.files, e) /\ v.writers = w.writers \cup {y}
    BY <1>5 DEF Filed, e, y, c
  <2>3. /\ Len(v.files) = Len(w.files) + 1 /\ v.files[Len(w.files) + 1] = e
        /\ \A k \in 1..Len(w.files) : v.files[k] = w.files[k]
    BY <1>1, <2>2
  <2>4. ASSUME NEW k \in 1..Len(v.files), NEW q \in v.files[k].from \ C, NEW t \in v.files[k].from \ C
        PROVE  Ip(q[1]) = Ip(t[1])
    <3>1. k \in 1..Len(w.files) \/ k = Len(w.files) + 1
      BY <1>1, <2>3
    <3>2. QED
      BY <1>4, <2>1, <2>3, <3>1
  <2>5. ASSUME NEW x \in v.writers, NEW q \in v.files[x.file].from \ C
        PROVE  Ip(q[1]) = x.key[1]
    <3>1. CASE x \in w.writers
      BY <1>1, <1>4, <2>3, <3>1
    <3>2. CASE x = y
      BY <1>3, <2>1, <2>3, <3>2
    <3>3. QED
      BY <2>2, <3>1, <3>2
  <2>6. QED
    BY <2>4, <2>5 DEF Own, v
<1>6. CASE Added(w, r, v)
  <2>1. PICK x \in Found(w, KeyOf(r)) :
          v.files = [w.files EXCEPT ![x.file] =
                       [last   |-> r.seq,
                        sorted |-> @.sorted /\ @.last < r.seq,
                        from   |-> @.from \cup {c}]]
    BY <1>6 DEF Added, c
  <2>2. x \in w.writers /\ x.key = KeyOf(r) /\ x.file \in 1..Len(w.files)
    BY <1>1, <2>1 DEF Found
  <2> DEFINE d == w.files[x.file]
             e == [last |-> r.seq, sorted |-> d.sorted /\ d.last < r.seq,
                   from |-> d.from \cup {c}]
  <2>3. v.files = [w.files EXCEPT ![x.file] = e]
    BY <2>1
  <2>4. e.from = d.from \cup {c}
    OBVIOUS
  <2> HIDE DEF e
  <2>5. /\ Len(v.files) = Len(w.files) /\ v.files[x.file] = e
        /\ \A k \in 1..Len(w.files) : k # x.file => v.files[k] = w.files[k]
    BY <1>1, <2>2, <2>3
  <2>6. v.writers = w.writers
    BY <1>6 DEF Added
  <2>7. \A q \in d.from \ C : Ip(q[1]) = KeyOf(r)[1]
    BY <1>4, <2>2
  <2> HIDE DEF d
  <2>8. \A q \in v.files[x.file].from \ C : Ip(q[1]) = KeyOf(r)[1]
    BY <1>3, <2>4, <2>5, <2>7
  <2>9. ASSUME NEW k \in 1..Len(v.files), NEW q \in v.files[k].from \ C, NEW t \in v.files[k].from \ C
        PROVE  Ip(q[1]) = Ip(t[1])
    <3>1. CASE k = x.file
      BY <2>8, <3>1
    <3>2. CASE k # x.file
      BY <1>4, <2>5, <3>2
    <3>3. QED
      BY <3>1, <3>2
  <2>10. ASSUME NEW z \in v.writers, NEW q \in v.files[z.file].from \ C
         PROVE  Ip(q[1]) = z.key[1]
    <3>1. CASE z.file = x.file
      BY <1>1, <2>2, <2>6, <2>8, <3>1
    <3>2. CASE z.file # x.file
      BY <1>1, <1>4, <2>5, <2>6, <3>2
    <3>3. QED
      BY <3>1, <3>2
  <2>11. QED
    BY <2>9, <2>10 DEF Own, v
<1>7. CASE Lost(w, r, v)
  BY <1>4, <1>7 DEF Lost, Own, v
<1>8. QED
  BY <1>2, <1>5, <1>6, <1>7

\* So do those of a datagram.
LEMMA PacketOwn ==
  ASSUME NEW w, Good(w), NEW C, Own(w, C), NEW p \in Packet, NEW ip \in {Ip(s) : s \in Src},
         Ip(p.src) = ip \/ Records(p) \subseteq C
  PROVE  Own(OutputPacket(w, ip, p), C)
<1> DEFINE n == p.last - p.first + 1
           l == Listed(ip, p)
           T == [i \in Nat |-> {v \in Outs : Good(v) /\ Own(v, C)}]
<1>1. /\ Len(l) = n /\ n \in Nat \ {0}
      /\ \A i \in 1..n : /\ l[i] = [ip |-> ip, src |-> p.src, seq |-> p.first + i - 1]
                         /\ l[i] \in Record
  BY ListedIs
<1>2. w \in T[0]
  BY DEF Good
<1>3. ASSUME NEW i \in 1..n, NEW u \in T[i - 1] PROVE OutputRecord(u, l[i]) \in T[i]
  <2>1. i - 1 \in Nat /\ i \in Nat
    BY <1>1
  <2>2. Good(u) /\ Own(u, C)
    BY <2>1
  <2>3. /\ l[i] \in Record /\ l[i].ip = ip /\ l[i].src = p.src
        /\ l[i].seq = p.first + i - 1
    BY <1>1
  <2>4. <<l[i].src, l[i].seq>> \in Records(p)
    <3>1. p.first \in 1..N /\ p.last \in 1..N /\ N \in Nat
      BY PacketIs
    <3>2. i \in 1..(p.last - p.first + 1)
      OBVIOUS
    <3> HIDE DEF n, l, T
    <3>3. p.first + i - 1 \in p.first..p.last
      BY <3>1, <3>2
    <3>4. QED
      BY <2>3, <3>3 DEF Records
  <2>5. Own(OutputRecord(u, l[i]), C)
    BY <2>2, <2>3, <2>4, RecordOwn
  <2>6. Good(OutputRecord(u, l[i])) /\ OutputRecord(u, l[i]) \in Outs
    BY <2>2, <2>3, RecordGood DEF Good
  <2>7. QED
    BY <2>1, <2>5, <2>6
<1> HIDE DEF T, l, n
<1>4. Output!Over(w, l) \in T[n]
  BY <1>1, <1>2, <1>3, OutputKeeps
<1>5. QED
  BY <1>1, <1>4 DEF T, OutputPacket, l

\* Every path of the loop received its datagram, and outputs nothing, it
\* alone, or also the one kept.
LEMMA DeliveryCases ==
  ASSUME RInv, NEW p, Deliver(p)
  PROVE  /\ Receive(p)
         /\ \/ Buffer(p)
            \/ EndPass(OutputPacket(Out, Ip(p.src), p))
            \/ forward /\ EndPass(OutputPacket(OutputPacket(Out, Ip(p.src), rord), Ip(p.src), p))
            \/ forward /\ EndPass(OutputPacket(OutputPacket(Out, Ip(p.src), p), Ip(p.src), rord))
<1>1. CASE Buffer(p)
  BY <1>1 DEF Buffer
<1>2. CASE GiveUp(p)
  BY <1>2 DEF GiveUp
<1>3. CASE OutOfOrder(p) \/ InSequence(p) \/ FillHole(p)
  BY <1>3 DEF OutOfOrder, InSequence, FillHole, EndPass
<1>4. CASE ApplyBuffered(p)
  BY <1>4 DEF ApplyBuffered
<1>5. QED
  BY <1>1, <1>2, <1>3, <1>4 DEF Deliver

\* The owners' inductive invariant.
OwnInv == crossed \subseteq arrived /\ Own(Out, crossed)

\* What is output of those kept under a foreign address is marked.
LEMMA CrossedIs ==
  ASSUME RInv, NEW p, Receive(p)
  PROVE  /\ crossed \subseteq crossed'
         /\ forward => /\ rord \in Packet /\ Records(rord) \subseteq arrived
                       /\ Ip(rord.src) = Ip(p.src) \/ Records(rord) \subseteq crossed'
         /\ crossed \subseteq arrived => crossed' \subseteq arrived'
<1>1. /\ crossed' = crossed \cup {r \in Buffered : Ip(r[1]) # Ip(p.src)}
      /\ arrived' = arrived \cup Records(p)
  BY DEF Receive
<1>2. forward => rord \in Packet /\ Records(rord) \subseteq arrived
  BY DEF RInv, RordOK
<1>3. forward => Buffered = Records(rord) /\ \A r \in Records(rord) : r[1] = rord.src
  BY <1>2, PacketIs DEF Buffered
<1>4. ~forward => Buffered = {}
  BY DEF Buffered
<1>5. QED
  BY <1>1, <1>2, <1>3, <1>4

\* With more records left out it is no less true.
LEMMA OwnMore ==
  ASSUME NEW w, NEW C, NEW D, Own(w, C), C \subseteq D
  PROVE  Own(w, D)
BY DEF Own

\* The end of a pass changes no file, and brings no writer.
LEMMA PassOwn ==
  ASSUME NEW v, Good(v), Own(v, crossed'), EndPass(v)
  PROVE  Own(Out, crossed)'
<1>1. writers' \subseteq v.writers /\ files' = v.files
  BY PassKeeps
<1>2. QED
  BY <1>1 DEF Own, Out

\* A delivery outputs its datagram under the address it came from.
LEMMA DeliverOwn ==
  ASSUME RInv, OwnInv, NEW p, Deliver(p)
  PROVE  OwnInv'
<1> DEFINE ip == Ip(p.src)
<1>1. Receive(p)
  BY DeliveryCases
<1>2. /\ p \in Packet /\ ip \in {Ip(s) : s \in Src} /\ Good(Out)
  BY <1>1, DeliverNet DEF RInv, OutOK
<1>3. /\ crossed \subseteq crossed'
      /\ forward => /\ rord \in Packet
                    /\ Ip(rord.src) = ip \/ Records(rord) \subseteq crossed'
      /\ crossed' \subseteq arrived'
  BY <1>1, CrossedIs DEF OwnInv
<1> DEFINE C == crossed'
<1>4. Own(Out, C)
  BY <1>3, OwnMore DEF OwnInv
<1>5. SUFFICES Own(Out, crossed)'
  BY <1>3 DEF OwnInv
<1>6. CASE Buffer(p)
  <2>1. Own(Out, crossed)' <=> Own(Out, C)
    BY <1>6 DEF Buffer, Own, Out, outVars
  <2>2. QED
    BY <1>4, <2>1
<1> HIDE DEF C, ip
<1>7. CASE EndPass(OutputPacket(Out, ip, p))
  <2> DEFINE v == OutputPacket(Out, ip, p)
  <2>1. Good(v) /\ Own(v, C)
    BY <1>2, <1>4, PacketCounted, PacketOwn DEF Counted, ip
  <2> HIDE DEF v
  <2>2. QED
    BY <1>7, <2>1, PassOwn DEF v, C
<1>8. CASE forward /\ EndPass(OutputPacket(OutputPacket(Out, ip, rord), ip, p))
  <2> DEFINE u == OutputPacket(Out, ip, rord)
             v == OutputPacket(u, ip, p)
  <2>1. Good(u) /\ Own(u, C)
    BY <1>2, <1>3, <1>4, <1>8, PacketCounted, PacketOwn DEF Counted, C
  <2> HIDE DEF u
  <2>2. Good(v) /\ Own(v, C)
    BY <1>2, <2>1, PacketCounted, PacketOwn DEF Counted, ip
  <2> HIDE DEF v
  <2>3. QED
    BY <1>8, <2>2, PassOwn DEF u, v, C
<1>9. CASE forward /\ EndPass(OutputPacket(OutputPacket(Out, ip, p), ip, rord))
  <2> DEFINE u == OutputPacket(Out, ip, p)
             v == OutputPacket(u, ip, rord)
  <2>1. Good(u) /\ Own(u, C)
    BY <1>2, <1>4, PacketCounted, PacketOwn DEF Counted, ip
  <2> HIDE DEF u
  <2>2. Good(v) /\ Own(v, C)
    BY <1>2, <1>3, <1>9, <2>1, PacketCounted, PacketOwn DEF Counted, C
  <2> HIDE DEF v
  <2>3. QED
    BY <1>9, <2>2, PassOwn DEF u, v, C
<1>10. QED
  BY <1>6, <1>7, <1>8, <1>9, DeliveryCases DEF ip

\* Nothing else outputs a record.
LEMMA StepOwn == RInv /\ OwnInv /\ [Next]_vars => OwnInv'
<1> SUFFICES ASSUME RInv, OwnInv, [Next]_vars PROVE OwnInv'
  OBVIOUS
<1>1. Good(Out)
  BY DEF RInv, OutOK
<1>2. CASE (\E s \in Src : Send(s)) \/ Lose \/ UNCHANGED vars
  <2>1. UNCHANGED <<arrived, crossed, writers, files>>
    BY <1>2 DEF Send, Lose, vars, outVars
  <2>2. QED
    BY <2>1 DEF OwnInv, Own, Out
<1>3. CASE Tick
  <2>1. /\ UNCHANGED <<arrived, crossed, files>>
        /\ writers' = {[x EXCEPT !.idle = IF @ < 2 THEN @ + 1 ELSE 2] : x \in writers}
    BY <1>3 DEF Tick
  <2>2. \A x \in writers : x \in Writer
    BY <1>1 DEF Good, Outs, Out
  <2>3. \A y \in writers' : \E x \in writers : y.key = x.key /\ y.file = x.file
    BY <2>1, <2>2 DEF Writer
  <2>4. QED
    BY <2>1, <2>3 DEF OwnInv, Own, Out
<1>4. ASSUME NEW p \in net, Deliver(p) PROVE OwnInv'
  BY <1>4, DeliverOwn
<1>5. CASE PollTimeout
  <2>1. EndPass(Out) /\ UNCHANGED <<arrived, crossed>>
    BY <1>5 DEF PollTimeout, EndPass
  <2>2. Own(Out, crossed')
    BY <2>1 DEF OwnInv
  <2>3. Own(Out, crossed)'
    BY <1>1, <2>1, <2>2, PassOwn
  <2>4. QED
    BY <2>1, <2>3 DEF OwnInv
<1>6. QED
  BY <1>2, <1>3, <1>4, <1>5 DEF Next

\* At all times a file has one owner but for the records of that kind.
THEOREM OwnersInvariant == Spec => []OwnInv
<1>1. Init => OwnInv
  BY DEF Init, OwnInv, Own, Out
<1>2. QED
  BY <1>1, StepOwn, ReceiverInvariant, PTL DEF Spec

\* The types of the receiver's state; a writer has a file, and what is marked
\* as kept was kept.
THEOREM ReceiverTypes == Spec => []TypeOK
<1>1. RInv /\ OwnInv => TypeOK
  <2> SUFFICES ASSUME RInv, OwnInv PROVE TypeOK
    OBVIOUS
  <2>1. Good(Out) /\ dropped \subseteq Done
    BY DEF RInv, OutOK
  <2>2. /\ writers \subseteq Writer /\ files \in Seq(File)
        /\ \A x \in writers : x.file \in 1..Len(files)
    BY <2>1 DEF Good, Out, Outs
  <2>3. \A x \in writers : x.file \in DOMAIN files /\ x.idle \in 0..2
    BY <2>2 DEF Writer
  <2>4. \A i \in DOMAIN files : files[i].last \in 1..N
    <3>1. \A i \in DOMAIN files : files[i] \in File
      BY <2>2
    <3>2. QED
      BY <3>1 DEF File
  <2>5. dropped \subseteq arrived
    BY <2>1 DEF Done
  <2>6. QED
    BY <2>3, <2>4, <2>5 DEF RInv, NetOK, RordOK, OwnInv, TypeOK
<1>2. QED
  BY <1>1, ReceiverInvariant, OwnersInvariant, PTL

\* Whatever the network loses, delays or reorders, each record that arrived is
\* output or dropped exactly once, or is among those kept for later.
THEOREM RecordsOutOnce == Spec => []OutputOnce
<1>1. RInv => OutputOnce
  BY DEF RInv, OutOK, Done, OutputOnce
<1>2. QED
  BY <1>1, ReceiverInvariant, PTL

\* Whatever the network does, a file holds records of one pid only and, but for
\* the records kept while another address was heard, of one source only.
THEOREM FilesOfOneSource == Spec => []OneSourcePerFile
<1>1. RInv /\ OwnInv => OneSourcePerFile
  <2> SUFFICES ASSUME RInv, OwnInv, NEW i \in DOMAIN files,
                      NEW r \in files[i].from, NEW q \in files[i].from, r[1] # q[1]
               PROVE  Pid(r[1]) = Pid(q[1]) /\ (r \in crossed \/ q \in crossed)
    BY DEF OneSourcePerFile
  <2>1. Good(Out)
    BY DEF RInv, OutOK
  <2>2. files \in Seq(File) /\ i \in 1..Len(files)
    BY <2>1 DEF Good, Out, Outs
  <2>3. Pid(r[1]) = Pid(q[1])
    BY <2>1, <2>2 DEF Good, Out
  <2>4. r[1] \in Src /\ q[1] \in Src
    <3>1. files[i] \in File
      BY <2>2
    <3>2. QED
      BY <3>1 DEF File
  <2>5. Ip(r[1]) # Ip(q[1])
    BY <2>3, <2>4, RecvAssumption DEF Ip, Pid
  <2>6. r \in crossed \/ q \in crossed
    BY <2>2, <2>5 DEF OwnInv, Own, Out
  <2>7. QED
    BY <2>3, <2>6
<1>2. QED
  BY <1>1, ReceiverInvariant, OwnersInvariant, PTL

-----------------------------------------------------------------------------
(* The tame network: nothing is lost, and what comes first of a source is  *)
(* its first record.                                                       *)

\* Whatever a source has sent has arrived or is on its way.
Complete ==
  \A s \in Src, q \in 1..N :
    q <= sent[s] => <<s, q>> \in arrived \/ \E p \in net : <<s, q>> \in Records(p)

TameInv == tame => Complete

\* The first datagram of a source to arrive begins with record 1.
LEMMA FirstIsFirst ==
  ASSUME RInv, TameInv, tame, NEW p, Receive(p), TameDelivery(p), Heard(p.src) = {}
  PROVE  p.first = 1
<1>1. p \in net /\ p \in Packet /\ p.last <= sent[p.src]
  BY DEF Receive, RInv, NetOK
<1>2. p.src \in Src /\ p.first \in 1..N /\ p.last \in 1..N /\ p.first <= p.last /\ N \in Nat
  BY <1>1, PacketIs
<1>3. sent[p.src] \in 0..N
  BY <1>2 DEF RInv, NetOK
<1>4. PICK q \in net : <<p.src, 1>> \in Records(q)
  <2>1. <<p.src, 1>> \notin arrived
    BY DEF Heard
  <2>2. QED
    BY <1>1, <1>2, <1>3, <2>1 DEF TameInv, Complete
<1>5. q \in Packet
  BY DEF RInv, NetOK
<1>6. q.src = p.src /\ q.first \in 1..N /\ q.last \in 1..N /\ 1 \in q.first..q.last
  BY <1>4, <1>5, PacketIs
<1>7. q.first = 1
  BY <1>2, <1>6
<1>8. q \notin Overtaken(p)
  BY DEF TameDelivery
<1>9. QED
  BY <1>2, <1>6, <1>7, <1>8 DEF Overtaken

\* What is sent and not lost is on its way or has arrived.
LEMMA TameStep == RInv /\ TameInv /\ [Next]_vars => TameInv'
<1> SUFFICES ASSUME RInv, TameInv, [Next]_vars, tame' PROVE Complete'
  BY DEF TameInv
<1>1. ASSUME NEW s \in Src, Send(s) PROVE Complete'
  <2>1. PICK n \in 1..MaxLen :
          /\ sent[s] + n <= N
          /\ net'  = net \cup {[src |-> s, first |-> sent[s] + 1, last |-> sent[s] + n]}
          /\ sent' = [sent EXCEPT ![s] = @ + n]
    BY <1>1 DEF Send
  <2>2. arrived' = arrived /\ tame' = tame
    BY <1>1 DEF Send
  <2> DEFINE p == [src |-> s, first |-> sent[s] + 1, last |-> sent[s] + n]
  <2>3. Records(p) = {s} \X ((sent[s] + 1)..(sent[s] + n))
    BY DEF Records
  <2> HIDE DEF p
  <2>4. net' = net \cup {p}
    BY <2>1 DEF p
  <2>5. sent \in [Src -> 0..N] /\ sent[s] \in 0..N /\ n \in Nat /\ N \in Nat
    BY RecvAssumption DEF RInv, NetOK
  <2>6. ASSUME NEW t \in Src, NEW q \in 1..N, q <= sent'[t]
        PROVE  <<t, q>> \in arrived \/ \E x \in net' : <<t, q>> \in Records(x)
    <3>1. CASE t = s /\ q > sent[s]
      <4>1. q <= sent[s] + n
        BY <2>1, <2>5, <2>6, <3>1
      <4>2. <<t, q>> \in Records(p)
        BY <2>3, <2>5, <3>1, <4>1
      <4>3. QED
        BY <2>4, <4>2
    <3>2. CASE ~ (t = s /\ q > sent[s])
      <4>1. sent[t] \in 0..N
        BY <2>5
      <4>2. q <= sent[t]
        BY <2>1, <2>5, <2>6, <3>2, <4>1
      <4>3. QED
        BY <2>2, <2>4, <4>2 DEF TameInv, Complete
    <3>3. QED
      BY <3>1, <3>2
  <2>7. QED
    BY <2>2, <2>6 DEF TameInv, Complete
<1>2. CASE Lose
  BY <1>2 DEF Lose
<1>3. CASE Tick \/ PollTimeout \/ UNCHANGED vars
  <2>1. UNCHANGED <<sent, net, tame, arrived>>
    BY <1>3 DEF Tick, PollTimeout, vars, netVars
  <2>2. QED
    BY <2>1 DEF TameInv, Complete
<1>4. ASSUME NEW p \in net, Deliver(p) PROVE Complete'
  <2>1. Receive(p)
    BY <1>4, DeliveryCases
  <2>2. /\ p \in net /\ net' = net \ {p} /\ arrived' = arrived \cup Records(p)
        /\ sent' = sent /\ tame /\ TameDelivery(p)
    BY <2>1 DEF Receive
  <2>3. QED
    BY <2>2 DEF TameInv, Complete
<1>5. QED
  BY <1>1, <1>2, <1>3, <1>4 DEF Next

\* Before anything is sent.
LEMMA InitTame == Init => TameInv
<1> SUFFICES ASSUME Init PROVE TameInv
  OBVIOUS
<1>1. \A s \in Src, q \in 1..N : ~ (q <= sent[s])
  BY DEF Init
<1>2. QED
  BY <1>1 DEF Init, TameInv, Complete

-----------------------------------------------------------------------------
(* Of sources that go on sending, nothing is dropped but what was kept     *)
(* while another address was heard.                                        *)

\* The capture source identifies itself in its first record.
FirstIdentifies == 1 \in CapSeq

Fresh(w) == \A x \in w.writers : x.idle = 0

Has(w, key) == \E x \in w.writers : x.key = key

\* Of several fresh writers of a key there is a newest.
LEMMA FreshIsFound ==
  ASSUME NEW w, Good(w), Fresh(w), NEW key, Has(w, key)
  PROVE  Found(w, key) # {}
<1> DEFINE n == Len(w.files)
           T == {n - x.file : x \in {y \in w.writers : y.key = key}}
<1>1. n \in Nat /\ \A x \in w.writers : x.file \in 1..n
  BY DEF Good, Outs
<1>2. T \subseteq Nat /\ T # {}
  BY <1>1 DEF Has
<1>3. \E m \in T : \A k \in T : m <= k
  <2> HIDE DEF T
  <2>1. QED
    BY <1>2, LeastNumber
<1>4. PICK x \in w.writers : x.key = key /\ \A y \in w.writers : y.key = key => n - x.file <= n - y.file
  BY <1>3
<1>5. \A y \in w.writers : y.key = key => y.file <= x.file
  BY <1>1, <1>4
<1>6. x \in Found(w, key)
  BY <1>4, <1>5 DEF Found, Fresh
<1>7. QED
  BY <1>6

\* v comes of w with nothing dropped, and there is a fresh writer of the key.
Kept(w, v, key) == Good(v) /\ Fresh(v) /\ v.dropped = w.dropped /\ Has(v, key)

\* A record that finds a writer, or is the first, is not dropped.
LEMMA RecordKept ==
  ASSUME NEW w, Good(w), Fresh(w), NEW r \in Record,
         Has(w, KeyOf(r)) \/ (r.seq = 1 /\ FirstIdentifies)
  PROVE  Kept(w, OutputRecord(w, r), KeyOf(r))
<1> DEFINE v == OutputRecord(w, r)
<1>1. Good(v)
  BY RecordGood
<1>2. Filed(w, r, v) \/ Added(w, r, v) \/ Lost(w, r, v)
  BY RecordCases
<1> HIDE DEF v
<1>3. CASE Filed(w, r, v)
  <2> DEFINE y == [key |-> KeyOf(r), idle |-> 0, file |-> Len(w.files) + 1]
  <2>1. y.key = KeyOf(r) /\ y.idle = 0
    OBVIOUS
  <2> HIDE DEF y
  <2>2. v.writers = w.writers \cup {y} /\ v.dropped = w.dropped
    BY <1>3 DEF Filed, y
  <2>3. QED
    BY <1>1, <2>1, <2>2 DEF Kept, Fresh, Has, v
<1>4. CASE Added(w, r, v)
  <2>1. v.writers = w.writers /\ v.dropped = w.dropped /\ Found(w, KeyOf(r)) # {}
    BY <1>4 DEF Added
  <2>2. Has(w, KeyOf(r))
    BY <2>1 DEF Found, Has
  <2>3. QED
    BY <1>1, <2>1, <2>2 DEF Kept, Fresh, Has, v
<1>5. CASE Lost(w, r, v)
  BY <1>5, FreshIsFound DEF Lost, FirstIdentifies
<1>6. QED
  BY <1>2, <1>3, <1>4, <1>5

\* Nor is any of a datagram.
LEMMA PacketKept ==
  ASSUME NEW w, Good(w), Fresh(w), NEW p \in Packet, NEW ip \in {Ip(s) : s \in Src},
         Has(w, <<ip, Pid(p.src)>>) \/ (p.first = 1 /\ FirstIdentifies)
  PROVE  Kept(w, OutputPacket(w, ip, p), <<ip, Pid(p.src)>>)
<1> DEFINE n == p.last - p.first + 1
           l == Listed(ip, p)
           key == <<ip, Pid(p.src)>>
           T == [i \in Nat |-> {v \in Outs : /\ Good(v) /\ Fresh(v) /\ v.dropped = w.dropped
                                             /\ Has(v, key) \/ (i = 0 /\ p.first = 1 /\ FirstIdentifies)}]
<1>1. /\ Len(l) = n /\ n \in Nat \ {0}
      /\ \A i \in 1..n : /\ l[i] = [ip |-> ip, src |-> p.src, seq |-> p.first + i - 1]
                         /\ l[i] \in Record
  BY ListedIs
<1>2. w \in T[0]
  BY DEF Good
<1>3. ASSUME NEW i \in 1..n, NEW u \in T[i - 1] PROVE OutputRecord(u, l[i]) \in T[i]
  <2>1. /\ i - 1 \in Nat /\ i \in Nat
        /\ Good(u) /\ Fresh(u) /\ u.dropped = w.dropped
        /\ Has(u, key) \/ (i - 1 = 0 /\ p.first = 1 /\ FirstIdentifies)
    BY <1>1
  <2>2. KeyOf(l[i]) = key /\ l[i].seq = p.first + i - 1
    BY <1>1 DEF KeyOf
  <2>3. Has(u, KeyOf(l[i])) \/ (l[i].seq = 1 /\ FirstIdentifies)
    BY <2>1, <2>2
  <2>4. Kept(u, OutputRecord(u, l[i]), key)
    BY <1>1, <2>1, <2>2, <2>3, RecordKept
  <2>5. OutputRecord(u, l[i]) \in Outs
    BY <2>4 DEF Kept, Good
  <2>6. QED
    BY <2>1, <2>4, <2>5 DEF Kept
<1> HIDE DEF T, l, n, key
<1>4. Output!Over(w, l) \in T[n]
  BY <1>1, <1>2, <1>3, OutputKeeps
<1>5. QED
  BY <1>1, <1>4 DEF T, OutputPacket, l, Kept, key

\* v comes of w with the writers of w and perhaps more, all fresh.
Grown(w, v) == Good(v) /\ Fresh(v) /\ w.writers \subseteq v.writers

\* Output closes no writer, and a new one is fresh.
LEMMA RecordGrown ==
  ASSUME NEW w, Good(w), Fresh(w), NEW r \in Record
  PROVE  Grown(w, OutputRecord(w, r))
<1> DEFINE v == OutputRecord(w, r)
<1>1. Good(v) /\ (Filed(w, r, v) \/ Added(w, r, v) \/ Lost(w, r, v))
  BY RecordGood, RecordCases
<1> HIDE DEF v
<1>2. CASE Filed(w, r, v)
  <2> DEFINE y == [key |-> KeyOf(r), idle |-> 0, file |-> Len(w.files) + 1]
  <2>1. y.idle = 0
    OBVIOUS
  <2> HIDE DEF y
  <2>2. v.writers = w.writers \cup {y}
    BY <1>2 DEF Filed, y
  <2>3. QED
    BY <1>1, <2>1, <2>2 DEF Grown, Fresh, v
<1>3. CASE Added(w, r, v) \/ Lost(w, r, v)
  BY <1>1, <1>3 DEF Added, Lost, Grown, Fresh, v
<1>4. QED
  BY <1>1, <1>2, <1>3

LEMMA PacketGrown ==
  ASSUME NEW w, Good(w), Fresh(w), NEW p \in Packet, NEW ip \in {Ip(s) : s \in Src}
  PROVE  Grown(w, OutputPacket(w, ip, p))
<1> DEFINE n == p.last - p.first + 1
           l == Listed(ip, p)
           T == [i \in Nat |-> {v \in Outs : Grown(w, v)}]
<1>1. /\ Len(l) = n /\ n \in Nat \ {0}
      /\ \A i \in 1..n : l[i] \in Record
  BY ListedIs
<1>2. w \in T[0]
  BY DEF Good, Grown
<1>3. ASSUME NEW i \in 1..n, NEW u \in T[i - 1] PROVE OutputRecord(u, l[i]) \in T[i]
  <2>1. i - 1 \in Nat /\ i \in Nat
    BY <1>1
  <2>2. Good(u) /\ Fresh(u) /\ w.writers \subseteq u.writers
    BY <2>1 DEF Grown
  <2>3. Grown(u, OutputRecord(u, l[i]))
    BY <1>1, <2>2, RecordGrown
  <2>4. QED
    BY <2>1, <2>2, <2>3 DEF Grown, Good
<1> HIDE DEF T, l, n
<1>4. Output!Over(w, l) \in T[n]
  BY <1>1, <1>2, <1>3, OutputKeeps
<1>5. QED
  BY <1>1, <1>4 DEF T, OutputPacket, l

\* Before the first quiet ten seconds: every writer is found, every source has
\* one, and what was dropped had been kept while another address was heard.
KeptInv ==
  tame /\ ticks = 0 =>
    /\ dropped \subseteq crossed
    /\ Fresh(Out)
    /\ \A r \in arrived : Has(Out, <<Ip(r[1]), Pid(r[1])>>)

\* Nothing was dropped before anything came.
LEMMA InitKept == Init => KeptInv
BY DEF Init, KeptInv, Fresh, Has, Out

\* A pass after which the source of its datagram has its writer.
LEMMA KeptStep ==
  ASSUME RInv, KeptInv, tame, ticks = 0, NEW p \in Packet, NEW v,
         Grown(Out, v), EndPass(v), v.dropped \subseteq crossed',
         Has(v, <<Ip(p.src), Pid(p.src)>>), arrived' = arrived \cup Records(p)
  PROVE  KeptInv'
<1>1. Good(v) /\ Fresh(v) /\ writers \subseteq v.writers
  BY DEF Grown, Out
<1>2. writers' = v.writers /\ dropped' = v.dropped
  BY <1>1, PassKeeps DEF Fresh
<1>3. Out'.writers = v.writers
  BY <1>2 DEF Out
<1>4. Fresh(Out')
  BY <1>1, <1>3 DEF Fresh
<1>5. \A r \in arrived : Has(Out', <<Ip(r[1]), Pid(r[1])>>)
  BY <1>1, <1>3 DEF KeptInv, Has, Out
<1>6. \A r \in Records(p) : Has(Out', <<Ip(r[1]), Pid(r[1])>>)
  BY <1>3, PacketIs DEF Has
<1>7. QED
  BY <1>2, <1>4, <1>5, <1>6 DEF KeptInv

\* A source that was heard has a writer; one that was not begins with its
\* first record, and that is never early.
LEMMA SourceHasWriter ==
  ASSUME RInv, TameInv, KeptInv, tame, ticks = 0, NEW p, Receive(p), TameDelivery(p)
  PROVE  Has(Out, <<Ip(p.src), Pid(p.src)>>) \/ (p.first = 1 /\ ~Early(p))
<1>1. CASE Heard(p.src) = {}
  <2>1. p.first = 1
    BY <1>1, FirstIsFirst
  <2>2. expect \in 0..(N + 1) /\ N \in Nat
    BY RecvAssumption DEF RInv, RordOK
  <2>3. QED
    BY <2>1, <2>2 DEF Early
<1>2. CASE Heard(p.src) # {}
  <2>1. PICK r \in arrived : r[1] = p.src
    BY <1>2 DEF Heard
  <2>2. QED
    BY <2>1 DEF KeptInv
<1>3. QED
  BY <1>1, <1>2

\* Each datagram finds the writer of its source, or begins with record 1; the
\* one kept finds it too, unless another address was heard since.
LEMMA DeliverKept ==
  ASSUME FirstIdentifies, RInv, TameInv, KeptInv, NEW p, Deliver(p), tame', ticks = 0
  PROVE  KeptInv'
<1> DEFINE ip == Ip(p.src)
           key == <<ip, Pid(p.src)>>
<1>1. Receive(p) /\ tame /\ TameDelivery(p)
  BY DeliveryCases DEF Receive
<1>2. /\ p \in Packet /\ arrived' = arrived \cup Records(p)
      /\ ip \in {Ip(s) : s \in Src}
  BY <1>1, DeliverNet
<1>3. Good(Out) /\ Fresh(Out) /\ dropped \subseteq crossed' /\ Out.dropped = dropped
  BY <1>1, CrossedIs DEF RInv, OutOK, KeptInv, Out
<1>4. Has(Out, key) \/ (p.first = 1 /\ ~Early(p))
  BY <1>1, SourceHasWriter
<1> HIDE DEF ip
\* The datagram itself, whatever went out before it.
<1>5. ASSUME NEW w, Grown(Out, w) 
      PROVE  /\ Kept(w, OutputPacket(w, ip, p), key)
             /\ Grown(Out, OutputPacket(w, ip, p))
  <2>1. Good(w) /\ Fresh(w) /\ Out.writers \subseteq w.writers
    BY <1>5 DEF Grown
  <2>2. Has(w, key) \/ (p.first = 1 /\ FirstIdentifies)
    BY <1>4, <2>1 DEF Has
  <2>3. Kept(w, OutputPacket(w, ip, p), key)
    BY <1>2, <2>1, <2>2, PacketKept
  <2>4. Grown(w, OutputPacket(w, ip, p))
    BY <1>2, <2>1, PacketGrown
  <2>5. QED
    BY <2>1, <2>3, <2>4 DEF Grown
\* The one kept.
<1>6. ASSUME forward, NEW w, Grown(Out, w)
      PROVE  /\ OutputPacket(w, ip, rord).dropped \subseteq w.dropped \cup crossed'
             /\ Grown(Out, OutputPacket(w, ip, rord))
  <2> DEFINE v == OutputPacket(w, ip, rord)
  <2>1. Good(w) /\ Fresh(w) /\ Out.writers \subseteq w.writers
    BY <1>6 DEF Grown
  <2>2. /\ rord \in Packet /\ Records(rord) \subseteq arrived
        /\ Ip(rord.src) = ip \/ Records(rord) \subseteq crossed'
    BY <1>1, <1>6, CrossedIs DEF ip
  <2>3. Grown(w, v)
    BY <1>2, <2>1, <2>2, PacketGrown
  <2>4. CASE Ip(rord.src) = ip
    <3>1. <<rord.src, rord.first>> \in arrived
      BY <2>2, PacketIs
    <3>2. Has(Out, <<ip, Pid(rord.src)>>)
      BY <1>1, <2>4, <3>1 DEF KeptInv
    <3>3. Has(w, <<ip, Pid(rord.src)>>)
      BY <2>1, <3>2 DEF Has
    <3>4. Kept(w, v, <<ip, Pid(rord.src)>>)
      BY <1>2, <2>1, <2>2, <3>3, PacketKept
    <3>5. QED
      BY <2>1, <2>3, <3>4 DEF Kept, Grown
  <2>5. CASE Records(rord) \subseteq crossed'
    <3>1. v.dropped \subseteq w.dropped \cup Records(rord)
      BY <1>2, <2>1, <2>2, PacketCounted DEF Counted
    <3> HIDE DEF v
    <3>2. QED
      BY <2>1, <2>3, <2>5, <3>1 DEF Grown, v
  <2>6. QED
    BY <2>2, <2>4, <2>5
<1>7. Grown(Out, Out)
  BY <1>3 DEF Grown
<1>8. ASSUME NEW v, EndPass(v), Grown(Out, v), v.dropped \subseteq crossed', Has(v, key)
      PROVE  KeptInv'
  BY <1>1, <1>2, <1>8, KeptStep DEF ip
<1>9. CASE Buffer(p)
  <2>1. UNCHANGED outVars /\ Early(p)
    BY <1>9 DEF Buffer
  <2>2. Has(Out, key)
    BY <1>4, <2>1
  <2>3. Out' = Out /\ dropped' = dropped
    BY <2>1 DEF Out, outVars
  <2>4. \A r \in arrived' : Has(Out, <<Ip(r[1]), Pid(r[1])>>)
    BY <1>1, <1>2, <2>2, PacketIs DEF KeptInv, ip
  <2>5. QED
    BY <1>3, <2>3, <2>4 DEF KeptInv
<1>10. CASE EndPass(OutputPacket(Out, ip, p))
  <2> DEFINE v == OutputPacket(Out, ip, p)
  <2>1. Kept(Out, v, key) /\ Grown(Out, v)
    BY <1>5, <1>7
  <2> HIDE DEF v
  <2>2. v.dropped \subseteq crossed' /\ Has(v, key)
    BY <1>3, <2>1 DEF Kept
  <2>3. EndPass(v)
    BY <1>10 DEF v
  <2>4. QED
    BY <1>8, <2>1, <2>2, <2>3
<1>11. CASE forward /\ EndPass(OutputPacket(OutputPacket(Out, ip, rord), ip, p))
  <2> DEFINE u == OutputPacket(Out, ip, rord)
             v == OutputPacket(u, ip, p)
  <2>1. u.dropped \subseteq Out.dropped \cup crossed' /\ Grown(Out, u)
    BY <1>6, <1>7, <1>11
  <2> HIDE DEF u
  <2>2. Kept(u, v, key) /\ Grown(Out, v)
    BY <1>5, <2>1
  <2> HIDE DEF v
  <2>3. v.dropped \subseteq crossed' /\ Has(v, key)
    BY <1>3, <2>1, <2>2 DEF Kept
  <2>4. EndPass(v)
    BY <1>11 DEF u, v
  <2>5. QED
    BY <1>8, <2>2, <2>3, <2>4
<1>12. CASE forward /\ EndPass(OutputPacket(OutputPacket(Out, ip, p), ip, rord))
  <2> DEFINE u == OutputPacket(Out, ip, p)
             v == OutputPacket(u, ip, rord)
  <2>1. Kept(Out, u, key) /\ Grown(Out, u)
    BY <1>5, <1>7
  <2> HIDE DEF u
  <2>2. v.dropped \subseteq u.dropped \cup crossed' /\ Grown(u, v) /\ Grown(Out, v)
    <3>1. v.dropped \subseteq u.dropped \cup crossed' /\ Grown(Out, v)
      BY <1>6, <1>12, <2>1
    <3>2. Grown(u, v)
      BY <1>1, <1>2, <1>12, <2>1, CrossedIs, PacketGrown DEF Grown
    <3>3. QED
      BY <3>1, <3>2
  <2> HIDE DEF v
  <2>3. v.dropped \subseteq crossed' /\ Has(v, key)
    BY <1>3, <2>1, <2>2 DEF Kept, Grown, Has
  <2>4. EndPass(v)
    BY <1>12 DEF u, v
  <2>5. QED
    BY <1>8, <2>2, <2>3, <2>4
<1>13. QED
  BY <1>9, <1>10, <1>11, <1>12, DeliveryCases DEF ip

\* Only time makes a writer stale, and only a stale one is closed.
LEMMA StepKept == FirstIdentifies /\ RInv /\ TameInv /\ KeptInv /\ [Next]_vars => KeptInv'
<1> SUFFICES ASSUME FirstIdentifies, RInv, TameInv, KeptInv, [Next]_vars, tame', ticks' = 0
             PROVE  KeptInv'
  BY DEF KeptInv
<1>1. ASSUME UNCHANGED outVars, arrived' = arrived, crossed' = crossed, tame' => tame, ticks' = ticks
      PROVE  KeptInv'
  <2>1. Out' = Out /\ dropped' = dropped
    BY <1>1 DEF Out, outVars
  <2>2. QED
    BY <1>1, <2>1 DEF KeptInv
<1>2. CASE (\E s \in Src : Send(s)) \/ Lose \/ UNCHANGED vars
  <2>1. /\ UNCHANGED outVars /\ arrived' = arrived /\ crossed' = crossed
        /\ (tame' => tame) /\ ticks' = ticks
    BY <1>2 DEF Send, Lose, vars, netVars
  <2>2. QED
    BY <1>1, <2>1
<1>3. CASE Tick
  BY <1>3, RecvAssumption DEF Tick, RInv
<1>4. ASSUME NEW p \in net, Deliver(p) PROVE KeptInv'
  <2>1. Receive(p)
    BY <1>4, DeliveryCases
  <2>2. ticks = 0
    BY <2>1 DEF Receive
  <2>3. QED
    BY <1>4, <2>2, DeliverKept
<1>5. CASE PollTimeout
  <2>1. /\ EndPass(Out) /\ arrived' = arrived /\ crossed' = crossed
        /\ tame' = tame /\ ticks' = ticks
    BY <1>5 DEF PollTimeout, EndPass, netVars
  <2>2. Good(Out) /\ Fresh(Out)
    BY <2>1 DEF RInv, OutOK, KeptInv
  <2>3. writers' = writers /\ UNCHANGED <<files, written, dropped>>
    BY <2>1, <2>2, PassKeeps DEF Fresh, Out
  <2>4. QED
    BY <1>1, <2>1, <2>3 DEF outVars
<1>6. QED
  BY <1>2, <1>3, <1>4, <1>5 DEF Next

\* From a network that loses and mixes up nothing, and while no source is quiet
\* for ten seconds, only what was kept while another address was heard goes to
\* /dev/null: a source identifies itself in its first record, and its writer is
\* found for every later one.
THEOREM NothingIsDropped == FirstIdentifies => (Spec => []NothingDropped)
<1> SUFFICES ASSUME FirstIdentifies PROVE Spec => []NothingDropped
  OBVIOUS
<1>1. Init => TameInv /\ KeptInv
  BY InitTame, InitKept
<1>2. RInv /\ TameInv /\ KeptInv /\ [Next]_vars => TameInv' /\ KeptInv'
  BY TameStep, StepKept
<1>3. KeptInv => NothingDropped
  BY DEF KeptInv, NothingDropped
<1>4. QED
  BY <1>1, <1>2, <1>3, ReceiverInvariant, PTL DEF Spec

-----------------------------------------------------------------------------
(* Files in order, from a network that is tame and a source heard alone.   *)

\* What the tame network lets come early is buffered, and a hole it leaves is
\* waited for.
LimitsFit == EarlyMax <= Hole /\ EarlyMax < Window

\* Every file is in order, and all its records are before q.
Before(w, q) == \A k \in 1..Len(w.files) : w.files[k].sorted /\ w.files[k].last < q

\* A record after all others keeps the files in order.
LEMMA RecordOrdered ==
  ASSUME NEW w, Good(w), NEW r \in Record, Before(w, r.seq)
  PROVE  Before(OutputRecord(w, r), r.seq + 1)
<1> DEFINE v == OutputRecord(w, r)
<1>1. /\ w.files \in Seq(File) /\ Len(w.files) \in Nat /\ r.seq \in 1..N
      /\ \A x \in w.writers : x.file \in 1..Len(w.files)
      /\ N \in Nat
  BY RecvAssumption DEF Good, Outs, Record
<1>2. \A k \in 1..Len(w.files) : w.files[k].last \in 1..N
  <2>1. \A k \in 1..Len(w.files) : w.files[k] \in File
    BY <1>1
  <2>2. QED
    BY <2>1 DEF File
<1>3. \A k \in 1..Len(w.files) : w.files[k].sorted /\ w.files[k].last < r.seq + 1
  BY <1>1, <1>2 DEF Before
<1>4. Good(v)
  BY RecordGood
<1>5. Filed(w, r, v) \/ Added(w, r, v) \/ Lost(w, r, v)
  BY RecordCases
<1> HIDE DEF v
<1>6. CASE Filed(w, r, v)
  <2> DEFINE e == [last |-> r.seq, sorted |-> TRUE, from |-> {<<r.src, r.seq>>}]
  <2>1. e.sorted /\ e.last = r.seq
    OBVIOUS
  <2> HIDE DEF e
  <2>2. v.files = Append(w.files, e)
    BY <1>6 DEF Filed, e
  <2>3. /\ Len(v.files) = Len(w.files) + 1 /\ v.files[Len(w.files) + 1] = e
        /\ \A k \in 1..Len(w.files) : v.files[k] = w.files[k]
    BY <1>1, <2>2
  <2>4. \A k \in 1..Len(v.files) : v.files[k].sorted /\ v.files[k].last < r.seq + 1
    <3>1. \A k \in 1..Len(w.files) : v.files[k].sorted /\ v.files[k].last < r.seq + 1
      BY <1>3, <2>3
    <3>2. e.last < r.seq + 1
      BY <1>1, <2>1
    <3>3. v.files[Len(w.files) + 1].sorted /\ v.files[Len(w.files) + 1].last < r.seq + 1
      BY <2>1, <2>3, <3>2
    <3>4. 1..Len(v.files) = (1..Len(w.files)) \cup {Len(w.files) + 1}
      BY <1>1, <2>3
    <3>5. QED
      BY <3>1, <3>3, <3>4
  <2>5. QED
    BY <2>4 DEF Before, v
<1>7. CASE Added(w, r, v)
  <2>1. PICK x \in Found(w, KeyOf(r)) :
          v.files = [w.files EXCEPT ![x.file] =
                       [last   |-> r.seq,
                        sorted |-> @.sorted /\ @.last < r.seq,
                        from   |-> @.from \cup {<<r.src, r.seq>>}]]
    BY <1>7 DEF Added
  <2>2. x.file \in 1..Len(w.files)
    BY <1>1, <2>1 DEF Found
  <2> DEFINE d == w.files[x.file]
             e == [last |-> r.seq, sorted |-> d.sorted /\ d.last < r.seq,
                   from |-> d.from \cup {<<r.src, r.seq>>}]
  <2>3. d.sorted /\ d.last < r.seq
    BY <2>2 DEF Before
  <2>4. e.sorted /\ e.last = r.seq
    BY <2>3
  <2>5. v.files = [w.files EXCEPT ![x.file] = e]
    BY <2>1
  <2> HIDE DEF e
  <2>6. /\ Len(v.files) = Len(w.files) /\ v.files[x.file] = e
        /\ \A k \in 1..Len(w.files) : k # x.file => v.files[k] = w.files[k]
    BY <1>1, <2>2, <2>5
  <2>7. \A k \in 1..Len(v.files) : v.files[k].sorted /\ v.files[k].last < r.seq + 1
    <3>1. e.last < r.seq + 1
      BY <1>1, <2>4
    <3>2. v.files[x.file].sorted /\ v.files[x.file].last < r.seq + 1
      BY <2>4, <2>6, <3>1
    <3>3. \A k \in 1..Len(w.files) :
             k # x.file => v.files[k].sorted /\ v.files[k].last < r.seq + 1
      BY <1>3, <2>6
    <3>4. QED
      BY <2>6, <3>2, <3>3
  <2>8. QED
    BY <2>7 DEF Before, v
<1>8. CASE Lost(w, r, v)
  BY <1>3, <1>8 DEF Lost, Before, v
<1>9. QED
  BY <1>5, <1>6, <1>7, <1>8

\* So does a datagram.
LEMMA PacketOrdered ==
  ASSUME NEW w, Good(w), NEW p \in Packet, NEW ip \in {Ip(s) : s \in Src},
         Before(w, p.first)
  PROVE  Before(OutputPacket(w, ip, p), p.last + 1)
<1> DEFINE n == p.last - p.first + 1
           l == Listed(ip, p)
           T == [i \in Nat |-> {v \in Outs : Good(v) /\ Before(v, p.first + i)}]
<1>1. /\ Len(l) = n /\ n \in Nat \ {0}
      /\ \A i \in 1..n : /\ l[i] = [ip |-> ip, src |-> p.src, seq |-> p.first + i - 1]
                         /\ l[i] \in Record
  BY ListedIs
<1>2. p.first \in 1..N /\ p.last \in 1..N /\ N \in Nat
  BY PacketIs
<1>3. w \in T[0]
  <2>1. p.first + 0 = p.first
    BY <1>2
  <2>2. QED
    BY <2>1 DEF Good
<1>4. ASSUME NEW i \in 1..n, NEW u \in T[i - 1] PROVE OutputRecord(u, l[i]) \in T[i]
  <2>1. i - 1 \in Nat /\ i \in Nat /\ Good(u) /\ Before(u, p.first + (i - 1))
    BY <1>1
  <2>2. l[i].seq = p.first + (i - 1) /\ l[i].seq + 1 = p.first + i
    BY <1>1, <1>2, <2>1
  <2>3. Before(u, l[i].seq)
    BY <2>1, <2>2
  <2>4. Before(OutputRecord(u, l[i]), p.first + i)
    BY <1>1, <2>1, <2>2, <2>3, RecordOrdered
  <2>5. Good(OutputRecord(u, l[i])) /\ OutputRecord(u, l[i]) \in Outs
    BY <1>1, <2>1, RecordGood DEF Good
  <2>6. QED
    BY <2>1, <2>4, <2>5
<1>5. p.first + n = p.last + 1
  BY <1>2
<1> HIDE DEF T, l, n
<1>6. Output!Over(w, l) \in T[n]
  BY <1>1, <1>3, <1>4, OutputKeeps
<1>7. QED
  BY <1>1, <1>5, <1>6 DEF T, OutputPacket, l

\* What arrived of the source is everything before the expected record and,
\* while a datagram is kept, its records; the files end before the expected
\* record.
OrderInv ==
  tame /\ Alone =>
    /\ \A r \in arrived : r[2] < expect \/ (forward /\ r \in Records(rord))
    /\ \A r \in arrived : {r[1]} \X (1..(expect - 1)) \subseteq arrived
    /\ forward => expect < rord.first /\ rord.first <= expect + EarlyMax
    /\ Before(Out, expect)

\* There are no files yet.
LEMMA InitOrder == Init => OrderInv
<1> SUFFICES ASSUME Init PROVE OrderInv
  OBVIOUS
<1>1. Out.files = << >> /\ Len(Out.files) = 0
  BY DEF Init, Out
<1>2. Before(Out, expect)
  BY <1>1 DEF Before
<1>3. QED
  BY <1>2 DEF Init, OrderInv

\* The next record of the source.
Due == IF expect = 0 THEN 1 ELSE expect

\* The source heard alone after a delivery was alone before it.
LEMMA AloneIs ==
  ASSUME RInv, NEW p, Receive(p), Alone'
  PROVE  Alone /\ \A r \in arrived : r[1] = p.src
<1>1. p \in Packet /\ arrived' = arrived \cup Records(p)
  BY DEF Receive, RInv, NetOK
<1>2. <<p.src, p.first>> \in Records(p)
  BY <1>1, PacketIs
<1>3. QED
  BY <1>1, <1>2 DEF Alone

\* A datagram of the tame network comes when it is due, or a little early
\* while none is kept.
LEMMA TameIsDue ==
  ASSUME RInv, TameInv, OrderInv, tame, NEW p, Receive(p), TameDelivery(p), Alone'
  PROVE  /\ p.first \in Nat /\ Due \in Nat /\ p.first >= Due
         /\ p.first > Due => ~forward /\ expect # 0 /\ p.first <= expect + EarlyMax
<1>1. /\ p \in net /\ p \in Packet /\ p.last <= sent[p.src] /\ Records(p) \cap arrived = {}
      /\ expect \in 0..(N + 1) /\ (expect = 0 <=> arrived = {})
      /\ arrived \subseteq Src \X (1..N) /\ EarlyMax \in Nat
  BY RecvAssumption DEF Receive, RInv, NetOK, RordOK
<1>2. /\ p.src \in Src /\ p.first \in 1..N /\ p.last \in 1..N /\ p.first <= p.last /\ N \in Nat
      /\ <<p.src, p.first>> \in Records(p)
  BY <1>1, PacketIs
<1>3. sent[p.src] \in 0..N
  BY <1>2 DEF RInv, NetOK
<1>4. Alone /\ \A r \in arrived : r[1] = p.src
  BY AloneIs
<1>5. Due \in Nat /\ Due >= 1
  BY <1>1, <1>2 DEF Due
<1>6. p.first >= Due
  <2> SUFFICES ASSUME p.first < Due PROVE FALSE
    BY <1>2, <1>5
  <2>1. expect # 0 /\ p.first \in 1..(expect - 1)
    BY <1>1, <1>2 DEF Due
  <2>2. PICK r \in arrived : r[1] = p.src
    BY <1>1, <1>4, <2>1
  <2>3. {p.src} \X (1..(expect - 1)) \subseteq arrived
    BY <1>4, <2>2 DEF OrderInv
  <2>4. <<p.src, p.first>> \in arrived
    BY <2>1, <2>3
  <2>5. QED
    BY <1>1, <1>2, <2>4
<1>7. ASSUME p.first > Due
      PROVE  ~forward /\ expect # 0 /\ p.first <= expect + EarlyMax
  <2>1. Due \in 1..N /\ Due <= sent[p.src]
    BY <1>1, <1>2, <1>3, <1>5, <1>7
  <2>2. <<p.src, Due>> \notin arrived
    <3> SUFFICES ASSUME <<p.src, Due>> \in arrived PROVE FALSE
      OBVIOUS
    <3>1. expect # 0 /\ Due = expect
      BY <1>1 DEF Due
    <3>2. forward /\ <<p.src, Due>> \in Records(rord) /\ rord.first > expect
      <4>1. ~ (expect < expect)
        BY <1>1, <1>2
      <4>2. QED
        BY <1>4, <3>1, <4>1 DEF OrderInv
    <3>3. rord \in Packet
      BY <3>2 DEF RInv, RordOK
    <3>4. Due \in rord.first..rord.last /\ rord.first \in 1..N /\ rord.last \in 1..N
      BY <3>2, <3>3, PacketIs
    <3>5. QED
      BY <1>5, <3>1, <3>2, <3>4
  <2>3. PICK q \in net : <<p.src, Due>> \in Records(q)
    BY <1>2, <2>1, <2>2 DEF TameInv, Complete
  <2>4. q \in Packet
    BY DEF RInv, NetOK
  <2>5. q.src = p.src /\ q.first \in 1..N /\ q.last \in 1..N /\ Due \in q.first..q.last
    BY <2>3, <2>4, PacketIs
  <2>6. q.first <= Due /\ q.first < p.first
    BY <1>2, <1>5, <1>7, <2>5
  <2>7. q \in Overtaken(p)
    BY <2>5, <2>6 DEF Overtaken
  <2>8. /\ \A r \in arrived : r[2] < q.first
        /\ arrived # {} /\ p.first <= q.first + EarlyMax
    BY <1>4, <2>7 DEF TameDelivery, Heard
  <2>9. expect # 0 /\ Due = expect
    BY <1>1, <2>8 DEF Due
  <2>10. p.first <= expect + EarlyMax
    BY <1>1, <1>2, <1>5, <2>5, <2>6, <2>8, <2>9
  <2>11. ASSUME forward PROVE FALSE
    <3>1. rord \in Packet /\ Records(rord) \subseteq arrived /\ expect < rord.first
      BY <1>4, <2>11 DEF RInv, RordOK, OrderInv
    <3>2. <<rord.src, rord.first>> \in arrived /\ rord.first \in 1..N
      BY <3>1, PacketIs
    <3>3. rord.first < q.first
      BY <2>8, <3>2
    <3>4. QED
      BY <1>1, <1>2, <2>5, <2>6, <2>9, <3>1, <3>2, <3>3
  <2>12. QED
    BY <2>9, <2>10, <2>11
<1>8. QED
  BY <1>2, <1>5, <1>6, <1>7

\* A datagram that is due goes out, with the one kept right behind it if there
\* is no hole; one that is early is kept, for its distance is within the limits.
LEMMA DeliverOrder ==
  ASSUME LimitsFit, RInv, TameInv, OrderInv, NEW p, Deliver(p), tame', Alone'
  PROVE  OrderInv'
<1> DEFINE ip == Ip(p.src)
<1>1. /\ Receive(p) /\ tame /\ TameDelivery(p)
      /\ Alone /\ \A r \in arrived : r[1] = p.src
  BY DeliveryCases, AloneIs DEF Receive
<1>2. /\ p \in Packet /\ Records(p) \cap arrived = {}
      /\ arrived' = arrived \cup Records(p) /\ ip \in {Ip(s) : s \in Src}
  BY <1>1, DeliverNet
<1>3. /\ p.src \in Src /\ p.first \in 1..N /\ p.last \in 1..N /\ p.first <= p.last /\ N \in Nat
      /\ Records(p) = {p.src} \X (p.first..p.last)
      /\ \A r \in Records(p) : r[1] = p.src /\ r[2] \in p.first..p.last
  BY <1>2, PacketIs
<1>4. /\ Due \in Nat /\ p.first >= Due
      /\ p.first > Due => ~forward /\ expect # 0 /\ p.first <= expect + EarlyMax
  BY <1>1, TameIsDue
<1>5. /\ expect \in 0..(N + 1) /\ (expect = 0 <=> arrived = {})
      /\ arrived \subseteq Src \X (1..N)
      /\ forward => rord \in Packet /\ Records(rord) \subseteq arrived
      /\ EarlyMax \in Nat /\ Hole \in Nat /\ Window \in Nat
      /\ EarlyMax <= Hole /\ EarlyMax < Window
  BY RecvAssumption DEF RInv, NetOK, RordOK, LimitsFit
<1>6. /\ \A r \in arrived : r[2] < expect \/ (forward /\ r \in Records(rord))
      /\ \A r \in arrived : {r[1]} \X (1..(expect - 1)) \subseteq arrived
      /\ forward => expect < rord.first /\ rord.first <= expect + EarlyMax
      /\ Before(Out, expect)
  BY <1>1 DEF OrderInv
<1>7. Good(Out) /\ \A k \in 1..Len(files) : files[k].last \in 1..N
  <2>1. Good(Out)
    BY DEF RInv, OutOK
  <2>2. files \in Seq(File)
    BY <2>1 DEF Good, Outs, Out
  <2>3. \A k \in 1..Len(files) : files[k] \in File
    BY <2>2
  <2>4. QED
    BY <2>1, <2>3 DEF File
<1>8. \A r \in arrived : r[1] = p.src
  BY <1>1
\* Everything before p is there.
<1>9. {p.src} \X (1..(Due - 1)) \subseteq arrived
  <2>1. CASE expect = 0
    BY <2>1 DEF Due
  <2>2. CASE expect # 0
    <3>1. PICK r \in arrived : r[1] = p.src
      BY <1>5, <1>8, <2>2
    <3>2. QED
      BY <1>6, <2>2, <3>1 DEF Due
  <2>3. QED
    BY <2>1, <2>2
<1>10. Before(Out, Due)
  <2>1. \A k \in 1..Len(files) : files[k].sorted /\ files[k].last < expect
    BY <1>6 DEF Before, Out
  <2>2. \A k \in 1..Len(files) : files[k].sorted /\ files[k].last < Due
    BY <1>5, <1>7, <2>1 DEF Due
  <2>3. QED
    BY <2>2 DEF Before, Out
<1>11. CASE Buffer(p)
  <2>1. /\ Early(p) /\ ~forward /\ rord' = p /\ forward' = TRUE
        /\ UNCHANGED <<expect, outVars>>
    BY <1>11 DEF Buffer
  <2>2. p.first > expect /\ expect # 0 /\ p.first <= expect + EarlyMax
    BY <1>4, <2>1 DEF Early, Due
  <2>3. \A r \in arrived' : r[2] < expect' \/ r \in Records(p)
    BY <1>2, <1>6, <2>1
  <2>4. \A r \in arrived' : {r[1]} \X (1..(expect' - 1)) \subseteq arrived'
    BY <1>2, <1>3, <1>8, <1>9, <2>1, <2>2 DEF Due
  <2>5. Before(Out, expect)'
    BY <1>6, <2>1 DEF Before, Out, outVars
  <2>6. Records(rord)' = Records(p)
    BY <2>1 DEF Records
  <2>7. QED
    BY <2>1, <2>2, <2>3, <2>4, <2>5, <2>6 DEF OrderInv
<1>12. CASE ~Buffer(p)
  <2>1. ~GiveUp(p) /\ ~OutOfOrder(p) /\ ~Early(p) /\ p.first = Due
    <3>1. Early(p) => ~forward /\ p.first - expect < Window
      BY <1>3, <1>4, <1>5 DEF Early, Due
    <3>2. ~Early(p)
      <4> SUFFICES ASSUME Early(p) PROVE FALSE
        OBVIOUS
      <4>1. expect # 0 /\ p.first > expect /\ p \notin Expected /\ ~Late(p)
        BY <1>3, <1>5 DEF Early, Expected, Late
      <4>2. GiveUp(p)
        BY <1>12, <4>1 DEF Deliver, OutOfOrder, InSequence, FillHole, ApplyBuffered
      <4>3. forward \/ p.first - expect >= Window
        BY <4>2 DEF GiveUp
      <4>4. QED
        BY <1>3, <1>5, <3>1, <4>3
    <3>3. ~Late(p)
      BY <1>3, <1>4, <1>5 DEF Late, Due
    <3>4. p.first = Due
      BY <1>3, <1>4, <1>5, <3>2 DEF Early, Due
    <3>5. QED
      BY <3>2, <3>3, <3>4 DEF GiveUp, OutOfOrder
  <2>2. Before(OutputPacket(Out, ip, p), p.last + 1) /\ Good(OutputPacket(Out, ip, p))
    BY <1>2, <1>7, <1>10, <2>1, PacketOrdered, PacketCounted DEF Counted
  <2>3. {p.src} \X (1..p.last) \subseteq arrived'
    <3>1. 1..p.last = (1..(Due - 1)) \cup (p.first..p.last)
      BY <1>3, <1>4, <2>1
    <3>2. {p.src} \X (1..p.last) = ({p.src} \X (1..(Due - 1))) \cup Records(p)
      BY <1>3, <3>1
    <3>3. QED
      BY <1>2, <1>9, <3>2
  <2>4. \A r \in arrived' : r[1] = p.src
    BY <1>2, <1>3, <1>8
  <2>5. \A r \in arrived' : r[2] < p.last + 1 \/ (forward /\ r \in Records(rord))
    <3> SUFFICES ASSUME NEW r \in arrived', ~ (forward /\ r \in Records(rord))
                 PROVE  r[2] < p.last + 1
      OBVIOUS
    <3>1. CASE r \in Records(p)
      BY <1>3, <3>1
    <3>2. CASE r \in arrived
      <4>1. r[2] < expect /\ r[2] \in 1..N
        BY <1>5, <1>6, <3>2
      <4>2. expect <= p.last
        BY <1>3, <1>5, <2>1 DEF Due
      <4>3. QED
        BY <1>3, <1>5, <4>1, <4>2
    <3>3. QED
      BY <1>2, <3>1, <3>2
  \* The one kept is behind p.
  <2>6. forward => /\ rord \in Packet /\ rord.src = p.src /\ p.last < rord.first
                   /\ rord.first - (p.last + 1) < Hole
                   /\ rord.first <= p.last + 1 + EarlyMax
                   /\ rord.first \in 1..N /\ rord.last \in 1..N /\ rord.first <= rord.last
    <3> SUFFICES ASSUME forward
                 PROVE  /\ rord \in Packet /\ rord.src = p.src /\ p.last < rord.first
                        /\ rord.first - (p.last + 1) < Hole
                        /\ rord.first <= p.last + 1 + EarlyMax
                        /\ rord.first \in 1..N /\ rord.last \in 1..N /\ rord.first <= rord.last
      OBVIOUS
    <3>1. rord \in Packet /\ expect < rord.first /\ rord.first <= expect + EarlyMax
      BY <1>5, <1>6
    <3>2. /\ rord.first \in 1..N /\ rord.last \in 1..N /\ rord.first <= rord.last
          /\ <<rord.src, rord.first>> \in Records(rord)
      BY <3>1, PacketIs
    <3>3. <<rord.src, rord.first>> \in arrived
      BY <1>5, <3>2
    <3>4. rord.src = p.src
      BY <1>8, <3>3
    <3>5. expect # 0 /\ p.first = expect
      BY <1>5, <2>1, <3>3 DEF Due
    <3>6. rord.first \notin p.first..p.last
      BY <1>2, <1>3, <3>3, <3>4
    <3>7. p.last < rord.first
      BY <1>3, <3>1, <3>2, <3>5, <3>6
    <3>8. QED
      BY <1>3, <1>5, <3>1, <3>2, <3>4, <3>5, <3>7
  \* p goes out and nothing else.
  <2>7. ASSUME EndPass(OutputPacket(Out, ip, p)), expect' = p.last + 1,
               forward' = forward, rord' = rord, forward => p.last + 1 < rord.first
        PROVE  OrderInv'
    <3>1. Before(Out, expect)'
      BY <2>2, <2>7, PassKeeps DEF Before, Out
    <3>2. expect' - 1 = p.last
      BY <1>3, <2>7
    <3>3. \A r \in arrived' : {r[1]} \X (1..(expect' - 1)) \subseteq arrived'
      BY <2>3, <2>4, <3>2
    <3>4. Records(rord)' = Records(rord)
      BY <2>7 DEF Records
    <3>5. \A r \in arrived' : r[2] < expect' \/ (forward' /\ r \in Records(rord)')
      BY <2>5, <2>7, <3>4
    <3>6. forward' => expect' < rord'.first /\ rord'.first <= expect' + EarlyMax
      BY <2>6, <2>7
    <3>7. QED
      BY <3>1, <3>3, <3>5, <3>6 DEF OrderInv
  <2>8. CASE InSequence(p)
    BY <2>7, <2>8 DEF InSequence
  <2>9. CASE FillHole(p)
    BY <2>7, <2>9 DEF FillHole, EndPass, HoleLeft
  <2>10. CASE ApplyBuffered(p)
    <3> DEFINE u == OutputPacket(Out, ip, p)
               v == OutputPacket(u, ip, rord)
    <3>1. forward /\ ~HoleLeft(p) /\ EndPass(v) /\ expect' = rord.last + 1 /\ forward' = FALSE
      BY <2>10 DEF ApplyBuffered
    <3>2. rord.first = p.last + 1
      BY <1>3, <2>6, <3>1 DEF HoleLeft
    <3>3. Before(u, rord.first) /\ Good(u)
      BY <2>2, <3>2
    <3> HIDE DEF u
    <3>4. Before(v, rord.last + 1) /\ Good(v)
      BY <1>2, <2>6, <3>1, <3>3, PacketOrdered, PacketCounted DEF Counted
    <3> HIDE DEF v
    <3>5. Before(Out, expect)'
      BY <3>1, <3>4, PassKeeps DEF Before, Out
    <3>6. Records(rord) = {p.src} \X (rord.first..rord.last) /\ Records(rord) \subseteq arrived
      BY <1>5, <2>6, <3>1 DEF Records
    <3>7. 1..rord.last = (1..p.last) \cup (rord.first..rord.last)
      BY <1>3, <2>6, <3>1, <3>2
    <3>8. {p.src} \X (1..rord.last) = ({p.src} \X (1..p.last)) \cup Records(rord)
      BY <3>6, <3>7
    <3>9. expect' - 1 = rord.last
      BY <2>6, <3>1
    <3>10. \A r \in arrived' : {r[1]} \X (1..(expect' - 1)) \subseteq arrived'
      BY <1>2, <2>3, <2>4, <3>6, <3>8, <3>9
    <3>11. \A r \in arrived' : r[2] < expect'
      <4> SUFFICES ASSUME NEW r \in arrived' PROVE r[2] < rord.last + 1
        BY <3>1
      <4>1. CASE r \in Records(rord)
        <5>1. r[2] \in rord.first..rord.last
          BY <3>6, <4>1
        <5>2. QED
          BY <2>6, <3>1, <5>1
      <4>2. CASE r \notin Records(rord)
        <5>1. r[2] < p.last + 1
          BY <2>5, <4>2
        <5>2. r[2] \in 1..N
          BY <1>2, <1>3, <1>5
        <5>3. QED
          BY <1>3, <2>6, <3>1, <5>1, <5>2
      <4>3. QED
        BY <4>1, <4>2
    <3>12. QED
      BY <3>1, <3>5, <3>10, <3>11 DEF OrderInv
  <2>11. QED
    BY <1>12, <2>1, <2>8, <2>9, <2>10 DEF Deliver
<1>13. QED
  BY <1>11, <1>12

\* Nothing but a delivery touches the files.
LEMMA StepOrder == LimitsFit /\ RInv /\ TameInv /\ OrderInv /\ [Next]_vars => OrderInv'
<1> SUFFICES ASSUME LimitsFit, RInv, TameInv, OrderInv, [Next]_vars, tame', Alone'
             PROVE  OrderInv'
  BY DEF OrderInv
<1>1. ASSUME UNCHANGED <<rordVars, files, arrived>>, tame' => tame PROVE OrderInv'
  <2>1. UNCHANGED <<expect, forward, rord, files, arrived>>
    BY <1>1 DEF rordVars
  <2>2. /\ Records(rord)' = Records(rord) /\ (Before(Out, expect)' <=> Before(Out, expect))
        /\ Alone
    BY <2>1 DEF Records, Before, Out, Alone
  <2>3. QED
    BY <1>1, <2>1, <2>2 DEF OrderInv
<1>2. CASE (\E s \in Src : Send(s)) \/ Lose \/ Tick \/ UNCHANGED vars
  <2>1. UNCHANGED <<rordVars, files, arrived>> /\ (tame' => tame)
    BY <1>2 DEF Send, Lose, Tick, vars, netVars, outVars
  <2>2. QED
    BY <1>1, <2>1
<1>3. ASSUME NEW p \in net, Deliver(p) PROVE OrderInv'
  BY <1>3, DeliverOrder
<1>4. CASE PollTimeout
  <2>1. EndPass(Out) /\ Good(Out) /\ UNCHANGED <<netVars, arrived, rordVars>>
    BY <1>4 DEF PollTimeout, EndPass, RInv, OutOK
  <2>2. files' = files
    BY <2>1, PassKeeps DEF Out
  <2>3. QED
    BY <1>1, <2>1, <2>2 DEF netVars
<1>5. QED
  BY <1>2, <1>3, <1>4 DEF Next

\* From a tame network on which one source is heard every file holds its
\* records in order, for every limit of the reordering buffer that fits how
\* early the network lets one come.
THEOREM FilesAreInOrder == LimitsFit => (Spec => []FilesInOrder)
<1> SUFFICES ASSUME LimitsFit PROVE Spec => []FilesInOrder
  OBVIOUS
<1>1. Init => TameInv /\ OrderInv
  BY InitTame, InitOrder
<1>2. RInv /\ TameInv /\ OrderInv /\ [Next]_vars => TameInv' /\ OrderInv'
  BY TameStep, StepOrder
<1>3. RInv /\ OrderInv => FilesInOrder
  <2> SUFFICES ASSUME RInv, OrderInv, tame, Alone, NEW i \in DOMAIN files PROVE files[i].sorted
    BY DEF FilesInOrder
  <2>1. files \in Seq(File)
    BY DEF RInv, OutOK, Good, Outs, Out
  <2>2. i \in 1..Len(files)
    BY <2>1
  <2>3. QED
    BY <2>2 DEF OrderInv, Before, Out
<1>4. QED
  BY <1>1, <1>2, <1>3, ReceiverInvariant, PTL DEF Spec
=============================================================================
