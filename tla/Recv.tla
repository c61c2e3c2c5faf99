-------------------------------- MODULE Recv --------------------------------
(***************************************************************************)
(* tos-recvDiagMemInfo with -S over UDP: the receive loop of               *)
(* __recvAndProcDiagMemInfo with its one-packet reordering buffer, and the *)
(* standalone output files it writes.                                      *)
(*                                                                         *)
(* A source is a process on a device, <<ip, pid>>; it numbers its records  *)
(* from 1 and packs runs of them into datagrams.  The network may lose and *)
(* reorder datagrams.  One pass of the loop is one step: the receiver is a *)
(* single thread and nothing else touches its state.                       *)
(*                                                                         *)
(* Time is counted in units of more than ten seconds: a writer is found    *)
(* while it is idle for less than one unit and closed when it is idle for  *)
(* two.  What the files hold is kept as history: the last record of a      *)
(* file, whether its records came in increasing order, and which they are. *)
(***************************************************************************)
EXTENDS Integers, Sequences, FiniteSets

CONSTANTS
  Src,        \* the sources, pairs <<ip, pid>>
  N,          \* bound: records a source sends
  MaxSent,    \* bound: records all the sources send
  MaxLen,     \* bound: records in a datagram
  InFlight,   \* bound: datagrams on their way at a time
  CapSeq,     \* which records identify the capture source
  Window,     \* how far ahead a datagram may be to be buffered: 100
  Hole,       \* how small a hole is still waited for: 50
  EarlyMax,   \* how far ahead of the stream the tame network lets one be
  MaxTicks    \* bound: units of time

ASSUME RecvAssumption ==
  /\ \A s, t \in Src : s[1] = t[1] /\ s[2] = t[2] => s = t
  /\ N \in Nat \ {0} /\ MaxLen \in Nat \ {0} /\ InFlight \in Nat \ {0}
  /\ MaxSent \in Nat /\ CapSeq \subseteq 1..N
  /\ Window \in Nat /\ Hole \in Nat /\ EarlyMax \in Nat /\ MaxTicks \in Nat

Ip(s)  == s[1]
Pid(s) == s[2]

Packet == {p \in [src : Src, first : 1..N, last : 1..N] :
             p.first <= p.last /\ p.last < p.first + MaxLen}

Records(p) == {p.src} \X (p.first..p.last)

\* RordBuf before its first use.
NoPacket == [src |-> << >>, first |-> 0, last |-> 0]

VARIABLES
  sent,       \* how many records each source has sent
  net,        \* datagrams on their way
  arrived,    \* history: records of the datagrams received
  tame,       \* history: the network has kept to the order of the loop's comment
  expect,     \* ExpectNextSeqID, 0 before the first datagram
  forward,    \* IsForwardReordering
  rord,       \* RordBuf; its first record is RordSeqID
  writers,    \* the list of _mCtxFileWriterHead, newest first: as a set, for a
              \* newer writer has a newer file
  files,      \* history: the files created, in order
  crossed,    \* history: the records kept while another address was heard
  written,    \* history: how often each record was output
  dropped,    \* history: the records that went to /dev/null
  ticks       \* units of time passed

netVars  == <<sent, net, tame>>
rordVars == <<expect, forward, rord>>
outVars  == <<writers, files, written, dropped>>
vars == <<netVars, arrived, crossed, rordVars, outVars, ticks>>

-----------------------------------------------------------------------------
(* The sources and the network. *)

Send(s) ==
  /\ Cardinality(net) < InFlight
  /\ \E n \in 1..MaxLen :
       /\ sent[s] + n <= N
       /\ Cardinality({r \in Src \X (1..N) : r[2] <= sent[r[1]]}) + n <= MaxSent
       /\ net'  = net \cup {[src |-> s, first |-> sent[s] + 1, last |-> sent[s] + n]}
       /\ sent' = [sent EXCEPT ![s] = @ + n]
  /\ UNCHANGED <<tame, arrived, crossed, rordVars, outVars, ticks>>

Lose ==
  /\ \E p \in net : net' = net \ {p}
  /\ tame' = FALSE
  /\ UNCHANGED <<sent, arrived, crossed, rordVars, outVars, ticks>>

Tick ==
  /\ ticks < MaxTicks
  /\ ticks' = ticks + 1
  /\ writers' = {[x EXCEPT !.idle = IF @ < 2 THEN @ + 1 ELSE 2] : x \in writers}
  /\ UNCHANGED <<netVars, arrived, crossed, rordVars, files, written, dropped>>

\* Datagrams of the same source that p overtakes.
Overtaken(p) == {q \in net : q.src = p.src /\ q.first < p.first}

Heard(s) == {r[2] : r \in {x \in arrived : x[1] = s}}

\* A delivery in the order the comment at IsForwardReordering describes: of
\* each source, one datagram comes too early, by at most EarlyMax, and then
\* those it overtook come in order.  The sources' streams mix in any way.
TameDelivery(p) ==
  \A q \in Overtaken(p) :
    /\ \A seq \in Heard(p.src) : seq < q.first
    /\ Heard(p.src) # {}
    /\ p.first <= q.first + EarlyMax

-----------------------------------------------------------------------------
(* The output files.  w is the state of the output: writers, files,        *)
(* written and dropped.                                                    *)

\* Mutant: the pid alone tells the writers apart.
FoundByPid(w, key) ==
  {x \in w.writers :
     /\ x.key[2] = key[2] /\ x.idle = 0
     /\ \A y \in w.writers : y.key[2] = key[2] /\ y.idle = 0 => y.file <= x.file}

\* The newest writer of the key that was written to in the last ten seconds.
Found(w, key) ==
  {x \in w.writers :
     /\ x.key = key /\ x.idle = 0
     /\ \A y \in w.writers : y.key = key /\ y.idle = 0 => y.file <= x.file}

NewFile == [last |-> 0, sorted |-> TRUE, from |-> {}]

\* Mutant: the new writer has no time of its last record yet.
CreateUnstamped(w, key) ==
  [w EXCEPT !.files   = Append(@, NewFile),
            !.writers = @ \cup {[key |-> key, idle |-> 2, file |-> Len(w.files) + 1]}]

\* A new file and its writer.
Create(w, key) ==
  [w EXCEPT !.files   = Append(@, NewFile),
            !.writers = @ \cup {[key |-> key, idle |-> 0, file |-> Len(w.files) + 1]}]

Put(w, f, s, seq) ==
  [w EXCEPT !.files[f] = [last   |-> seq,
                          sorted |-> @.sorted /\ @.last < seq,
                          from   |-> @.from \cup {<<s, seq>>}],
            !.written[s][seq] = @ + 1]

Drop(w, s, seq) ==
  [w EXCEPT !.dropped = @ \cup {<<s, seq>>}, !.written[s][seq] = @ + 1]

\* __getOrCreate_StandaloneOutputFile and the output of one record.  The key
\* is the record's pid with the address the latest datagram came from.
OutputRecord(w, r) ==
  LET key   == <<r.ip, Pid(r.src)>>
      found == Found(w, key)
      new   == Create(w, key)
  IN IF r.seq \in CapSeq /\ (r.seq = 1 \/ found = {})
       THEN Put(new, Len(new.files), r.src, r.seq)
       ELSE IF found = {} THEN Drop(w, r.src, r.seq)
            ELSE Put(w, (CHOOSE x \in found : TRUE).file, r.src, r.seq)

Output == INSTANCE Loop WITH Step <- OutputRecord

\* The records of a datagram in order, while ip is the latest sender.
Listed(ip, p) == [i \in 1..(p.last - p.first + 1) |->
                    [ip |-> ip, src |-> p.src, seq |-> p.first + i - 1]]

\* __forEachDiagMemInfo over a datagram.
OutputPacket(w, ip, p) == Output!Over(w, Listed(ip, p))

Out == [writers |-> writers, files |-> files, written |-> written, dropped |-> dropped]

SetOut(w) ==
  /\ writers' = w.writers
  /\ files'   = w.files
  /\ written' = w.written
  /\ dropped' = w.dropped

\* __closeAndFreeTimeoutStandaloneOutputFile.
Closed(w) == [w EXCEPT !.writers = {x \in @ : x.idle < 2}]

\* The end of a pass: every 10000th one closes the idle files.
EndPass(w) == SetOut(w) \/ SetOut(Closed(w))

-----------------------------------------------------------------------------
(* The receive loop.  p is the datagram received, e what it expects.       *)

Expected == IF expect = 0 THEN net ELSE {p \in net : p.first = expect}

Early(p) == expect # 0 /\ p.first > expect

Late(p) == expect # 0 /\ p.first < expect

Buffered == IF forward THEN Records(rord) ELSE {}

Receive(p) ==
  /\ p \in net
  /\ net' = net \ {p}
  /\ arrived' = arrived \cup Records(p)
  /\ tame' = (tame /\ TameDelivery(p))
  /\ crossed' = crossed \cup {r \in Buffered : Ip(r[1]) # Ip(p.src)}
  /\ UNCHANGED <<sent, ticks>>

\* Mutant: the flag is set but the datagram is not copied.
BufferNotCopied(p) ==
  /\ Early(p) /\ ~forward /\ p.first - expect < Window
  /\ Receive(p)
  /\ forward' = TRUE
  /\ UNCHANGED <<expect, rord, outVars>>

\* A datagram from a little ahead is kept until the missing ones are here.
Buffer(p) ==
  /\ Early(p) /\ ~forward /\ p.first - expect < Window
  /\ Receive(p)
  /\ rord' = p /\ forward' = TRUE
  /\ UNCHANGED <<expect, outVars>>

\* A second one, or one from far ahead: the missing records are given up.
GiveUp(p) ==
  /\ Early(p) /\ (forward \/ p.first - expect >= Window)
  /\ Receive(p)
  /\ LET flushed == IF forward THEN OutputPacket(Out, Ip(p.src), rord) ELSE Out
     IN EndPass(OutputPacket(flushed, Ip(p.src), p))
  /\ expect' = p.last + 1
  /\ forward' = FALSE
  /\ UNCHANGED rord

\* One from behind is output at once, and is what the stream goes on from.
OutOfOrder(p) ==
  /\ Late(p)
  /\ Receive(p)
  /\ EndPass(OutputPacket(Out, Ip(p.src), p))
  /\ expect' = p.last + 1
  /\ UNCHANGED <<forward, rord>>

InSequence(p) ==
  /\ p \in Expected /\ ~forward
  /\ Receive(p)
  /\ EndPass(OutputPacket(Out, Ip(p.src), p))
  /\ expect' = p.last + 1
  /\ UNCHANGED <<forward, rord>>

\* The expected one arrives while another is kept: unless a small hole is
\* left between them, the kept one follows.
HoleLeft(p) == p.last + 1 < rord.first /\ rord.first - (p.last + 1) < Hole

FillHole(p) ==
  /\ p \in Expected /\ forward /\ HoleLeft(p)
  /\ Receive(p)
  /\ SetOut(OutputPacket(Out, Ip(p.src), p))
  /\ expect' = p.last + 1
  /\ UNCHANGED <<forward, rord>>

\* Mutant: the kept datagram is output but still marked as kept.
KeepBuffered(p) ==
  /\ p \in Expected /\ forward /\ ~HoleLeft(p)
  /\ Receive(p)
  /\ EndPass(OutputPacket(OutputPacket(Out, Ip(p.src), p), Ip(p.src), rord))
  /\ expect' = rord.last + 1
  /\ UNCHANGED <<forward, rord>>

\* Mutant: the kept datagram is output before the one it waited for.
BufferedFirst(p) ==
  /\ p \in Expected /\ forward /\ ~HoleLeft(p)
  /\ Receive(p)
  /\ EndPass(OutputPacket(OutputPacket(Out, Ip(p.src), rord), Ip(p.src), p))
  /\ expect' = rord.last + 1
  /\ forward' = FALSE
  /\ UNCHANGED rord

ApplyBuffered(p) ==
  /\ p \in Expected /\ forward /\ ~HoleLeft(p)
  /\ Receive(p)
  /\ EndPass(OutputPacket(OutputPacket(Out, Ip(p.src), p), Ip(p.src), rord))
  /\ expect' = rord.last + 1
  /\ forward' = FALSE
  /\ UNCHANGED rord

\* poll waits ten seconds in vain.
PollTimeout ==
  /\ SetOut(Closed(Out))
  /\ UNCHANGED <<netVars, arrived, crossed, rordVars, ticks>>

-----------------------------------------------------------------------------

Init ==
  /\ sent = [s \in Src |-> 0]
  /\ net = {}
  /\ arrived = {}
  /\ tame = TRUE
  /\ crossed = {}
  /\ expect = 0
  /\ forward = FALSE
  /\ rord = NoPacket
  /\ writers = {}
  /\ files = << >>
  /\ written = [s \in Src |-> [seq \in 1..N |-> 0]]
  /\ dropped = {}
  /\ ticks = 0

Deliver(p) ==
  \/ Buffer(p) \/ GiveUp(p) \/ OutOfOrder(p)
  \/ InSequence(p) \/ FillHole(p) \/ ApplyBuffered(p)

Next ==
  \/ \E s \in Src : Send(s)
  \/ Lose
  \/ Tick
  \/ \E p \in net : Deliver(p)
  \/ PollTimeout

Spec == Init /\ [][Next]_vars

-----------------------------------------------------------------------------

\* Every variable has its type, a writer's file exists, and what is marked as
\* kept was kept.
TypeOK ==
  /\ sent \in [Src -> 0..N]
  /\ net \subseteq Packet
  /\ arrived \subseteq Src \X (1..N)
  /\ tame \in BOOLEAN
  /\ expect \in 0..(N + 1)
  /\ forward \in BOOLEAN
  /\ rord \in Packet \cup {NoPacket}
  /\ forward => rord \in Packet
  /\ \A x \in writers : x.file \in DOMAIN files /\ x.idle \in 0..2
  /\ \A i \in DOMAIN files : files[i].last \in 1..N
  /\ dropped \subseteq arrived /\ crossed \subseteq arrived
  /\ ticks \in 0..MaxTicks

\* Whatever the network does, every record that arrived is output exactly
\* once, except those of the datagram being kept, which is output later.
OutputOnce ==
  \A s \in Src, seq \in 1..N :
    written[s][seq] = IF <<s, seq>> \in arrived \ Buffered THEN 1 ELSE 0

\* tos-recvDiagMemInfo.c:488, of IsForwardReordering: once the early datagram
\* is kept, the missing ones are received "as exepected".  So from a network
\* that behaves that way every file holds its records in order, as long as one
\* source alone is heard: the number expected next is one for all of them, and
\* two sources make each other's datagrams look early or late.
Alone == \A r, t \in arrived : r[1] = t[1]

FilesInOrder == tame /\ Alone => \A i \in DOMAIN files : files[i].sorted

\* README.md:36 of the tool, of -S: each source is "written to a standalone
\* file".  While no source is quiet for the ten seconds after which its writer
\* is no longer found, what the sources of a tame network lose to /dev/null are
\* records of one kind only: those that sat in the reordering buffer while a
\* datagram from another address came.  A kept datagram is output under the
\* address of the latest sender, for RordBuf has none of its own (527-532).
NothingDropped == tame /\ ticks = 0 => dropped \subseteq crossed

\* And whatever the network does, two sources share a file only if they have
\* the same pid, and all but one of them only by records of that kind: leaving
\* those out, a file has the address and the pid of the README's boundary.
OneSourcePerFile ==
  \A i \in DOMAIN files : \A r, q \in files[i].from :
    \/ r[1] = q[1]
    \/ Pid(r[1]) = Pid(q[1]) /\ (r \in crossed \/ q \in crossed)
=============================================================================
