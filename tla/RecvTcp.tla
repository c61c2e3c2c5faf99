------------------------------ MODULE RecvTcp ------------------------------
(***************************************************************************)
(* tos-recvDiagMemInfo -S -T: the same receive loop, fed by byte streams.  *)
(*                                                                         *)
(* Every connection has a loop of its own.  On Linux the loop runs in a    *)
(* forked process and has the static variables to itself; in the Windows   *)
(* port it is a thread, and the expected number, the reordering buffer and *)
(* the writers are shared by all connections, without a lock.  A pass of a *)
(* loop is one step in both.                                               *)
(*                                                                         *)
(* A stream is cut anywhere: a read returns any number of units, RecLen of *)
(* them are a record and the first HeadLen its head.  What is in a buffer  *)
(* is a run of the stream that starts at a record, so it is described by   *)
(* its connection, its first record and its length.  Where the code loses  *)
(* the record boundaries the process is marked astray and not followed.    *)
(*                                                                         *)
(* _tos_abort is empty (_ToolsCommon.h): the checks that call it do not    *)
(* stop anything, so a wait or a read that fails goes on to process what   *)
(* the buffer still holds.                                                 *)
(***************************************************************************)
EXTENDS Integers, Sequences, FiniteSets

CONSTANTS
  Conn,       \* the connections
  Pid,        \* the process at the other end of each
  Streams,    \* the numberings each stream may have: sequences of numbers
  Ports,      \* the builds: "linux", "windows"
  CapSeq,     \* which numbers identify the capture source
  HeadLen,    \* units of a record's head
  RecLen,     \* units of a record
  BufLen,     \* units of the buffer, and the most that one read returns
  Window,     \* how far ahead a chunk may be to be buffered: 100
  Hole,       \* how small a hole is still waited for: 50
  MaxTicks    \* bound: units of time

ASSUME RecvTcpAssumption ==
  /\ DOMAIN Pid = Conn
  /\ DOMAIN Streams = Conn
  /\ \A c \in Conn : Streams[c] \subseteq Seq(Nat \ {0})
  /\ "server" \notin Conn
  /\ Ports \subseteq {"linux", "windows"}
  /\ HeadLen \in Nat /\ RecLen \in Nat /\ BufLen \in Nat
  /\ 0 < HeadLen /\ HeadLen < RecLen /\ RecLen <= BufLen
  /\ Window \in Nat /\ Hole \in Nat /\ MaxTicks \in Nat

VARIABLES
  port,       \* the build that runs
  stream,     \* the numbers of the records each connection carries
  accepted,   \* the connections accepted
  closed,     \* those the peer has closed, or reset
  got,        \* how many units were read from each
  buf,        \* RcvBuf and RcvLen of each loop
  left,       \* BufLeftProcLen of each loop
  expect,     \* per process: ExpectNextSeqID
  forward,    \* per process: IsForwardReordering
  rord,       \* per process: RordBuf and RordBufLen
  writers,    \* per process: the writers, a newer one with a newer file
  out,        \* history, per process: the records output, in order
  files,      \* history, per process: how many files it created
  astray,     \* history, per process: why it lost the record boundaries
  again,      \* history, per process: it went over an old chunk again
  silent,     \* the connections whose ten seconds of poll are over
  ticks       \* units of time passed

connVars == <<accepted, closed, got>>
loopVars == <<buf, left>>
procVars == <<expect, forward, rord>>
outVars  == <<writers, out, files>>
markVars == <<astray, again>>
timeVars == <<silent, ticks>>
vars == <<port, stream, connVars, loopVars, procVars, outVars, markVars, timeVars>>

Server == "server"

\* Mutant: the connections of a Linux receiver share the state too.
ProcShared(c) == Server

\* The process a connection's loop runs in.
Proc(c) == IF port = "windows" THEN Server ELSE c

-----------------------------------------------------------------------------
(* Chunks: what a buffer holds. *)

Nothing(c) == [of |-> c, first |-> 0, len |-> 0]

\* The number found in the head the chunk starts with, 0 in a zeroed buffer.
Seq1(k) == IF k.first = 0 THEN 0 ELSE stream[k.of][k.first]

Whole(k) == k.len \div RecLen

\* __getTailSeqID.
Tail1(k) == IF Whole(k) = 0 THEN Seq1(k) ELSE stream[k.of][k.first + Whole(k) - 1]

\* What n units read from c make of its buffer.
Loaded(c, n) ==
  IF n = 0 /\ left[c] = 0 THEN [buf[c] EXCEPT !.len = 0]
  ELSE [of |-> c, first |-> got[c] \div RecLen + 1, len |-> left[c] + n]

-----------------------------------------------------------------------------
(* The output files of a process: w has its writers, out and files.  The   *)
(* address of a connection is not filled in, so the key is the pid alone.  *)

\* The newest writer of the pid that was written to in the last ten seconds.
Found(w, pid) ==
  {x \in w.writers :
     /\ x.pid = pid /\ x.idle = 0
     /\ \A y \in w.writers : y.pid = pid /\ y.idle = 0 => y.file <= x.file}

Create(w, pid) ==
  [w EXCEPT !.files   = @ + 1,
            !.writers = @ \cup {[pid |-> pid, idle |-> 0, file |-> w.files + 1]}]

Put(w, r, file) == [w EXCEPT !.out = Append(@, [of |-> r.of, rec |-> r.rec, file |-> file])]

DevNull == 0

OutputRecord(w, r) ==
  LET found == Found(w, Pid[r.of])
      new   == Create(w, Pid[r.of])
  IN IF r.seq \in CapSeq /\ (r.seq = 1 \/ found = {}) THEN Put(new, r, new.files)
     ELSE IF found = {} THEN Put(w, r, DevNull)
     ELSE Put(w, r, (CHOOSE x \in found : TRUE).file)

Output == INSTANCE Loop WITH Step <- OutputRecord

\* The complete records of a chunk.
Listed(k) == [i \in 1..Whole(k) |-> [of  |-> k.of, rec |-> k.first + i - 1,
                                     seq |-> stream[k.of][k.first + i - 1]]]

\* __forEachDiagMemInfo outputs the complete records ...
ForEach(w, k) == Output!Over(w, Listed(k))

\* ... and leaves the part of the last one.
Part(k) == k.len % RecLen

Closed(w) == [w EXCEPT !.writers = {x \in @ : x.idle < 2}]

Out(p) == [writers |-> writers[p], out |-> out[p], files |-> files[p]]

SetOut(p, w) ==
  /\ writers' = [writers EXCEPT ![p] = w.writers]
  /\ out'     = [out EXCEPT ![p] = w.out]
  /\ files'   = [files EXCEPT ![p] = w.files]

\* Every 10000th pass closes the files not written to for long.
EndPass(p, w) == SetOut(p, w) \/ SetOut(p, Closed(w))

-----------------------------------------------------------------------------
(* A pass of c's loop with the chunk k in the buffer and the output w.     *)

Expect(p, k) == IF expect[p] = 0 THEN Seq1(k) ELSE expect[p]

Early(p, k) == Seq1(k) > Expect(p, k)
Late(p, k)  == Seq1(k) < Expect(p, k)

Near(p, k) == Early(p, k) /\ ~forward[p] /\ Seq1(k) - expect[p] < Window

Awaited(p, k) == forward[p] /\ Seq1(k) = Expect(p, k)

\* Where the boundaries of the records are lost.
Strays(c, p, k) ==
  IF k.len > BufLen THEN "overrun"                        \* copied past RcvBuf
  ELSE IF 0 < k.len /\ k.len < HeadLen THEN "short"       \* half a head is read
  ELSE IF Near(p, k) /\ (Part(k) # 0 \/ left[c] # 0) THEN "part"
  ELSE IF Awaited(p, k) /\ Part(k) # 0 THEN "part"        \* the part is not kept
  ELSE ""

GoAstray(p, why) ==
  /\ astray' = [astray EXCEPT ![p] = why]
  /\ UNCHANGED <<loopVars, procVars, outVars>>

\* Mutant: a part of a record is not waited for.
EndsWhole(c, k) == buf' = [buf EXCEPT ![c] = k] /\ left' = [left EXCEPT ![c] = 0]

\* The loop's buffer holds k, and of it the part of the last record is left.
Ends(c, k) == buf' = [buf EXCEPT ![c] = k] /\ left' = [left EXCEPT ![c] = Part(k)]

\* A chunk from a little ahead is kept.
Keep(c, p, k) ==
  /\ Near(p, k)
  /\ buf' = [buf EXCEPT ![c] = k]
  /\ rord' = [rord EXCEPT ![p] = k]
  /\ forward' = [forward EXCEPT ![p] = TRUE]
  /\ UNCHANGED <<left, expect, outVars, astray>>

\* Mutant: the records that were kept are forgotten.
ForgetKept(c, p, k, w) ==
  /\ Early(p, k) /\ ~Near(p, k)
  /\ Ends(c, k)
  /\ EndPass(p, ForEach(w, k))
  /\ expect' = [expect EXCEPT ![p] = Tail1(k) + 1]
  /\ forward' = [forward EXCEPT ![p] = FALSE]
  /\ UNCHANGED <<rord, astray>>

\* Copied back over the kept chunk, a chunk of no length leaves that one there.
CopiedBack(p, k) == IF forward[p] /\ k.len = 0 THEN [rord[p] EXCEPT !.len = 0] ELSE k

\* A second one, or one from far ahead: what is missing is given up.
GiveUp(c, p, k, w) ==
  /\ Early(p, k) /\ ~Near(p, k)
  /\ Ends(c, CopiedBack(p, k))
  /\ EndPass(p, ForEach(IF forward[p] THEN ForEach(w, rord[p]) ELSE w, k))
  /\ expect' = [expect EXCEPT ![p] = Tail1(CopiedBack(p, k)) + 1]
  /\ forward' = [forward EXCEPT ![p] = FALSE]
  /\ UNCHANGED <<rord, astray>>

\* One from behind, or the expected one.
GoOn(c, p, k, w) ==
  /\ ~Early(p, k) /\ ~Awaited(p, k)
  /\ Ends(c, k)
  /\ EndPass(p, ForEach(w, k))
  /\ expect' = [expect EXCEPT ![p] = Tail1(k) + 1]
  /\ UNCHANGED <<forward, rord, astray>>

HoleLeft(p, k) ==
  LET e == Tail1(k) + 1 IN e < Seq1(rord[p]) /\ Seq1(rord[p]) - e < Hole

FillHole(c, p, k, w) ==
  /\ Awaited(p, k) /\ HoleLeft(p, k)
  /\ Ends(c, k)
  /\ SetOut(p, ForEach(w, k))
  /\ expect' = [expect EXCEPT ![p] = Tail1(k) + 1]
  /\ UNCHANGED <<forward, rord, astray>>

\* The kept chunk follows, and is what the buffer holds from now on.
ApplyKept(c, p, k, w) ==
  /\ Awaited(p, k) /\ ~HoleLeft(p, k)
  /\ Ends(c, rord[p])
  /\ EndPass(p, ForEach(ForEach(w, k), rord[p]))
  /\ expect' = [expect EXCEPT ![p] = Tail1(rord[p]) + 1]
  /\ forward' = [forward EXCEPT ![p] = FALSE]
  /\ UNCHANGED <<rord, astray>>

Pass(c, k, w) ==
  LET p == Proc(c) IN
  /\ astray[p] = ""
  /\ IF Strays(c, p, k) # "" THEN GoAstray(p, Strays(c, p, k))
     ELSE \/ Keep(c, p, k) \/ GiveUp(c, p, k, w) \/ GoOn(c, p, k, w)
          \/ FillHole(c, p, k, w) \/ ApplyKept(c, p, k, w)

\* A pass over what the buffer held before; a part of a record left behind
\* others has been moved to its front, over them.
PassAgain(c, w) ==
  LET p == Proc(c) IN
  /\ IF left[c] \in {0, buf[c].len} THEN Pass(c, buf[c], w)
     ELSE astray[p] = "" /\ GoAstray(p, "stale")
  /\ again' = [again EXCEPT ![p] = @ \/ buf[c].len > 0]

-----------------------------------------------------------------------------
(* The connections. *)

Accept(c) ==
  /\ c \notin accepted
  /\ accepted' = accepted \cup {c}
  /\ UNCHANGED <<port, stream, closed, got, loopVars, procVars, outVars, markVars, timeVars>>

Rest(c) == RecLen * Len(stream[c]) - got[c]

Open(c) == c \in accepted \ closed

Read(c) ==
  /\ Open(c) /\ c \notin silent
  /\ \E n \in 1..BufLen :
       /\ n <= Rest(c)
       /\ got' = [got EXCEPT ![c] = @ + n]
       /\ Pass(c, Loaded(c, n), Out(Proc(c)))
  /\ UNCHANGED <<port, stream, accepted, closed, again, timeVars>>

\* The peer closes once it has sent everything ...
Close(c) ==
  /\ Open(c) /\ c \notin silent /\ Rest(c) = 0
  /\ closed' = closed \cup {c}
  /\ UNCHANGED <<port, stream, accepted, got, loopVars, procVars, outVars, markVars, timeVars>>

\* Mutant: the loop ends with the stream.
EndOfFileReturns(c) == c \in closed /\ UNCHANGED vars

\* ... and from then on every read returns 0 at once: the loop never ends.
EndOfFile(c) ==
  /\ c \in closed
  /\ Pass(c, Loaded(c, 0), Out(Proc(c)))
  /\ UNCHANGED <<port, stream, connVars, again, timeVars>>

\* Or it resets the connection: one read fails, and then there is no more.
Reset(c) ==
  /\ Open(c) /\ c \notin silent
  /\ closed' = closed \cup {c}
  /\ PassAgain(c, Out(Proc(c)))
  /\ UNCHANGED <<port, stream, accepted, got, timeVars>>

\* Ten seconds pass while nothing arrives; a loop at the end of its file has
\* long finished with what it had.
Tick ==
  /\ ticks < MaxTicks /\ silent = {}
  /\ \A c \in closed : ~forward[Proc(c)] \/ astray[Proc(c)] # ""
  /\ ticks' = ticks + 1
  /\ silent' = accepted \ closed
  /\ writers' = [p \in DOMAIN writers |->
                   {[x EXCEPT !.idle = IF @ < 2 THEN @ + 1 ELSE 2] : x \in writers[p]}]
  /\ UNCHANGED <<port, stream, connVars, loopVars, procVars, out, files, markVars>>

\* poll, or select, has waited in vain: old files are closed, and the read
\* that finds nothing is followed by a pass like any other.
TimeOut(c) ==
  /\ c \in silent
  /\ silent' = silent \ {c}
  /\ PassAgain(c, Closed(Out(Proc(c))))
  /\ UNCHANGED <<port, stream, connVars, ticks>>

-----------------------------------------------------------------------------

Procs == Conn \cup {Server}

Init ==
  /\ port \in Ports
  /\ stream \in [Conn -> UNION {Streams[c] : c \in Conn}]
  /\ \A c \in Conn : stream[c] \in Streams[c]
  /\ accepted = {} /\ closed = {} /\ silent = {}
  /\ got  = [c \in Conn |-> 0]
  /\ buf  = [c \in Conn |-> Nothing(c)]
  /\ left = [c \in Conn |-> 0]
  /\ expect  = [p \in Procs |-> 0]
  /\ forward = [p \in Procs |-> FALSE]
  /\ rord    = [p \in Procs |-> Nothing(p)]
  /\ writers = [p \in Procs |-> {}]
  /\ out     = [p \in Procs |-> << >>]
  /\ files   = [p \in Procs |-> 0]
  /\ astray  = [p \in Procs |-> ""]
  /\ again   = [p \in Procs |-> FALSE]
  /\ ticks = 0

Next ==
  \/ \E c \in Conn : Accept(c) \/ Read(c) \/ Close(c) \/ Reset(c)
  \/ \E c \in Conn : EndOfFile(c) \/ TimeOut(c)
  \/ Tick

\* A loop whose connection is at its end reads on.
Spec == Init /\ [][Next]_vars /\ \A c \in Conn : WF_vars(EndOfFile(c))

-----------------------------------------------------------------------------

Received(c) == 1..(got[c] \div RecLen)

Kept(c) ==
  LET k == rord[Proc(c)]
  IN IF forward[Proc(c)] /\ k.of = c THEN k.first..(k.first + Whole(k) - 1) ELSE {}

Times(c, i) ==
  Cardinality({j \in DOMAIN out[Proc(c)] : out[Proc(c)][j].of = c /\ out[Proc(c)][j].rec = i})

\* The chunk is followed, so the processes that share it are too.
OnTrack(c) == astray[Proc(c)] = ""

Alone(c) == port = "linux" \/ accepted = {c}

InOrder(c) == \A i \in 1..(Len(stream[c]) - 1) : stream[c][i] < stream[c][i + 1]

\* Every variable has its type; a buffer holds a part of a record exactly when
\* the read position is inside one, and what is kept ends with a record.
TypeOK ==
  /\ accepted \subseteq Conn /\ closed \subseteq accepted /\ silent \subseteq accepted \ closed
  /\ \A c \in Conn :
       /\ got[c] \in 0..(RecLen * Len(stream[c]))
       /\ buf[c] \in [of : Conn, first : Nat, len : 0..BufLen]
       /\ left[c] \in 0..(RecLen - 1)
       /\ OnTrack(c) => left[c] = got[c] % RecLen
  /\ \A p \in Procs :
       /\ expect[p] \in Nat /\ forward[p] \in BOOLEAN /\ again[p] \in BOOLEAN
       /\ forward[p] => rord[p].first > 0 /\ Part(rord[p]) = 0
       /\ \A x \in writers[p] : x.file \in 1..files[p]
       /\ astray[p] \in {"", "overrun", "short", "part", "stale"}

\* However the streams are cut and however the loops of the two ports share
\* their state: a complete record that was read is output exactly once, or is
\* in the reordering buffer.  An old chunk gone over again (recvfrom failing,
\* 514-524) repeats records and loses none.
NothingLost ==
  \A c \in Conn : OnTrack(c) =>
    \A i \in Received(c) \ Kept(c) :
      IF again[Proc(c)] THEN Times(c, i) >= 1 ELSE Times(c, i) = 1

\* README.md:36, -S writes each source to a standalone file: a connection that
\* is alone in its process and has its numbers in order has one file, which
\* holds the beginning of its stream, and what is missing at the end is what is
\* kept.  Numbers in disorder, and an old chunk gone over again (514-524),
\* leave the stream's order, or write records twice.
StandaloneStream ==
  \A c \in Conn : OnTrack(c) /\ Alone(c) /\ InOrder(c) /\ ~again[Proc(c)] =>
    out[Proc(c)] = [i \in 1..Cardinality(Received(c) \ Kept(c)) |->
                      [of |-> c, rec |-> i, file |-> 1]]

\* What is kept waits for the end of a small hole.
WaitsForHole(c) ==
  LET p == Proc(c) IN
  forward[p] /\ expect[p] < Seq1(rord[p]) /\ Seq1(rord[p]) - expect[p] < Hole

\* A connection that ends, alone in its process and with its numbers in order,
\* has all of its records output: the passes at the end of the file give up
\* what is missing (582-611).  If its numbers are in disorder the chunk in the
\* buffer may be from behind, and stays so in every further pass (623-630):
\* then what is kept for a hole of less than 50 (650) is held back for ever.
EndFlushes ==
  \A c \in Conn :
    (c \in closed /\ Alone(c))
      ~> (Kept(c) = {} \/ (~InOrder(c) /\ WaitsForHole(c)) \/ ~OnTrack(c) \/ ~Alone(c))
=============================================================================
