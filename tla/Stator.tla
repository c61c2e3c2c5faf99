------------------------------- MODULE Stator -------------------------------
(***************************************************************************)
(* tos-cvntGProfFmt: the conversion of files of allocation records to a    *)
(* heap profile.  Each file is read twice: into _mDiagMIF_Stator, and then *)
(* into _mDiagMIF_Stator_forAllocSizeInUsePeak up to the record at which   *)
(* the first pass reached its peak.                                        *)
(*                                                                         *)
(* A statistician holds one element per call stack, and a cache of the     *)
(* blocks that are in use.  A call stack is a model value: it stands for   *)
(* the frames after the cut to -D and the record type, which seeds the     *)
(* hash.  Rows of hash tables are left out: lookup compares whole keys.    *)
(* So are the statistics of sequence numbers and the least and largest     *)
(* size, the order and layout of the lines printed, and the branch of      *)
(* IsAllocSizePeak, which no option sets.                                  *)
(*                                                                         *)
(* A record is two units long, a head and a body.  A file is mapped whole, *)
(* or, with -X, read from a pipe, where a read may end inside a record.    *)
(*                                                                         *)
(* A signal may come at any time: its handler prints the first             *)
(* statistician as it is, in the middle of a record if need be, and exits. *)
(***************************************************************************)
EXTENDS Integers, Sequences, FiniteSets, Functions

CONSTANTS
  Addr,       \* addresses of blocks
  Stack,      \* call stacks
  Wide,       \* those of 64-bit records (TOS_DIAGMEM_TYPE_MAF_ENVRC_M64)
  Record,     \* the records a file may hold
  MaxLen,     \* bound: records in a file
  FileNum,    \* _mFNameNum
  PageSize,   \* getpagesize(), where the converter runs
  Page,       \* 4096, of the subtraction
  Word        \* 2^64

Op == [free : BOOLEAN, page : BOOLEAN, addr : Addr, size : Nat, stack : Stack]

\* What a file may hold.
File == UNION {[1..n -> Record] : n \in 0..MaxLen}

ASSUME StatorAssumption ==
  /\ IsFiniteSet(Stack) /\ Wide \subseteq Stack /\ Record \subseteq Op
  /\ MaxLen \in Nat /\ FileNum \in Nat \ {0}
  /\ PageSize \in Nat /\ Page \in Nat /\ Word \in Nat \ {0}

VARIABLES
  files,      \* what the files hold
  piped,      \* _mIsPipeFromDecomprossorXZ
  peakMode,   \* _mIsAllocSizeInUsePeakMode
  idx,        \* which file is read, FileNum + 1 at the end
  pass,       \* into which statistician, by main's own account
  unread,     \* units of the file not read yet
  avail,      \* units in the buffer not processed yet
  pos,        \* records of the file processed in this pass
  stat,       \* the two statisticians
  printed,    \* the profiles printed
  ended       \* "": runs, "exit": main is over, "signal": the handler is,
              \* "crash": it went over memory that is not the profile's

passVars == <<unread, avail, pos>>
endVars  == <<printed, ended>>
vars == <<files, piped, peakMode, idx, pass, passVars, stat, endVars>>

-----------------------------------------------------------------------------
(* A statistician. *)

NoBlocks ==
  [elmt  |-> [s \in Stack |-> [allocs |-> 0, frees |-> 0, inUse |-> 0]],
   cache |-> {}, allocs |-> 0, count |-> 0, inUse |-> 0, peak |-> 0, missed |-> 0]

\* uint64_t arithmetic.
Wrapped(n) == n % Word

\* The size of an allocation: a page operation has the order as its size, but
\* only in a record that is not 64-bit is that taken into account.
MemBlockSize(r) ==
  IF r.page /\ r.stack \notin Wide THEN PageSize * 2^r.size ELSE r.size

\* What a release takes back for the cached block c.
FreedSize(r, c) == IF r.page THEN Page * 2^c.size ELSE c.size

\* An allocation: its element, the sums, the peak and the cache.  A block there
\* has the number of its allocation: rows of the cache begin with the newest.
Allocated(st, r) ==
  LET b     == MemBlockSize(r)
      inUse == Wrapped(st.inUse + b)
  IN [elmt   |-> [st.elmt EXCEPT ![r.stack].allocs = @ + 1,
                                 ![r.stack].inUse  = Wrapped(@ + b)],
      cache  |-> st.cache \cup {[addr |-> r.addr, size |-> r.size, stack |-> r.stack,
                                 nr |-> st.allocs + 1]},
      allocs |-> st.allocs + 1,
      count  |-> st.count + 1,
      inUse  |-> inUse,
      peak   |-> IF inUse > st.peak THEN inUse ELSE st.peak,
      missed |-> st.missed]

Cached(st, a) == {c \in st.cache : c.addr = a}

Newest(C) == CHOOSE c \in C : \A d \in C : d.nr <= c.nr

\* A block of b bytes is taken out of the cache.
Uncached(st, c, b) ==
  [elmt   |-> [st.elmt EXCEPT ![c.stack].frees = @ + 1,
                              ![c.stack].inUse = Wrapped(@ - b)],
   cache  |-> st.cache \ {c},
   allocs |-> st.allocs,
   count  |-> st.count - 1,
   inUse  |-> Wrapped(st.inUse - b),
   peak   |-> st.peak,
   missed |-> st.missed]

\* Mutant: the size of a page operation is taken for bytes.
ReleasedOrder(st, r) ==
  LET C == Cached(st, r.addr)
      c == Newest(C)
  IN IF C = {} THEN [st EXCEPT !.missed = @ + 1] ELSE Uncached(st, c, c.size)

\* Mutant: the heading goes on counting blocks that were released.
ReleasedUncounted(st, r) ==
  LET C == Cached(st, r.addr)
      c == Newest(C)
  IN IF C = {} THEN [st EXCEPT !.missed = @ + 1]
     ELSE [Uncached(st, c, FreedSize(r, c)) EXCEPT !.count = @ + 1]

\* A release: the newest block cached for its address, if there is one.
Released(st, r) ==
  LET C == Cached(st, r.addr)
      c == Newest(C)
  IN IF C = {} THEN [st EXCEPT !.missed = @ + 1] ELSE Uncached(st, c, FreedSize(r, c))

Updated(st, r) == IF r.free THEN Released(st, r) ELSE Allocated(st, r)

\* Mutant: the second pass goes on to the end of the file.
IntoStatorToTheEnd(st, r) == Updated(st, r)

\* __CtxCommon_procCurDiagMemInfo_intoStator: in peak mode nothing is counted
\* once the peak is reached.
IntoStator(st, r) ==
  IF peakMode /\ st.peak > 0 /\ st.inUse = st.peak THEN st ELSE Updated(st, r)

-----------------------------------------------------------------------------
(* Reading a file. *)

\* Which statistician the records go to: the pipe's reader asks the mode.
Current ==
  IF piped THEN (IF peakMode THEN "peak" ELSE "main") ELSE pass

Reading == idx <= FileNum /\ ended = ""

Units(i) == 2 * Len(files[i])

\* Mutant: what is left of the buffer is forgotten when more is read.
ReadOver ==
  /\ Reading /\ unread > 0 /\ avail < 2
  /\ \E n \in IF piped THEN 1..unread ELSE {unread} :
       /\ unread' = unread - n
       /\ avail'  = n
  /\ UNCHANGED <<files, piped, peakMode, idx, pass, pos, stat, endVars>>

\* More of the file is put behind what is left of the record cut off.
Read ==
  /\ Reading /\ unread > 0 /\ avail < 2
  /\ \E n \in IF piped THEN 1..unread ELSE {unread} :
       /\ unread' = unread - n
       /\ avail'  = avail + n
  /\ UNCHANGED <<files, piped, peakMode, idx, pass, pos, stat, endVars>>

\* Mutant: a head without its body is taken for a record.
ProcHead ==
  /\ Reading /\ avail >= 1
  /\ pos' = pos + 1 /\ avail' = avail - 2
  /\ stat' = [stat EXCEPT ![Current] = IntoStator(@, files[idx][pos + 1])]
  /\ UNCHANGED <<files, piped, peakMode, idx, pass, unread, endVars>>

\* The next record of the buffer.
ProcRecord ==
  /\ Reading /\ avail >= 2
  /\ pos' = pos + 1 /\ avail' = avail - 2
  /\ stat' = [stat EXCEPT ![Current] = IntoStator(@, files[idx][pos + 1])]
  /\ UNCHANGED <<files, piped, peakMode, idx, pass, unread, endVars>>

FileEnds == Reading /\ unread = 0 /\ avail < 2

\* After the first pass the peak mode is on, and stays on.
SecondPass ==
  /\ FileEnds /\ pass = "main"
  /\ pass' = "peak" /\ peakMode' = TRUE
  /\ stat' = [stat EXCEPT !.peak.peak = stat.main.peak]
  /\ unread' = Units(idx) /\ avail' = 0 /\ pos' = 0
  /\ UNCHANGED <<files, piped, idx, endVars>>

NextFile ==
  /\ FileEnds /\ pass = "peak"
  /\ idx' = idx + 1 /\ pass' = "main"
  /\ unread' = IF idx < FileNum THEN Units(idx + 1) ELSE 0
  /\ avail' = 0 /\ pos' = 0
  /\ UNCHANGED <<files, piped, peakMode, stat, endVars>>

-----------------------------------------------------------------------------
(* The profiles.  A heading has the sums of the statistician, a line those *)
(* of a call stack.                                                        *)

Profile(w, st) ==
  [of |-> w, whole |-> TRUE, count |-> st.count, size |-> st.inUse,
   lines |-> [s \in {s \in Stack : st.elmt[s].allocs > 0} |->
                [count |-> st.elmt[s].allocs - st.elmt[s].frees, size |-> st.elmt[s].inUse]]]

\* __cleanupBeforeExit: the lines' elements are freed as they are printed.
PrintMain ==
  /\ idx > FileNum /\ ended = "" /\ printed = << >>
  /\ printed' = <<Profile("main", stat.main)>>
  /\ UNCHANGED <<files, piped, peakMode, idx, pass, passVars, stat, ended>>

\* With -O, the second profile, and the program is over.
PrintPeak ==
  /\ ended = "" /\ printed # << >>
  /\ printed' \in {printed, Append(printed, Profile("peak", stat.peak))}
  /\ ended' = "exit"
  /\ UNCHANGED <<files, piped, peakMode, idx, pass, passVars, stat>>

\* What the record at hand makes of the first statistician, if it concerns it.
InHand ==
  IF Reading /\ avail >= 2 /\ Current = "main"
    THEN IntoStator(stat.main, files[idx][pos + 1]) ELSE stat.main

\* Mutant: the handler takes the statistician that is being filled.
SignalCurrent ==
  /\ ended = "" /\ printed = << >>
  /\ printed' = <<Profile("main", stat[Current])>>
  /\ ended' = "signal"
  /\ UNCHANGED <<files, piped, peakMode, idx, pass, passVars, stat>>

\* __processSignal before the end.  The element of the record at hand and the
\* sums of the heading are updated apart, and either may be done already.  The
\* handler calls malloc, free, fopen, localtime and qsort_r (614, 694-717), even
\* while the program is inside calloc or free: they are taken to return.
Signal ==
  /\ ended = "" /\ printed = << >>
  /\ \E element, sums \in {stat.main, InHand} :
       LET p == Profile("main", [sums EXCEPT !.elmt = element.elmt])
       IN printed' = <<[p EXCEPT !.whole = element = sums]>>
  /\ ended' = "signal"
  /\ UNCHANGED <<files, piped, peakMode, idx, pass, passVars, stat>>

\* A new element is linked before it is counted, and one that is printed is
\* freed and still linked: the handler goes past its array, or over memory
\* that was given back.
SignalCrashes ==
  /\ ended = ""
  /\ printed # << >> \/ \E s \in Stack : InHand.elmt[s].allocs > 0 /\ stat.main.elmt[s].allocs = 0
  /\ ended' = "crash"
  /\ UNCHANGED <<files, piped, peakMode, idx, pass, passVars, stat, printed>>

Init ==
  /\ files \in [1..FileNum -> File]
  /\ piped \in BOOLEAN
  /\ peakMode = FALSE
  /\ idx = 1
  /\ pass = "main"
  /\ unread = Units(1)
  /\ avail = 0
  /\ pos = 0
  /\ stat = [main |-> NoBlocks, peak |-> NoBlocks]
  /\ printed = << >>
  /\ ended = ""

Next ==
  \/ Read \/ ProcRecord \/ SecondPass \/ NextFile
  \/ PrintMain \/ PrintPeak
  \/ Signal \/ SignalCrashes

Spec == Init /\ [][Next]_vars

-----------------------------------------------------------------------------
(* The reference: what is in use after the first n records of a file, by   *)
(* the records alone.                                                      *)

\* Allocations less releases of address a among the first n.
Balance(f, a, n) ==
  LET Of(free) == {k \in 1..n : f[k].addr = a /\ f[k].free = free}
  IN Cardinality(Of(FALSE)) - Cardinality(Of(TRUE))

\* The allocation f[i] is still in use: releases of its address never outnumber
\* the later allocations of it.
InUseAfter(f, n, i) ==
  /\ ~f[i].free
  /\ \A j \in i..n : Balance(f, f[i].addr, i) <= Balance(f, f[i].addr, j)

Live(f, n) == {i \in 1..n : InUseAfter(f, n, i)}

LiveOf(f, n, s) == {i \in Live(f, n) : f[i].stack = s}

TotalSize(f, S) == SumFunctionOnSet([i \in DOMAIN f |-> MemBlockSize(f[i])], S)

InUse(f, n) == TotalSize(f, Live(f, n))

SizeInUse(f, n, s) == TotalSize(f, LiveOf(f, n, s))

Allocations(f, n) == Cardinality({k \in 1..n : ~f[k].free})

\* The first place where the most is in use.
PeakAt(f) ==
  CHOOSE n \in 0..Len(f) :
    /\ \A m \in 0..Len(f) : InUse(f, m) <= InUse(f, n)
    /\ \A m \in 0..(n - 1) : InUse(f, m) < InUse(f, n)

\* The profile is that of the blocks in use by the first n records.
IsProfile(st, f, n) ==
  /\ \A s \in Stack :
       /\ st.elmt[s].inUse = Wrapped(SizeInUse(f, n, s))
       /\ st.elmt[s].allocs - st.elmt[s].frees = Cardinality(LiveOf(f, n, s))
  /\ st.inUse = Wrapped(InUse(f, n))
  /\ st.count = Cardinality(Live(f, n)) /\ Cardinality(st.cache) = st.count

-----------------------------------------------------------------------------

\* Every variable has its type; in particular no record is read past what the
\* buffer holds.
TypeOK ==
  /\ files \in [1..FileNum -> File]
  /\ piped \in BOOLEAN /\ peakMode \in BOOLEAN
  /\ idx \in 1..(FileNum + 1)
  /\ pass \in {"main", "peak"}
  /\ unread \in 0..(2 * MaxLen) /\ avail \in 0..(2 * MaxLen) /\ pos \in 0..MaxLen
  /\ \A w \in {"main", "peak"} :
       /\ stat[w].inUse \in 0..(Word - 1) /\ stat[w].peak \in 0..(Word - 1)
       /\ \A s \in Stack : stat[w].elmt[s].frees <= stat[w].elmt[s].allocs
       /\ stat[w].allocs \in Nat /\ stat[w].missed \in Nat /\ stat[w].count \in Nat
  /\ ended \in {"", "exit", "signal", "crash"}
  /\ Len(printed) <= 2

\* The first pass over a file: whatever releases or allocations the file
\* lacks, the profile, in sum and per call stack, is that of the blocks in
\* use by the records read so far.
InUseIsLive ==
  ended = "" /\ idx = 1 /\ pass = "main" => IsProfile(stat.main, files[1], pos)

\* tos-cvntGProfFmt.c:803: the second pass stops where the peak is reached.
\* So at the end it is the profile at the file's peak, although the peak was
\* not known when that record was first read and equal sums occur elsewhere;
\* if anything is ever in use, and what is in use fits 64 bits.
PeakIsTheProfile ==
  LET f == files[1] IN
  /\ ended = "" /\ idx = 2
  /\ InUse(f, PeakAt(f)) # 0 /\ \A n \in 0..Len(f) : InUse(f, n) \in 0..(Word - 1)
  => IsProfile(stat.peak, f, PeakAt(f))

\* tos-cvntGProfFmt.c:1071, of -F: the files are read and converted.  So at
\* the end every allocation of every file is in the totals.
EveryFileCounted ==
  idx > FileNum =>
    stat.main.allocs =
      SumFunctionOnSet([i \in 1..FileNum |-> Allocations(files[i], Len(files[i]))], 1..FileNum)

\* The lines of profile p add up to its heading, or, in the middle of a record,
\* are one block apart at most.
AddsUp(p) ==
  LET count == SumFunction([s \in DOMAIN p.lines |-> p.lines[s].count])
      size  == SumFunction([s \in DOMAIN p.lines |-> p.lines[s].size])
  IN IF p.whole THEN p.count = count /\ p.size = Wrapped(size)
     ELSE p.count - count \in {-1, 0, 1}

\* The lines of a profile add up to its heading, though both are kept apart
\* through passes, files, releases without a block and sizes that wrap; where
\* a signal has cut into a record, they are one block apart at most.
LinesAddUp == \A i \in DOMAIN printed : AddsUp(printed[i])

\* What a signal prints after the first pass over a file, during the second or
\* before the end, is all of what the first has found.
SignalPrintsFirstPass ==
  ended = "signal" /\ (idx = 2 \/ pass = "peak") =>
    /\ printed[1].whole
    /\ printed[1].count = Cardinality(Live(files[1], Len(files[1])))
    /\ \A s \in DOMAIN printed[1].lines :
         printed[1].lines[s].size = Wrapped(SizeInUse(files[1], Len(files[1]), s))
=============================================================================
