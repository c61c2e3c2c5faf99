----------------------------- MODULE ToolChain -----------------------------
(***************************************************************************)
(* The file tools one after the other: a file is cut, the piece is cut     *)
(* again, and what that leaves is described.                               *)
(*                                                                         *)
(* The records of a file are in the order they were sent, and their heads  *)
(* count seconds from a start of their own, which may overflow; the file's *)
(* name has the second of its first record.                                *)
(***************************************************************************)
EXTENDS Integers, Sequences, FiniteSets, Functions

CONSTANTS
  Files,      \* the files to start with
  FirstArgs,  \* command lines of the first cutter
  AgainArgs,  \* and of the second
  HeadSize, Word32

ASSUME ToolChainAssumption ==
  /\ HeadSize \in Nat /\ Word32 \in Nat \ {0}
  /\ Files \subseteq [start : Nat, recs : Seq([tv : Nat, op : STRING, size : Nat, body : Nat])]
  /\ FirstArgs \cup AgainArgs \subseteq Seq([opt : {"F", "f", "t", "d"}, val : Nat \cup {-1}])

VARIABLES
  tool,                                                \* which one runs
  input, argv, optind, named, times, pos, piece, total, phase, \* the first cutter
  input2, argv2, optind2, named2, times2, pos2, piece2, total2, phase2,
  file, read, span, cnt, siz, printed                          \* the describer

Cut == INSTANCE Cutter
Recut ==
  INSTANCE Cutter WITH input <- input2, argv <- argv2, optind <- optind2, named <- named2,
                       times <- times2, pos <- pos2, piece <- piece2, total <- total2,
                       phase <- phase2
Describe == INSTANCE Describer WITH times <- span

cut   == <<input, argv, optind, named, times, pos, piece, total, phase>>
recut == <<input2, argv2, optind2, named2, times2, pos2, piece2, total2, phase2>>
desc  == <<file, read, span, cnt, siz, printed>>
vars  == <<tool, cut, recut, desc>>

NoFile == [start |-> 0, recs |-> << >>]

Init ==
  /\ tool = "cut"
  /\ \E f \in Files, a \in FirstArgs : Cut!CutInit(f, a)
  /\ Recut!CutInit(NoFile, << >>)
  /\ Describe!DescInit(NoFile)

CutStep == tool = "cut" /\ Cut!CutNext /\ UNCHANGED <<tool, recut, desc>>

CutAgain ==
  /\ tool = "cut" /\ phase = "done"
  /\ tool' = "recut"
  /\ input2' = Cut!Output
  /\ argv2' \in AgainArgs
  /\ UNCHANGED <<cut, optind2, named2, times2, pos2, piece2, total2, phase2, desc>>

RecutStep == tool = "recut" /\ Recut!CutNext /\ UNCHANGED <<tool, cut, desc>>

DescribePiece ==
  /\ tool = "recut" /\ phase2 = "done"
  /\ tool' = "describe"
  /\ file' = Recut!Output
  /\ UNCHANGED <<cut, recut, read, span, cnt, siz, printed>>

DescribeStep == tool = "describe" /\ Describe!DescNext /\ UNCHANGED <<tool, cut, recut>>

Next == CutStep \/ CutAgain \/ RecutStep \/ DescribePiece \/ DescribeStep

Spec == Init /\ [][Next]_vars

-----------------------------------------------------------------------------

\* The heads count on from the first record's second without an overflow, and
\* that second is not 0, which the cutter takes for none.
Plain(recs) ==
  recs # << >> => recs[1].tv > 0 /\ \A i \in DOMAIN recs : recs[i].tv >= recs[1].tv

\* When the records of f were made, in plain files.
Second(f, r) == f.start + r.tv - f.recs[1].tv

Between(f, a, b) == {i \in DOMAIN f.recs : a <= Second(f, f.recs[i]) /\ Second(f, f.recs[i]) <= b}

\* How many of the numbers in I come no later than i.
Rank(I, i) == Cardinality({j \in I : j <= i})

\* q has the entries of s with the indices in I, in their order.
Chosen(q, s, I) ==
  /\ Len(q) = Cardinality(I)
  /\ \A i \in I : q[Rank(I, i)] = s[i]

\* What is in use after the first n records, in unbounded arithmetic.
InUse(recs, n) ==
  SumFunctionOnSet([i \in 1..n |-> CASE recs[i].op = "allocUVM" -> recs[i].size
                                     [] recs[i].op = "freeUVM" -> -recs[i].size
                                     [] OTHER -> 0], 1..n)

\* The sizes of the blocks of user memory that were allocated.
Blocks(recs) == {recs[i].size : i \in {j \in DOMAIN recs : recs[j].op = "allocUVM"}}

\* Every variable has its type, and a cutter never gets to a record without a
\* name and an interval.
TypeOK ==
  /\ tool \in {"cut", "recut", "describe"}
  /\ {phase, phase2} \subseteq {"args", "cut", "done", "usage", "crash"}
  /\ pos \in 0..Len(input.recs) /\ pos2 \in 0..Len(input2.recs) /\ read \in 0..Len(file.recs)
  /\ phase \in {"cut", "done"} => named /\ times.from > 0 /\ times.to > 0
  /\ phase2 \in {"cut", "done"} => named2 /\ times2.from > 0 /\ times2.to > 0
  /\ siz.inUse \in 0..(Word32 - 1) /\ siz.peak \in 0..(Word32 - 1)
  /\ cnt.total = read

\* The value of the last option o of a command line.
Value(line, o) ==
  line[CHOOSE i \in DOMAIN line :
         line[i].opt = o /\ \A j \in DOMAIN line : line[j].opt = o => j <= i].val

Names(line, o) == \E i \in DOMAIN line : line[i].opt = o

\* The records of f that a command line with -f and -t asks for.
Asked(f, line) == Between(f, Value(line, "f"), Value(line, "t"))

\* tos-cutDiagMemInfo.c:31: the piece is the records made between the -f and
\* the -t of the command line, both inclusive, in their order, wherever -F
\* comes in it, and the numbers printed at the end are the piece's.  What
\* line 32 says of -d is not what 87 does, except by chance.
CutIsTheInterval ==
  phase = "done" /\ Plain(input.recs) /\ ~Names(argv, "d") =>
    /\ Names(argv, "f") /\ Names(argv, "t")
    /\ Chosen(piece, input.recs, Asked(input, argv))
    /\ total.numbers = Len(piece)
    /\ total.length = SumFunctionOnSet([i \in DOMAIN piece |-> HeadSize + piece[i].body], DOMAIN piece)

\* A piece whose first record was made in the second From can be cut again,
\* and gives the records of the file that both command lines ask for.
\* Without a record in that second the name carries a time that is too early
\* (202), and the second cutter leaves out, or takes, what it should not.
RecutIsTheInterval ==
  phase2 = "done" /\ Plain(input.recs) /\ Plain(piece) /\ piece # << >>
    /\ ~Names(argv, "d") /\ ~Names(argv2, "d")
    /\ Second(input, piece[1]) = Value(argv, "f") =>
    Chosen(piece2, input.recs, Asked(input, argv) \cap Asked(input, argv2))

\* The describer agrees with the cutter about a piece: as many records, over
\* a time that begins at From, ends no later than To and is as long as the
\* one the heads tell, also when the last record is not the latest.
DescribedAsCut ==
  printed /\ Plain(piece) /\ Plain(piece2) /\ piece2 # << >> =>
    /\ cnt.total = total2.numbers
    /\ span.start = times2.from
    /\ span.end <= times2.to
    /\ \E i \in DOMAIN piece2 : span.end - span.start = piece2[i].tv - piece2[1].tv
    /\ \A i \in DOMAIN piece2 : span.end - span.start >= piece2[i].tv - piece2[1].tv

\* Of a piece that releases no more than it allocates, at any record, and less
\* than 4 GB, the sizes printed are those of the records: in use at the end,
\* the most in use, the largest block.
DescribedSizes ==
  printed /\ (\A n \in 0..Len(piece2) : InUse(piece2, n) \in 0..(Word32 - 1)) =>
    /\ siz.inUse = InUse(piece2, Len(piece2))
    /\ \A n \in 0..Len(piece2) : InUse(piece2, n) <= siz.peak
    /\ \E n \in 0..Len(piece2) : InUse(piece2, n) = siz.peak
    /\ siz.peakAlloc \in Blocks(piece2) \cup {0}
    /\ \A b \in Blocks(piece2) : b <= siz.peakAlloc
=============================================================================
