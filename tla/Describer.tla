------------------------------ MODULE Describer ------------------------------
(***************************************************************************)
(* tos-descDiagMemInfo: the summary of a file.  Pages and slabs are only   *)
(* counted, like the records that identify the source; blocks of user      *)
(* memory (UVM) are also added up, in 32 bits.                             *)
(***************************************************************************)
EXTENDS Integers, Sequences

CONSTANT
  Word32      \* 2^32

VARIABLES
  file,       \* the file to describe
  read,       \* records read
  times,      \* StartTime, TvSecBase, EndTime
  cnt,        \* CNT: how many records, of each kind
  siz,        \* SIZ: InUseBytes, PeakInUseBytes, PeakAllocBytes of UVM
  printed     \* the summary is printed

descVars == <<file, read, times, cnt, siz, printed>>

Kinds == {"allocUVM", "freeUVM", "allocPage", "freePage", "allocSlab", "freeSlab",
          "identify", "other"}

DescInit(f) ==
  /\ file = f
  /\ read = 0
  /\ times = [start |-> 0, base |-> 0, end |-> 0]
  /\ cnt = [total |-> 0, kind |-> [k \in Kinds |-> 0]]
  /\ siz = [inUse |-> 0, peak |-> 0, peakAlloc |-> 0]
  /\ printed = FALSE

-----------------------------------------------------------------------------

\* The first record gives the base, and the name the start.
Started(t, r) ==
  IF t.start = 0 THEN [start |-> file.start, base |-> r.tv, end |-> file.start] ELSE t

Delta(t, r) == IF r.tv >= t.base THEN r.tv - t.base ELSE t.base + r.tv

\* Mutant: the end is the time of the record read last.
EndsWithLast(t, r) == [t EXCEPT !.end = t.start + Delta(t, r)]

\* EndTime is the latest one seen.
Extended(t, r) == IF t.end - t.start < Delta(t, r) THEN [t EXCEPT !.end = t.start + Delta(t, r)] ELSE t

Counted(c, r) == [total |-> c.total + 1, kind |-> [c.kind EXCEPT ![r.op] = @ + 1]]

\* Mutant: the peak is compared before the block is added.
SizedLate(s, r) ==
  CASE r.op = "allocUVM" ->
         [inUse     |-> (s.inUse + r.size) % Word32,
          peakAlloc |-> IF r.size > s.peakAlloc THEN r.size ELSE s.peakAlloc,
          peak      |-> IF s.inUse > s.peak THEN s.inUse ELSE s.peak]
    [] r.op = "freeUVM" -> [s EXCEPT !.inUse = (@ - r.size) % Word32]
    [] OTHER -> s

\* The block is added, and then compared.
Sized(s, r) ==
  CASE r.op = "allocUVM" ->
         LET inUse == (s.inUse + r.size) % Word32
         IN [inUse     |-> inUse,
             peakAlloc |-> IF r.size > s.peakAlloc THEN r.size ELSE s.peakAlloc,
             peak      |-> IF inUse > s.peak THEN inUse ELSE s.peak]
    [] r.op = "freeUVM" -> [s EXCEPT !.inUse = (@ - r.size) % Word32]
    [] OTHER -> s

\* __procEachDiagMemInfo_toDescSummary.
DescRecord ==
  /\ ~printed /\ read < Len(file.recs)
  /\ LET r == file.recs[read + 1]
     IN /\ times' = Extended(Started(times, r), r)
        /\ cnt' = Counted(cnt, r)
        /\ siz' = Sized(siz, r)
  /\ read' = read + 1
  /\ UNCHANGED <<file, printed>>

\* __printDescSummary.
PrintSummary ==
  /\ ~printed /\ read = Len(file.recs)
  /\ printed' = TRUE
  /\ UNCHANGED <<file, read, times, cnt, siz>>

DescNext == DescRecord \/ PrintSummary
=============================================================================
