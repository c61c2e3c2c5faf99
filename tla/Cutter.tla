------------------------------- MODULE Cutter -------------------------------
(***************************************************************************)
(* tos-cutDiagMemInfo: copies the records of an interval of time from one  *)
(* file to another.                                                        *)
(*                                                                         *)
(* A file is the second its name carries and its records.  A record has    *)
(* the second of its head (tv), what it reports (op) and a size.  A new    *)
(* file is named after From, whatever its first record is; the function    *)
(* that reads the second back from a name is not in the repository, and is *)
(* taken to find what strftime has put there.                              *)
(***************************************************************************)
EXTENDS Integers, Sequences

CONSTANT
  HeadSize    \* sizeof(TOS_DiagMemHead_T)

VARIABLES
  input,      \* the file to cut
  argv,       \* the options
  optind,     \* how many of them are parsed
  named,      \* pFName is set
  times,      \* StartSecond, BaseSecond, FromSecond, ToSecond
  pos,        \* records read
  piece,      \* what was written
  total,      \* TotalNumbers and TotalLength
  phase       \* "args", "cut", "done", "usage" when __printUsage exits, or
              \* "crash" when there is no file to write to

cutVars == <<input, argv, optind, named, times, pos, piece, total, phase>>

NoTimes == [start |-> 0, base |-> 0, from |-> 0, to |-> 0]

CutInit(file, options) ==
  /\ input = file /\ argv = options /\ optind = 0
  /\ named = FALSE /\ times = NoTimes
  /\ pos = 0 /\ piece = << >>
  /\ total = [numbers |-> 0, length |-> 0]
  /\ phase = "args"

-----------------------------------------------------------------------------

\* The options are parsed in the order given, and -d takes the start there is.
Parsed(t, o) ==
  CASE o.opt = "F" -> [t EXCEPT !.start = input.start]
    [] o.opt = "f" -> [t EXCEPT !.from = o.val]
    [] o.opt = "t" -> [t EXCEPT !.to = o.val]
    [] o.opt = "d" -> [t EXCEPT !.to = t.start + o.val]

\* A date that does not scan, or a duration that is no number.
Unread == -1

\* A name without a time, a date or a duration that cannot be read.
Refused(o) == IF o.opt = "F" THEN input.start = 0 ELSE o.val = Unread

ParseArg ==
  /\ phase = "args" /\ optind < Len(argv)
  /\ LET o == argv[optind + 1]
     IN /\ times' = IF Refused(o) THEN times ELSE Parsed(times, o)
        /\ named' = (named \/ o.opt = "F")
        /\ phase' = IF Refused(o) THEN "usage" ELSE "args"
  /\ optind' = optind + 1
  /\ UNCHANGED <<input, argv, pos, piece, total>>

\* Mutant: what is missing is not asked for.
OpenUnchecked ==
  /\ phase = "args" /\ optind = Len(argv)
  /\ phase' \in {"cut", "usage", "crash"}
  /\ UNCHANGED <<input, argv, optind, named, times, pos, piece, total>>

\* Without -F, without an interval, or if the name has no '_' or too much
\* before it: usage, and exit.  If fopen fails, _tos_abort does nothing: the
\* first fwrite, or fclose, is without a file.
OpenOutput ==
  /\ phase = "args" /\ optind = Len(argv)
  /\ \/ phase' = "usage"
     \/ named /\ times.from # 0 /\ times.to # 0 /\ phase' \in {"cut", "crash"}
  /\ UNCHANGED <<input, argv, optind, named, times, pos, piece, total>>

\* TOS_DiagMIF_getTimestamp_withStartBaseSencond: a second below the base is
\* taken for one after an overflow.
Timestamp(tv, start, base) == start + (IF tv >= base THEN tv - base ELSE base + tv)

\* Mutant: the interval is half-open.
WithinHalfOpen(t, second) == t.from <= second /\ second < t.to

\* From and To are both in the interval.
Within(t, second) == t.from <= second /\ second <= t.to

\* BaseSecond is set by the first record, or again as long as it is 0.
Based(t, r) == IF t.base = 0 THEN [t EXCEPT !.base = r.tv] ELSE t

\* __inputProcEachDiagMemInfo_toCut and __saveCurDMI.
CutRecord ==
  /\ phase = "cut" /\ pos < Len(input.recs)
  /\ LET r == input.recs[pos + 1]
         t == Based(times, r)
     IN /\ times' = t
        /\ IF Within(t, Timestamp(r.tv, t.start, t.base))
             THEN /\ piece' = Append(piece, r)
                  /\ total' = [numbers |-> total.numbers + 1,
                               length  |-> total.length + HeadSize + r.body]
             ELSE UNCHANGED <<piece, total>>
  /\ pos' = pos + 1
  /\ UNCHANGED <<input, argv, optind, named, phase>>

CloseOutput ==
  /\ phase = "cut" /\ pos = Len(input.recs)
  /\ phase' = "done"
  /\ UNCHANGED <<input, argv, optind, named, times, pos, piece, total>>

CutNext == ParseArg \/ OpenOutput \/ CutRecord \/ CloseOutput

\* Mutant: the new file keeps the start of the old one.
OutputKeepsStart == [start |-> times.start, recs |-> piece]

\* The file written: its name carries From.
Output == [start |-> times.from, recs |-> piece]
=============================================================================
