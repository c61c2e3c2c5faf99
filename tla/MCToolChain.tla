---------------------------- MODULE MCToolChain ----------------------------
(***************************************************************************)
(* A small instance of ToolChain: files of up to MaxLen records made in    *)
(* four seconds, command lines in every order the usage allows and some    *)
(* that it does not.                                                       *)
(***************************************************************************)
EXTENDS ToolChain, SequencesExt

CONSTANT MaxLen   \* bound: records in a file

\* The second in the names.
Start == 5

Made == {[tv |-> t, op |-> o[1], size |-> o[2], body |-> o[3]] :
           t \in 0..3, o \in {<<"allocUVM", 2, 1>>, <<"allocUVM", 1, 1>>, <<"freeUVM", 2, 2>>}}

\* One kind of record that is only counted is as good as another.
Identify == [tv |-> 1, op |-> "identify", size |-> 0, body |-> 3]

SmallFiles ==
  {[start |-> Start, recs |-> s] : s \in BoundedSeq(Made, MaxLen)}
    \cup {[start |-> Start, recs |-> <<Identify>> \o s] : s \in BoundedSeq(Made, MaxLen - 1)}
    \cup {[start |-> 0, recs |-> << >>]}

F    == [opt |-> "F", val |-> 0]
f(n) == [opt |-> "f", val |-> n]
t(n) == [opt |-> "t", val |-> n]
d(n) == [opt |-> "d", val |-> n]

Intervals ==
  {<<F, f(a), t(b)>> : a \in Start..(Start + 1), b \in (Start + 1)..(Start + 2)}
    \cup {<<t(Start + 2), F, f(Start)>>, <<F, f(Start), d(1)>>}
    \cup {<<d(1), F, f(Start)>>, <<f(Start), t(Start + 1)>>, <<F, d(2)>>}
    \cup {<<f(Start + 1), t(Start + 1), F, f(Start)>>, <<F, f(Start), t(-1)>>}

Later == {<<F, f(Start + a), t(Start + 2)>> : a \in 0..1}
=============================================================================
