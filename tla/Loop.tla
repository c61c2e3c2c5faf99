-------------------------------- MODULE Loop --------------------------------
(***************************************************************************)
(* A loop over a sequence, as a recursive function: what Step makes of w,  *)
(* entry after entry.  (It is FoldLeft of the community modules, in a form *)
(* that can be proved about for every sequence.)                           *)
(***************************************************************************)
EXTENDS Integers, Sequences

CONSTANT Step(_, _)

\* What w has become after the first i entries of s.
After(w, s) ==
  LET after[i \in 0..Len(s)] == IF i = 0 THEN w ELSE Step(after[i - 1], s[i])
  IN after

Over(w, s) == After(w, s)[Len(s)]
=============================================================================
