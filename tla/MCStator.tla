------------------------------ MODULE MCStator ------------------------------
(***************************************************************************)
(* Small instances of Stator: a heap block and a group of pages.           *)
(***************************************************************************)
EXTENDS Stator, TLC

CONSTANTS heap, pages, s1, wide

Alloc(a, s, n) == [free |-> FALSE, page |-> a = pages, addr |-> a, size |-> n, stack |-> s]

\* A release has a call stack too, which the converter ignores.
Freed(a) == [free |-> TRUE, page |-> a = pages, addr |-> a, size |-> 0, stack |-> s1]

\* Pages are released as pages, and recorded in 32-bit records.
MatchedRecords ==
  {Alloc(heap, s, n) : s \in {s1, wide}, n \in {1, 4}}
    \cup {Alloc(pages, s, n) : s \in {s1}, n \in {0, 1}}
    \cup {Freed(a) : a \in {heap, pages}}

HeapRecords == {Alloc(heap, s1, 1), Freed(heap)}
=============================================================================
