------------------------------- MODULE Ledger -------------------------------
(***************************************************************************)
(* What a leak tracker promises of every block while it is on.  A block    *)
(* belongs to the thread that allocated it, has the size it was allocated  *)
(* with, and is either listed in the report or not; an address changes     *)
(* hands only while it is not listed.                                      *)
(***************************************************************************)
EXTENDS Naturals

CONSTANTS Thread, NoThread, Addr, Size

VARIABLE block  \* [Addr -> Block]

Nothing == [listed |-> FALSE, tid |-> NoThread, size |-> 0]

Held(t, s) == [listed |-> FALSE, tid |-> t, size |-> s]

InUse(a) == block[a].size # 0

Init == block = [a \in Addr |-> Nothing]

\* An unused address becomes a block of a thread.
Take(t, a, s) ==
  /\ block[a] = Nothing
  /\ block' = [block EXCEPT ![a] = Held(t, s)]

\* The block appears in the report, or leaves it.
List(a) ==
  /\ InUse(a) /\ ~block[a].listed
  /\ block' = [block EXCEPT ![a].listed = TRUE]

Unlist(a) ==
  /\ InUse(a) /\ block[a].listed
  /\ block' = [block EXCEPT ![a].listed = FALSE]

\* Only a block that is not listed is given back, or moved.
Drop(a) ==
  /\ InUse(a) /\ ~block[a].listed
  /\ block' = [block EXCEPT ![a] = Nothing]

Move(t, a, b, s) ==
  /\ InUse(a) /\ ~block[a].listed
  /\ b = a \/ block[b] = Nothing
  /\ block' = [block EXCEPT ![a] = Nothing, ![b] = Held(t, s)]

Next ==
  \/ \E a \in Addr : List(a) \/ Unlist(a) \/ Drop(a)
  \/ \E t \in Thread, a \in Addr, s \in Size : Take(t, a, s)
  \/ \E t \in Thread, a, b \in Addr, s \in Size : Move(t, a, b, s)

Spec == Init /\ [][Next]_block
=============================================================================
