--------------------------- MODULE PreloadLedger ---------------------------
(***************************************************************************)
(* The tracker's maps read as the ledger of module Ledger.                 *)
(***************************************************************************)
EXTENDS Preload

\* The maps, read as a ledger; an entry that is not the block's own reads as
\* a block of no thread.
Block(a) ==
  LET exact == \A u \in Holders(a) : u = by[a] /\ memMap[u][a] = size[a]
  IN [listed |-> Tracked(a), tid |-> IF exact THEN by[a] ELSE NoThread, size |-> size[a]]

Blocks == [a \in Addr |-> Block(a)]

L == INSTANCE Ledger WITH block <- Blocks

\* With the tracker on, the hooks implement the ledger: no step lists a block
\* that is not allocated, or gives back or moves one that is still listed.
KeepsLedger == L!Spec
=============================================================================
