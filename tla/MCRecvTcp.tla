----------------------------- MODULE MCRecvTcp -----------------------------
(***************************************************************************)
(* A small instance of RecvTcp: two processes, streams with a gap in their *)
(* numbers and one whose numbers are not in order.                         *)
(***************************************************************************)
EXTENDS RecvTcp, TLC

CONSTANTS c1, c2, pid1, pid2

TwoPids == (c1 :> pid1) @@ (c2 :> pid2)

SomeStreams == (c1 :> {<<1, 2, 4>>, <<1, 3, 2>>, <<1, 4, 2>>}) @@ (c2 :> {<<1, 2>>})
=============================================================================
