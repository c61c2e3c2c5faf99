------------------------------- MODULE MCRecv -------------------------------
(***************************************************************************)
(* A small instance of Recv: two devices, one with two processes, one of   *)
(* which has the pid of the other device's process.                        *)
(***************************************************************************)
EXTENDS Recv

CONSTANTS ip1, ip2, pid1, pid2

Sources == {<<ip1, pid1>>, <<ip2, pid1>>, <<ip2, pid2>>}
=============================================================================
