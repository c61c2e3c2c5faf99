----------------------------- MODULE MCPreload -----------------------------
(***************************************************************************)
(* Small instances of Preload: two threads, two addresses.                 *)
(***************************************************************************)
EXTENDS PreloadLedger, TLC

CONSTANTS t1, t2, a1, a2

On      == <<1, 0, 0, 0>>
OnAgain == <<1, 5, 0, 0>>
Off     == <<2, 0, 0, 0>>
OnFrom2 == <<1, 0, 2, 0>>

NoEdit == {}

\* On, off by a number that is not 1 and on again, or off for good by a file that
\* is empty when it is read.
Sessions == {<<On, Off>>, <<Off, OnAgain>>, <<On, << >>>>}

Symmetric == Permutations({t1, t2}) \cup Permutations({a1, a2})
=============================================================================
