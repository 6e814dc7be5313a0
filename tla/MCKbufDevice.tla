---------------------------- MODULE MCKbufDevice ----------------------------
(* Small instances of KbufDevice for TLC.                                  *)
EXTENDS KbufInv, TLC

CONSTANTS r1, r2, w1, w2, p1, c1, c2

\* Threads of one kind are interchangeable: no property names one of them.
Symmetry == Permutations({r1, r2}) \cup Permutations({w1, w2})
=============================================================================
