--------------------------- MODULE MCKbufLifecycle ---------------------------
(* Small instances of KbufLifecycle for TLC.                               *)
EXTENDS KbufLifeInv, TLC

CONSTANTS p1, p2

\* The threads are interchangeable: no property names one of them.
Symmetry == Permutations({p1, p2})
=============================================================================
