---------------------------- MODULE MCLifecycle -----------------------------
(***************************************************************************)
(* Small instances of the return lifecycle for TLC.                        *)
(***************************************************************************)
EXTENDS ReturnLifecycle, TLC

CONSTANTS r1, r2, i1, i2, w1, w2

\* Writers are interchangeable, and so are a return's items and the returns.
Symmetry == Permutations(Writers) \cup Permutations(Items) \cup Permutations(Returns)
=============================================================================
