------------------------------ MODULE MCRefund ------------------------------
(***************************************************************************)
(* Small instances of the refund pipeline for TLC.                         *)
(***************************************************************************)
EXTENDS RefundSafety, TLC

CONSTANTS r1, q1, q2, q3, o1, o2

\* Every request addresses the one return.
OneReturn == [q \in Requests |-> r1]

\* Requests are interchangeable: they address the same return, and no safety
\* property tells them or the offers apart.
Symmetry == Permutations(Requests) \cup Permutations(Offers)
=============================================================================
