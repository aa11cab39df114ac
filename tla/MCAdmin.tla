------------------------------ MODULE MCAdmin ------------------------------
(***************************************************************************)
(* Two administrators and an address without an account.                   *)
(***************************************************************************)
EXTENDS AdminSafety, TLC

CONSTANTS u1, u2, u3, k1, k2, q1, q2, q3

SomeChanges ==
  {[role |-> "viewer"], [active |-> FALSE], [active |-> TRUE], [role |-> "admin", active |-> TRUE]}

Symmetry ==
  Permutations({u1, u2}) \cup Permutations(Tokens) \cup Permutations(Requests)
=============================================================================
