------------------------------- MODULE MCKsef -------------------------------
(***************************************************************************)
(* Two returns, two executions and two days.                               *)
(***************************************************************************)
EXTENDS KsefSafety, TLC

CONSTANTS r1, r2, w1, w2

AnItem(net, gross, rate, requested, accepted) ==
  [net |-> net, gross |-> gross, rate |-> rate, requested |-> requested,
   accepted |-> accepted, ordered |-> TRUE]

\* A price whose VAT ends in half a grosz, at every rate; a rate and a price
\* that are missing; an item that was not inspected, one accepted in part, one
\* refused, one of which less than none was accepted, and one that is not on the order.
OneList == <<
  AnItem(50, 62, 2300, 3, NoQuantity), AnItem(10, 11, 500, 1, 0), AnItem(1999, 2159, 800, 2, 1),
  AnItem(30, 37, 2300, 2, -1),
  [AnItem(100, 123, 2300, 1, 1) EXCEPT !.ordered = FALSE], AnItem(0, 150, 0, 1, 1) >>

SomeLists == {OneList}
=============================================================================
