---------------------------- MODULE Compensation ----------------------------
(***************************************************************************)
(* What the resolution of a return promises, whatever the machinery: a     *)
(* return is resolved at most once, either by a refund of one offer or by  *)
(* store credit; money leaves only for the offer that was decided, and at  *)
(* most once.  RefundPipeline is checked to implement it.                  *)
(***************************************************************************)
CONSTANTS Returns, Offers

VARIABLES
  decision,   \* [Returns -> Offers \cup {"open", "credit"}]
  paid        \* [Returns -> BOOLEAN], the provider has moved the money

vars == <<decision, paid>>

Init ==
  /\ decision = [r \in Returns |-> "open"]
  /\ paid = [r \in Returns |-> FALSE]

Decide(r, d) ==
  /\ decision[r] = "open"
  /\ decision' = [decision EXCEPT ![r] = d]
  /\ UNCHANGED paid

Pay(r) ==
  /\ decision[r] \in Offers
  /\ ~paid[r]
  /\ paid' = [paid EXCEPT ![r] = TRUE]
  /\ UNCHANGED decision

Next == \E r \in Returns : Pay(r) \/ \E d \in Offers \cup {"credit"} : Decide(r, d)

Spec == Init /\ [][Next]_vars
=============================================================================
