------------------------- MODULE ReturnStateMachine -------------------------
(***************************************************************************)
(* What the returns table promises to its readers: a return appears in a   *)
(* status the rule engine can give it, and its committed status then only  *)
(* moves along the transition table.  ReturnLifecycle implements it when   *)
(* the transactions on a return are serialised.                            *)
(***************************************************************************)
EXTENDS ReturnStatus

CONSTANT Returns

VARIABLE status   \* [Returns -> Status \cup {"none"}], "none" before submission

\* A return leaves draft and pending in the transaction that creates it.
Submitted == {DecisionStatus[d] : d \in DOMAIN DecisionStatus}

Init == status = [r \in Returns |-> "none"]

Moves(r, from, to) ==
  \/ to = from
  \/ from = "none" /\ to \in Submitted
  \/ from \in Status /\ CanTransition(from, to)

\* One transaction may move several returns (the tracking poll does).
Next ==
  \E new \in [Returns -> Status \cup {"none"}] :
    /\ \A r \in Returns : Moves(r, status[r], new[r])
    /\ status' = new

Spec == Init /\ [][Next]_status
=============================================================================
