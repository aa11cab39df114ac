---------------------------- MODULE ReturnStatus ----------------------------
(***************************************************************************)
(* The return state machine of core/models/return_model.py: the table of   *)
(* legal transitions and the sets of statuses the handlers test for.  It   *)
(* has no state of its own; the modules that move a return EXTEND it.      *)
(***************************************************************************)

VALID_TRANSITIONS ==
  [ draft               |-> {"pending", "cancelled"},
    pending             |-> {"requires_inspection", "approved", "rejected", "keep_it"},
    requires_inspection |-> {"approved", "rejected", "partial_received"},
    approved            |-> {"label_generated", "keep_it"},
    label_generated     |-> {"in_transit", "cancelled"},
    in_transit          |-> {"received", "partial_received"},
    received            |-> {"refund_initiated", "store_credit_issued"},
    partial_received    |-> {"refund_initiated", "store_credit_issued"},
    keep_it             |-> {"refund_initiated"},
    refund_initiated    |-> {"refunded", "store_credit_issued"},
    refunded            |-> {"closed"},
    store_credit_issued |-> {"closed"},
    rejected            |-> {"closed"},
    cancelled           |-> {"closed"},
    closed              |-> {} ]

Status == DOMAIN VALID_TRANSITIONS

\* Mutant: a failed refund may be put back to "received".
CanReopen(from, to) ==
  to \in VALID_TRANSITIONS[from] \/ (from = "refund_initiated" /\ to = "received")

\* transition_to raises ValueError, and assigns nothing, unless this holds.
CanTransition(from, to) == to \in VALID_TRANSITIONS[from]

\* Mutant: an initiated refund may be initiated or credited again.
PayableAgain == {"received", "partial_received", "keep_it", "approved", "refund_initiated"}

\* The statuses from which initiate_refund and issue_store_credit start.
Payable == {"received", "partial_received", "keep_it", "approved"}

\* decision_to_status: what the rule engine's decision makes of a new return.
DecisionStatus ==
  [ auto_approved      |-> "approved",
    keep_it            |-> "keep_it",
    require_inspection |-> "requires_inspection",
    rejected           |-> "rejected",
    no_match           |-> "requires_inspection" ]

\* The statuses on whose entry transition_to stamps resolved_at.
Resolved == {"refunded", "store_credit_issued", "rejected", "closed"}

\* Where a return can be once money has been decided: no legal move leaves it.
Resolving == {"refund_initiated", "refunded", "store_credit_issued", "closed"}
=============================================================================
