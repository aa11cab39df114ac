-------------------------- MODULE ReturnLifecycle ---------------------------
(***************************************************************************)
(* Everything that writes returns.status: submission, warehouse inspection,*)
(* the administrator's override, carrier events, the tracking poll, refund *)
(* and credit requests, and the worker that settles a refund.              *)
(*                                                                         *)
(* Each writer reads the returns it is about, judges its transition by     *)
(* what it read, and commits some time later with an UPDATE by primary     *)
(* key.  Here the money is left out (RefundPipeline has it) and every      *)
(* writer is a transaction that was begun and then commits or rolls back.  *)
(***************************************************************************)
EXTENDS ReturnStatus

CONSTANTS
  Returns,
  Items,        \* the items of a return, each return its own
  Tracked,      \* the returns with a tracking number and a carrier; no code
                \* under src/ writes either column
  Writers,      \* the transactions that may be open at once
  Serialised    \* TRUE: transactions on one return do not overlap, as if each
                \* locked the rows it read; the code takes no such lock

ASSUME LifecycleParameters ==
  /\ Tracked \subseteq Returns
  /\ Serialised \in BOOLEAN

VARIABLES
  status,       \* returns.status, "none" before the return is submitted
  resolved,     \* the returns whose resolved_at is set
  items,        \* return_items.warehouse_decision, "unseen" while null
  dispatched,   \* the returns for which a refund task has been sent
  writer        \* the open transactions

vars == <<status, resolved, items, dispatched, writer>>

Decisions == {"accept", "partial_accept", "reject"}

NoMarks == [i \in Items |-> "unseen"]

\* A transaction: the returns it will write, the status it gives them, and the
\* item decisions it stores with it.
Idle == [moves |-> {}, to |-> "draft", marks |-> NoMarks]

Init ==
  /\ status = [r \in Returns |-> "none"]
  /\ resolved = {}
  /\ items = [r \in Returns |-> NoMarks]
  /\ dispatched = {}
  /\ writer = [w \in Writers |-> Idle]

-----------------------------------------------------------------------------
\* Mutant: the engine's decision is stored as the status.
SubmitRaw(r) ==
  /\ status[r] = "none"
  /\ \E d \in DOMAIN DecisionStatus : status' = [status EXCEPT ![r] = d]
  /\ UNCHANGED <<resolved, items, dispatched, writer>>

\* initiate_return creates the row, moves it through draft and pending and
\* gives it the rule engine's decision, all in one transaction; nobody else
\* knows of the return before.
Submit(r) ==
  /\ status[r] = "none"
  /\ CanTransition("draft", "pending")
  /\ \E d \in DOMAIN DecisionStatus :
       /\ CanTransition("pending", DecisionStatus[d])
       /\ status' = [status EXCEPT ![r] = DecisionStatus[d]]
       /\ resolved' = IF DecisionStatus[d] \in Resolved THEN resolved \cup {r} ELSE resolved
  /\ UNCHANGED <<items, dispatched, writer>>

Overlaps(moves) == \E v \in Writers : writer[v].moves \cap moves # {}

\* Mutant: the status is assigned without transition_to.
BeginUnguarded(w, moves, to, marks) ==
  /\ writer[w] = Idle
  /\ Serialised => ~Overlaps(moves)
  /\ \A r \in moves : status[r] # "none"
  /\ writer' = [writer EXCEPT ![w] = [moves |-> moves, to |-> to, marks |-> marks]]

\* A writer has read the returns it is about and will give them a status.
Begin(w, moves, to, marks) ==
  /\ writer[w] = Idle
  /\ Serialised => ~Overlaps(moves)
  /\ \A r \in moves : status[r] # "none" /\ CanTransition(status[r], to)
  /\ writer' = [writer EXCEPT ![w] = [moves |-> moves, to |-> to, marks |-> marks]]

BeginOverride(w, r) ==
  /\ \E to \in Status : Begin(w, {r}, to, NoMarks)
  /\ UNCHANGED <<status, resolved, items, dispatched>>

\* Mutant: anything short of full acceptance turns the return down.
VerdictOfAll(said) == IF said = {"accept"} THEN "received" ELSE "rejected"

\* warehouse_inspect: the outcome is judged by the decisions in the request,
\* not by those of all items.
Verdict(said) ==
  IF said = {"accept"} THEN "received"
  ELSE IF said \cap {"accept", "partial_accept"} # {} THEN "partial_received"
  ELSE "rejected"

\* The request lists decisions on some items.  It may name an item more than
\* once: the last one is stored, each of them counts.
BeginInspection(w, r) ==
  /\ \E marks \in [Items -> Decisions \cup {"unseen"}], said \in SUBSET Decisions :
       /\ marks # NoMarks
       /\ \A i \in Items : marks[i] # "unseen" => marks[i] \in said
       /\ Begin(w, {r}, Verdict(said), marks)
  /\ UNCHANGED <<status, resolved, items, dispatched>>

\* An InPost event, repeated or out of order: it finds its return by tracking
\* number and acts only on the status that precedes what it reports.
CarrierEvent(w, r) ==
  /\ r \in Tracked
  /\ \/ status[r] = "label_generated" /\ Begin(w, {r}, "in_transit", NoMarks)
     \/ status[r] = "in_transit" /\ Begin(w, {r}, "received", NoMarks)
  /\ UNCHANGED <<status, resolved, items, dispatched>>

\* The poll asks the carriers one by one about the returns in transit and
\* commits those that were delivered together, after the last answer.
PollTracking(w) ==
  /\ \E moves \in SUBSET {r \in Tracked : status[r] = "in_transit"} :
       moves # {} /\ Begin(w, moves, "received", NoMarks)
  /\ UNCHANGED <<status, resolved, items, dispatched>>

\* The refund's task is sent before the request commits.
BeginRefund(w, r) ==
  /\ status[r] \in Payable
  /\ Begin(w, {r}, "refund_initiated", NoMarks)
  /\ dispatched' = dispatched \cup {r}
  /\ UNCHANGED <<status, resolved, items>>

BeginCredit(w, r) ==
  /\ status[r] \in Payable
  /\ Begin(w, {r}, "store_credit_issued", NoMarks)
  /\ UNCHANGED <<status, resolved, items, dispatched>>

\* The worker's last transaction, after the provider has paid.
BeginSettlement(w, r) ==
  /\ r \in dispatched
  /\ Begin(w, {r}, "refunded", NoMarks)
  /\ UNCHANGED <<status, resolved, items, dispatched>>

\* Mutant: resolved_at is not stamped.
CommitWithoutStamp(w) ==
  LET t == writer[w] IN
  /\ t # Idle
  /\ status' = [r \in Returns |-> IF r \in t.moves THEN t.to ELSE status[r]]
  /\ items' = [r \in Returns |-> [i \in Items |->
                 IF r \in t.moves /\ t.marks[i] # "unseen" THEN t.marks[i] ELSE items[r][i]]]
  /\ writer' = [writer EXCEPT ![w] = Idle]
  /\ UNCHANGED <<resolved, dispatched>>

\* The UPDATEs are by primary key and test nothing.
Commit(w) ==
  LET t == writer[w] IN
  /\ t # Idle
  /\ status' = [r \in Returns |-> IF r \in t.moves THEN t.to ELSE status[r]]
  /\ resolved' = IF t.to \in Resolved THEN resolved \cup t.moves ELSE resolved
  /\ items' = [r \in Returns |-> [i \in Items |->
                 IF r \in t.moves /\ t.marks[i] # "unseen" THEN t.marks[i] ELSE items[r][i]]]
  /\ writer' = [writer EXCEPT ![w] = Idle]
  /\ UNCHANGED dispatched

\* An error, a lost process or a lost connection: nothing was written.
Rollback(w) ==
  /\ writer[w] # Idle
  /\ writer' = [writer EXCEPT ![w] = Idle]
  /\ UNCHANGED <<status, resolved, items, dispatched>>

Next ==
  \/ \E r \in Returns : Submit(r)
  \/ \E w \in Writers, r \in Returns :
       \/ BeginOverride(w, r) \/ BeginInspection(w, r) \/ CarrierEvent(w, r)
       \/ BeginRefund(w, r) \/ BeginCredit(w, r) \/ BeginSettlement(w, r)
  \/ \E w \in Writers : PollTracking(w) \/ Commit(w) \/ Rollback(w)

Spec == Init /\ [][Next]_vars

-----------------------------------------------------------------------------
Transaction ==
  [ moves : SUBSET Returns, to : Status, marks : [Items -> Decisions \cup {"unseen"}] ]

\* The type invariant: a submitted return has a status of the table.
TypeOK ==
  /\ status \in [Returns -> Status \cup {"none"}]
  /\ resolved \subseteq Returns
  /\ items \in [Returns -> [Items -> Decisions \cup {"unseen"}]]
  /\ dispatched \subseteq Returns
  /\ writer \in [Writers -> Transaction]

\* Golden Rule #2 as the documentation states it (README.md:285): no illegal
\* transition reaches the database, whichever writers (override, inspection,
\* carrier event, poll, requests, worker) are at work on a return.
LegalMoves ==
  [][ \A r \in Returns : status[r] # "none" /\ status'[r] # status[r] =>
        CanTransition(status[r], status'[r]) ]_vars

Machine == INSTANCE ReturnStateMachine

\* All writers together implement the state machine: a return appears in a
\* decided status and moves along the table (return_model.py:69).
KeepsMachine == Machine!Spec

Stamped(r) == r \in resolved <=> status[r] \in Resolved

\* resolved_at tells exactly which returns are resolved: it is set on every way
\* into a resolved status and no return leaves those again (return_model.py:82).
ResolvedAgrees == \A r \in Returns : Stamped(r)

Accepted(r) == \E i \in Items : items[r][i] \in {"accept", "partial_accept"}

\* A return is not turned down while the warehouse holds an item of it that was
\* accepted, however inspections, overrides and events follow each other
\* (service.py:166-176 looks only at the items of one request).
RejectedHasNothingAccepted == \A r \in Returns : status[r] = "rejected" => ~Accepted(r)

\* A return is inspected once: no later inspection, of these or other items,
\* changes a decision that was stored (service.py:158).
DecisionsStand ==
  [][ \A r \in Returns, i \in Items :
        items[r][i] # "unseen" => items'[r][i] = items[r][i] ]_vars

\* Two transactions about the return are never open at once: what the code would
\* have if it locked the row it reads, and what Serialised gives the runs.
Apart(r) ==
  \A v, w \in Writers : r \in writer[v].moves /\ r \in writer[w].moves => v = w

-----------------------------------------------------------------------------
(* The strengthenings the proofs of LifecycleProofs are by induction on:   *)
(* for a return whose transactions stay apart.                             *)

\* What a transaction read of the return is still so when it commits.
NothingStale(r) ==
  \A w \in Writers : r \in writer[w].moves =>
    status[r] \in Status /\ CanTransition(status[r], writer[w].to)

\* Where a return can be once it has been inspected: no move leaves these, and
\* none of them can be inspected.
Inspected == Resolving \cup {"received", "partial_received", "rejected"}

InspectedOnce(r) == items[r] # NoMarks => status[r] \in Inspected

\* The decisions a transaction carries agree with the status it carries.
MarksAgree ==
  \A w \in Writers : writer[w].marks # NoMarks =>
    /\ writer[w].to \in {"received", "partial_received", "rejected"}
    /\ writer[w].to = "rejected" => \A i \in Items : writer[w].marks[i] \in {"reject", "unseen"}
=============================================================================
