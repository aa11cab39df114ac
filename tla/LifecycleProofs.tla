-------------------------- MODULE LifecycleProofs ---------------------------
(***************************************************************************)
(* Proofs about the return lifecycle, for any sets of returns, items,      *)
(* tracked returns and writers.  Type correctness holds whatever overlaps; *)
(* the rest is for returns whose transactions do not overlap.              *)
(***************************************************************************)
EXTENDS ReturnLifecycle, Integers, TLAPS

Marks == [Items -> Decisions \cup {"unseen"}]

Outcome == {"received", "partial_received", "rejected"}

\* What the proofs need of the transition table: it stays within the statuses,
\* a resolved return stays resolved and an inspected one inspected, and no
\* inspection is legal on an inspected return.
LEMMA Table ==
  /\ "none" \notin Status
  /\ Outcome \subseteq Status
  /\ {"in_transit", "refund_initiated", "store_credit_issued", "refunded", "draft"} \subseteq Status
  /\ Payable \subseteq Status
  /\ Resolved \subseteq Status
  /\ \A s \in Status : \A t : CanTransition(s, t) => t \in Status
  /\ \A s \in Resolved : \A t : CanTransition(s, t) => t \in Resolved
  /\ \A s \in Inspected : \A t : CanTransition(s, t) => t \in Inspected /\ t \notin Outcome
  /\ \A d \in DOMAIN DecisionStatus : DecisionStatus[d] \in Status
<1>1. Status = {"draft", "pending", "requires_inspection", "approved", "label_generated",
                "in_transit", "received", "partial_received", "keep_it", "refund_initiated",
                "refunded", "store_credit_issued", "rejected", "cancelled", "closed"}
  BY DEF Status, VALID_TRANSITIONS
<1>2. \A s \in Status : \A t : CanTransition(s, t) => t \in Status
  BY <1>1 DEF CanTransition, VALID_TRANSITIONS
<1>3. \A s \in Resolved : \A t : CanTransition(s, t) => t \in Resolved
  BY DEF CanTransition, VALID_TRANSITIONS, Resolved
<1>4. \A s \in Inspected : \A t : CanTransition(s, t) => t \in Inspected /\ t \notin Outcome
  BY DEF CanTransition, VALID_TRANSITIONS, Inspected, Resolving, Outcome
<1>5. \A d \in DOMAIN DecisionStatus : DecisionStatus[d] \in Status
  BY <1>1 DEF DecisionStatus
<1> QED  BY <1>1, <1>2, <1>3, <1>4, <1>5 DEF Outcome, Payable, Resolved

\* What every beginning of a transaction amounts to: it changes no row, and the
\* decisions it carries, if any, agree with the status it carries.
Opens(w) ==
  \E moves \in SUBSET Returns, to \in Status, marks \in Marks :
    /\ Begin(w, moves, to, marks)
    /\ marks # NoMarks =>
         /\ to \in Outcome
         /\ to = "rejected" => \A i \in Items : marks[i] \in {"reject", "unseen"}
    /\ UNCHANGED <<status, resolved, items>>
    /\ dispatched' \in {dispatched} \cup {dispatched \cup {r} : r \in Returns}

\* A request that inspects nothing, and no transaction at all, are well typed.
LEMMA NoMarksTyped == NoMarks \in Marks /\ Idle \in Transaction
BY Table DEF NoMarks, Marks, Idle, Transaction

\* Every step submits a return, begins, commits or rolls back one transaction.
LEMMA StepShape ==
  ASSUME TypeOK, [Next]_vars
  PROVE  \/ \E r \in Returns : Submit(r)
         \/ \E w \in Writers : Opens(w) \/ Commit(w) \/ Rollback(w)
         \/ UNCHANGED vars
<1>1. ASSUME NEW w \in Writers, NEW r \in Returns, BeginOverride(w, r) PROVE Opens(w)
  BY <1>1, NoMarksTyped DEF BeginOverride, Opens
<1>2. ASSUME NEW w \in Writers, NEW r \in Returns, BeginInspection(w, r) PROVE Opens(w)
  <2>1. PICK marks \in Marks, said \in SUBSET Decisions :
          /\ \A i \in Items : marks[i] # "unseen" => marks[i] \in said
          /\ Begin(w, {r}, Verdict(said), marks)
    BY <1>2 DEF BeginInspection, Marks
  <2>2. Verdict(said) \in Outcome
    BY DEF Verdict, Outcome
  <2>3. Verdict(said) = "rejected" => said \subseteq {"reject"}
    BY DEF Verdict, Decisions
  <2> QED  BY <1>2, <2>1, <2>2, <2>3, Table DEF BeginInspection, Opens
<1>3. ASSUME NEW w \in Writers, NEW r \in Returns, CarrierEvent(w, r) PROVE Opens(w)
  BY <1>3, NoMarksTyped, Table DEF CarrierEvent, Opens, Outcome
<1>4. ASSUME NEW w \in Writers, PollTracking(w) PROVE Opens(w)
  <2>1. PICK moves \in SUBSET Tracked : Begin(w, moves, "received", NoMarks)
    BY <1>4 DEF PollTracking
  <2>2. moves \in SUBSET Returns
    BY LifecycleParameters
  <2> QED  BY <1>4, <2>1, <2>2, NoMarksTyped, Table DEF PollTracking, Opens, Outcome
<1>5. ASSUME NEW w \in Writers, NEW r \in Returns, BeginRefund(w, r) PROVE Opens(w)
  BY <1>5, NoMarksTyped, Table DEF BeginRefund, Opens
<1>6. ASSUME NEW w \in Writers, NEW r \in Returns, BeginCredit(w, r) PROVE Opens(w)
  BY <1>6, NoMarksTyped, Table DEF BeginCredit, Opens
<1>7. ASSUME NEW w \in Writers, NEW r \in Returns, BeginSettlement(w, r) PROVE Opens(w)
  BY <1>7, NoMarksTyped, Table DEF BeginSettlement, Opens
<1> QED  BY <1>1, <1>2, <1>3, <1>4, <1>5, <1>6, <1>7 DEF Next

-----------------------------------------------------------------------------
(* Type correctness.                                                       *)

\* No step leaves the types.
LEMMA TypeStep ==
  ASSUME TypeOK, [Next]_vars
  PROVE  TypeOK'
<1>1. ASSUME NEW r \in Returns, Submit(r) PROVE TypeOK'
  BY <1>1, Table DEF Submit, TypeOK
<1>2. ASSUME NEW w \in Writers, Opens(w) PROVE TypeOK'
  <2>1. PICK moves \in SUBSET Returns, to \in Status, marks \in Marks :
          Begin(w, moves, to, marks)
    BY <1>2 DEF Opens
  <2>2. [moves |-> moves, to |-> to, marks |-> marks] \in Transaction
    BY DEF Transaction, Marks
  <2>3. writer' \in [Writers -> Transaction]
    BY <2>1, <2>2 DEF Begin, TypeOK
  <2> QED  BY <1>2, <2>3 DEF Opens, TypeOK
<1>3. ASSUME NEW w \in Writers, Commit(w) PROVE TypeOK'
  <2>1. writer[w].moves \subseteq Returns /\ writer[w].to \in Status /\ writer[w].marks \in Marks
    BY DEF TypeOK, Transaction, Marks
  <2>2. status' \in [Returns -> Status \cup {"none"}]
    BY <1>3, <2>1 DEF Commit, TypeOK
  <2>3. items' \in [Returns -> [Items -> Decisions \cup {"unseen"}]]
    BY <1>3, <2>1 DEF Commit, TypeOK, Marks
  <2>4. writer' \in [Writers -> Transaction]
    BY <1>3, NoMarksTyped DEF Commit, TypeOK
  <2> QED  BY <1>3, <2>1, <2>2, <2>3, <2>4 DEF Commit, TypeOK
<1>4. ASSUME NEW w \in Writers, Rollback(w) PROVE TypeOK'
  BY <1>4, NoMarksTyped DEF Rollback, TypeOK
<1>5. ASSUME UNCHANGED vars PROVE TypeOK'
  BY <1>5 DEF vars, TypeOK
<1> QED  BY <1>1, <1>2, <1>3, <1>4, <1>5, StepShape

\* Nor does the empty database.
LEMMA InitTyped == Init => TypeOK
BY NoMarksTyped DEF Init, TypeOK, Marks

\* Every reachable state of the lifecycle is type correct: in particular a
\* submitted return never has a status outside the table (service.py:116).
THEOREM TypeCorrect == Spec => []TypeOK
BY InitTyped, TypeStep, PTL DEF Spec

-----------------------------------------------------------------------------
(* A return whose transactions stay apart, whatever becomes of the others. *)

\* What is kept of one return.
InOrder(r) ==
  /\ Apart(r)
  /\ NothingStale(r)
  /\ InspectedOnce(r)
  /\ Stamped(r)
  /\ status[r] = "rejected" => ~Accepted(r)

CarriedInv == TypeOK /\ MarksAgree

\* A transaction's decisions agree with its status from the beginning.
LEMMA CarriedStep ==
  ASSUME CarriedInv, [Next]_vars
  PROVE  CarriedInv'
<1>1. TypeOK /\ TypeOK' /\ NoMarks' = NoMarks
  BY TypeStep DEF CarriedInv, NoMarks
<1>2. ASSUME NEW w \in Writers, Opens(w) PROVE MarksAgree'
  <2>1. PICK moves \in SUBSET Returns, to \in Status, marks \in Marks :
          /\ Begin(w, moves, to, marks)
          /\ marks # NoMarks =>
               /\ to \in Outcome
               /\ to = "rejected" => \A i \in Items : marks[i] \in {"reject", "unseen"}
    BY <1>2 DEF Opens
  <2>2. /\ writer'[w].to = to /\ writer'[w].marks = marks
        /\ \A v \in Writers \ {w} : writer'[v] = writer[v]
    BY <1>1, <2>1 DEF Begin, TypeOK
  <2> QED  BY <1>1, <2>1, <2>2 DEF CarriedInv, MarksAgree, Outcome
<1>3. ASSUME NEW w \in Writers, Commit(w) \/ Rollback(w) PROVE MarksAgree'
  <2>1. writer'[w].marks = NoMarks /\ \A v \in Writers \ {w} : writer'[v] = writer[v]
    BY <1>1, <1>3 DEF Commit, Rollback, TypeOK, Idle
  <2> QED  BY <1>1, <2>1 DEF CarriedInv, MarksAgree
<1>4. ASSUME UNCHANGED writer PROVE MarksAgree'
  BY <1>1, <1>4 DEF CarriedInv, MarksAgree
<1> QED  BY <1>1, <1>2, <1>3, <1>4, StepShape DEF CarriedInv, Submit, vars

LEMMA CarriedInvariant == Spec => []CarriedInv
<1>1. Init => CarriedInv
  BY InitTyped DEF Init, CarriedInv, MarksAgree, Idle
<1> QED  BY <1>1, CarriedStep, PTL DEF Spec

\* A new return has no item decision, and no transaction is about it.
LEMMA SubmitKeeps ==
  ASSUME TypeOK, NEW r \in Returns, InOrder(r), NEW x \in Returns, Submit(x)
  PROVE  InOrder(r)'
<1>1. PICK d \in DOMAIN DecisionStatus :
        /\ status' = [status EXCEPT ![x] = DecisionStatus[d]]
        /\ resolved' = IF DecisionStatus[d] \in Resolved THEN resolved \cup {x} ELSE resolved
  BY DEF Submit
<1>2. UNCHANGED <<items, writer>> /\ status[x] = "none"
  BY DEF Submit
<1>3. Apart(r)'
  BY <1>2 DEF InOrder, Apart
<1>4. CASE r # x
  <2>1. status'[r] = status[r] /\ (r \in resolved' <=> r \in resolved)
    BY <1>1, <1>4 DEF TypeOK
  <2> QED
    BY <1>2, <1>3, <2>1 DEF InOrder, NothingStale, InspectedOnce, Stamped, Accepted, NoMarks
<1>5. CASE r = x
  <2>1. status'[r] = DecisionStatus[d]
    BY <1>1, <1>5 DEF TypeOK
  <2>2. \A w \in Writers : r \notin writer[w].moves
    BY <1>2, <1>5, Table DEF InOrder, NothingStale
  <2>3. items[r] = NoMarks
    BY <1>2, <1>5, Table DEF InOrder, InspectedOnce, Inspected, Resolving
  <2>4. r \notin resolved
    BY <1>2, <1>5, Table DEF InOrder, Stamped
  <2>5. Stamped(r)'
    BY <1>1, <1>5, <2>1, <2>4 DEF Stamped
  <2>6. NothingStale(r)' /\ InspectedOnce(r)' /\ ~Accepted(r)'
    BY <1>2, <2>2, <2>3 DEF NothingStale, InspectedOnce, Accepted, NoMarks
  <2> QED  BY <1>3, <2>5, <2>6 DEF InOrder
<1> QED  BY <1>4, <1>5

\* A transaction begins with what is so.
LEMMA OpenKeeps ==
  ASSUME TypeOK, NEW r \in Returns, InOrder(r), NEW w \in Writers, Opens(w), Apart(r)'
  PROVE  InOrder(r)'
<1>1. PICK moves \in SUBSET Returns, to \in Status, marks \in Marks :
        Begin(w, moves, to, marks) /\ UNCHANGED <<status, resolved, items>>
  BY DEF Opens
<1>2. /\ writer'[w].moves = moves /\ writer'[w].to = to
      /\ \A v \in Writers \ {w} : writer'[v] = writer[v]
      /\ \A x \in moves : status[x] # "none" /\ CanTransition(status[x], to)
  BY <1>1 DEF Begin, TypeOK
<1>3. NothingStale(r)'
  BY <1>1, <1>2 DEF InOrder, NothingStale, TypeOK
<1> QED  BY <1>1, <1>3 DEF InOrder, InspectedOnce, Stamped, Accepted, NoMarks

\* A transaction rolled back leaves no trace.
LEMMA RollbackKeeps ==
  ASSUME TypeOK, NEW r \in Returns, InOrder(r), NEW w \in Writers, Rollback(w), Apart(r)'
  PROVE  InOrder(r)'
<1>1. writer'[w].moves = {} /\ \A v \in Writers \ {w} : writer'[v] = writer[v]
  BY DEF Rollback, TypeOK, Idle
<1>2. UNCHANGED <<status, resolved, items>>
  BY DEF Rollback
<1> QED
  BY <1>1, <1>2 DEF InOrder, NothingStale, InspectedOnce, Stamped, Accepted, NoMarks

\* What a commit does to the return, given that nothing it read is stale.
LEMMA CommitEffect ==
  ASSUME CarriedInv, NEW r \in Returns, InOrder(r), NEW w \in Writers, Commit(w)
  PROVE  /\ r \notin writer[w].moves => status'[r] = status[r] /\ items'[r] = items[r]
         /\ r \in writer[w].moves =>
              /\ status[r] \in Status /\ CanTransition(status[r], writer[w].to)
              /\ status'[r] = writer[w].to
              /\ writer[w].marks = NoMarks => items'[r] = items[r]
              /\ writer[w].marks # NoMarks => items[r] = NoMarks /\ items'[r] = writer[w].marks
<1> DEFINE t == writer[w]
<1>1. t.moves \subseteq Returns /\ t.to \in Status /\ t.marks \in Marks
  BY DEF CarriedInv, TypeOK, Transaction, Marks
<1>2. /\ status'[r] = IF r \in t.moves THEN t.to ELSE status[r]
      /\ items'[r] = [i \in Items |->
           IF r \in t.moves /\ t.marks[i] # "unseen" THEN t.marks[i] ELSE items[r][i]]
  BY DEF Commit
<1>3. items[r] \in Marks
  BY DEF CarriedInv, TypeOK, Marks
<1> HIDE DEF t
<1>4. CASE r \notin t.moves
  BY <1>2, <1>3, <1>4 DEF t, Marks
<1>5. CASE r \in t.moves
  <2>1. status[r] \in Status /\ CanTransition(status[r], t.to)
    BY <1>5 DEF InOrder, NothingStale, t
  <2>2. ASSUME t.marks = NoMarks PROVE items'[r] = items[r]
    BY <1>2, <1>3, <2>2 DEF Marks, NoMarks
  <2>3. ASSUME t.marks # NoMarks PROVE items[r] = NoMarks /\ items'[r] = t.marks
    <3>1. t.to \in Outcome
      BY <2>3 DEF CarriedInv, MarksAgree, Outcome, t
    <3>2. status[r] \notin Inspected
      BY <2>1, <3>1, Table
    <3>3. items[r] = NoMarks
      BY <3>2 DEF InOrder, InspectedOnce
    <3> QED  BY <1>1, <1>2, <1>5, <3>3 DEF Marks, NoMarks
  <2> QED  BY <1>2, <1>5, <2>1, <2>2, <2>3 DEF t
<1> QED  BY <1>4, <1>5 DEF t

\* A commit writes what follows from what it read.
LEMMA CommitKeeps ==
  ASSUME CarriedInv, NEW r \in Returns, InOrder(r), NEW w \in Writers, Commit(w), Apart(r)'
  PROVE  InOrder(r)'
<1>1. writer'[w].moves = {} /\ \A v \in Writers \ {w} : writer'[v] = writer[v]
  BY DEF Commit, CarriedInv, TypeOK, Idle
<1>2. writer[w].moves \subseteq Returns /\ writer[w].to \in Status
  BY DEF CarriedInv, TypeOK, Transaction
<1>3. NothingStale(r)'
  <2>1. \A v \in Writers \ {w} : r \in writer[v].moves => r \notin writer[w].moves
    BY DEF InOrder, Apart
  <2> QED  BY <1>1, <2>1, CommitEffect DEF InOrder, NothingStale
<1>4. InspectedOnce(r)'
  <2> SUFFICES ASSUME items'[r] # NoMarks PROVE status'[r] \in Inspected
    BY DEF InspectedOnce, NoMarks
  <2>1. CASE r \notin writer[w].moves \/ writer[w].marks = NoMarks
    BY <2>1, CommitEffect, Table DEF InOrder, InspectedOnce
  <2>2. CASE r \in writer[w].moves /\ writer[w].marks # NoMarks
    BY <2>2, CommitEffect DEF CarriedInv, MarksAgree, Inspected
  <2> QED  BY <2>1, <2>2
<1>5. Stamped(r)'
  <2>1. resolved' = IF writer[w].to \in Resolved THEN resolved \cup writer[w].moves ELSE resolved
    BY DEF Commit
  <2> QED  BY <2>1, CommitEffect, Table DEF InOrder, Stamped
<1>6. status'[r] = "rejected" => ~Accepted(r)'
  <2> SUFFICES ASSUME status'[r] = "rejected", NEW i \in Items
               PROVE  items'[r][i] \notin {"accept", "partial_accept"}
    BY DEF Accepted
  <2>1. CASE r \notin writer[w].moves
    BY <2>1, CommitEffect DEF InOrder, Accepted
  <2>2. CASE r \in writer[w].moves /\ writer[w].marks = NoMarks
    <3>1. status[r] \notin Inspected
      BY <2>2, CommitEffect, Table DEF Outcome
    <3>2. items'[r] = NoMarks
      BY <2>2, <3>1, CommitEffect DEF InOrder, InspectedOnce
    <3> QED  BY <3>2 DEF NoMarks
  <2>3. CASE r \in writer[w].moves /\ writer[w].marks # NoMarks
    BY <2>3, CommitEffect DEF CarriedInv, MarksAgree
  <2> QED  BY <2>1, <2>2, <2>3
<1> QED  BY <1>3, <1>4, <1>5, <1>6 DEF InOrder

\* Every step that leaves the return's transactions apart keeps it in order.
LEMMA InOrderStep ==
  ASSUME CarriedInv, NEW r \in Returns, InOrder(r), [Next]_vars, Apart(r)'
  PROVE  InOrder(r)'
<1>1. ASSUME UNCHANGED vars PROVE InOrder(r)'
  BY <1>1 DEF vars, InOrder, NothingStale, InspectedOnce, Stamped, Accepted, NoMarks
<1> QED
  BY <1>1, StepShape, SubmitKeeps, OpenKeeps, CommitKeeps, RollbackKeeps DEF CarriedInv

LEMMA InitInOrder ==
  ASSUME Init, NEW r \in Returns
  PROVE  InOrder(r)
<1>1. "none" \notin Resolved
  BY DEF Resolved
<1> QED
  BY <1>1 DEF Init, Idle, InOrder, Apart, NothingStale, InspectedOnce, Stamped

LEMMA KeptInOrder ==
  ASSUME NEW r \in Returns
  PROVE  Spec /\ [](Apart(r)) => [](CarriedInv /\ InOrder(r))
<1>1. Init => InOrder(r)
  BY InitInOrder
<1>2. CarriedInv /\ InOrder(r) /\ [Next]_vars /\ Apart(r)' => InOrder(r)'
  BY InOrderStep
<1> QED  BY <1>1, <1>2, CarriedInvariant, PTL DEF Spec

AllApart == \A r \in Returns : Apart(r)

AllInOrder == CarriedInv /\ \A r \in Returns : InOrder(r)

\* The same for all returns at once.
LEMMA AllKeptInOrder == Spec /\ []AllApart => []AllInOrder
<1>1. Init => \A r \in Returns : InOrder(r)
  BY InitInOrder
<1>2. AllInOrder /\ [Next]_vars /\ AllApart' => AllInOrder'
  BY CarriedStep, InOrderStep DEF AllInOrder, AllApart
<1>3. CarriedInv /\ (\A r \in Returns : InOrder(r)) => AllInOrder
  BY DEF AllInOrder
<1> QED  BY <1>1, <1>2, <1>3, CarriedInvariant, PTL DEF Spec

\* The bound of the run that checks these properties keeps transactions apart.
LEMMA SerialisedIsApart ==
  ASSUME Serialised
  PROVE  Spec => []AllApart
<1>1. Init => AllApart
  BY DEF Init, Idle, AllApart, Apart
<1>2. TypeOK /\ AllApart /\ [Next]_vars => AllApart'
  <2> SUFFICES ASSUME TypeOK, AllApart, [Next]_vars, NEW r \in Returns PROVE Apart(r)'
    BY DEF AllApart
  <2>1. ASSUME NEW w \in Writers, Opens(w) PROVE Apart(r)'
    <3>1. PICK moves \in SUBSET Returns, to \in Status, marks \in Marks :
            Begin(w, moves, to, marks)
      BY <2>1 DEF Opens
    <3>2. /\ \A v \in Writers : writer[v].moves \cap moves = {}
          /\ writer'[w].moves = moves /\ \A v \in Writers \ {w} : writer'[v] = writer[v]
      BY <3>1 DEF Begin, Overlaps, TypeOK
    <3> QED  BY <3>2 DEF AllApart, Apart
  <2>2. ASSUME NEW w \in Writers, Commit(w) \/ Rollback(w) PROVE Apart(r)'
    <3>1. writer'[w].moves = {} /\ \A v \in Writers \ {w} : writer'[v] = writer[v]
      BY <2>2 DEF Commit, Rollback, Idle, TypeOK
    <3> QED  BY <3>1 DEF AllApart, Apart
  <2>3. UNCHANGED writer => Apart(r)'
    BY DEF AllApart, Apart
  <2> QED  BY <2>1, <2>2, <2>3, StepShape DEF Submit, vars
<1> QED  BY <1>1, <1>2, TypeCorrect, PTL DEF Spec

\* resolved_at is set on exactly the returns that are resolved, by any sequence
\* of writers of which no two are at work on one return (return_model.py:82).
THEOREM ResolvedAtIsExact == Spec /\ []AllApart => []ResolvedAgrees
<1>1. AllInOrder => ResolvedAgrees
  BY DEF AllInOrder, InOrder, ResolvedAgrees
<1> QED  BY <1>1, AllKeptInOrder, PTL

\* No return is rejected while an item of it was accepted (service.py:166-176).
THEOREM RejectedHoldsNothing == Spec /\ []AllApart => []RejectedHasNothingAccepted
<1>1. AllInOrder => RejectedHasNothingAccepted
  BY DEF AllInOrder, InOrder, RejectedHasNothingAccepted
<1> QED  BY <1>1, AllKeptInOrder, PTL

\* The instance's table is the table.
LEMMA SameTable ==
  /\ Machine!Status = Status
  /\ \A s \in Status : \A t : Machine!CanTransition(s, t) <=> CanTransition(s, t)
  /\ \A d \in DOMAIN DecisionStatus : DecisionStatus[d] \in Machine!Submitted
BY DEF Machine!Status, Status, Machine!CanTransition, CanTransition, Machine!VALID_TRANSITIONS,
   VALID_TRANSITIONS, Machine!Submitted, Machine!DecisionStatus, DecisionStatus

\* One step moves each return along the table, or not at all.
LEMMA StepMoves ==
  ASSUME CarriedInv, NEW r \in Returns, InOrder(r), [Next]_vars
  PROVE  Machine!Moves(r, status[r], status'[r])
<1>1. ASSUME NEW x \in Returns, Submit(x) PROVE Machine!Moves(r, status[r], status'[r])
  <2>1. PICK d \in DOMAIN DecisionStatus : status' = [status EXCEPT ![x] = DecisionStatus[d]]
    BY <1>1 DEF Submit
  <2> QED  BY <1>1, <2>1, SameTable DEF Submit, CarriedInv, TypeOK, Machine!Moves
<1>2. ASSUME NEW w \in Writers, Commit(w) PROVE Machine!Moves(r, status[r], status'[r])
  BY <1>2, CommitEffect, SameTable DEF Machine!Moves
<1>3. ASSUME UNCHANGED status PROVE Machine!Moves(r, status[r], status'[r])
  BY <1>3 DEF Machine!Moves
<1> QED
  BY <1>1, <1>2, <1>3, StepShape DEF CarriedInv, Opens, Rollback, vars

\* What an inspection has decided of a return's items no step changes.
LEMMA StepKeepsDecisions ==
  ASSUME CarriedInv, NEW r \in Returns, InOrder(r), [Next]_vars, NEW i \in Items,
         items[r][i] # "unseen"
  PROVE  items'[r][i] = items[r][i]
<1>1. ASSUME NEW w \in Writers, Commit(w) PROVE items'[r][i] = items[r][i]
  BY <1>1, CommitEffect DEF NoMarks
<1>2. ASSUME UNCHANGED items PROVE items'[r][i] = items[r][i]
  BY <1>2
<1> QED  BY <1>1, <1>2, StepShape DEF CarriedInv, Submit, Opens, Rollback, vars

\* The writers of returns.status, taken together, implement the return state
\* machine (Golden Rule #2, return_model.py:69).
THEOREM ImplementsStateMachine == Spec /\ []AllApart => KeepsMachine
<1>1. Init => Machine!Init
  BY DEF Init, Machine!Init
<1>2. AllInOrder /\ AllInOrder' /\ [Next]_vars => [Machine!Next]_status
  <2> SUFFICES ASSUME AllInOrder, AllInOrder', [Next]_vars PROVE Machine!Next
    OBVIOUS
  <2>1. status' \in [Returns -> Status \cup {"none"}]
    BY DEF AllInOrder, CarriedInv, TypeOK
  <2>2. \A r \in Returns : Machine!Moves(r, status[r], status'[r])
    BY StepMoves DEF AllInOrder
  <2> QED  BY <2>1, <2>2, SameTable DEF Machine!Next
<1> QED  BY <1>1, <1>2, AllKeptInOrder, PTL DEF Spec, KeepsMachine, Machine!Spec

\* Where Golden Rule #2 holds (README.md:285): no illegal move reaches the
\* database as long as no two transactions about one return overlap, which is
\* all that the run of two overrides breaks.
THEOREM LegalUnlessOverlapping == Spec /\ []AllApart => LegalMoves
<1>1. AllInOrder /\ [Next]_vars =>
        [\A r \in Returns : status[r] # "none" /\ status'[r] # status[r] =>
           CanTransition(status[r], status'[r])]_vars
  <2> SUFFICES ASSUME AllInOrder, [Next]_vars, NEW r \in Returns, status[r] # "none",
                      status'[r] # status[r]
               PROVE  CanTransition(status[r], status'[r])
    OBVIOUS
  <2>1. Machine!Moves(r, status[r], status'[r])
    BY StepMoves DEF AllInOrder
  <2>2. status[r] \in Status
    BY DEF AllInOrder, CarriedInv, TypeOK
  <2> QED  BY <2>1, <2>2, SameTable DEF Machine!Moves
<1> QED  BY <1>1, AllKeptInOrder, PTL DEF Spec, LegalMoves

\* A stored item decision is final: no later inspection changes it
\* (service.py:158).
THEOREM DecisionsAreFinal == Spec /\ []AllApart => DecisionsStand
<1>1. AllInOrder /\ [Next]_vars =>
        [\A r \in Returns, i \in Items :
           items[r][i] # "unseen" => items'[r][i] = items[r][i]]_vars
  BY StepKeepsDecisions DEF AllInOrder
<1> QED  BY <1>1, AllKeptInOrder, PTL DEF Spec, DecisionsStand

-----------------------------------------------------------------------------
(* Return by return, and how far a return can go.                          *)

\* How far along its way a status is: the table has no way back.
Stage(s) ==
  CASE s = "none"                                                         -> 0
    [] s = "draft"                                                        -> 1
    [] s = "pending"                                                      -> 2
    [] s = "requires_inspection"                                          -> 3
    [] s = "approved"                                                     -> 4
    [] s \in {"label_generated", "keep_it"}                               -> 5
    [] s = "in_transit"                                                   -> 6
    [] s \in {"received", "partial_received"}                             -> 7
    [] s = "refund_initiated"                                             -> 8
    [] s \in {"refunded", "store_credit_issued", "rejected", "cancelled"} -> 9
    [] s = "closed"                                                       -> 10

\* Every legal move goes forward, so that the table has no cycle.
LEMMA TableGoesForward ==
  /\ \A s \in Status : \A t : CanTransition(s, t) => Stage(s) < Stage(t)
  /\ \A d \in DOMAIN DecisionStatus : 0 < Stage(DecisionStatus[d])
  /\ \A s \in Status \cup {"none"} : Stage(s) \in 0..10
<1>1. ASSUME NEW s \in Status, NEW t, CanTransition(s, t) PROVE Stage(s) < Stage(t)
  <2>1. CASE s \in {"draft", "pending"}
    BY <1>1, <2>1 DEF CanTransition, VALID_TRANSITIONS, Stage
  <2>2. CASE s \in {"requires_inspection", "approved"}
    BY <1>1, <2>2 DEF CanTransition, VALID_TRANSITIONS, Stage
  <2>3. CASE s \in {"label_generated", "in_transit"}
    BY <1>1, <2>3 DEF CanTransition, VALID_TRANSITIONS, Stage
  <2>4. CASE s \in {"received", "partial_received"}
    BY <1>1, <2>4 DEF CanTransition, VALID_TRANSITIONS, Stage
  <2>5. CASE s \in {"keep_it", "refund_initiated"}
    BY <1>1, <2>5 DEF CanTransition, VALID_TRANSITIONS, Stage
  <2>6. CASE s \in {"refunded", "store_credit_issued"}
    BY <1>1, <2>6 DEF CanTransition, VALID_TRANSITIONS, Stage
  <2>7. CASE s \in {"rejected", "cancelled", "closed"}
    BY <1>1, <2>7 DEF CanTransition, VALID_TRANSITIONS, Stage
  <2>8. s \in {"draft", "pending", "requires_inspection", "approved", "label_generated",
               "in_transit", "received", "partial_received", "keep_it", "refund_initiated",
               "refunded", "store_credit_issued", "rejected", "cancelled", "closed"}
    BY DEF Status, VALID_TRANSITIONS
  <2> QED  BY <2>1, <2>2, <2>3, <2>4, <2>5, <2>6, <2>7, <2>8
<1>2. \A d \in DOMAIN DecisionStatus : 0 < Stage(DecisionStatus[d])
  BY DEF DecisionStatus, Stage
<1>3. \A s \in Status \cup {"none"} : Stage(s) \in 0..10
  BY DEF VALID_TRANSITIONS, Status, Stage
<1> QED  BY <1>1, <1>2, <1>3

\* A return whose transactions stay apart goes only forward, whatever happens to
\* the others: it never comes back to a status it has left, and moves at most
\* ten times however many overrides, events and retries there are.
THEOREM NoWayBack ==
  ASSUME NEW r \in Returns
  PROVE  Spec /\ [](Apart(r)) =>
           [][ status'[r] # status[r] =>
                 /\ Stage(status[r]) < Stage(status'[r])
                 /\ Stage(status'[r]) <= 10 ]_vars
<1>1. CarriedInv /\ CarriedInv' /\ InOrder(r) /\ [Next]_vars =>
        [status'[r] # status[r] =>
           /\ Stage(status[r]) < Stage(status'[r])
           /\ Stage(status'[r]) <= 10]_vars
  <2> SUFFICES ASSUME CarriedInv, CarriedInv', InOrder(r), [Next]_vars, status'[r] # status[r]
               PROVE  Stage(status[r]) < Stage(status'[r]) /\ Stage(status'[r]) <= 10
    OBVIOUS
  <2>1. status[r] \in Status \cup {"none"} /\ status'[r] \in Status \cup {"none"}
    BY DEF CarriedInv, TypeOK
  <2>2. \/ \E d \in DOMAIN DecisionStatus : status[r] = "none" /\ status'[r] = DecisionStatus[d]
        \/ status[r] \in Status /\ CanTransition(status[r], status'[r])
    BY StepMoves, SameTable
       DEF Machine!Moves, Machine!Submitted, Machine!DecisionStatus, DecisionStatus
  <2>3. Stage("none") = 0
    BY DEF Stage
  <2> QED  BY <2>1, <2>2, <2>3, TableGoesForward
<1> QED  BY <1>1, KeptInOrder, PTL DEF Spec

\* Overlaps on one return do no harm to another: a return whose own transactions
\* stay apart keeps to the table, its resolved_at, and its inspection.
THEOREM EachReturnInOrder ==
  ASSUME NEW r \in Returns
  PROVE  Spec /\ [](Apart(r)) =>
           /\ [](Stamped(r) /\ (status[r] = "rejected" => ~Accepted(r)))
           /\ [][ /\ Machine!Moves(r, status[r], status'[r])
                  /\ \A i \in Items : items[r][i] # "unseen" => items'[r][i] = items[r][i] ]_vars
<1>1. InOrder(r) => Stamped(r) /\ (status[r] = "rejected" => ~Accepted(r))
  BY DEF InOrder
<1>2. CarriedInv /\ InOrder(r) /\ [Next]_vars =>
        [/\ Machine!Moves(r, status[r], status'[r])
         /\ \A i \in Items : items[r][i] # "unseen" => items'[r][i] = items[r][i]]_vars
  BY StepMoves, StepKeepsDecisions
<1> QED  BY <1>1, <1>2, KeptInOrder, PTL DEF Spec
=============================================================================
