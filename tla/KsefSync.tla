------------------------------ MODULE KsefSync ------------------------------
(***************************************************************************)
(* The hourly task that sends the correction invoice of every refunded     *)
(* return to the ERP and stores the KSeF reference the ERP answers with.   *)
(*                                                                         *)
(* A run is one database transaction: it selects a batch, sends it item by *)
(* item, and commits once at the end.  Nothing keeps two runs apart when   *)
(* the queue has more than one of their messages.  What an item's          *)
(* exception interrupts is only that item.                                 *)
(*                                                                         *)
(* As shipped every item ends in such an exception: build_correction reads *)
(* the items of the return through a relationship that the SELECT has not  *)
(* loaded, which an asynchronous session refuses to load then.  That is    *)
(* ItemsLoaded = FALSE.  With TRUE the module says what the rest of the    *)
(* code does once the relationship is loaded along with the return.        *)
(***************************************************************************)
EXTENDS KsefCorrection

CONSTANTS
  Returns,
  ItemsLoaded,  \* whether the SELECT loads Return.items: not in the code as shipped
  ItemLists,    \* what may have been sent back: sequences of items
  Runs,         \* the executions of the task that may be under way at once
  Batch,        \* the LIMIT of the SELECT
  NoRef,        \* no ksef_reference
  Days,         \* bound: calendar days, from 1
  MaxFaults     \* bound: answers other than a reference, and lost transactions

ASSUME Parameters ==
  /\ Batch \in Nat \ {0} /\ Days \in Nat \ {0} /\ MaxFaults \in Nat
  /\ NoRef \notin Returns \X (1..Days)
  /\ NoQuantity \notin Int
  /\ \A list \in ItemLists : list \in Seq(Item)
  /\ IsFiniteSet(Returns) /\ IsFiniteSet(Runs)
  /\ ItemsLoaded \in BOOLEAN

\* KOR/{rma}/{yyyymmdd}: what the ERP knows a correction by.
Numbers == Returns \X (1..Days)

VARIABLES
  items,      \* the items of each return
  status,     \* returns.status: "open" up to the refund, "refunded" or "closed"
  reference,  \* returns.ksef_reference, as committed
  erp,        \* the ERP's corrections: "none", "accepted" or "booked"
  run,        \* the executions of the task
  day,
  faults,
  overlapped  \* history: two executions have been under way at once

vars == <<items, status, reference, erp, run, day, faults, overlapped>>

\* An execution: the returns of its batch that are left, the correction whose
\* reference it is about to write, and the references it has written.
At(pc, left, current, written) ==
  [pc |-> pc, left |-> left, current |-> current, written |-> written]

Nothing == [r \in {} |-> NoRef]
Resting == At("resting", {}, NoRef, Nothing)

Init ==
  /\ items \in [Returns -> ItemLists]
  /\ status = [r \in Returns |-> "open"]
  /\ reference = [r \in Returns |-> NoRef]
  /\ erp = [n \in Numbers |-> "none"]
  /\ run = [w \in Runs |-> Resting]
  /\ day = 1
  /\ faults = 0
  /\ overlapped = FALSE

-----------------------------------------------------------------------------
(* The world around the task.                                              *)

\* The refund task and the status override, as far as they are seen from here.
Refund(r) ==
  /\ status[r] = "open"
  /\ status' = [status EXCEPT ![r] = "refunded"]
  /\ UNCHANGED <<items, reference, erp, run, day, faults, overlapped>>

Close(r) ==
  /\ status[r] = "refunded"
  /\ status' = [status EXCEPT ![r] = "closed"]
  /\ UNCHANGED <<items, reference, erp, run, day, faults, overlapped>>

NextDay ==
  /\ day < Days
  /\ day' = day + 1
  /\ UNCHANGED <<items, status, reference, erp, run, faults, overlapped>>

\* The ERP finishes a correction it had accepted.
Book(n) ==
  /\ erp[n] = "accepted"
  /\ erp' = [erp EXCEPT ![n] = "booked"]
  /\ UNCHANGED <<items, status, reference, run, day, faults, overlapped>>

-----------------------------------------------------------------------------
(* One execution.                                                          *)

\* Mutant: returns that have their reference are selected again.
PendingAll == {r \in Returns : status[r] = "refunded"}

Pending == {r \in Returns : status[r] = "refunded" /\ reference[r] = NoRef}

\* LIMIT without ORDER BY: any of the pending returns, as many as the batch
\* has room for.
Start(w) ==
  /\ run[w].pc = "resting"
  /\ \E chosen \in SUBSET Pending :
       /\ chosen # {}
       /\ Cardinality(chosen) <= Batch
       /\ chosen = Pending \/ Cardinality(chosen) = Batch
       /\ run' = [run EXCEPT ![w] = At("looping", chosen, NoRef, Nothing)]
  /\ overlapped' = (overlapped \/ \E v \in Runs \ {w} : run[v].pc # "resting")
  /\ UNCHANGED <<items, status, reference, erp, day, faults>>

Number(r) == <<r, day>>

\* No order, or an exception before anything is sent: the item is left for a later
\* run.
SkipItem(w) ==
  /\ run[w].pc = "looping"
  /\ \E r \in run[w].left :
       run' = [run EXCEPT ![w] = At("looping", @.left \ {r}, NoRef, @.written)]
  /\ UNCHANGED <<items, status, reference, erp, day, faults, overlapped>>

\* The item is sent; the ERP books it at once and answers 200 with the
\* reference it has for that number.
SendBooked(w) ==
  /\ run[w].pc = "looping" /\ ItemsLoaded
  /\ \E r \in run[w].left :
       /\ erp' = [erp EXCEPT ![Number(r)] = "booked"]
       /\ run' = [run EXCEPT ![w] = At("storing", @.left \ {r}, Number(r), @.written)]
  /\ UNCHANGED <<items, status, reference, day, faults, overlapped>>

\* 202, and 200 without a reference; an error or no answer, whether or not the
\* ERP has booked the correction: the item is left for a later run.
SendUnanswered(w) ==
  /\ run[w].pc = "looping" /\ ItemsLoaded /\ faults < MaxFaults
  /\ \E r \in run[w].left, state \in {"same", "accepted", "booked"} :
       /\ erp' = [erp EXCEPT ![Number(r)] =
            IF state = "same" \/ @ = "booked" THEN @ ELSE state]
       /\ run' = [run EXCEPT ![w] = At("looping", @.left \ {r}, NoRef, @.written)]
  /\ faults' = faults + 1
  /\ UNCHANGED <<items, status, reference, day, overlapped>>

\* Returns whose row a transaction has updated and not yet committed.
Holds(w) == DOMAIN run[w].written
Waits(w, v) == run[w].pc = "waiting" /\ run[w].current[1] \in Holds(v)

\* Mutant: a row is updated though another transaction has it.
CanLockHeld(w) == run[w].pc \in {"storing", "waiting"}

\* PostgreSQL gives a row to those who wait for it before those who come later.
CanLock(w) ==
  /\ run[w].pc \in {"storing", "waiting"}
  /\ \A v \in Runs \ {w} :
       /\ run[w].current[1] \notin Holds(v)
       /\ run[v].pc = "waiting" /\ run[v].current[1] = run[w].current[1]
            => run[w].pc = "waiting"

\* The row is another transaction's.
FindsHeld(w) ==
  run[w].pc = "storing" /\ \E v \in Runs \ {w} : run[w].current[1] \in Holds(v)

Wait(w) ==
  /\ FindsHeld(w)
  /\ run' = [run EXCEPT ![w] = At("waiting", @.left, @.current, @.written)]
  /\ UNCHANGED <<items, status, reference, erp, day, faults, overlapped>>

Written(w, r, ref) ==
  [x \in Holds(w) \cup {r} |-> IF x = r THEN ref ELSE run[w].written[x]]

\* Mutant: the reference is written to whichever return of the batch is next.
StoreNext(w) ==
  /\ CanLock(w)
  /\ \E r \in run[w].left \cup {run[w].current[1]} :
       run' = [run EXCEPT ![w] = At("looping", @.left, NoRef, Written(w, r, @.current))]
  /\ UNCHANGED <<items, status, reference, erp, day, faults, overlapped>>

\* UPDATE ... WHERE id = ret.id, whatever the row has by now.
Store(w) ==
  LET r == run[w].current[1] IN
  /\ CanLock(w)
  /\ run' = [run EXCEPT ![w] = At("looping", @.left, NoRef, Written(w, r, @.current))]
  /\ UNCHANGED <<items, status, reference, erp, day, faults, overlapped>>

\* Executions that wait for one another in a circle: each waits for a row that
\* another of them has, and has a row that another waits for.
Deadlocked(w) ==
  \E circle \in SUBSET Runs :
    /\ w \in circle
    /\ \A v \in circle : \E u, x \in circle \ {v} : Waits(v, u) /\ Waits(x, v)

\* Mutant: nobody breaks the deadlock.
NoVictim(w) == FALSE

\* PostgreSQL aborts one of a deadlock.  Its exception is swallowed, every later
\* statement fails in turn before anything is sent, and the COMMIT at the end
\* commits nothing.
DeadlockVictim(w) ==
  /\ Deadlocked(w)
  /\ run' = [run EXCEPT ![w] = Resting]
  /\ UNCHANGED <<items, status, reference, erp, day, faults, overlapped>>

\* Mutant: the session is closed without a commit.
CloseSession(w) ==
  /\ run[w].pc = "looping" /\ run[w].left = {}
  /\ run' = [run EXCEPT ![w] = Resting]
  /\ UNCHANGED <<items, status, reference, erp, day, faults, overlapped>>

Commit(w) ==
  /\ run[w].pc = "looping" /\ run[w].left = {}
  /\ reference' = [r \in Returns |-> IF r \in Holds(w) THEN run[w].written[r] ELSE reference[r]]
  /\ run' = [run EXCEPT ![w] = Resting]
  /\ UNCHANGED <<items, status, erp, day, faults, overlapped>>

\* The worker dies or the commit fails: nothing of the batch is stored.  The
\* message, or its retry, is another execution.
Lost(w) ==
  /\ run[w].pc # "resting" /\ faults < MaxFaults
  /\ run' = [run EXCEPT ![w] = Resting]
  /\ faults' = faults + 1
  /\ UNCHANGED <<items, status, reference, erp, day, overlapped>>

-----------------------------------------------------------------------------

Execute(w) ==
  \/ Start(w) \/ SkipItem(w) \/ SendBooked(w)
  \/ Wait(w) \/ Store(w) \/ DeadlockVictim(w) \/ Commit(w)

Next ==
  \/ \E r \in Returns : Refund(r) \/ Close(r)
  \/ NextDay
  \/ \E n \in Numbers : Book(n)
  \/ \E w \in Runs : Execute(w) \/ SendUnanswered(w) \/ Lost(w)

Spec == Init /\ [][Next]_vars

\* Beat sends the task every hour, and an execution runs on.
FairSpec == Spec /\ \A w \in Runs : WF_vars(Execute(w))
=============================================================================
