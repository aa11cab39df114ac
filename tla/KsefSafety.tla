----------------------------- MODULE KsefSafety -----------------------------
(***************************************************************************)
(* What the export of correction invoices guarantees.                      *)
(***************************************************************************)
EXTENDS KsefSync

References == UNION {[held -> Numbers] : held \in SUBSET Returns}

Execution ==
  [ pc : {"resting", "looping", "storing", "waiting"}, left : SUBSET Returns,
    current : Numbers \cup {NoRef},
    written : References ]

\* The type invariant; an execution writes only to returns of its batch that it
\* has sent, and two never hold one row.
TypeOK ==
  /\ items \in [Returns -> ItemLists]
  /\ status \in [Returns -> {"open", "refunded", "closed"}]
  /\ reference \in [Returns -> Numbers \cup {NoRef}]
  /\ erp \in [Numbers -> {"none", "accepted", "booked"}]
  /\ run \in [Runs -> Execution]
  /\ \A w \in Runs :
       /\ run[w].pc \in {"storing", "waiting"} <=> run[w].current # NoRef
       /\ run[w].pc = "resting" => run[w] = Resting
       /\ run[w].current # NoRef => run[w].current[1] \notin run[w].left
       /\ Holds(w) \cap run[w].left = {}
       /\ \A v \in Runs \ {w} : Holds(w) \cap Holds(v) = {}
  /\ day \in 1..Days
  /\ faults \in 0..MaxFaults
  /\ overlapped \in BOOLEAN

\* A stored reference is the ERP's own, for a correction of that very return,
\* however runs overlap, deadlock or are lost (tasks.py:146-160).
ReferenceIsBooked ==
  \A r \in Returns : reference[r] # NoRef =>
    reference[r][1] = r /\ erp[reference[r]] = "booked"

\* As long as executions have not overlapped, a stored reference stands and
\* ends the matter: it is never replaced, and nothing more is sent for its
\* return on a later day (tasks.py:116-121, 156-160).
ReferenceEndsIt ==
  [][ ~overlapped => \A r \in Returns : reference[r] # NoRef =>
        /\ reference'[r] = reference[r]
        /\ \A d \in 1..Days : erp[<<r, d>>] = "none" => erp'[<<r, d>>] = "none" ]_vars

\* A return has two corrections, of different days and so of different numbers,
\* only after an answer or a transaction was lost or executions overlapped.
OneCorrectionInFairWeather ==
  faults = 0 /\ ~overlapped =>
    \A m, n \in Numbers : erp[m] # "none" /\ erp[n] # "none" /\ m[1] = n[1] => m = n

\* What is sent adds up: one line for each item on the order, totals that are the
\* lines', the gross that net and VAT make, nothing ordinary charged, and the VAT
\* and the code of the rate for items with a net price and a rate
\* (ksef_export.py:48-81, 113-125).
CorrectionAddsUp ==
  \A r \in Returns : (\E d \in 1..Days : erp[<<r, d>>] # "none") => AddsUp(items[r])

\* An execution that has begun comes to its end, though executions overlap, wait
\* for each other's rows and deadlock (tasks.py:115-170, celery_app.py:27-30).
\* That returns get their references is not promised: as shipped nothing is sent,
\* and fifty that the ERP never answers with one keep later ones out of the batch.
ExecutionsEnd == \A w \in Runs : run[w].pc # "resting" ~> run[w].pc = "resting"
=============================================================================
