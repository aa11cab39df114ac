---------------------------- MODULE RefundSafety ----------------------------
(***************************************************************************)
(* What the refund pipeline guarantees, and under which discipline.        *)
(***************************************************************************)
EXTENDS RefundPipeline, FiniteSets

RequestRecord ==
  [ pc : {"idle", "read", "checked", "ready", "done"}, op : {"none", "refund", "credit", "move"},
    offer : Offers \cup {NoOffer}, seen : Status, target : Status ]

TaskRecord ==
  [ stage : {"none", "queued", "marked", "answered", "recorded", "settling", "refused",
             "finished", "done"},
    offer : Offers \cup {NoOffer}, tries : 0..MaxRetries,
    reply : AllReplies \cup {"none"}, matched : BOOLEAN ]

\* The type invariant: every variable keeps to the values its column or its
\* record may hold, and only a request or task that names an offer goes on to
\* use it as part of a key.
TypeOK ==
  /\ status \in [Returns -> Status]
  /\ approved \in [Returns -> Offers \cup {NoOffer}]
  /\ refund \in [Keys -> RowStatus]
  /\ refundId \in [Keys -> {"null", "provider", "key"}]
  /\ vouchers \in [Returns -> Nat]
  /\ request \in [Requests -> RequestRecord]
  /\ task \in [Requests -> TaskRecord]
  /\ ledger \in [Keys -> {"none", "pending", "paid", "rejected"}]
  /\ aborts \in 0..MaxAborts
  /\ crashes \in 0..MaxCrashes
  /\ \A q \in Requests :
       /\ InFlight(q) /\ request[q].op # "move" => request[q].offer \in Offers
       /\ InFlight(q) => request[q].op # "none"
       /\ task[q].stage # "none" => task[q].offer \in Offers

-----------------------------------------------------------------------------
(* Whatever overlaps, aborts or is lost.                                   *)

\* A refund row that says "succeeded" is not a lie: the provider has paid under
\* that very key, or has said that the charge is already refunded, and then the
\* row carries our key in place of a refund's id (tasks.py:200, stripe.py:69-78,
\* webhooks.py:109-118), whatever crashes, retries, replayed replies and late
\* webhooks came before.
SucceededWasPaid ==
  \A k \in Keys : refund[k] = "succeeded" => ledger[k] = "paid" \/ refundId[k] = "key"

\* The task of q is about to settle on a refund that has been paid under its key,
\* or on a charge the provider has called already refunded.
Vouched(q) ==
  /\ task[q].stage = "settling"
  /\ ledger[TaskKey(q)] = "paid" \/ task[q].reply = "already"

\* A return becomes "refunded" only by a task whose own refund has been paid by
\* then or reported as made already, or by an administrator's override
\* (tasks.py:211-215, returns.py:201).
RefundedOnlyOnAnswer ==
  [][ \A r \in Returns :
        status[r] # "refunded" /\ status'[r] = "refunded" =>
          \E q \in Requests : Addressee[q] = r /\ (Vouched(q) \/ CommitMove(q)) ]_vars

\* A row is never stranded in "processing": as long as it says so, some message
\* for its key is still to write an outcome, whichever worker died, whichever
\* other task of the same key finished first (tasks.py:184-227, celery_app.py:19).
ProcessingHasTask ==
  \A k \in Keys : refund[k] = "processing" =>
    \E q \in Requests :
      /\ task[q].stage \in {"queued", "marked", "answered", "recorded", "settling", "refused"}
      /\ TaskKey(q) = k

Started(q) == task[q].stage # "none"

\* The provider holds money for the key, or is about to.
Live(r, o) == ledger[<<r, o>>] \in {"pending", "paid"}

Compensations(r) == Cardinality({o \in Offers : Live(r, o)}) + vouchers[r]

\* The requests for refund or credit that sent a task or came to an end.
Asking(r) == {q \in Requests : Addressee[q] = r /\ (Started(q) \/ request[q].pc = "done")}

\* A return is compensated no more often than it was asked for: retries,
\* redeliveries and lost replies repeat a payment's key and never make another
\* payment of it (tasks.py:46, 182-198), and a request pays at most once.
OncePerRequest == \A r \in Returns : Compensations(r) <= Cardinality(Asking(r))

-----------------------------------------------------------------------------
(* When the sessions that write a return's status do not overlap (refund,  *)
(* credit, override, inspection, carrier's event and poll; the worker may  *)
(* overlap with all of them) and every request that dispatches its task    *)
(* also commits.  Nothing in the code enforces either: an inspection, an   *)
(* event or a poll that has read the return before it was refunded and     *)
(* commits after reopens it, and it can then be refunded again.            *)

\* The sessions that write the return's status come one at a time.
OneAtATime(r) ==
  \A p, q \in Requests :
    Addressee[p] = r /\ Addressee[q] = r /\ InFlight(p) /\ InFlight(q) => p = q

\* A request for the return is lost after it has sent its task.
LosesRequest(r) == \E q \in Requests : Addressee[q] = r /\ AbortRefund(q)

\* What is asked of the world for one return, and for all of them.
Undisturbed(r) == [](OneAtATime(r)) /\ [][~LosesRequest(r)]_vars

AllUndisturbed ==
  /\ [](\A r \in Returns : OneAtATime(r))
  /\ [][\A r \in Returns : ~LosesRequest(r)]_vars

CompensatedAtMostOnce(r) ==
  /\ \A o1, o2 \in Offers : Live(r, o1) /\ Live(r, o2) => o1 = o2
  /\ vouchers[r] <= 1
  /\ \A o \in Offers : Live(r, o) => vouchers[r] = 0

\* No return is compensated twice: the provider holds at most one refund of it
\* that is paid or on its way, there is at most one voucher, and never both
\* (Golden Rule #1, financial.py:52-63 and 118-127).
OneCompensation == \A r \in Returns : CompensatedAtMostOnce(r)

Busy(r) == \E q \in Requests : Addressee[q] = r /\ InFlight(q)

MoneyRecorded(r) ==
  \A o \in Offers : Live(r, o) /\ ~Busy(r) => approved[r] = o /\ refund[<<r, o>>] # "absent"

\* While no request is open on a return, what the provider holds is what the
\* return and the refunds table say was decided: the offer paid is the amount
\* approved, and its row exists (financial.py:65-78).
PaidAsApproved == \A r \in Returns : MoneyRecorded(r)

Unpaid(r) ==
  /\ vouchers[r] = 0
  /\ \A o \in Offers : refund[<<r, o>>] = "absent" /\ ledger[<<r, o>>] = "none"

\* A return that can still be resolved has not been: no row, no voucher, no
\* money at the provider.  No sequence of overrides, inspections, events, polls,
\* settlements and crashes brings a compensated return back to a status that can
\* be paid.
PayableIsUncompensated ==
  \A r \in Returns : status[r] \in Payable /\ ~Busy(r) => Unpaid(r)

\* What has been decided for a return: a refund when its task is sent, store
\* credit when its voucher is committed.
Decided(r) ==
  IF \E q \in Requests : Addressee[q] = r /\ Started(q)
  THEN task[CHOOSE q \in Requests : Addressee[q] = r /\ Started(q)].offer
  ELSE IF vouchers[r] > 0 THEN "credit" ELSE "open"

\* The pipeline implements the promise of Compensation.
Promise == INSTANCE Compensation WITH
  decision <- [r \in Returns |-> Decided(r)],
  paid <- [r \in Returns |-> PaidFor(r)]

\* Each step of requests, worker and provider decides a return that was open,
\* pays what was decided, once, or changes neither.
KeepsPromise == Promise!Spec

-----------------------------------------------------------------------------
(* The strengthenings the proofs of RefundProofs are by induction on.      *)

\* What is true of the requests' own records.
RequestInv ==
  \A q \in Requests : InFlight(q) =>
    /\ request[q].op = "refund" => request[q].target = "refund_initiated"
    /\ request[q].op = "credit" => request[q].target = "store_credit_issued"

\* A reply of "succeeded" is in hand only after the provider has paid under the
\* task's key, and a task settles only on a reply of success.
ReplyTold(q) ==
  /\ task[q].reply = "succeeded" => ledger[TaskKey(q)] = "paid"
  /\ Settles(q) => IsSuccess(task[q].reply)
  /\ task[q].stage = "none" => task[q].reply = "none"

ReplyInv == \A q \in Requests : ReplyTold(q)

\* The task is with the broker, the transaction is still open.
Sending(q) == request[q].pc = "ready" /\ request[q].op = "refund"

\* A request sends its task when its refund row is flushed, and not before.
NothingSentYet ==
  \A q \in Requests : request[q].pc # "done" /\ ~Sending(q) => task[q].stage = "none"

\* The message is still to write an outcome to its row: when it settles, the
\* row was there and is locked.
WillWrite(q) ==
  \/ task[q].stage \in {"queued", "marked", "answered"}
  \/ Settles(q) /\ task[q].matched

ProcessingIsHeld ==
  \A k \in Keys : refund[k] = "processing" =>
    \E q \in Requests : WillWrite(q) /\ TaskKey(q) = k

\* Nothing has been done for the return yet.
Fresh(r) ==
  /\ Unpaid(r)
  /\ \A q \in Requests : Addressee[q] = r => ~Started(q)

\* The message of a request that is about to commit is for the request's offer.
SentOwnOffer ==
  \A q \in Requests : Sending(q) => Started(q) /\ task[q].offer = request[q].offer

\* Rows and money exist only for what a request has sent a task for.
OnlyStartedKeys ==
  \A r \in Returns, o \in Offers :
    refund[<<r, o>>] # "absent" \/ ledger[<<r, o>>] # "none" =>
      \E q \in Requests : Started(q) /\ TaskKey(q) = <<r, o>>

OneTask(r) ==
  \A p, q \in Requests :
    Addressee[p] = r /\ Addressee[q] = r /\ Started(p) /\ Started(q) => p = q

\* A request acts on a return for which nothing has been done, or moves it
\* between the statuses of a resolved one.
ActsOnFresh(r) ==
  \A q \in Requests : Addressee[q] = r /\ InFlight(q) /\ ~Sending(q) =>
    \/ Fresh(r)
    \/ request[q].op = "move" /\ request[q].target \in Resolving

StartedIsResolving(r) ==
  \A q \in Requests : Addressee[q] = r /\ Started(q) =>
    /\ vouchers[r] = 0
    /\ ~Sending(q) => /\ status[r] \in Resolving
                      /\ approved[r] = task[q].offer
                      /\ refund[TaskKey(q)] # "absent"

CreditedIsResolving(r) == vouchers[r] # 0 => vouchers[r] = 1 /\ status[r] \in Resolving

\* Once something has been done for a return, exactly one request did it and
\* the return cannot leave the resolving statuses.
ResolvedByOne(r) ==
  /\ OneAtATime(r)
  /\ OneTask(r)
  /\ ActsOnFresh(r)
  /\ StartedIsResolving(r)
  /\ CreditedIsResolving(r)

\* The inductive reason for OneCompensation, PaidAsApproved and
\* PayableIsUncompensated: the last part holds of every return that is
\* Undisturbed, the others whatever happens.
ResolvedOnce ==
  /\ RequestInv
  /\ SentOwnOffer
  /\ OnlyStartedKeys
  /\ \A r \in Returns : ResolvedByOne(r)

-----------------------------------------------------------------------------
(* Progress, under FairSpec.                                               *)

\* Every message is done with in the end: redeliveries and retries run out.
TasksDrain == \A q \in Requests : task[q].stage = "queued" ~> task[q].stage = "done"

-----------------------------------------------------------------------------
(* What the code's own comments say of it; each is refuted by a run.       *)

\* "Idempotency_key must be stored in the refunds table BEFORE calling this"
\* (payments/base.py:40; "token already stored in DB before calling provider",
\* financial.py:89): the provider is called only for a key with a stored row.
StoredBeforeCall ==
  [][ \A q \in Requests : CallProvider(q) => refund[TaskKey(q)] # "absent" ]_vars

\* "If this call succeeds, mark refunds.status = 'succeeded'" (payments/base.py:41):
\* when nothing is under way any more, the row of a refund that was paid says so.
PaidIsRecorded ==
  \A q \in Requests :
    /\ task[q].stage = "done" /\ ledger[TaskKey(q)] = "paid"
    /\ \A p \in Requests : ~InFlight(p) /\ task[p].stage \in {"none", "done"}
    => refund[TaskKey(q)] = "succeeded"
=============================================================================
