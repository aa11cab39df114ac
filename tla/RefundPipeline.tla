--------------------------- MODULE RefundPipeline ---------------------------
(***************************************************************************)
(* Resolving a return: the requests that decide it (refund, store credit), *)
(* the others that write its status (override, warehouse inspection, the   *)
(* carrier's event, the tracking poll), the Celery task that carries a     *)
(* refund out, the payment provider and its webhook.                       *)
(*                                                                         *)
(* A request is one piece of work inside one database session: it reads at *)
(* some instants and its writes become visible together, when the session  *)
(* commits (session.py:24-33, webhooks.py:91, tasks.py:85).  PostgreSQL    *)
(* runs READ COMMITTED, no handler locks the rows it read or writes the    *)
(* status under a condition, so whatever a request has read may be stale   *)
(* when it commits.  The task of a refund is sent to the broker inside the *)
(* transaction, before the commit.                                         *)
(***************************************************************************)
EXTENDS ReturnStatus, Naturals

CONSTANTS
  Returns,      \* the returns
  Offers,       \* what can be refunded: a provider, an amount and a currency
  NoOffer,      \* no amount yet
  Requests,     \* the sessions that may act on a return, one decision of money each
  Addressee,    \* the return each of them works on
  Operations,   \* the operations the requests may be, of AllOperations
  Replies,      \* the replies the provider may give, of AllReplies
  MaxRetries,   \* initiate_refund's max_retries (tasks.py:46)
  MaxAborts,    \* bound: requests that dispatch a task and then fail to commit
  MaxCrashes,   \* bound: worker processes lost while they hold a message
  Registered,   \* the worker's process has an integrator for the provider, which
                \* the code as shipped registers in the API's process only
                \* (main.py:65-94)
  Serialised    \* TRUE: sessions that write the status of one return, the worker's
                \* apart, never overlap (nothing in the code enforces it)

AllOperations == {"refund", "credit", "override", "inspect", "event", "poll"}

\* What integrator.create_refund returns to the task.  "already" is Stripe's
\* charge_already_refunded, reported as SUCCEEDED with the idempotency key in
\* place of a provider id; "raised" is an exception out of the integrator.
AllReplies == {"succeeded", "already", "pending", "failed", "raised"}

ASSUME Parameters ==
  /\ Addressee \in [Requests -> Returns]
  /\ NoOffer \notin Offers
  /\ Operations \subseteq AllOperations
  /\ Replies \subseteq AllReplies
  /\ MaxRetries \in Nat /\ MaxAborts \in Nat /\ MaxCrashes \in Nat
  /\ Registered \in BOOLEAN
  /\ Serialised \in BOOLEAN

VARIABLES
  status,    \* returns.status, as committed
  approved,  \* returns.approved_refund_amount, as committed
  refund,    \* refunds.status by idempotency key, "absent" without a row
  refundId,  \* refunds.provider_refund_id: null, a provider's id or our key
  vouchers,  \* number of active vouchers of a return
  request,   \* the sessions of the requests
  task,      \* the Celery message each request may have sent
  ledger,    \* the provider's own record of each idempotency key
  aborts, crashes

vars == <<status, approved, refund, refundId, vouchers, request, task, ledger,
          aborts, crashes>>

\* The idempotency key is a hash of the return and the offer (financial.py:56).
Keys == Returns \X Offers

RowStatus == {"absent", "pending", "processing", "succeeded", "failed"}

Idle == [pc |-> "idle", op |-> "none", offer |-> NoOffer, seen |-> "draft", target |-> "draft"]
Done == [Idle EXCEPT !.pc = "done"]

Message(stage, o) ==
  [stage |-> stage, offer |-> o, tries |-> 0, reply |-> "none", matched |-> FALSE]
NoTask == Message("none", NoOffer)

\* Where a return can be, once created, before its money is decided.
Undecided == Payable \cup {"requires_inspection", "label_generated", "in_transit"}

Init ==
  /\ status \in [Returns -> Undecided]
  /\ approved = [r \in Returns |-> NoOffer]
  /\ refund = [k \in Keys |-> "absent"]
  /\ refundId = [k \in Keys |-> "null"]
  /\ vouchers = [r \in Returns |-> 0]
  /\ request = [q \in Requests |-> Idle]
  /\ task = [q \in Requests |-> NoTask]
  /\ ledger = [k \in Keys |-> "none"]
  /\ aborts = 0
  /\ crashes = 0

-----------------------------------------------------------------------------
(* Requests: "read" has read the return, "checked" has found no earlier    *)
(* refund, "ready" has done everything but commit.                         *)

InFlight(q) == request[q].pc \in {"read", "checked", "ready"}

MayStart(q) ==
  /\ request[q].pc = "idle"
  /\ Serialised => \A p \in Requests : Addressee[p] = Addressee[q] => ~InFlight(p)

\* The request as it stands after db.get: the status it saw is the one its
\* transition_to will be judged by.
Reading(q, op, o, to, pc) ==
  [pc |-> pc, op |-> op, offer |-> o, seen |-> status[Addressee[q]], target |-> to]

OfferKey(q) == <<Addressee[q], request[q].offer>>

\* A key inserted and flushed by a request that has not committed: the unique
\* index makes a second insert of it wait for that transaction to end.
HeldByOther(q) ==
  \E p \in Requests \ {q} :
    request[p].pc = "ready" /\ request[p].op = "refund" /\ OfferKey(p) = OfferKey(q)

Finish(q) == request' = [request EXCEPT ![q] = Done]

BeginRefund(q, o) ==
  /\ MayStart(q)
  /\ status[Addressee[q]] \in Payable
  /\ request' = [request EXCEPT ![q] = Reading(q, "refund", o, "refund_initiated", "read")]
  /\ UNCHANGED <<status, approved, refund, refundId, vouchers, task, ledger, aborts, crashes>>

\* The idempotency lookup: a committed row of the same key is returned as it is.
LookupRefund(q) ==
  /\ request[q].pc = "read" /\ request[q].op = "refund"
  /\ IF refund[OfferKey(q)] = "absent"
     THEN request' = [request EXCEPT ![q] = [@ EXCEPT !.pc = "checked"]]
     ELSE Finish(q)
  /\ UNCHANGED <<status, approved, refund, refundId, vouchers, task, ledger, aborts, crashes>>

MayInsert(q) ==
  refund[OfferKey(q)] = "absent" /\ CanTransition(request[q].seen, request[q].target)

\* Insert and flush the row, transition the return in memory, send the task.
InsertRefund(q) ==
  /\ request[q].pc = "checked" /\ request[q].op = "refund"
  /\ ~HeldByOther(q) /\ MayInsert(q)
  /\ request' = [request EXCEPT ![q] = [@ EXCEPT !.pc = "ready"]]
  /\ task' = [task EXCEPT ![q] = Message("queued", request[q].offer)]
  /\ UNCHANGED <<status, approved, refund, refundId, vouchers, ledger, aborts, crashes>>

\* IntegrityError from the flush, or ValueError from transition_to (a refund
\* from "approved"): get_db rolls everything back.
RejectRefund(q) ==
  /\ request[q].pc = "checked" /\ request[q].op = "refund"
  /\ ~HeldByOther(q) /\ ~MayInsert(q)
  /\ Finish(q)
  /\ UNCHANGED <<status, approved, refund, refundId, vouchers, task, ledger, aborts, crashes>>

\* Mutant: the amount that was approved is not written to the return.
CommitWithoutAmount(q) ==
  /\ request[q].pc = "ready" /\ request[q].op = "refund"
  /\ status' = [status EXCEPT ![Addressee[q]] = request[q].target]
  /\ refund' = [refund EXCEPT ![OfferKey(q)] = "pending"]
  /\ Finish(q)
  /\ UNCHANGED <<approved, refundId, vouchers, task, ledger, aborts, crashes>>

CommitRefund(q) ==
  /\ request[q].pc = "ready" /\ request[q].op = "refund"
  /\ status' = [status EXCEPT ![Addressee[q]] = request[q].target]
  /\ approved' = [approved EXCEPT ![Addressee[q]] = request[q].offer]
  /\ refund' = [refund EXCEPT ![OfferKey(q)] = "pending"]
  /\ Finish(q)
  /\ UNCHANGED <<refundId, vouchers, task, ledger, aborts, crashes>>

BeginCredit(q, o) ==
  /\ MayStart(q)
  /\ status[Addressee[q]] \in Payable
  /\ request' = [request EXCEPT ![q] = Reading(q, "credit", o, "store_credit_issued", "read")]
  /\ UNCHANGED <<status, approved, refund, refundId, vouchers, task, ledger, aborts, crashes>>

\* An active voucher is returned as it is; otherwise one is inserted (nothing
\* makes the return unique in vouchers) and the return transitioned, which
\* raises from "keep_it" and "approved".
LookupVoucher(q) ==
  /\ request[q].pc = "read" /\ request[q].op = "credit"
  /\ IF vouchers[Addressee[q]] = 0 /\ CanTransition(request[q].seen, request[q].target)
     THEN request' = [request EXCEPT ![q] = [@ EXCEPT !.pc = "ready"]]
     ELSE Finish(q)
  /\ UNCHANGED <<status, approved, refund, refundId, vouchers, task, ledger, aborts, crashes>>

\* Mutant: the voucher is stored and the return left where it was.
CommitVoucherOnly(q) ==
  /\ request[q].pc = "ready" /\ request[q].op = "credit"
  /\ vouchers' = [vouchers EXCEPT ![Addressee[q]] = @ + 1]
  /\ Finish(q)
  /\ UNCHANGED <<status, approved, refund, refundId, task, ledger, aborts, crashes>>

CommitCredit(q) ==
  /\ request[q].pc = "ready" /\ request[q].op = "credit"
  /\ status' = [status EXCEPT ![Addressee[q]] = request[q].target]
  /\ approved' = [approved EXCEPT ![Addressee[q]] = request[q].offer]
  /\ vouchers' = [vouchers EXCEPT ![Addressee[q]] = @ + 1]
  /\ Finish(q)
  /\ UNCHANGED <<refund, refundId, task, ledger, aborts, crashes>>

\* A session that does nothing but move the return, to what it makes of the
\* status it has read; where that is not legal it changes nothing.
BeginMove(q, to) ==
  /\ MayStart(q)
  /\ CanTransition(status[Addressee[q]], to)
  /\ request' = [request EXCEPT ![q] = Reading(q, "move", NoOffer, to, "ready")]
  /\ UNCHANGED <<status, approved, refund, refundId, vouchers, task, ledger, aborts, crashes>>

\* The administrator's override, to any status.
BeginOverride(q, to) == BeginMove(q, to)

\* warehouse_inspect; which of the three depends on the items' decisions.
BeginInspection(q, to) ==
  /\ to \in {"received", "partial_received", "rejected"}
  /\ BeginMove(q, to)

\* InPost's event, acted on in a background task.
BeginCarrierEvent(q, to) ==
  /\ <<status[Addressee[q]], to>> \in
       {<<"label_generated", "in_transit">>, <<"in_transit", "received">>}
  /\ BeginMove(q, to)

\* The poll reads every return in transit, asks the carrier of each, and commits
\* them together; this is its part in one return.
BeginPoll(q, to) ==
  /\ status[Addressee[q]] = "in_transit" /\ to = "received"
  /\ BeginMove(q, to)

\* UPDATE returns SET status ... WHERE id, whatever the status is by now.  There
\* may be any number of such sessions: this one is free for another.
CommitMove(q) ==
  /\ request[q].pc = "ready" /\ request[q].op = "move"
  /\ status' = [status EXCEPT ![Addressee[q]] = request[q].target]
  /\ request' = [request EXCEPT ![q] = Idle]
  /\ UNCHANGED <<approved, refund, refundId, vouchers, task, ledger, aborts, crashes>>

\* The process dies, or the COMMIT fails, after the task has been sent.
AbortRefund(q) ==
  /\ aborts < MaxAborts
  /\ request[q].pc = "ready" /\ request[q].op = "refund"
  /\ aborts' = aborts + 1
  /\ Finish(q)
  /\ UNCHANGED <<status, approved, refund, refundId, vouchers, task, ledger, crashes>>

-----------------------------------------------------------------------------
(* The worker, one message at a time per process.  "queued" is at the      *)
(* broker; "marked" has committed "processing"; "answered" has the         *)
(* provider's reply; "recorded" has updated the row and not committed;     *)
(* "settling" and "refused" have then read the return and found that it    *)
(* may, or may not, become "refunded"; "finished" has committed and not    *)
(* acknowledged.                                                           *)

TaskKey(q) == <<Addressee[q], task[q].offer>>

\* The outcome has been written to the row, if there was one, and not committed.
Settles(q) == task[q].stage \in {"recorded", "settling", "refused"}

\* A row updated by a transaction that has not committed: others wait for it.
RowLocked(k) ==
  \E p \in Requests : Settles(p) /\ task[p].matched /\ TaskKey(p) = k

\* UPDATE refunds ... WHERE idempotency_key = k: no row, no effect.
UpdateRow(k, s) == refund' = [refund EXCEPT ![k] = IF @ = "absent" THEN @ ELSE s]
UpdateId(k, id) ==
  refundId' = [refundId EXCEPT ![k] = IF refund[k] = "absent" THEN @ ELSE id]

\* Mutant: the retry counter does not advance.
RetryForever(t) == [t EXCEPT !.stage = "queued", !.reply = "none", !.matched = FALSE]

\* Mutant: the retry makes an idempotency key of its own.
RetryAnew(t) ==
  IF t.tries < MaxRetries
  THEN [t EXCEPT !.stage = "queued", !.tries = @ + 1, !.reply = "none", !.matched = FALSE,
                 !.offer = CHOOSE o \in Offers : o # t.offer]
  ELSE [t EXCEPT !.stage = "done", !.reply = "none", !.matched = FALSE]

\* self.retry: a new message while retries are left; else the task has failed.
Retried(t) ==
  IF t.tries < MaxRetries
  THEN [t EXCEPT !.stage = "queued", !.tries = @ + 1, !.reply = "none", !.matched = FALSE]
  ELSE [t EXCEPT !.stage = "done", !.reply = "none", !.matched = FALSE]

\* The countdown of a retry (120 s) outlasts the request that sent the task.
MarkProcessing(q) ==
  /\ task[q].stage = "queued"
  /\ task[q].tries > 0 => request[q].pc # "ready"
  /\ ~RowLocked(TaskKey(q))
  /\ UpdateRow(TaskKey(q), "processing")
  /\ task' = [task EXCEPT ![q] = [@ EXCEPT !.stage = "marked"]]
  /\ UNCHANGED <<status, approved, refundId, vouchers, request, ledger, aborts, crashes>>

PaidFor(r) == \E o \in Offers : ledger[<<r, o>>] = "paid"

\* The provider, external: <<its record of the key afterwards, its reply>>.
\* It moves money once per idempotency key; a repeated call reports the
\* refund's present or original state; any call may be answered by an
\* exception, the effect having taken place or not.  A charge that anything
\* else has exhausted, another return of the order or a refund made by hand,
\* is refused as already refunded, whatever has become of this return.
ProviderAnswers(k) ==
  LET fresh  == {<<"paid", "succeeded">>, <<"pending", "pending">>, <<"rejected", "failed">>,
                 <<"none", "already">>}
      replay == [none     |-> fresh,
                 paid     |-> {<<"paid", x>> : x \in {"succeeded", "already", "pending"}},
                 pending  |-> {<<"pending", "pending">>},
                 rejected |-> {<<"rejected", x>> : x \in {"failed", "pending"}}]
      known  == replay[ledger[k]]
      lost   == {<<a[1], "raised">> : a \in known} \cup {<<ledger[k], "raised">>}
  IN {a \in known \cup lost : a[2] \in Replies}

\* payment_registry.get comes first and raises in a process without the provider.
Answers(k) == IF Registered THEN ProviderAnswers(k) ELSE {<<ledger[k], "raised">>}

CallProvider(q) ==
  /\ task[q].stage = "marked"
  /\ \E a \in Answers(TaskKey(q)) :
       /\ ledger' = [ledger EXCEPT ![TaskKey(q)] = a[1]]
       /\ task' = [task EXCEPT ![q] = [@ EXCEPT !.stage = "answered", !.reply = a[2]]]
  /\ UNCHANGED <<status, approved, refund, refundId, vouchers, request, aborts, crashes>>

\* Mutant: a refund the provider has only accepted counts as paid.
AcceptedIsSuccess(reply) == reply \in {"succeeded", "already", "pending"}

\* new_status (tasks.py:200): everything but SUCCEEDED is "failed".
IsSuccess(reply) == reply \in {"succeeded", "already"}

ReplyId(reply) == IF reply = "already" THEN "key" ELSE "provider"

\* Mutant: the row keeps "processing" when the integrator raised.
RaiseWithoutRow(q) ==
  /\ task[q].stage = "answered" /\ task[q].reply = "raised"
  /\ ~RowLocked(TaskKey(q))
  /\ task' = [task EXCEPT ![q] = Retried(@)]
  /\ UNCHANGED <<status, approved, refund, refundId, vouchers, request, ledger, aborts, crashes>>

\* The except branch: the row is "failed", then the task retries the same key.
RecordException(q) ==
  /\ task[q].stage = "answered" /\ task[q].reply = "raised"
  /\ ~RowLocked(TaskKey(q))
  /\ UpdateRow(TaskKey(q), "failed")
  /\ task' = [task EXCEPT ![q] = Retried(@)]
  /\ UNCHANGED <<status, approved, refundId, vouchers, request, ledger, aborts, crashes>>

\* PENDING and FAILED alike: the row is "failed" and nothing is retried.
SettleFailure(q) ==
  /\ task[q].stage = "answered" /\ task[q].reply # "raised" /\ ~IsSuccess(task[q].reply)
  /\ ~RowLocked(TaskKey(q))
  /\ UpdateRow(TaskKey(q), "failed")
  /\ UpdateId(TaskKey(q), ReplyId(task[q].reply))
  /\ task' = [task EXCEPT ![q] = [@ EXCEPT !.stage = "finished"]]
  /\ UNCHANGED <<status, approved, vouchers, request, ledger, aborts, crashes>>

\* UPDATE refunds: locks the row if there is one.
SettleUpdate(q) ==
  /\ task[q].stage = "answered" /\ IsSuccess(task[q].reply)
  /\ ~RowLocked(TaskKey(q))
  /\ task' = [task EXCEPT ![q] = [@ EXCEPT !.stage = "recorded",
                                           !.matched = refund[TaskKey(q)] # "absent"]]
  /\ UNCHANGED <<status, approved, refund, refundId, vouchers, request, ledger, aborts, crashes>>

\* Then SELECT the return, which others may have changed meanwhile.
SettleRead(q) ==
  /\ task[q].stage = "recorded"
  /\ task' = [task EXCEPT ![q].stage =
                 IF CanTransition(status[Addressee[q]], "refunded") THEN "settling" ELSE "refused"]
  /\ UNCHANGED <<status, approved, refund, refundId, vouchers, request, ledger, aborts, crashes>>

\* transition_to raises: the except branch overwrites "succeeded" with "failed" in
\* the same transaction, keeping the provider's id, and retries.  Its UPDATE may
\* find a row that was not there for the first one.
SettleIllegal(q) ==
  /\ task[q].stage = "refused"
  /\ task[q].matched \/ ~RowLocked(TaskKey(q))
  /\ UpdateRow(TaskKey(q), "failed")
  /\ refundId' = [refundId EXCEPT ![TaskKey(q)] =
                    IF task[q].matched THEN ReplyId(task[q].reply) ELSE @]
  /\ task' = [task EXCEPT ![q] = Retried(@)]
  /\ UNCHANGED <<status, approved, vouchers, request, ledger, aborts, crashes>>

SettleCommit(q) ==
  /\ task[q].stage = "settling"
  /\ refund' = [refund EXCEPT ![TaskKey(q)] = IF task[q].matched THEN "succeeded" ELSE @]
  /\ refundId' = [refundId EXCEPT ![TaskKey(q)] =
                    IF task[q].matched THEN ReplyId(task[q].reply) ELSE @]
  /\ status' = [status EXCEPT ![Addressee[q]] = "refunded"]
  /\ task' = [task EXCEPT ![q] = [@ EXCEPT !.stage = "finished"]]
  /\ UNCHANGED <<approved, vouchers, request, ledger, aborts, crashes>>

\* acks_late: the message leaves the broker only now.
Ack(q) ==
  /\ task[q].stage = "finished"
  /\ task' = [task EXCEPT ![q] = [@ EXCEPT !.stage = "done", !.reply = "none", !.matched = FALSE]]
  /\ UNCHANGED <<status, approved, refund, refundId, vouchers, request, ledger, aborts, crashes>>

\* reject_on_worker_lost: what was not committed is rolled back and the message
\* is delivered again, its retry count unchanged.
WorkerLost(q) ==
  /\ crashes < MaxCrashes
  /\ task[q].stage \in {"marked", "answered", "recorded", "settling", "refused", "finished"}
  /\ crashes' = crashes + 1
  /\ task' = [task EXCEPT ![q] = [@ EXCEPT !.stage = "queued", !.reply = "none", !.matched = FALSE]]
  /\ UNCHANGED <<status, approved, refund, refundId, vouchers, request, ledger, aborts>>

-----------------------------------------------------------------------------
(* The provider on its own, and its webhook.                               *)

ProviderSettles(k) ==
  /\ ledger[k] = "pending"
  /\ \E s \in {"paid", "rejected"} : ledger' = [ledger EXCEPT ![k] = s]
  /\ UNCHANGED <<status, approved, refund, refundId, vouchers, request, task, aborts, crashes>>

\* Mutant: Stripe's "canceled" is stored as it comes.
RawRowStatus(l) == IF l = "paid" THEN "succeeded" ELSE "canceled"

\* status_map (webhooks.py:109).
EventRowStatus(l) == IF l = "paid" THEN "succeeded" ELSE "failed"

\* Stripe's refund.updated, at any time after the outcome, any number of times.
\* It finds the row by the provider's id: until that is stored, or when the
\* task stored our own key instead, no row matches.  The return is not touched.
StripeWebhook(k) ==
  /\ ledger[k] \in {"paid", "rejected"}
  /\ refundId[k] = "provider"
  /\ ~RowLocked(k)
  /\ UpdateRow(k, EventRowStatus(ledger[k]))
  /\ UNCHANGED <<status, approved, refundId, vouchers, request, task, ledger, aborts, crashes>>

-----------------------------------------------------------------------------

Begin(q) ==
  \/ "refund" \in Operations /\ \E o \in Offers : BeginRefund(q, o)
  \/ "credit" \in Operations /\ \E o \in Offers : BeginCredit(q, o)
  \/ \E to \in Status :
       \/ "override" \in Operations /\ BeginOverride(q, to)
       \/ "inspect" \in Operations /\ BeginInspection(q, to)
       \/ "event" \in Operations /\ BeginCarrierEvent(q, to)
       \/ "poll" \in Operations /\ BeginPoll(q, to)

\* What a handler does on its own once it has begun.
Handle(q) ==
  \/ LookupRefund(q) \/ InsertRefund(q) \/ RejectRefund(q) \/ CommitRefund(q)
  \/ LookupVoucher(q) \/ CommitCredit(q)
  \/ CommitMove(q)

Work(q) ==
  \/ MarkProcessing(q) \/ CallProvider(q) \/ RecordException(q)
  \/ SettleFailure(q) \/ SettleUpdate(q) \/ SettleRead(q) \/ SettleIllegal(q)
  \/ SettleCommit(q)
  \/ Ack(q)

Next ==
  \/ \E q \in Requests : Begin(q) \/ Handle(q) \/ AbortRefund(q) \/ Work(q) \/ WorkerLost(q)
  \/ \E k \in Keys : ProviderSettles(k) \/ StripeWebhook(k)

Spec == Init /\ [][Next]_vars

\* Handlers and workers run to completion; nobody is obliged to begin a request,
\* the provider to settle, or its webhook to be delivered.
FairSpec ==
  Spec /\ \A q \in Requests : WF_vars(Handle(q)) /\ WF_vars(Work(q))
=============================================================================
