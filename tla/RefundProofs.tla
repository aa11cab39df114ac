---------------------------- MODULE RefundProofs ----------------------------
(***************************************************************************)
(* Proofs about the refund pipeline, for any sets of returns, offers and   *)
(* requests, any number of retries and any number of lost workers.         *)
(***************************************************************************)
EXTENDS RefundSafety, Integers, FiniteSetTheorems, FunctionTheorems, TLAPS

\* The fifteen statuses, and the ones the pipeline names among them.
LEMMA StatusSet ==
  /\ Status = {"draft", "pending", "requires_inspection", "approved", "label_generated",
               "in_transit", "received", "partial_received", "keep_it", "refund_initiated",
               "refunded", "store_credit_issued", "rejected", "cancelled", "closed"}
  /\ Payable \subseteq Status
  /\ Resolving \subseteq Status
  /\ Payable \cap Resolving = {}
BY DEF Status, VALID_TRANSITIONS, Payable, Resolving

\* A legal transition ends in a status (VALID_TRANSITIONS names no other).
LEMMA TransitionTyped ==
  ASSUME NEW s \in Status, NEW t, CanTransition(s, t)
  PROVE  t \in Status
BY StatusSet DEF CanTransition, VALID_TRANSITIONS

\* No legal transition leaves the resolving statuses: once money has been
\* decided for a return, the table alone keeps it from being payable again.
LEMMA ResolvingClosed ==
  ASSUME NEW s \in Resolving, NEW t, CanTransition(s, t)
  PROVE  t \in Resolving
BY DEF CanTransition, VALID_TRANSITIONS, Resolving

\* The four sessions that only move a return begin alike.
LEMMA BeginCases ==
  ASSUME NEW q \in Requests, Begin(q)
  PROVE  \/ \E o \in Offers : BeginRefund(q, o) \/ BeginCredit(q, o)
         \/ \E to \in Status : BeginMove(q, to)
BY DEF Begin, BeginOverride, BeginInspection, BeginCarrierEvent, BeginPoll

-----------------------------------------------------------------------------
(* Type correctness.                                                       *)

\* The record a request starts from is a request record.
LEMMA ReadingTyped ==
  ASSUME TypeOK, NEW q \in Requests, NEW op \in {"refund", "credit", "move"},
         NEW o \in Offers \cup {NoOffer}, NEW to \in Status,
         NEW pc \in {"read", "checked", "ready"}
  PROVE  Reading(q, op, o, to, pc) \in RequestRecord
BY Parameters DEF TypeOK, Reading, RequestRecord

\* So are the idle and the finished ones.
LEMMA IdleTyped == Idle \in RequestRecord /\ Done \in RequestRecord
BY StatusSet DEF Idle, Done, RequestRecord

\* A request record moved on is a request record.
LEMMA RequestMoved ==
  ASSUME NEW t \in RequestRecord, NEW pc \in {"idle", "read", "checked", "ready", "done"}
  PROVE  /\ [t EXCEPT !.pc = pc] \in RequestRecord
         /\ [t EXCEPT !.pc = pc].op = t.op
         /\ [t EXCEPT !.pc = pc].offer = t.offer
BY DEF RequestRecord

\* A message at the broker, and no message, are task records.
LEMMA MessageTyped ==
  ASSUME NEW s \in {"none", "queued"}, NEW o \in Offers \cup {NoOffer}
  PROVE  /\ Message(s, o) \in TaskRecord
         /\ Message(s, o).offer = o
         /\ Message(s, o).stage = s
         /\ Message(s, o).reply = "none"
<1>1. 0 \in 0..MaxRetries
  BY Parameters
<1> QED  BY <1>1 DEF Message, TaskRecord

\* A task record moved on is a task record.
LEMMA TaskMoved ==
  ASSUME NEW t \in TaskRecord,
         NEW s \in {"none", "queued", "marked", "answered", "recorded", "settling", "refused",
                  "finished", "done"},
         NEW a \in AllReplies \cup {"none"}, NEW m \in BOOLEAN
  PROVE  /\ [t EXCEPT !.stage = s] \in TaskRecord
         /\ [t EXCEPT !.stage = s, !.reply = a] \in TaskRecord
         /\ [t EXCEPT !.stage = s, !.matched = m] \in TaskRecord
         /\ [t EXCEPT !.stage = s, !.reply = a, !.matched = m] \in TaskRecord
BY DEF TaskRecord

\* A task that is done with a delivery keeps its offer and no reply.
LEMMA TaskCleared ==
  ASSUME NEW t \in TaskRecord, NEW s \in {"queued", "done"}
  PROVE  LET u == [t EXCEPT !.stage = s, !.reply = "none", !.matched = FALSE]
         IN  /\ u \in TaskRecord
             /\ u.offer = t.offer
             /\ u.stage = s
             /\ u.reply = "none"
BY DEF TaskRecord

\* A retried task is a task record with the same offer.
LEMMA RetriedTyped ==
  ASSUME NEW t \in TaskRecord
  PROVE  /\ Retried(t) \in TaskRecord
         /\ Retried(t).offer = t.offer
         /\ Retried(t).stage # "none"
         /\ Retried(t).reply = "none"
         /\ Retried(t).stage \in {"queued", "done"}
<1>1. t.tries \in 0..MaxRetries /\ MaxRetries \in Nat
  BY Parameters DEF TaskRecord
<1>2. t.tries < MaxRetries => t.tries + 1 \in 0..MaxRetries
  BY <1>1
<1>3. CASE t.tries < MaxRetries
  <2>1. Retried(t) = [t EXCEPT !.stage = "queued", !.tries = @ + 1, !.reply = "none",
                               !.matched = FALSE]
    BY <1>3 DEF Retried
  <2> QED  BY <1>2, <1>3, <2>1 DEF TaskRecord
<1>4. CASE ~(t.tries < MaxRetries)
  <2>1. Retried(t) = [t EXCEPT !.stage = "done", !.reply = "none", !.matched = FALSE]
    BY <1>4 DEF Retried
  <2> QED  BY <2>1 DEF TaskRecord
<1> QED  BY <1>3, <1>4

\* What a call can come back with: a reply and the state of the provider's ledger
\* after it; what is paid stays paid, and "succeeded" is reported of what is paid.
LEMMA ProviderTyped ==
  ASSUME TypeOK, NEW k \in Keys, NEW a \in Answers(k)
  PROVE  /\ a[1] \in {"none", "pending", "paid", "rejected"}
         /\ a[2] \in AllReplies
         /\ ledger[k] = "paid" => a[1] = "paid"
         /\ a[2] = "succeeded" => a[1] = "paid"
<1> DEFINE l == ledger[k]
<1>1. l \in {"none", "pending", "paid", "rejected"}
  BY DEF TypeOK
<1>2. CASE ~Registered
  BY <1>1, <1>2 DEF Answers, AllReplies
<1>3. CASE Registered
  <2>1. a \in ProviderAnswers(k)
    BY <1>3 DEF Answers
  <2> QED  BY <1>1, <2>1 DEF ProviderAnswers, AllReplies
<1> QED  BY <1>2, <1>3

\* Every step keeps the type invariant.
LEMMA TypeStep == TypeOK /\ [Next]_vars => TypeOK'
<1> SUFFICES ASSUME TypeOK, [Next]_vars PROVE TypeOK'
  OBVIOUS
<1>a. \A q \in Requests : Addressee[q] \in Returns
  BY Parameters
<1>b. ASSUME NEW q \in Requests, InFlight(q), request[q].op # "move"
      PROVE  OfferKey(q) \in Keys /\ request[q].offer \in Offers
  BY <1>a, <1>b DEF TypeOK, OfferKey, Keys
<1>c. ASSUME NEW q \in Requests, task[q].stage # "none"
      PROVE  TaskKey(q) \in Keys /\ task[q].offer \in Offers
  BY <1>a, <1>c DEF TypeOK, TaskKey, Keys
<1>d. ASSUME NEW q \in Requests
      PROVE  request[q] \in RequestRecord /\ task[q] \in TaskRecord
  BY DEF TypeOK
<1>e. ASSUME NEW q \in Requests, InFlight(q)
      PROVE  Addressee[q] \in Returns /\ request[q].target \in Status
  BY <1>a, <1>d DEF RequestRecord
<1>f. Idle \in RequestRecord /\ Done \in RequestRecord /\ Done.pc = "done"
  BY IdleTyped DEF Done, Idle
<1>1. ASSUME NEW q \in Requests, NEW o \in Offers, BeginRefund(q, o) PROVE TypeOK'
  <2>1. Reading(q, "refund", o, "refund_initiated", "read") \in RequestRecord
    BY ReadingTyped, StatusSet
  <2> QED  BY <1>1, <2>1 DEF BeginRefund, TypeOK, InFlight, Reading
<1>2. ASSUME NEW q \in Requests, NEW o \in Offers, BeginCredit(q, o) PROVE TypeOK'
  <2>1. Reading(q, "credit", o, "store_credit_issued", "read") \in RequestRecord
    BY ReadingTyped, StatusSet
  <2> QED  BY <1>2, <2>1 DEF BeginCredit, TypeOK, InFlight, Reading
<1>3. ASSUME NEW q \in Requests, NEW to \in Status, BeginMove(q, to) PROVE TypeOK'
  <2>1. Reading(q, "move", NoOffer, to, "ready") \in RequestRecord
    BY ReadingTyped
  <2> QED  BY <1>3, <2>1 DEF BeginMove, TypeOK, InFlight, Reading
<1>4. ASSUME NEW q \in Requests, LookupRefund(q) PROVE TypeOK'
  <2>1. [request[q] EXCEPT !.pc = "checked"] \in RequestRecord
    BY <1>d, RequestMoved
  <2>2. request[q].offer \in Offers
    BY <1>4, <1>b DEF LookupRefund, InFlight
  <2>3. [request[q] EXCEPT !.pc = "checked"].offer = request[q].offer
        /\ [request[q] EXCEPT !.pc = "checked"].op = request[q].op
    BY <1>d, RequestMoved
  <2>4. \/ request' = [request EXCEPT ![q] = [@ EXCEPT !.pc = "checked"]]
        \/ request' = [request EXCEPT ![q] = Done]
    BY <1>4 DEF LookupRefund, Finish
  <2>5. request[q].op = "refund"
    BY <1>4 DEF LookupRefund
  <2> QED  BY <1>4, <1>f, <2>1, <2>2, <2>3, <2>4, <2>5 DEF LookupRefund, TypeOK, InFlight
<1>5. ASSUME NEW q \in Requests, InsertRefund(q) PROVE TypeOK'
  <2>1. InFlight(q) /\ request[q].offer \in Offers
    BY <1>5, <1>b DEF InsertRefund, InFlight
  <2>2. [request[q] EXCEPT !.pc = "ready"] \in RequestRecord
    BY <1>d, RequestMoved
  <2>3. Message("queued", request[q].offer) \in TaskRecord
        /\ Message("queued", request[q].offer).offer \in Offers
    BY <2>1, MessageTyped
  <2> QED  BY <1>5, <1>d, <2>1, <2>2, <2>3 DEF InsertRefund, TypeOK, InFlight
<1>6. ASSUME NEW q \in Requests, RejectRefund(q) PROVE TypeOK'
  BY <1>6, <1>f DEF RejectRefund, Finish, TypeOK, InFlight
<1>7. ASSUME NEW q \in Requests, CommitRefund(q) PROVE TypeOK'
  BY <1>7, <1>b, <1>e, <1>f DEF CommitRefund, Finish, TypeOK, InFlight, RowStatus
<1>8. ASSUME NEW q \in Requests, LookupVoucher(q) PROVE TypeOK'
  <2>1. [request[q] EXCEPT !.pc = "ready"] \in RequestRecord
    BY <1>d, RequestMoved
  <2>2. request[q].offer \in Offers
    BY <1>8, <1>b DEF LookupVoucher, InFlight
  <2>3. [request[q] EXCEPT !.pc = "ready"].offer = request[q].offer
        /\ [request[q] EXCEPT !.pc = "ready"].op = request[q].op
    BY <1>d, RequestMoved
  <2>4. \/ request' = [request EXCEPT ![q] = [@ EXCEPT !.pc = "ready"]]
        \/ request' = [request EXCEPT ![q] = Done]
    BY <1>8 DEF LookupVoucher, Finish
  <2>5. request[q].op = "credit"
    BY <1>8 DEF LookupVoucher
  <2> QED  BY <1>8, <1>f, <2>1, <2>2, <2>3, <2>4, <2>5 DEF LookupVoucher, TypeOK, InFlight
<1>9. ASSUME NEW q \in Requests, CommitCredit(q) PROVE TypeOK'
  BY <1>9, <1>b, <1>e, <1>f DEF CommitCredit, Finish, TypeOK, InFlight
<1>10. ASSUME NEW q \in Requests, CommitMove(q) PROVE TypeOK'
  <2>1. Idle.pc = "idle"
    BY DEF Idle
  <2> QED  BY <1>10, <1>e, <1>f, <2>1 DEF CommitMove, TypeOK, InFlight
<1>11. ASSUME NEW q \in Requests, AbortRefund(q) PROVE TypeOK'
  <2>1. aborts' \in 0..MaxAborts
    BY <1>11, Parameters DEF AbortRefund, TypeOK
  <2> QED  BY <1>11, <1>f, <2>1 DEF AbortRefund, Finish, TypeOK, InFlight
<1>12. ASSUME NEW q \in Requests, MarkProcessing(q) PROVE TypeOK'
  <2>1. [task[q] EXCEPT !.stage = "marked"] \in TaskRecord
    BY <1>d, TaskMoved
  <2>2. [task[q] EXCEPT !.stage = "marked"].offer \in Offers
    BY <1>12, <1>c, <1>d DEF MarkProcessing, TaskRecord
  <2>3. task' = [task EXCEPT ![q] = [task[q] EXCEPT !.stage = "marked"]]
    BY <1>12 DEF MarkProcessing
  <2> QED  BY <1>12, <2>1, <2>2, <2>3 DEF MarkProcessing, UpdateRow, TypeOK, RowStatus, InFlight
<1>13. ASSUME NEW q \in Requests, CallProvider(q) PROVE TypeOK'
  <2>1. PICK a \in Answers(TaskKey(q)) :
          /\ ledger' = [ledger EXCEPT ![TaskKey(q)] = a[1]]
          /\ task' = [task EXCEPT ![q] = [@ EXCEPT !.stage = "answered", !.reply = a[2]]]
    BY <1>13 DEF CallProvider
  <2>2. task[q].stage # "none"
    BY <1>13 DEF CallProvider
  <2>3. a[1] \in {"none", "pending", "paid", "rejected"} /\ a[2] \in AllReplies
    BY <1>c, <2>2, ProviderTyped
  <2>4. task' \in [Requests -> TaskRecord]
    BY <1>d, <2>1, <2>3, TaskMoved DEF TypeOK
  <2>5. ledger' \in [Keys -> {"none", "pending", "paid", "rejected"}]
    BY <2>1, <2>3 DEF TypeOK
  <2> QED  BY <1>13, <1>c, <2>1, <2>2, <2>4, <2>5 DEF CallProvider, TypeOK, InFlight
<1>14. ASSUME NEW q \in Requests, RecordException(q) PROVE TypeOK'
  <2>1. Retried(task[q]) \in TaskRecord /\ Retried(task[q]).offer = task[q].offer
    BY <1>d, RetriedTyped
  <2> QED  BY <1>14, <1>c, <2>1 DEF RecordException, UpdateRow, TypeOK, RowStatus, InFlight
<1>15. ASSUME NEW q \in Requests, SettleFailure(q) PROVE TypeOK'
  <2>1. [task[q] EXCEPT !.stage = "finished"] \in TaskRecord
    BY <1>d, TaskMoved
  <2>2. [task[q] EXCEPT !.stage = "finished"].offer \in Offers
    BY <1>15, <1>c, <1>d DEF SettleFailure, TaskRecord
  <2>3. task' = [task EXCEPT ![q] = [task[q] EXCEPT !.stage = "finished"]]
    BY <1>15 DEF SettleFailure
  <2> QED  BY <1>15, <2>1, <2>2, <2>3
           DEF SettleFailure, UpdateRow, UpdateId, ReplyId, TypeOK, RowStatus, InFlight
<1>16. ASSUME NEW q \in Requests, SettleUpdate(q) PROVE TypeOK'
  <2> DEFINE found == refund[TaskKey(q)] # "absent"
  <2>1. found \in BOOLEAN
    OBVIOUS
  <2>2. [task[q] EXCEPT !.stage = "recorded", !.matched = found] \in TaskRecord
    <3> HIDE DEF found
    <3> QED  BY <1>d, <2>1, TaskMoved
  <2>3. task' = [task EXCEPT ![q] = [task[q] EXCEPT !.stage = "recorded", !.matched = found]]
    BY <1>16 DEF SettleUpdate
  <2>4. [task[q] EXCEPT !.stage = "recorded", !.matched = found].offer \in Offers
    <3> HIDE DEF found
    <3> QED  BY <1>16, <1>c, <1>d DEF SettleUpdate, TaskRecord
  <2> HIDE DEF found
  <2> QED  BY <1>16, <2>2, <2>3, <2>4 DEF SettleUpdate, TypeOK, InFlight
<1>24. ASSUME NEW q \in Requests, SettleRead(q) PROVE TypeOK'
  <2>1. PICK s \in {"settling", "refused"} : task' = [task EXCEPT ![q] = [@ EXCEPT !.stage = s]]
    BY <1>24 DEF SettleRead
  <2>2. [task[q] EXCEPT !.stage = s] \in TaskRecord
    BY <1>d, TaskMoved
  <2>3. [task[q] EXCEPT !.stage = s].offer \in Offers
    BY <1>24, <1>c, <1>d DEF SettleRead, TaskRecord
  <2> QED  BY <1>24, <2>1, <2>2, <2>3 DEF SettleRead, TypeOK, InFlight
<1>17. ASSUME NEW q \in Requests, SettleIllegal(q) PROVE TypeOK'
  <2>1. Retried(task[q]) \in TaskRecord /\ Retried(task[q]).offer = task[q].offer
    BY <1>d, RetriedTyped
  <2> QED
    BY <1>17, <1>c, <2>1
       DEF SettleIllegal, UpdateRow, UpdateId, ReplyId, TypeOK, RowStatus, InFlight
<1>18. ASSUME NEW q \in Requests, SettleCommit(q) PROVE TypeOK'
  <2>1. [task[q] EXCEPT !.stage = "finished"] \in TaskRecord
    BY <1>d, TaskMoved
  <2>2. TaskKey(q) \in Keys /\ task[q].offer \in Offers
    BY <1>18, <1>c DEF SettleCommit
  <2> QED  BY <1>18, <1>a, <2>1, <2>2, StatusSet DEF SettleCommit, ReplyId, TypeOK, RowStatus,
           InFlight
<1>19. ASSUME NEW q \in Requests, Ack(q) PROVE TypeOK'
  <2> DEFINE u == [task[q] EXCEPT !.stage = "done", !.reply = "none", !.matched = FALSE]
  <2>1. u \in TaskRecord /\ u.offer = task[q].offer
    BY <1>d, TaskCleared
  <2>2. task' = [task EXCEPT ![q] = u] /\ task[q].stage # "none"
    BY <1>19 DEF Ack
  <2> HIDE DEF u
  <2> QED  BY <1>19, <1>c, <2>1, <2>2 DEF Ack, TypeOK, InFlight
<1>20. ASSUME NEW q \in Requests, WorkerLost(q) PROVE TypeOK'
  <2>1. crashes' \in 0..MaxCrashes
    BY <1>20, Parameters DEF WorkerLost, TypeOK
  <2> DEFINE u == [task[q] EXCEPT !.stage = "queued", !.reply = "none", !.matched = FALSE]
  <2>2. u \in TaskRecord /\ u.offer = task[q].offer
    BY <1>d, TaskCleared
  <2>3. task' = [task EXCEPT ![q] = u] /\ task[q].stage # "none"
    BY <1>20 DEF WorkerLost
  <2> HIDE DEF u
  <2> QED  BY <1>20, <1>c, <2>1, <2>2, <2>3 DEF WorkerLost, TypeOK, InFlight
<1>21. ASSUME NEW k \in Keys, ProviderSettles(k) PROVE TypeOK'
  BY <1>21 DEF ProviderSettles, TypeOK, InFlight
<1>22. ASSUME NEW k \in Keys, StripeWebhook(k) PROVE TypeOK'
  BY <1>22 DEF StripeWebhook, UpdateRow, EventRowStatus, TypeOK, RowStatus, InFlight
<1>23. ASSUME UNCHANGED vars PROVE TypeOK'
  BY <1>23 DEF vars, TypeOK, InFlight
<1> QED
  BY <1>1, <1>2, <1>3, <1>4, <1>5, <1>6, <1>7, <1>8, <1>9, <1>10, <1>11, <1>12, <1>13, <1>14,
     <1>15, <1>16, <1>17, <1>18, <1>19, <1>20, <1>21, <1>22, <1>23, <1>24, BeginCases
     DEF Next, Handle, Work

\* The initial states are well typed.
LEMMA InitTyped == Init => TypeOK
<1> SUFFICES ASSUME Init PROVE TypeOK
  OBVIOUS
<1>1. NoTask \in TaskRecord /\ NoTask.stage = "none"
  BY MessageTyped DEF NoTask
<1>2. Idle \in RequestRecord /\ Idle.pc = "idle"
  BY IdleTyped DEF Idle
<1>3. aborts \in 0..MaxAborts /\ crashes \in 0..MaxCrashes
  BY Parameters DEF Init
<1>4. status \in [Returns -> Status]
  BY StatusSet DEF Init, Undecided
<1>5. \A q \in Requests : ~InFlight(q)
  BY <1>2 DEF Init, InFlight
<1> QED  BY <1>1, <1>2, <1>3, <1>4, <1>5 DEF Init, TypeOK, RowStatus

\* Type correctness: the columns and records hold what they may, in every
\* reachable state, for every set of returns, offers and requests.
THEOREM TypeCorrect == Spec => []TypeOK
BY InitTyped, TypeStep, PTL DEF Spec

-----------------------------------------------------------------------------
(* A row that says "succeeded" was paid, whatever overlaps or is lost.     *)

\* A worker handles a message, touches no request and loses no other worker;
\* it moves money only by calling the provider.
LEMMA WorkIsApart ==
  ASSUME NEW q \in Requests, Work(q)
  PROVE  /\ UNCHANGED request /\ UNCHANGED crashes /\ Started(q)
         /\ UNCHANGED ledger \/ CallProvider(q)
<1>1. CASE MarkProcessing(q)
  BY <1>1 DEF MarkProcessing, Started
<1>2. CASE CallProvider(q)
  BY <1>2 DEF CallProvider, Started
<1>3. CASE RecordException(q) \/ SettleFailure(q)
  BY <1>3 DEF RecordException, SettleFailure, Started
<1>4. CASE SettleUpdate(q) \/ SettleRead(q) \/ SettleIllegal(q)
  BY <1>4 DEF SettleUpdate, SettleRead, SettleIllegal, Started
<1>5. CASE SettleCommit(q) \/ Ack(q)
  BY <1>5 DEF SettleCommit, Ack, Started
<1> QED  BY <1>1, <1>2, <1>3, <1>4, <1>5 DEF Work

\* The provider does not take money back: what it has paid stays paid.
LEMMA KeyPaidStays ==
  ASSUME TypeOK, [Next]_vars, NEW k \in Keys, ledger[k] = "paid"
  PROVE  ledger'[k] = "paid"
<1>1. CASE \E q \in Requests : CallProvider(q)
  <2>1. PICK q \in Requests : CallProvider(q)
    BY <1>1
  <2>2. PICK a \in Answers(TaskKey(q)) :
          ledger' = [ledger EXCEPT ![TaskKey(q)] = a[1]]
    BY <2>1 DEF CallProvider
  <2>3. TaskKey(q) \in Keys
    BY <2>1, Parameters DEF TypeOK, CallProvider, TaskKey, Keys
  <2>4. ledger[TaskKey(q)] = "paid" => a[1] = "paid"
    BY <2>3, ProviderTyped
  <2> QED  BY <2>2, <2>4 DEF TypeOK
<1>2. CASE \E l \in Keys : ProviderSettles(l)
  BY <1>2 DEF ProviderSettles, TypeOK
<1>3. CASE UNCHANGED ledger
  BY <1>3
<1> QED
  BY <1>1, <1>2, <1>3, BeginCases
     DEF Next, Handle, Work, vars, BeginRefund, BeginCredit, BeginMove, LookupRefund,
         InsertRefund, RejectRefund, CommitRefund, LookupVoucher, CommitCredit, CommitMove,
         AbortRefund, MarkProcessing, RecordException, SettleFailure, SettleUpdate, SettleRead,
         SettleIllegal, SettleCommit, Ack, WorkerLost, StripeWebhook

LEMMA PaidStays ==
  ASSUME TypeOK, [Next]_vars, NEW r \in Returns, PaidFor(r)
  PROVE  PaidFor(r)'
<1>1. PICK o \in Offers : ledger[<<r, o>>] = "paid"
  BY DEF PaidFor
<1>2. ledger'[<<r, o>>] = "paid"
  BY <1>1, KeyPaidStays DEF Keys
<1> QED  BY <1>2 DEF PaidFor

\* A message that keeps its key and its reply, and settles only on a success.
LEMMA ReplyKept ==
  ASSUME TypeOK, [Next]_vars, NEW p \in Requests, ReplyTold(p),
         task'[p].offer = task[p].offer, task'[p].reply = task[p].reply,
         task'[p].stage # "none",
         Settles(p)' => Settles(p) \/ IsSuccess(task[p].reply)
  PROVE  ReplyTold(p)'
<1>1. TaskKey(p)' = TaskKey(p)
  BY DEF TaskKey
<1>2. ASSUME task[p].reply = "succeeded" PROVE ledger'[TaskKey(p)] = "paid"
  <2>1. TaskKey(p) \in Keys
    BY <1>2, Parameters DEF ReplyTold, TypeOK, TaskKey, Keys
  <2> QED  BY <1>2, <2>1, KeyPaidStays DEF ReplyTold
<1> QED  BY <1>1, <1>2 DEF ReplyTold

\* A message without a reply does not settle.
LEMMA ReplyNone ==
  ASSUME NEW p \in Requests, task'[p].reply = "none", ~Settles(p)'
  PROVE  ReplyTold(p)'
BY DEF ReplyTold

\* A task comes to hold a success only from the provider, and only then settles.
LEMMA ReplyStep == TypeOK /\ ReplyInv /\ [Next]_vars => ReplyInv'
<1> SUFFICES ASSUME TypeOK, ReplyInv, [Next]_vars, NEW p \in Requests
             PROVE  ReplyTold(p)'
  BY DEF ReplyInv
<1>1. ReplyTold(p) /\ Addressee[p] \in Returns /\ task[p] \in TaskRecord
  BY Parameters DEF ReplyInv, TypeOK
<1>2. ASSUME task'[p] = task[p] PROVE ReplyTold(p)'
  <2>1. Settles(p)' <=> Settles(p)
    BY <1>2 DEF Settles
  <2>2. CASE task[p].stage = "none"
    BY <1>1, <1>2, <2>1, <2>2 DEF ReplyTold, IsSuccess
  <2>3. CASE task[p].stage # "none"
    BY <1>1, <1>2, <2>1, <2>3, ReplyKept
  <2> QED  BY <2>2, <2>3
<1>3. ASSUME NEW q \in Requests, InsertRefund(q) PROVE ReplyTold(p)'
  <2>1. task'[p] = task[p] \/ task'[p] = Message("queued", request[q].offer)
    BY <1>3 DEF InsertRefund, TypeOK
  <2>2. ASSUME task'[p] = Message("queued", request[q].offer) PROVE ReplyTold(p)'
    <3>1. task'[p].reply = "none" /\ task'[p].stage = "queued"
      BY <2>2 DEF Message
    <3> QED  BY <3>1, ReplyNone DEF Settles
  <2> QED  BY <1>2, <2>1, <2>2
<1>4. ASSUME NEW q \in Requests, p # q, Work(q) \/ WorkerLost(q) PROVE ReplyTold(p)'
  <2>1. task'[p] = task[p]
    BY <1>4 DEF Work, MarkProcessing, CallProvider, RecordException, SettleFailure,
       SettleUpdate, SettleRead, SettleIllegal, SettleCommit, Ack, WorkerLost, TypeOK
  <2> QED  BY <1>2, <2>1
<1>5. CASE MarkProcessing(p) \/ SettleFailure(p) \/ SettleCommit(p)
  <2>1. PICK s \in {"marked", "finished"} : task' = [task EXCEPT ![p] = [@ EXCEPT !.stage = s]]
    BY <1>5 DEF MarkProcessing, SettleFailure, SettleCommit
  <2>2. task'[p].offer = task[p].offer /\ task'[p].reply = task[p].reply /\ task'[p].stage = s
    BY <1>1, <2>1 DEF TypeOK, TaskRecord
  <2> QED  BY <1>1, <2>2, ReplyKept DEF Settles
<1>6. CASE RecordException(p) \/ SettleIllegal(p)
  <2>1. task'[p] = Retried(task[p])
    BY <1>6 DEF RecordException, SettleIllegal, TypeOK
  <2> QED  BY <1>1, <2>1, RetriedTyped, ReplyNone DEF Settles
<1>7. CASE Ack(p) \/ WorkerLost(p)
  <2>1. PICK s \in {"queued", "done"} :
          task' = [task EXCEPT ![p] = [task[p] EXCEPT !.stage = s, !.reply = "none",
                                                      !.matched = FALSE]]
    BY <1>7 DEF Ack, WorkerLost
  <2> DEFINE u == [task[p] EXCEPT !.stage = s, !.reply = "none", !.matched = FALSE]
  <2>2. u.reply = "none" /\ u.stage = s
    BY <1>1, TaskCleared
  <2>3. task'[p] = u
    BY <2>1 DEF TypeOK
  <2> HIDE DEF u
  <2> QED  BY <2>2, <2>3, ReplyNone DEF Settles
<1>8. CASE SettleUpdate(p)
  <2>1. /\ task'[p].offer = task[p].offer /\ task'[p].reply = task[p].reply
        /\ task'[p].stage = "recorded" /\ IsSuccess(task[p].reply)
    BY <1>1, <1>8 DEF SettleUpdate, TypeOK, TaskRecord
  <2> QED  BY <1>1, <2>1, ReplyKept
<1>9. CASE SettleRead(p)
  <2>1. PICK s \in {"settling", "refused"} : task' = [task EXCEPT ![p] = [@ EXCEPT !.stage = s]]
    BY <1>9 DEF SettleRead
  <2>2. task'[p].offer = task[p].offer /\ task'[p].reply = task[p].reply /\ task'[p].stage = s
    BY <1>1, <2>1 DEF TypeOK, TaskRecord
  <2>3. Settles(p)
    BY <1>9 DEF SettleRead, Settles
  <2> QED  BY <1>1, <2>2, <2>3, ReplyKept
<1>10. CASE CallProvider(p)
  <2>1. PICK a \in Answers(TaskKey(p)) :
          /\ ledger' = [ledger EXCEPT ![TaskKey(p)] = a[1]]
          /\ task' = [task EXCEPT ![p] = [@ EXCEPT !.stage = "answered", !.reply = a[2]]]
    BY <1>10 DEF CallProvider
  <2>2. TaskKey(p) \in Keys
    BY <1>1, <1>10 DEF TypeOK, CallProvider, TaskKey, Keys
  <2>3. task'[p].offer = task[p].offer /\ task'[p].reply = a[2] /\ task'[p].stage = "answered"
    BY <1>1, <2>1 DEF TypeOK, TaskRecord
  <2>4. TaskKey(p)' = TaskKey(p) /\ ledger'[TaskKey(p)] = a[1]
    BY <2>1, <2>2, <2>3 DEF TypeOK, TaskKey
  <2>5. a[2] = "succeeded" => a[1] = "paid"
    BY <2>2, ProviderTyped
  <2> QED  BY <2>3, <2>4, <2>5 DEF ReplyTold, Settles
<1>11. ASSUME NEW q \in Requests, Work(q) \/ WorkerLost(q) PROVE ReplyTold(p)'
  BY <1>4, <1>5, <1>6, <1>7, <1>8, <1>9, <1>10, <1>11 DEF Work
<1>12. CASE UNCHANGED task
  BY <1>2, <1>12
<1> QED
  BY <1>3, <1>11, <1>12, BeginCases
     DEF Next, Handle, vars, BeginRefund, BeginCredit, BeginMove, LookupRefund, RejectRefund,
         CommitRefund, LookupVoucher, CommitCredit, CommitMove, AbortRefund, ProviderSettles,
         StripeWebhook

\* What SucceededWasPaid needs to be inductive.
PaidInv == TypeOK /\ ReplyInv /\ SucceededWasPaid

\* A row turns "succeeded" by a settled success or by the webhook of a paid refund,
\* and one that says so with our key keeps the key as long as it says so.
LEMMA PaidStep == PaidInv /\ [Next]_vars => PaidInv'
<1> SUFFICES ASSUME TypeOK, ReplyInv, SucceededWasPaid, [Next]_vars PROVE PaidInv'
  BY DEF PaidInv
<1>1. TypeOK' /\ ReplyInv'
  BY TypeStep, ReplyStep
<1>2. SUFFICES ASSUME NEW k \in Keys, refund'[k] = "succeeded"
               PROVE  ledger'[k] = "paid" \/ refundId'[k] = "key"
  BY <1>1 DEF PaidInv, SucceededWasPaid, Keys
<1>3. ASSUME refund[k] = "succeeded", refundId'[k] = refundId[k]
      PROVE  ledger'[k] = "paid" \/ refundId'[k] = "key"
  BY <1>3, KeyPaidStays DEF SucceededWasPaid
<1>4. CASE refund' = refund /\ refundId' = refundId
  BY <1>2, <1>3, <1>4
<1>5. ASSUME NEW q \in Requests, CommitRefund(q) \/ MarkProcessing(q) \/ RecordException(q)
      PROVE  ledger'[k] = "paid" \/ refundId'[k] = "key"
  <2>1. refund[k] = "succeeded" /\ refundId' = refundId
    BY <1>2, <1>5 DEF CommitRefund, MarkProcessing, RecordException, UpdateRow, TypeOK
  <2> QED  BY <1>3, <2>1
<1>6. ASSUME NEW q \in Requests, SettleFailure(q) \/ SettleIllegal(q)
      PROVE  ledger'[k] = "paid" \/ refundId'[k] = "key"
  <2>1. UpdateRow(TaskKey(q), "failed")
    BY <1>6 DEF SettleFailure, SettleIllegal
  <2>2. k # TaskKey(q) /\ refund[k] = "succeeded"
    BY <1>2, <2>1 DEF UpdateRow, TypeOK
  <2>3. refundId'[k] = refundId[k]
    BY <1>6, <2>2 DEF SettleFailure, SettleIllegal, UpdateId, TypeOK
  <2> QED  BY <1>3, <2>2, <2>3
<1>7. ASSUME NEW q \in Requests, SettleCommit(q)
      PROVE  ledger'[k] = "paid" \/ refundId'[k] = "key"
  <2>1. CASE k = TaskKey(q) /\ task[q].matched
    <3>1. IsSuccess(task[q].reply) /\ ReplyTold(q)
      BY <1>7 DEF SettleCommit, ReplyInv, ReplyTold, Settles
    <3>2. CASE task[q].reply = "succeeded"
      BY <2>1, <3>1, <3>2, KeyPaidStays DEF ReplyTold
    <3>3. CASE task[q].reply = "already"
      BY <1>7, <2>1, <3>3 DEF SettleCommit, ReplyId, TypeOK
    <3> QED  BY <3>1, <3>2, <3>3 DEF IsSuccess
  <2>2. CASE ~(k = TaskKey(q) /\ task[q].matched)
    <3>1. refund[k] = "succeeded" /\ refundId'[k] = refundId[k]
      BY <1>2, <1>7, <2>2 DEF SettleCommit, TypeOK
    <3> QED  BY <1>3, <3>1
  <2> QED  BY <2>1, <2>2
<1>8. ASSUME NEW l \in Keys, StripeWebhook(l)
      PROVE  ledger'[k] = "paid" \/ refundId'[k] = "key"
  <2>1. (k = l /\ ledger[k] = "paid") \/ refund[k] = "succeeded"
    BY <1>2, <1>8 DEF StripeWebhook, UpdateRow, EventRowStatus, TypeOK
  <2>2. ledger' = ledger /\ refundId' = refundId
    BY <1>8 DEF StripeWebhook
  <2> QED  BY <1>3, <2>1, <2>2
<1> QED
  BY <1>4, <1>5, <1>6, <1>7, <1>8, BeginCases
     DEF Next, Handle, Work, vars, BeginRefund, BeginCredit, BeginMove, LookupRefund,
         InsertRefund, RejectRefund, LookupVoucher, CommitCredit, CommitMove, AbortRefund,
         CallProvider, SettleUpdate, SettleRead, Ack, WorkerLost, ProviderSettles

\* The invariant holds of every behaviour of the pipeline.
LEMMA PaidInvariant == Spec => []PaidInv
<1>1. Init => PaidInv
  <2> SUFFICES ASSUME Init PROVE PaidInv
    OBVIOUS
  <2>1. TypeOK
    BY InitTyped
  <2>2. ReplyInv
    BY MessageTyped DEF Init, ReplyInv, ReplyTold, NoTask, Message, Settles
  <2>3. SucceededWasPaid
    BY DEF Init, SucceededWasPaid
  <2> QED  BY <2>1, <2>2, <2>3 DEF PaidInv
<1> QED  BY <1>1, PaidStep, PTL DEF Spec

\* A refund row that says "succeeded" was paid under its own key, or the provider
\* has called the charge already refunded and the row carries our key for an id,
\* for any number of overlapping requests, aborted commits, retries and lost
\* workers.
THEOREM SucceededRowsWerePaid == Spec => []SucceededWasPaid
<1>1. PaidInv => SucceededWasPaid
  BY DEF PaidInv
<1> QED  BY <1>1, PaidInvariant, PTL

-----------------------------------------------------------------------------
(* The requests' own records, and what becomes "refunded".                 *)

\* A request keeps to the target of its operation and sends one task.
RecordInv == TypeOK /\ RequestInv /\ NothingSentYet

\* A message that was sent stays sent, whatever becomes of it.
LEMMA TaskStep ==
  ASSUME TypeOK, [Next]_vars, NEW p \in Requests
  PROVE  \/ task'[p] = task[p]
         \/ task[p].stage # "none" /\ request'[p] = request[p]
         \/ InsertRefund(p)
<1>1. CASE UNCHANGED task
  BY <1>1
<1>2. ASSUME NEW q \in Requests, InsertRefund(q)
      PROVE  task'[p] = task[p] \/ InsertRefund(p)
  BY <1>2 DEF InsertRefund, TypeOK
<1>3. ASSUME NEW q \in Requests, Work(q) \/ WorkerLost(q)
      PROVE  task'[p] = task[p] \/ (task[p].stage # "none" /\ request'[p] = request[p])
  BY <1>3
     DEF Work, MarkProcessing, CallProvider, RecordException, SettleFailure, SettleUpdate,
         SettleRead, SettleIllegal, SettleCommit, Ack, WorkerLost, TypeOK
<1> QED
  BY <1>1, <1>2, <1>3, BeginCases
     DEF Next, Handle, vars, BeginRefund, BeginCredit, BeginMove, LookupRefund, RejectRefund,
         CommitRefund, LookupVoucher, CommitCredit, CommitMove, AbortRefund, ProviderSettles,
         StripeWebhook

\* A request begins, goes on with its operation and its target, or is done.
LEMMA RequestStep ==
  ASSUME TypeOK, [Next]_vars, NEW p \in Requests
  PROVE  \/ request'[p] = request[p]
         \/ /\ request[p].pc = "idle" /\ task'[p] = task[p]
            /\ request'[p].op = "refund" => request'[p].target = "refund_initiated"
            /\ request'[p].op = "credit" => request'[p].target = "store_credit_issued"
         \/ /\ request[p].pc \in {"read", "checked"} /\ request'[p].pc \in {"checked", "ready"}
            /\ request'[p].op = request[p].op /\ request'[p].target = request[p].target
            /\ task'[p] = task[p] \/ InsertRefund(p)
         \/ request'[p] = Done
         \/ request[p].pc = "ready" /\ request[p].op = "move" /\ request'[p] = Idle
<1>1. ASSUME NEW q \in Requests, Begin(q)
      PROVE  \/ request'[p] = request[p]
             \/ /\ request[p].pc = "idle" /\ task'[p] = task[p]
                /\ request'[p].op = "refund" => request'[p].target = "refund_initiated"
                /\ request'[p].op = "credit" => request'[p].target = "store_credit_issued"
  BY <1>1, BeginCases DEF BeginRefund, BeginCredit, BeginMove, MayStart, Reading, TypeOK
<1>2. ASSUME NEW q \in Requests, LookupRefund(q) \/ LookupVoucher(q) \/ InsertRefund(q)
      PROVE  \/ request'[p] = request[p]
             \/ /\ request[p].pc \in {"read", "checked"} /\ request'[p].pc \in {"checked", "ready"}
                /\ request'[p].op = request[p].op /\ request'[p].target = request[p].target
                /\ task'[p] = task[p] \/ InsertRefund(p)
             \/ request'[p] = Done
  <2>1. request[q] \in RequestRecord /\ request[p] \in RequestRecord
    BY DEF TypeOK
  <2> QED
    BY <1>2, <2>1 DEF LookupRefund, LookupVoucher, InsertRefund, Finish, TypeOK, RequestRecord
<1>3. ASSUME NEW q \in Requests,
             RejectRefund(q) \/ CommitRefund(q) \/ CommitCredit(q) \/ AbortRefund(q)
      PROVE  request'[p] = request[p] \/ request'[p] = Done
  BY <1>3 DEF RejectRefund, CommitRefund, CommitCredit, AbortRefund, Finish, TypeOK
<1>5. ASSUME NEW q \in Requests, CommitMove(q)
      PROVE  \/ request'[p] = request[p]
             \/ request[p].pc = "ready" /\ request[p].op = "move" /\ request'[p] = Idle
  BY <1>5 DEF CommitMove, TypeOK
<1>4. CASE UNCHANGED request
  BY <1>4
<1> QED
  BY <1>1, <1>2, <1>3, <1>4, <1>5
     DEF Next, Handle, Work, vars, MarkProcessing, CallProvider, RecordException,
         SettleFailure, SettleUpdate, SettleRead, SettleIllegal, SettleCommit, Ack, WorkerLost,
         ProviderSettles, StripeWebhook

LEMMA RecordStep == RecordInv /\ [Next]_vars => RecordInv'
<1> SUFFICES ASSUME RecordInv, [Next]_vars PROVE RequestInv' /\ NothingSentYet'
  BY TypeStep DEF RecordInv
<1>1. TypeOK /\ RequestInv /\ NothingSentYet
  BY DEF RecordInv
<1>2. ASSUME NEW p \in Requests, InFlight(p)'
      PROVE  /\ request'[p].op = "refund" => request'[p].target = "refund_initiated"
             /\ request'[p].op = "credit" => request'[p].target = "store_credit_issued"
  BY <1>1, <1>2, RequestStep DEF RequestInv, InFlight, Done, Idle
<1>3. ASSUME NEW p \in Requests, request'[p].pc # "done", ~Sending(p)'
      PROVE  task'[p].stage = "none"
  <2>1. ~InsertRefund(p)
    BY <1>1, <1>3 DEF InsertRefund, TypeOK, RequestRecord, Sending
  <2>2. request'[p] # Done
    BY <1>3 DEF Done, Idle
  <2>3. ~Sending(p) /\ request[p].pc # "done"
    BY <1>1, <1>3, <2>2, RequestStep DEF Sending
  <2> QED  BY <1>1, <1>3, <2>1, <2>2, <2>3, RequestStep, TaskStep DEF NothingSentYet
<1> QED  BY <1>2, <1>3 DEF RequestInv, NothingSentYet

LEMMA RecordInvariant == Spec => []RecordInv
<1>1. Init => RecordInv
  BY InitTyped DEF Init, RecordInv, RequestInv, NothingSentYet, Sending, InFlight, Idle, NoTask, Message
<1> QED  BY <1>1, RecordStep, PTL DEF Spec

\* A return becomes "refunded" only by a task whose own refund has been paid by
\* then, or whose charge the provider has called already refunded, or by an
\* administrator's override, however requests, deliveries and lost workers overlap
\* (tasks.py:211-215, stripe.py:69-78).
THEOREM RefundedOnAnswer == Spec => RefundedOnlyOnAnswer
<1> DEFINE Earned ==
      \A r \in Returns :
        status[r] # "refunded" /\ status'[r] = "refunded" =>
          \E q \in Requests : Addressee[q] = r /\ (Vouched(q) \/ CommitMove(q))
<1>1. RecordInv /\ PaidInv /\ [Next]_vars => [Earned]_vars
  <2> SUFFICES ASSUME RecordInv, PaidInv, Next, NEW r \in Returns,
                      status[r] # "refunded", status'[r] = "refunded"
               PROVE  \E q \in Requests : Addressee[q] = r /\ (Vouched(q) \/ CommitMove(q))
    OBVIOUS
  <2>1. ASSUME NEW q \in Requests, CommitRefund(q) \/ CommitCredit(q) PROVE FALSE
    BY <2>1 DEF CommitRefund, CommitCredit, RecordInv, RequestInv, InFlight, TypeOK
  <2>2. ASSUME NEW q \in Requests, CommitMove(q) PROVE Addressee[q] = r
    BY <2>2 DEF CommitMove, RecordInv, TypeOK
  <2>3. ASSUME NEW q \in Requests, SettleCommit(q) PROVE Addressee[q] = r /\ Vouched(q)
    <3>1. Addressee[q] = r
      BY <2>3 DEF SettleCommit, RecordInv, TypeOK
    <3>2. task[q].stage = "settling" /\ ReplyTold(q)
      BY <2>3 DEF SettleCommit, PaidInv, ReplyInv
    <3> QED  BY <3>1, <3>2 DEF ReplyTold, Settles, IsSuccess, Vouched
  <2> QED
    BY <2>1, <2>2, <2>3, BeginCases
       DEF Next, Handle, Work, BeginRefund, BeginCredit, BeginMove, LookupRefund,
           InsertRefund, RejectRefund, LookupVoucher, AbortRefund, MarkProcessing, CallProvider,
           RecordException, SettleFailure, SettleUpdate, SettleRead, SettleIllegal, Ack,
           WorkerLost, ProviderSettles, StripeWebhook
<1> QED  BY <1>1, RecordInvariant, PaidInvariant, PTL DEF Spec, RefundedOnlyOnAnswer

-----------------------------------------------------------------------------
(* The code as shipped, whose worker knows no provider.                    *)

\* No provider is ever asked, and every try ends with an exception.
Unasked ==
  /\ \A q \in Requests :
       /\ ~Settles(q) /\ task[q].reply \in {"none", "raised"}
       /\ task[q].stage = "answered" => task[q].reply = "raised"
  /\ \A k \in Keys : ledger[k] = "none" /\ refund[k] # "succeeded"

LEMMA UnaskedKept ==
  ASSUME ~Registered, TypeOK, Unasked, [Next]_vars
  PROVE  Unasked'
<1>a. task \in [Requests -> TaskRecord] /\ \A q \in Requests : task[q] \in TaskRecord
  BY DEF TypeOK
<1>1. ASSUME NEW q \in Requests, NEW u, task' = [task EXCEPT ![q] = u],
             u.stage \in {"queued", "marked", "answered", "finished", "done"},
             u.reply \in {"none", "raised"}, u.stage = "answered" => u.reply = "raised",
             UNCHANGED <<refund, ledger>>
             \/ (UNCHANGED ledger /\ \E k \in Keys, x \in {"processing", "failed"} : UpdateRow(k, x))
      PROVE  Unasked'
  <2>1. \A p \in Requests : task'[p] = IF p = q THEN u ELSE task[p]
    BY <1>1, <1>a
  <2>2. \A p \in Requests : /\ ~Settles(p)' /\ task'[p].reply \in {"none", "raised"}
                            /\ task'[p].stage = "answered" => task'[p].reply = "raised"
    BY <1>1, <2>1 DEF Unasked, Settles
  <2>3. \A k \in Keys : ledger'[k] = "none" /\ refund'[k] # "succeeded"
    BY <1>1 DEF Unasked, UpdateRow, TypeOK
  <2> QED  BY <2>2, <2>3 DEF Unasked
<1>b. \A q \in Requests : task[q].stage # "none" => TaskKey(q) \in Keys
  BY Parameters DEF TypeOK, TaskKey, Keys
<1>2. ASSUME NEW q \in Requests, InsertRefund(q) PROVE Unasked'
  <2>1. /\ Message("queued", request[q].offer).stage = "queued"
        /\ Message("queued", request[q].offer).reply = "none"
    BY DEF Message
  <2> QED  BY <1>1, <1>2, <2>1 DEF InsertRefund
<1>3. ASSUME NEW q \in Requests, MarkProcessing(q) PROVE Unasked'
  <2> DEFINE u == [task[q] EXCEPT !.stage = "marked"]
  <2>1. u.stage = "marked" /\ u.reply = task[q].reply /\ task' = [task EXCEPT ![q] = u]
    BY <1>a, <1>3 DEF MarkProcessing, TaskRecord
  <2>2. UNCHANGED ledger /\ UpdateRow(TaskKey(q), "processing") /\ TaskKey(q) \in Keys
    BY <1>b, <1>3 DEF MarkProcessing
  <2> HIDE DEF u
  <2> QED  BY <1>1, <2>1, <2>2 DEF Unasked
<1>4. ASSUME NEW q \in Requests, CallProvider(q) PROVE Unasked'
  <2> DEFINE u == [task[q] EXCEPT !.stage = "answered", !.reply = "raised"]
  <2>1. TaskKey(q) \in Keys
    BY <1>b, <1>4 DEF CallProvider
  <2>5. PICK a \in Answers(TaskKey(q)) :
          /\ ledger' = [ledger EXCEPT ![TaskKey(q)] = a[1]]
          /\ task' = [task EXCEPT ![q] = [@ EXCEPT !.stage = "answered", !.reply = a[2]]]
    BY <1>4 DEF CallProvider
  <2>6. a[1] = ledger[TaskKey(q)] /\ a[2] = "raised"
    BY DEF Answers
  <2>2. task' = [task EXCEPT ![q] = u] /\ ledger' = [ledger EXCEPT ![TaskKey(q)] = ledger[TaskKey(q)]]
    BY <2>5, <2>6
  <2>3. UNCHANGED <<refund, ledger>>
    BY <1>4, <2>1, <2>2 DEF CallProvider, TypeOK
  <2>4. u.stage = "answered" /\ u.reply = "raised"
    BY <1>a DEF TaskRecord
  <2> HIDE DEF u
  <2> QED  BY <1>1, <2>2, <2>3, <2>4
<1>5. ASSUME NEW q \in Requests, RecordException(q) PROVE Unasked'
  <2>1. /\ task' = [task EXCEPT ![q] = Retried(task[q])] /\ UNCHANGED ledger
        /\ UpdateRow(TaskKey(q), "failed") /\ TaskKey(q) \in Keys
    BY <1>b, <1>5 DEF RecordException
  <2>2. Retried(task[q]).stage \in {"queued", "done"} /\ Retried(task[q]).reply = "none"
    BY <1>a, RetriedTyped
  <2> QED  BY <1>1, <2>1, <2>2
<1>6. ASSUME NEW q \in Requests, SettleFailure(q) \/ SettleUpdate(q) PROVE FALSE
  BY <1>6 DEF SettleFailure, SettleUpdate, Unasked, IsSuccess
<1>7. ASSUME NEW q \in Requests, SettleRead(q) \/ SettleIllegal(q) \/ SettleCommit(q) PROVE FALSE
  BY <1>7 DEF SettleRead, SettleIllegal, SettleCommit, Settles, Unasked
<1>8. ASSUME NEW q \in Requests, Ack(q) \/ WorkerLost(q) PROVE Unasked'
  <2>1. PICK s \in {"queued", "done"} :
          task' = [task EXCEPT ![q] = [task[q] EXCEPT !.stage = s, !.reply = "none",
                                                      !.matched = FALSE]]
    BY <1>8 DEF Ack, WorkerLost
  <2> DEFINE u == [task[q] EXCEPT !.stage = s, !.reply = "none", !.matched = FALSE]
  <2>2. u.reply = "none" /\ u.stage = s
    <3>1. task[q] \in TaskRecord
      BY <1>a
    <3> QED  BY <3>1, TaskCleared
  <2>3. task' = [task EXCEPT ![q] = u] /\ UNCHANGED <<refund, ledger>>
    BY <1>8, <2>1 DEF Ack, WorkerLost
  <2> HIDE DEF u
  <2> QED  BY <1>1, <2>2, <2>3
<1>9. ASSUME NEW q \in Requests, Work(q) \/ WorkerLost(q) PROVE Unasked'
  BY <1>3, <1>4, <1>5, <1>6, <1>7, <1>8, <1>9 DEF Work
<1>10. ASSUME NEW k \in Keys, ProviderSettles(k) \/ StripeWebhook(k) PROVE FALSE
  BY <1>10 DEF ProviderSettles, StripeWebhook, Unasked
<1>11. ASSUME UNCHANGED <<task, refund, ledger>> PROVE Unasked'
  BY <1>11 DEF Unasked, Settles
<1>12. ASSUME NEW q \in Requests, CommitRefund(q) PROVE Unasked'
  <2>1. \A k \in Keys : refund'[k] = refund[k] \/ refund'[k] = "pending"
    BY <1>12 DEF CommitRefund, TypeOK
  <2>2. UNCHANGED <<task, ledger>>
    BY <1>12 DEF CommitRefund
  <2> QED  BY <2>1, <2>2 DEF Unasked, Settles
<1> QED
  BY <1>2, <1>9, <1>10, <1>11, <1>12, BeginCases
     DEF Next, Handle, vars, BeginRefund, BeginCredit, BeginMove, LookupRefund, RejectRefund,
         LookupVoucher, CommitCredit, CommitMove, AbortRefund

\* What the registry that is empty in the worker's process comes to (main.py:65-94,
\* docker-compose.yml:45, tasks.py:192): nothing is ever paid, no row ever says
\* "succeeded", and a return becomes "refunded" by an override alone.
THEOREM NothingIsPaid ==
  ASSUME ~Registered
  PROVE  Spec => /\ [](\A k \in Keys : ledger[k] = "none" /\ refund[k] # "succeeded")
                 /\ [][ \A r \in Returns :
                           status[r] # "refunded" /\ status'[r] = "refunded" =>
                             \E q \in Requests : Addressee[q] = r /\ CommitMove(q) ]_vars
<1> DEFINE Nothing == \A k \in Keys : ledger[k] = "none" /\ refund[k] # "succeeded"
           Earned == \A r \in Returns :
                       status[r] # "refunded" /\ status'[r] = "refunded" =>
                         \E q \in Requests : Addressee[q] = r /\ (Vouched(q) \/ CommitMove(q))
           Moved == \A r \in Returns :
                      status[r] # "refunded" /\ status'[r] = "refunded" =>
                        \E q \in Requests : Addressee[q] = r /\ CommitMove(q)
<1>1. Init => Unasked
  BY DEF Init, NoTask, Message, Unasked, Settles
<1>2. TypeOK /\ Unasked /\ [Next]_vars => Unasked'
  BY UnaskedKept
<1>3. Unasked => Nothing
  BY DEF Unasked
<1>4. Unasked /\ [Earned]_vars => [Moved]_vars
  BY DEF Unasked, Vouched, Settles
<1>5. Spec => [][Earned]_vars
  BY RefundedOnAnswer DEF RefundedOnlyOnAnswer
<1> QED  BY <1>1, <1>2, <1>3, <1>4, <1>5, TypeCorrect, PTL DEF Spec

-----------------------------------------------------------------------------
(* No row is stranded in "processing".                                     *)

\* A message keeps its key, and is still to write unless it writes now.
LEMMA HeldUnlessWritten ==
  ASSUME RecordInv, [Next]_vars, NEW p \in Requests, WillWrite(p)
  PROVE  /\ TaskKey(p)' = TaskKey(p)
         /\ WillWrite(p)' \/ refund'[TaskKey(p)] # "processing"
<1> USE DEF RecordInv
<1>1. TypeOK /\ task[p] \in TaskRecord /\ task[p].stage # "none" /\ TaskKey(p) \in Keys
  BY Parameters DEF TypeOK, WillWrite, Settles, TaskKey, Keys
<1>2. ASSUME task'[p] = task[p] PROVE TaskKey(p)' = TaskKey(p) /\ WillWrite(p)'
  BY <1>2 DEF TaskKey, WillWrite, Settles
<1>3. CASE UNCHANGED task
  BY <1>2, <1>3
<1>4. ASSUME NEW q \in Requests, InsertRefund(q) PROVE task'[p] = task[p]
  BY <1>1, <1>4 DEF InsertRefund, NothingSentYet, Sending, TypeOK
<1>5. ASSUME NEW q \in Requests, Work(q) \/ WorkerLost(q), q # p PROVE task'[p] = task[p]
  BY <1>1, <1>5
     DEF Work, MarkProcessing, CallProvider, RecordException, SettleFailure, SettleUpdate,
         SettleRead, SettleIllegal, SettleCommit, Ack, WorkerLost, TypeOK
<1>6. CASE MarkProcessing(p)
  BY <1>1, <1>6 DEF MarkProcessing, TypeOK, TaskRecord, TaskKey, WillWrite
<1>7. CASE CallProvider(p)
  BY <1>1, <1>7 DEF CallProvider, TypeOK, TaskRecord, TaskKey, WillWrite
<1>8. CASE RecordException(p) \/ SettleIllegal(p)
  <2>1. TaskKey(p)' = TaskKey(p)
    BY <1>1, <1>8, RetriedTyped DEF RecordException, SettleIllegal, TypeOK, TaskKey
  <2>2. refund'[TaskKey(p)] # "processing"
    BY <1>1, <1>8 DEF RecordException, SettleIllegal, UpdateRow, TypeOK
  <2> QED  BY <2>1, <2>2
<1>9. CASE SettleFailure(p)
  <2>1. TaskKey(p)' = TaskKey(p)
    BY <1>1, <1>9 DEF SettleFailure, TypeOK, TaskRecord, TaskKey
  <2>2. refund'[TaskKey(p)] # "processing"
    BY <1>1, <1>9 DEF SettleFailure, UpdateRow, TypeOK
  <2> QED  BY <2>1, <2>2
<1>10. CASE SettleUpdate(p)
  <2> DEFINE found == refund[TaskKey(p)] # "absent"
  <2>1. task' = [task EXCEPT ![p] = [@ EXCEPT !.stage = "recorded", !.matched = found]]
    BY <1>10 DEF SettleUpdate
  <2>2. refund' = refund
    BY <1>10 DEF SettleUpdate
  <2>3. refund[TaskKey(p)] = "processing" => found
    OBVIOUS
  <2> HIDE DEF found
  <2>4. task'[p].offer = task[p].offer /\ task'[p].stage = "recorded" /\ task'[p].matched = found
    BY <1>1, <2>1 DEF TypeOK, TaskRecord
  <2> QED  BY <2>2, <2>3, <2>4 DEF TaskKey, WillWrite, Settles
<1>15. CASE SettleRead(p)
  <2>1. PICK s \in {"settling", "refused"} : task' = [task EXCEPT ![p] = [@ EXCEPT !.stage = s]]
    BY <1>15 DEF SettleRead
  <2>2. task'[p].offer = task[p].offer /\ task'[p].stage = s /\ task'[p].matched = task[p].matched
    BY <1>1, <2>1 DEF TypeOK, TaskRecord
  <2>3. task[p].matched
    BY <1>15 DEF SettleRead, WillWrite
  <2> QED  BY <2>2, <2>3 DEF TaskKey, WillWrite, Settles
<1>11. CASE SettleCommit(p)
  <2>1. TaskKey(p)' = TaskKey(p)
    BY <1>1, <1>11 DEF SettleCommit, TypeOK, TaskRecord, TaskKey
  <2>2. refund'[TaskKey(p)] = "succeeded"
    BY <1>1, <1>11 DEF SettleCommit, WillWrite, TypeOK
  <2> QED  BY <2>1, <2>2
<1>12. CASE Ack(p)
  BY <1>12 DEF Ack, WillWrite, Settles
<1>13. CASE WorkerLost(p)
  <2> DEFINE u == [task[p] EXCEPT !.stage = "queued", !.reply = "none", !.matched = FALSE]
  <2>1. u.offer = task[p].offer /\ u.stage = "queued"
    BY <1>1, TaskCleared
  <2>2. task'[p] = u
    BY <1>13 DEF WorkerLost, TypeOK
  <2> HIDE DEF u
  <2> QED  BY <2>1, <2>2 DEF TaskKey, WillWrite
<1>14. CASE \E q \in Requests : Work(q) \/ WorkerLost(q)
  BY <1>2, <1>5, <1>6, <1>7, <1>8, <1>9, <1>10, <1>11, <1>12, <1>13, <1>14,
     <1>15 DEF Work
<1> QED
  BY <1>2, <1>3, <1>4, <1>14, BeginCases
     DEF Next, Handle, vars, BeginRefund, BeginCredit, BeginMove, LookupRefund, RejectRefund,
         CommitRefund, LookupVoucher, CommitCredit, CommitMove, AbortRefund, ProviderSettles,
         StripeWebhook

\* Only a message marks its row, and from then on it is the one to write it.
LEMMA MarkedIsHeld ==
  ASSUME TypeOK, [Next]_vars, NEW k \in Keys,
         refund'[k] = "processing", refund[k] # "processing"
  PROVE  \E q \in Requests : WillWrite(q)' /\ TaskKey(q)' = k
<1>1. ASSUME NEW q \in Requests, MarkProcessing(q)
      PROVE  WillWrite(q)' /\ TaskKey(q)' = k
  <2>1. task[q] \in TaskRecord
    BY DEF TypeOK
  <2>2. TaskKey(q) = k
    BY <1>1 DEF MarkProcessing, UpdateRow, TypeOK
  <2> QED  BY <1>1, <2>1, <2>2 DEF MarkProcessing, TypeOK, TaskRecord, TaskKey, WillWrite
<1>2. ASSUME NEW q \in Requests,
             \/ CommitRefund(q) \/ RecordException(q) \/ SettleFailure(q)
             \/ SettleIllegal(q) \/ SettleCommit(q)
      PROVE  FALSE
  BY <1>2
     DEF CommitRefund, RecordException, SettleFailure, SettleIllegal, SettleCommit, UpdateRow,
         TypeOK
<1>3. ASSUME NEW l \in Keys, StripeWebhook(l) PROVE FALSE
  BY <1>3 DEF StripeWebhook, UpdateRow, EventRowStatus, TypeOK
<1> QED
  BY <1>1, <1>2, <1>3, BeginCases
     DEF Next, Handle, Work, vars, BeginRefund, BeginCredit, BeginMove, LookupRefund,
         InsertRefund, RejectRefund, LookupVoucher, CommitCredit, CommitMove, AbortRefund,
         CallProvider, SettleUpdate, SettleRead, Ack, WorkerLost, ProviderSettles

\* A row that says "processing" always has a message that is still to write an
\* outcome to it, for any number of overlapping tasks, retries and lost workers.
THEOREM NoRowIsStranded == Spec => []ProcessingHasTask
<1>1. Init => ProcessingIsHeld
  BY DEF Init, ProcessingIsHeld
<1>2. RecordInv /\ ProcessingIsHeld /\ [Next]_vars => ProcessingIsHeld'
  <2> SUFFICES ASSUME RecordInv, ProcessingIsHeld, [Next]_vars, NEW k \in Keys,
                      refund'[k] = "processing"
               PROVE  \E q \in Requests : WillWrite(q)' /\ TaskKey(q)' = k
    BY DEF ProcessingIsHeld, Keys
  <2>1. CASE refund[k] # "processing"
    BY <2>1, MarkedIsHeld DEF RecordInv
  <2>2. CASE refund[k] = "processing"
    <3>1. PICK q \in Requests : WillWrite(q) /\ TaskKey(q) = k
      BY <2>2 DEF ProcessingIsHeld
    <3> QED  BY <2>2, <3>1, HeldUnlessWritten
  <2> QED  BY <2>1, <2>2
<1>3. ProcessingIsHeld => ProcessingHasTask
  BY DEF ProcessingIsHeld, ProcessingHasTask, WillWrite, Settles
<1> QED  BY <1>1, <1>2, <1>3, RecordInvariant, PTL DEF Spec

-----------------------------------------------------------------------------
(* Steps of tasks, provider and webhook.                                   *)

\* What the worker, the provider and the webhook may do to a resolution: they
\* touch no amount, voucher or request, let rows and money exist only for keys
\* whose task was sent, and move a return only to a resolving status.
QuietTasks ==
  \A p \in Requests : /\ task'[p].offer = task[p].offer
                      /\ (task'[p].stage = "none") <=> (task[p].stage = "none")

QuietRows ==
  \A r \in Returns, o \in Offers :
    /\ refund[<<r, o>>] # "absent" => refund'[<<r, o>>] # "absent"
    /\ refund'[<<r, o>>] # "absent" =>
         \/ refund[<<r, o>>] # "absent"
         \/ \E q \in Requests : Started(q) /\ TaskKey(q) = <<r, o>>

QuietLedger ==
  \A r \in Returns, o \in Offers :
    ledger'[<<r, o>>] # "none" =>
      \/ ledger[<<r, o>>] # "none"
      \/ \E q \in Requests : Started(q) /\ TaskKey(q) = <<r, o>>

Quiet ==
  /\ QuietTasks /\ QuietRows /\ QuietLedger
  /\ \A r \in Returns : status'[r] = status[r] \/ status'[r] \in Resolving
  /\ UNCHANGED <<approved, vouchers, request>>

\* An UPDATE of a row creates none and deletes none.
LEMMA UpdateIsQuiet ==
  ASSUME TypeOK, NEW k, NEW x \in {"processing", "succeeded", "failed"}, UpdateRow(k, x)
  PROVE  QuietRows
BY DEF UpdateRow, QuietRows, TypeOK, Keys

\* Every step of a task, of the provider and of the webhook is quiet.
LEMMA QuietSteps ==
  ASSUME TypeOK,
         \/ \E q \in Requests : Work(q) \/ WorkerLost(q)
         \/ \E k \in Keys : ProviderSettles(k) \/ StripeWebhook(k)
         \/ UNCHANGED vars
  PROVE  Quiet
<1>a. \A r \in Returns, o \in Offers : <<r, o>> \in Keys
  BY DEF Keys
<1>b. \A q \in Requests : task[q] \in TaskRecord /\ Addressee[q] \in Returns
  BY Parameters DEF TypeOK
<1>c. UNCHANGED ledger => QuietLedger
  BY DEF QuietLedger
<1>d. UNCHANGED refund => QuietRows
  BY DEF QuietRows
<1>e. ASSUME NEW q \in Requests, NEW u, u.offer = task[q].offer, u.stage # "none",
             task[q].stage # "none", task' = [task EXCEPT ![q] = u]
      PROVE  QuietTasks
  BY <1>e DEF QuietTasks, TypeOK
<1>f. ASSUME NEW q \in Requests, task[q].stage # "none",
             NEW x \in {"marked", "settling", "refused", "finished"},
             task' = [task EXCEPT ![q] = [@ EXCEPT !.stage = x]]
      PROVE  QuietTasks
  BY <1>b, <1>f DEF QuietTasks, TypeOK, TaskRecord
<1>1. ASSUME NEW q \in Requests, MarkProcessing(q) PROVE Quiet
  <2>1. QuietTasks
    BY <1>1, <1>f DEF MarkProcessing
  <2>2. QuietRows
    BY <1>1, UpdateIsQuiet DEF MarkProcessing
  <2> QED  BY <1>1, <1>c, <2>1, <2>2 DEF MarkProcessing, Quiet
<1>2. ASSUME NEW q \in Requests, CallProvider(q) PROVE Quiet
  <2>1. PICK a \in Answers(TaskKey(q)) :
          /\ ledger' = [ledger EXCEPT ![TaskKey(q)] = a[1]]
          /\ task' = [task EXCEPT ![q] = [@ EXCEPT !.stage = "answered", !.reply = a[2]]]
    BY <1>2 DEF CallProvider
  <2>2. Started(q)
    BY <1>2 DEF CallProvider, Started
  <2>3. QuietTasks
    BY <1>b, <2>1, <2>2 DEF TypeOK, TaskRecord, Started, QuietTasks
  <2>4. QuietLedger
    BY <1>a, <2>1, <2>2 DEF TypeOK, QuietLedger
  <2> QED  BY <1>2, <1>d, <2>3, <2>4 DEF CallProvider, Quiet
<1>3. ASSUME NEW q \in Requests, RecordException(q) \/ SettleIllegal(q) PROVE Quiet
  <2>1. QuietTasks
    BY <1>3, <1>b, <1>e, RetriedTyped DEF RecordException, SettleIllegal
  <2>2. QuietRows
    BY <1>3, UpdateIsQuiet DEF RecordException, SettleIllegal
  <2> QED  BY <1>3, <1>c, <2>1, <2>2 DEF RecordException, SettleIllegal, Quiet
<1>4. ASSUME NEW q \in Requests, SettleFailure(q) PROVE Quiet
  <2>1. QuietTasks
    BY <1>4, <1>f DEF SettleFailure
  <2>2. QuietRows
    BY <1>4, UpdateIsQuiet DEF SettleFailure
  <2> QED  BY <1>4, <1>c, <2>1, <2>2 DEF SettleFailure, Quiet
<1>5. ASSUME NEW q \in Requests, SettleUpdate(q) PROVE Quiet
  <2> DEFINE u == [task[q] EXCEPT !.stage = "recorded",
                                  !.matched = refund[TaskKey(q)] # "absent"]
  <2>1. u.offer = task[q].offer /\ u.stage = "recorded"
    BY <1>b DEF TaskRecord
  <2>2. task' = [task EXCEPT ![q] = u] /\ task[q].stage # "none"
    BY <1>5 DEF SettleUpdate
  <2> HIDE DEF u
  <2>3. QuietTasks
    BY <1>e, <2>1, <2>2
  <2> QED  BY <1>5, <1>c, <1>d, <2>3 DEF SettleUpdate, Quiet
<1>11. ASSUME NEW q \in Requests, SettleRead(q) PROVE Quiet
  <2>1. QuietTasks
    BY <1>11, <1>f DEF SettleRead
  <2> QED  BY <1>11, <1>c, <1>d, <2>1 DEF SettleRead, Quiet
<1>6. ASSUME NEW q \in Requests, SettleCommit(q) PROVE Quiet
  <2>1. QuietTasks
    BY <1>6, <1>f DEF SettleCommit
  <2>2. QuietRows
    BY <1>6, <1>a DEF SettleCommit, TypeOK, QuietRows, Started
  <2>3. \A r \in Returns : status'[r] = status[r] \/ status'[r] \in Resolving
    BY <1>6, <1>b DEF SettleCommit, TypeOK, Resolving
  <2> QED  BY <1>6, <1>c, <2>1, <2>2, <2>3 DEF SettleCommit, Quiet
<1>7. ASSUME NEW q \in Requests, Ack(q) \/ WorkerLost(q) PROVE Quiet
  <2>1. PICK s \in {"queued", "done"} :
          task' = [task EXCEPT ![q] = [task[q] EXCEPT !.stage = s, !.reply = "none",
                                                      !.matched = FALSE]]
    BY <1>7 DEF Ack, WorkerLost
  <2> DEFINE u == [task[q] EXCEPT !.stage = s, !.reply = "none", !.matched = FALSE]
  <2>2. u.offer = task[q].offer /\ u.stage # "none"
    BY <1>b, TaskCleared
  <2>3. task' = [task EXCEPT ![q] = u] /\ task[q].stage # "none"
    BY <1>7, <2>1 DEF Ack, WorkerLost
  <2> HIDE DEF u
  <2>4. QuietTasks
    BY <1>e, <2>2, <2>3
  <2> QED  BY <1>7, <1>c, <1>d, <2>4 DEF Ack, WorkerLost, Quiet
<1>8. ASSUME NEW k \in Keys, ProviderSettles(k) PROVE Quiet
  <2>1. QuietLedger
    BY <1>8, <1>a DEF ProviderSettles, QuietLedger, TypeOK
  <2> QED  BY <1>8, <1>d, <2>1 DEF ProviderSettles, Quiet, QuietTasks
<1>9. ASSUME NEW k \in Keys, StripeWebhook(k) PROVE Quiet
  <2>1. QuietRows
    BY <1>9, UpdateIsQuiet DEF StripeWebhook, EventRowStatus
  <2> QED  BY <1>9, <1>c, <2>1 DEF StripeWebhook, Quiet, QuietTasks
<1>10. ASSUME UNCHANGED vars PROVE Quiet
  BY <1>10, <1>c, <1>d DEF vars, Quiet, QuietTasks
<1> QED
  BY <1>1, <1>2, <1>3, <1>4, <1>5, <1>6, <1>7, <1>8, <1>9, <1>10, <1>11 DEF Work

-----------------------------------------------------------------------------
(* No row and no money without a decision, whatever overlaps or aborts.    *)

AskedInv == RecordInv /\ SentOwnOffer /\ OnlyStartedKeys

\* A step that sends nothing and writes no row leaves both parts alone.
LEMMA UnaskedStep ==
  ASSUME AskedInv, UNCHANGED <<task, refund, ledger>>,
         \A q \in Requests : Sending(q)' => request'[q] = request[q]
  PROVE  SentOwnOffer' /\ OnlyStartedKeys'
<1>1. \A q \in Requests : Sending(q)' => Sending(q)
  BY DEF Sending
<1>2. \A q \in Requests : (Started(q)' <=> Started(q)) /\ TaskKey(q)' = TaskKey(q)
  BY DEF Started, TaskKey
<1> QED  BY <1>1, <1>2 DEF AskedInv, SentOwnOffer, OnlyStartedKeys

LEMMA AskedStep == AskedInv /\ [Next]_vars => AskedInv'
<1> SUFFICES ASSUME AskedInv, [Next]_vars PROVE SentOwnOffer' /\ OnlyStartedKeys'
  BY RecordStep DEF AskedInv
<1>0. /\ TypeOK /\ RecordInv /\ request \in [Requests -> RequestRecord]
      /\ \A q \in Requests : request[q] \in RequestRecord
  BY DEF AskedInv, RecordInv, TypeOK
<1>a. Done.pc = "done" /\ Idle.pc = "idle"
  BY DEF Done, Idle
<1>1. ASSUME \/ \E q \in Requests : Work(q) \/ WorkerLost(q)
             \/ \E k \in Keys : ProviderSettles(k) \/ StripeWebhook(k)
             \/ UNCHANGED vars
      PROVE  SentOwnOffer' /\ OnlyStartedKeys'
  <2>1. Quiet
    BY <1>0, <1>1, QuietSteps
  <2>2. \A q \in Requests : /\ Started(q)' <=> Started(q)
                            /\ TaskKey(q)' = TaskKey(q) /\ task'[q].offer = task[q].offer
                            /\ Sending(q)' <=> Sending(q)
    BY <2>1 DEF Quiet, QuietTasks, Started, TaskKey, Sending
  <2>3. SentOwnOffer'
    BY <2>1, <2>2 DEF AskedInv, SentOwnOffer, Quiet
  <2>4. OnlyStartedKeys'
    BY <2>1, <2>2 DEF AskedInv, OnlyStartedKeys, Quiet, QuietRows, QuietLedger
  <2> QED  BY <2>3, <2>4
<1>2. ASSUME NEW q \in Requests, InsertRefund(q) PROVE SentOwnOffer' /\ OnlyStartedKeys'
  <2>1. ~Started(q) /\ request[q].op = "refund"
    BY <1>0, <1>2 DEF InsertRefund, RecordInv, NothingSentYet, Sending, Started
  <2>2. \A p \in Requests : p # q => request'[p] = request[p] /\ task'[p] = task[p]
    BY <1>0, <1>2 DEF InsertRefund, TypeOK
  <2>3. Started(q)' /\ task'[q].offer = request[q].offer /\ request'[q].offer = request[q].offer
    BY <1>0, <1>2 DEF InsertRefund, TypeOK, RequestRecord, Message, Started
  <2>4. SentOwnOffer'
    BY <2>2, <2>3 DEF AskedInv, SentOwnOffer, Sending, Started
  <2>5. \A p \in Requests : Started(p) => Started(p)' /\ TaskKey(p)' = TaskKey(p)
    BY <2>1, <2>2 DEF Started, TaskKey
  <2>6. OnlyStartedKeys'
    BY <1>2, <2>5 DEF AskedInv, OnlyStartedKeys, InsertRefund
  <2> QED  BY <2>4, <2>6
<1>3. ASSUME NEW q \in Requests, CommitRefund(q) PROVE SentOwnOffer' /\ OnlyStartedKeys'
  <2>1. Started(q) /\ OfferKey(q) = TaskKey(q)
    BY <1>3 DEF CommitRefund, Sending, AskedInv, SentOwnOffer, OfferKey, TaskKey
  <2>2. UNCHANGED <<task, ledger>>
    BY <1>3 DEF CommitRefund
  <2>3. \A p \in Requests : Sending(p)' => Sending(p) /\ request'[p] = request[p]
    BY <1>0, <1>3 DEF CommitRefund, Finish, Done, Idle, Sending, TypeOK
  <2>4. SentOwnOffer'
    BY <2>2, <2>3 DEF AskedInv, SentOwnOffer, Started
  <2>5. \A p \in Requests : (Started(p)' <=> Started(p)) /\ TaskKey(p)' = TaskKey(p)
    BY <2>2 DEF Started, TaskKey
  <2>6. \A k \in Keys : k # TaskKey(q) => refund'[k] = refund[k]
    BY <1>0, <1>3, <2>1 DEF CommitRefund, TypeOK
  <2>7. \A r \in Returns, o \in Offers : <<r, o>> \in Keys
    BY DEF Keys
  <2>8. OnlyStartedKeys'
    BY <2>1, <2>2, <2>5, <2>6, <2>7 DEF AskedInv, OnlyStartedKeys
  <2> QED  BY <2>4, <2>8
<1>4. ASSUME NEW q \in Requests,
             \/ Begin(q) \/ LookupRefund(q) \/ RejectRefund(q) \/ LookupVoucher(q)
             \/ CommitCredit(q) \/ CommitMove(q) \/ AbortRefund(q)
      PROVE  SentOwnOffer' /\ OnlyStartedKeys'
  <2>1. UNCHANGED <<task, refund, ledger>>
    BY <1>4, BeginCases
       DEF BeginRefund, BeginCredit, BeginMove, LookupRefund, RejectRefund, LookupVoucher,
           CommitCredit, CommitMove, AbortRefund
  <2>2. ASSUME NEW x, request' = [request EXCEPT ![q] = x], ~(x.pc = "ready" /\ x.op = "refund")
        PROVE  SentOwnOffer' /\ OnlyStartedKeys'
    <3>1. \A p \in Requests : p # q => request'[p] = request[p]
      BY <1>0, <2>2
    <3>2. ~Sending(q)'
      BY <1>0, <2>2 DEF Sending
    <3> QED  BY <2>1, <3>1, <3>2, UnaskedStep
  <2>3. CASE Begin(q)
    <3>1. ASSUME NEW op \in {"refund", "credit", "move"}, NEW o, NEW to,
                 NEW pc \in {"read", "ready"}, op = "refund" => pc = "read",
                 request' = [request EXCEPT ![q] = Reading(q, op, o, to, pc)]
          PROVE  SentOwnOffer' /\ OnlyStartedKeys'
      <4>1. Reading(q, op, o, to, pc).pc = pc /\ Reading(q, op, o, to, pc).op = op
        BY DEF Reading
      <4> QED  BY <2>2, <3>1, <4>1
    <3> QED  BY <2>3, <3>1, BeginCases DEF BeginRefund, BeginCredit, BeginMove
  <2>4. CASE LookupRefund(q) \/ LookupVoucher(q)
    <3>1. ASSUME NEW pc \in {"checked", "ready"}, request[q].op = "refund" => pc = "checked",
                 request' = [request EXCEPT ![q] = [@ EXCEPT !.pc = pc]]
          PROVE  SentOwnOffer' /\ OnlyStartedKeys'
      <4> DEFINE x == [request[q] EXCEPT !.pc = pc]
      <4>1. x.pc = pc /\ x.op = request[q].op
        BY <1>0 DEF RequestRecord
      <4>2. request' = [request EXCEPT ![q] = x]
        BY <3>1
      <4> HIDE DEF x
      <4> QED  BY <2>2, <3>1, <4>1, <4>2
    <3> QED  BY <1>a, <2>2, <2>4, <3>1 DEF LookupRefund, LookupVoucher, Finish
  <2>5. CASE RejectRefund(q) \/ CommitCredit(q) \/ CommitMove(q) \/ AbortRefund(q)
    BY <1>a, <2>2, <2>5 DEF RejectRefund, CommitCredit, CommitMove, AbortRefund, Finish
  <2> QED  BY <1>4, <2>3, <2>4, <2>5
<1> QED  BY <1>1, <1>2, <1>3, <1>4 DEF Next, Handle

LEMMA InitAsked == Init => AskedInv
<1>1. Init => SentOwnOffer /\ OnlyStartedKeys
  BY DEF Init, SentOwnOffer, OnlyStartedKeys, Sending, Idle, Keys
<1> QED
  BY <1>1, InitTyped DEF Init, Sending, AskedInv, RecordInv, RequestInv, NothingSentYet, InFlight, Idle,
     NoTask, Message

LEMMA AskedInvariant == Spec => []AskedInv
BY InitAsked, AskedStep, PTL DEF Spec

\* A refund row, and any trace at the provider, is there only for a return and
\* an offer that some request decided and sent, however requests overlap or
\* abort: retries and redeliveries never ask for another amount, and the worker
\* never pays a return nobody resolved (financial.py:85-98, tasks.py:173-198).
THEOREM MoneyWasAskedFor == Spec => []OnlyStartedKeys
<1>1. AskedInv => OnlyStartedKeys
  BY DEF AskedInv
<1> QED  BY <1>1, AskedInvariant, PTL

-----------------------------------------------------------------------------
(* A stored key for every message of a request that has committed, and one *)
(* message for each key: what the unique index and the lookup give when    *)
(* requests overlap, as long as none of them is lost.                      *)

\* A message whose request has ended finds the row that request stored.
SentIsStored(r) ==
  \A q \in Requests : Addressee[q] = r /\ Started(q) /\ ~Sending(q) => refund[TaskKey(q)] # "absent"

\* An offer is sent to the provider by one request.
KeySentOnce(r) ==
  \A p, q \in Requests :
    Addressee[p] = r /\ Started(p) /\ Started(q) /\ TaskKey(p) = TaskKey(q) => p = q

StoredInv(r) == AskedInv /\ SentIsStored(r) /\ KeySentOnce(r)

\* Rows are not deleted: what is stored stays stored.
LEMMA RowsStay ==
  ASSUME TypeOK, [Next]_vars, NEW k \in Keys, refund[k] # "absent"
  PROVE  refund'[k] # "absent"
<1>1. ASSUME \/ \E q \in Requests : Work(q) \/ WorkerLost(q)
             \/ \E l \in Keys : ProviderSettles(l) \/ StripeWebhook(l)
             \/ UNCHANGED vars
      PROVE  refund'[k] # "absent"
  <2>1. QuietRows
    BY <1>1, QuietSteps DEF Quiet
  <2> QED  BY <2>1 DEF QuietRows, Keys
<1>2. ASSUME NEW q \in Requests, CommitRefund(q) PROVE refund'[k] # "absent"
  BY <1>2 DEF CommitRefund, TypeOK
<1> QED
  BY <1>1, <1>2, BeginCases
     DEF Next, Handle, BeginRefund, BeginCredit, BeginMove, LookupRefund, InsertRefund,
         RejectRefund, LookupVoucher, CommitCredit, CommitMove, AbortRefund

\* A message that was sent keeps its key.
LEMMA KeyStays ==
  ASSUME AskedInv, [Next]_vars, NEW q \in Requests
  PROVE  \/ InsertRefund(q) /\ ~Started(q)
         \/ (Started(q)' <=> Started(q)) /\ TaskKey(q)' = TaskKey(q)
<1>0. TypeOK /\ NothingSentYet
  BY DEF AskedInv, RecordInv
<1>1. ASSUME \/ \E p \in Requests : Work(p) \/ WorkerLost(p)
             \/ \E l \in Keys : ProviderSettles(l) \/ StripeWebhook(l)
             \/ UNCHANGED vars
      PROVE  (Started(q)' <=> Started(q)) /\ TaskKey(q)' = TaskKey(q)
  BY <1>0, <1>1, QuietSteps DEF Quiet, QuietTasks, Started, TaskKey
<1>2. ASSUME NEW p \in Requests, InsertRefund(p), p # q
      PROVE  (Started(q)' <=> Started(q)) /\ TaskKey(q)' = TaskKey(q)
  BY <1>0, <1>2 DEF InsertRefund, Started, TaskKey, TypeOK
<1>3. ASSUME InsertRefund(q) PROVE ~Started(q)
  BY <1>0, <1>3 DEF InsertRefund, NothingSentYet, Sending, Started
<1>4. ASSUME UNCHANGED task
      PROVE  (Started(q)' <=> Started(q)) /\ TaskKey(q)' = TaskKey(q)
  BY <1>4 DEF Started, TaskKey
<1> QED
  BY <1>1, <1>2, <1>3, <1>4, BeginCases
     DEF Next, Handle, BeginRefund, BeginCredit, BeginMove, LookupRefund, RejectRefund,
         CommitRefund, LookupVoucher, CommitCredit, CommitMove, AbortRefund

\* A request that has sent its task ends by its commit, or is lost.
LEMMA SendingEnds ==
  ASSUME TypeOK, [Next]_vars, NEW q \in Requests, Sending(q), ~Sending(q)'
  PROVE  CommitRefund(q) \/ AbortRefund(q)
<1>1. ASSUME NEW p \in Requests, Begin(p) \/ Handle(p) \/ AbortRefund(p), p # q PROVE FALSE
  BY <1>1, BeginCases
     DEF Handle, BeginRefund, BeginCredit, BeginMove, LookupRefund, InsertRefund, RejectRefund,
         CommitRefund, LookupVoucher, CommitCredit, CommitMove, AbortRefund, Finish, Sending,
         TypeOK
<1>2. CASE UNCHANGED request
  BY <1>2 DEF Sending
<1>3. ASSUME Begin(q) \/ Handle(q) \/ AbortRefund(q)
      PROVE  CommitRefund(q) \/ AbortRefund(q)
  BY <1>3, BeginCases
     DEF Handle, BeginRefund, BeginCredit, BeginMove, MayStart, LookupRefund, InsertRefund,
         RejectRefund, LookupVoucher, CommitCredit, CommitMove, Sending
<1> QED
  BY <1>1, <1>2, <1>3
     DEF Next, vars, Work, MarkProcessing, CallProvider, RecordException, SettleFailure,
         SettleUpdate, SettleRead, SettleIllegal, SettleCommit, Ack, WorkerLost,
         ProviderSettles, StripeWebhook

LEMMA StoredStep ==
  ASSUME NEW r \in Returns, StoredInv(r), [Next]_vars, ~LosesRequest(r)
  PROVE  StoredInv(r)'
<1>0. AskedInv /\ AskedInv' /\ TypeOK /\ SentOwnOffer
  BY AskedStep DEF StoredInv, AskedInv, RecordInv
<1>a. \A q \in Requests : Started(q) => TaskKey(q) \in Keys
  BY <1>0, Parameters DEF TypeOK, Started, TaskKey, Keys
<1>1. SentIsStored(r)'
  <2> SUFFICES ASSUME NEW q \in Requests, Addressee[q] = r, Started(q)', ~Sending(q)'
               PROVE  refund'[TaskKey(q)'] # "absent"
    BY DEF SentIsStored
  <2>1. ~InsertRefund(q)
    BY <1>0 DEF InsertRefund, TypeOK, RequestRecord, Sending
  <2>2. Started(q) /\ TaskKey(q)' = TaskKey(q) /\ TaskKey(q) \in Keys
    BY <1>0, <1>a, <2>1, KeyStays
  <2>3. CASE Sending(q)
    <3>1. CommitRefund(q) /\ OfferKey(q) = TaskKey(q)
      BY <1>0, <2>3, SendingEnds DEF LosesRequest, SentOwnOffer, OfferKey, TaskKey
    <3> QED  BY <1>0, <2>2, <3>1 DEF CommitRefund, TypeOK
  <2>4. CASE ~Sending(q)
    BY <1>0, <2>2, <2>4, RowsStay DEF StoredInv, SentIsStored
  <2> QED  BY <2>3, <2>4
<1>2. KeySentOnce(r)'
  <2>1. ASSUME NEW p \in Requests, NEW q \in Requests, Addressee[p] = r, p # q,
               Started(p), InsertRefund(q)
        PROVE  TaskKey(p)' # TaskKey(q)'
    <3>1. TaskKey(q)' = OfferKey(q) /\ TaskKey(p)' = TaskKey(p)
      BY <1>0, <2>1 DEF InsertRefund, TypeOK, Message, TaskKey, OfferKey
    <3>2. Sending(p) => OfferKey(p) = TaskKey(p)
      BY <1>0, <2>1 DEF SentOwnOffer, OfferKey, TaskKey
    <3>3. Sending(p) => OfferKey(p) # OfferKey(q)
      BY <2>1 DEF InsertRefund, HeldByOther, Sending
    <3>4. ~Sending(p) => refund[TaskKey(p)] # "absent"
      BY <2>1 DEF StoredInv, SentIsStored
    <3> QED  BY <2>1, <3>1, <3>2, <3>3, <3>4 DEF InsertRefund, MayInsert
  <2>2. ASSUME NEW p \in Requests, NEW q \in Requests, InsertRefund(p), InsertRefund(q) PROVE p = q
    BY <1>0, <2>2 DEF InsertRefund, TypeOK, RequestRecord
  <2> SUFFICES ASSUME NEW p \in Requests, NEW q \in Requests, Addressee[p] = r,
                      Started(p)', Started(q)', TaskKey(p)' = TaskKey(q)'
               PROVE  p = q
    BY DEF KeySentOnce
  <2>3. Addressee[q] = r
    BY DEF TaskKey
  <2>4. CASE InsertRefund(q) /\ ~Started(q)
    BY <1>0, <2>1, <2>2, <2>4, KeyStays
  <2>5. CASE InsertRefund(p) /\ ~Started(p)
    BY <1>0, <2>1, <2>2, <2>3, <2>5, KeyStays
  <2>6. CASE Started(p) /\ Started(q) /\ TaskKey(p)' = TaskKey(p) /\ TaskKey(q)' = TaskKey(q)
    BY <2>6 DEF StoredInv, KeySentOnce
  <2> QED  BY <1>0, <2>4, <2>5, <2>6, KeyStays
<1> QED  BY <1>0, <1>1, <1>2 DEF StoredInv

LEMMA StoredInvariant ==
  ASSUME NEW r \in Returns
  PROVE  Spec /\ [][~LosesRequest(r)]_vars => []StoredInv(r)
<1>1. Init => StoredInv(r)
  BY InitAsked DEF StoredInv, SentIsStored, KeySentOnce, Init, Started, NoTask, Message
<1>2. StoredInv(r) /\ [Next]_vars /\ [~LosesRequest(r)]_vars => StoredInv(r)'
  <2>1. ASSUME StoredInv(r), UNCHANGED vars PROVE ~LosesRequest(r)
    BY <2>1 DEF vars, LosesRequest, AbortRefund, StoredInv, AskedInv, RecordInv, TypeOK
  <2> QED  BY <2>1, StoredStep
<1> QED  BY <1>1, <1>2, PTL DEF Spec

\* "The same request returns the existing result" (financial.py:52-63): however
\* the requests for a return overlap, an offer is sent to the provider by one of
\* them only, so a repeated click never sends a second task, unless a request
\* was lost after sending its own.
THEOREM OfferIsSentOnce ==
  ASSUME NEW r \in Returns
  PROVE  Spec /\ [][~LosesRequest(r)]_vars => []KeySentOnce(r)
<1>1. StoredInv(r) => KeySentOnce(r)
  BY DEF StoredInv
<1> QED  BY <1>1, StoredInvariant, PTL

\* When the stored key of payments/base.py:40 is missing: only while the request
\* that sent the task is still open, or after a request was lost.  Were the task
\* sent after the commit, every provider call would find its row, however
\* requests overlap and workers are lost.
THEOREM StoredUnlessOpen ==
  Spec /\ [][\A r \in Returns : ~LosesRequest(r)]_vars
       /\ [][\A q \in Requests : CallProvider(q) => ~Sending(q)]_vars
    => StoredBeforeCall
<1> DEFINE Stored == AskedInv /\ \A r \in Returns : SentIsStored(r) /\ KeySentOnce(r)
           Kept == \A r \in Returns : ~LosesRequest(r)
           Closed == \A q \in Requests : CallProvider(q) => ~Sending(q)
           Found == \A q \in Requests : CallProvider(q) => refund[TaskKey(q)] # "absent"
<1>1. Init => Stored
  BY InitAsked DEF SentIsStored, KeySentOnce, Init, Started, NoTask, Message
<1>2. Stored /\ [Next]_vars /\ [Kept]_vars => Stored'
  <2> SUFFICES ASSUME Stored, [Next]_vars, [Kept]_vars PROVE Stored'
    OBVIOUS
  <2>1. Kept
    BY DEF vars, LosesRequest, AbortRefund, AskedInv, RecordInv, TypeOK
  <2>2. \A r \in Returns : StoredInv(r)'
    BY <2>1, StoredStep DEF StoredInv
  <2>3. AskedInv'
    BY AskedStep
  <2> QED  BY <2>2, <2>3 DEF StoredInv
<1>3. Stored /\ [Closed]_vars => [Found]_vars
  <2> SUFFICES ASSUME Stored, Closed, NEW q \in Requests, CallProvider(q)
               PROVE  refund[TaskKey(q)] # "absent"
    OBVIOUS
  <2>1. Started(q) /\ ~Sending(q) /\ Addressee[q] \in Returns
    BY Parameters DEF CallProvider, Started
  <2> QED  BY <2>1 DEF SentIsStored
<1> QED  BY <1>1, <1>2, <1>3, PTL DEF Spec, StoredBeforeCall

-----------------------------------------------------------------------------
(* A return is compensated no more often than it was asked for, whatever   *)
(* overlaps, aborts or is lost.                                            *)

\* The requests that ended without a task; a voucher is one of theirs.
Credited(r) == {q \in Requests : Addressee[q] = r /\ request[q].pc = "done" /\ ~Started(q)}

Sent(r) == {q \in Requests : Addressee[q] = r /\ Started(q)}

VouchersCounted(r) == vouchers[r] <= Cardinality(Credited(r))

\* A request that ended without a task stays so.
LEMMA CreditedStays ==
  ASSUME AskedInv, [Next]_vars, NEW r \in Returns
  PROVE  Credited(r) \subseteq Credited(r)'
<1> SUFFICES ASSUME NEW q \in Credited(r) PROVE request'[q].pc = "done" /\ ~Started(q)'
  BY DEF Credited
<1>1. q \in Requests /\ request[q].pc = "done" /\ ~Started(q) /\ TypeOK
  BY DEF Credited, AskedInv, RecordInv
<1>2. request'[q].pc = "done"
  BY <1>1, RequestStep DEF Done, Idle
<1>3. ~Started(q)'
  BY <1>1, KeyStays DEF InsertRefund
<1> QED  BY <1>2, <1>3

LEMMA VouchersStep ==
  ASSUME IsFiniteSet(Requests), AskedInv, [Next]_vars, NEW r \in Returns, VouchersCounted(r)
  PROVE  VouchersCounted(r)'
<1>0. TypeOK /\ NothingSentYet /\ vouchers[r] \in Nat
  BY DEF AskedInv, RecordInv, TypeOK
<1>1. /\ Credited(r) \subseteq Credited(r)' /\ IsFiniteSet(Credited(r)) /\ IsFiniteSet(Credited(r)')
      /\ Cardinality(Credited(r)) \in Nat /\ Cardinality(Credited(r)') \in Nat
  <2>1. Credited(r) \in SUBSET Requests /\ Credited(r)' \in SUBSET Requests
    BY DEF Credited
  <2>2. IsFiniteSet(Credited(r)) /\ IsFiniteSet(Credited(r)')
    BY <2>1, FS_Subset
  <2> QED  BY <2>2, CreditedStays, FS_CardinalityType
<1>2. CASE vouchers'[r] = vouchers[r]
  <2>1. Cardinality(Credited(r)) <= Cardinality(Credited(r)')
    BY <1>1, FS_Subset
  <2> QED  BY <1>0, <1>1, <1>2, <2>1 DEF VouchersCounted
<1>3. ASSUME NEW q \in Requests, CommitCredit(q), Addressee[q] = r PROVE VouchersCounted(r)'
  <2>1. ~Started(q) /\ q \notin Credited(r)
    BY <1>0, <1>3 DEF CommitCredit, NothingSentYet, Sending, Started, Credited
  <2>2. request'[q].pc = "done" /\ ~Started(q)' /\ vouchers'[r] = vouchers[r] + 1
    BY <1>0, <1>3, <2>1 DEF CommitCredit, Finish, Done, Idle, Started, TypeOK
  <2>3. Credited(r) \cup {q} \in SUBSET (Credited(r)')
    BY <1>1, <1>3, <2>2 DEF Credited
  <2>4. Cardinality(Credited(r) \cup {q}) = Cardinality(Credited(r)) + 1
    BY <1>1, <2>1, FS_AddElement
  <2>5. Cardinality(Credited(r) \cup {q}) <= Cardinality(Credited(r)')
    BY <1>1, <2>3, FS_Subset
  <2> QED  BY <1>0, <1>1, <2>2, <2>4, <2>5 DEF VouchersCounted
<1>4. ASSUME ~\E q \in Requests : CommitCredit(q) /\ Addressee[q] = r PROVE vouchers'[r] = vouchers[r]
  <2>1. ASSUME NEW q \in Requests, CommitCredit(q), Addressee[q] # r PROVE vouchers'[r] = vouchers[r]
    BY <1>0, <2>1 DEF CommitCredit, TypeOK
  <2>2. ASSUME NEW q \in Requests, Work(q) \/ WorkerLost(q) PROVE UNCHANGED vouchers
    BY <1>0, <2>2, QuietSteps DEF Quiet
  <2> QED
    BY <1>4, <2>1, <2>2, BeginCases
       DEF Next, Handle, vars, BeginRefund, BeginCredit, BeginMove, LookupRefund, InsertRefund,
           RejectRefund, CommitRefund, LookupVoucher, CommitMove, AbortRefund, ProviderSettles,
           StripeWebhook
<1> QED  BY <1>2, <1>3, <1>4

\* Each live offer is that of a message that was sent.
LEMMA LiveWasSent ==
  ASSUME IsFiniteSet(Requests), AskedInv, NEW r \in Returns
  PROVE  LET L == {o \in Offers : Live(r, o)}
         IN  /\ Cardinality(L) \in Nat
             /\ Cardinality(L) <= Cardinality(Sent(r))
<1> DEFINE L == {o \in Offers : Live(r, o)}
           S == {q \in Sent(r) : Live(r, task[q].offer)}
           f == [q \in S |-> task[q].offer]
<1>1. \A q \in S : task[q].offer \in L
  BY DEF AskedInv, RecordInv, TypeOK, Sent, Started
<1>2. \A o \in L : \E q \in S : f[q] = o
  BY DEF AskedInv, OnlyStartedKeys, Live, TaskKey, Sent
<1>3. f \in Surjection(S, L)
  BY <1>1, <1>2, Fun_IsSurj
<1>4. IsFiniteSet(Sent(r)) /\ S \in SUBSET Sent(r)
  BY FS_Subset DEF Sent
<1>5. IsFiniteSet(S) /\ Cardinality(S) <= Cardinality(Sent(r))
  BY <1>4, FS_Subset
<1> HIDE DEF f, S, L
<1>6. IsFiniteSet(L) /\ Cardinality(L) <= Cardinality(S)
  BY <1>3, <1>5, FS_Surjection
<1>7. Cardinality(L) \in Nat /\ Cardinality(S) \in Nat /\ Cardinality(Sent(r)) \in Nat
  BY <1>4, <1>5, <1>6, FS_CardinalityType
<1> QED  BY <1>5, <1>6, <1>7 DEF L

\* However often replies are lost, tasks retried and redelivered, requests
\* repeated, overlapped and aborted, a return gets at most one refund or voucher
\* for each request made for it: the two overlapping requests of OneCompensation's
\* counterexample are all that can go wrong (tasks.py:46, 182-198).
THEOREM PaidPerRequest ==
  ASSUME IsFiniteSet(Requests)
  PROVE  Spec => []OncePerRequest
<1> DEFINE Counted == \A r \in Returns : VouchersCounted(r)
<1>1. Init => Counted
  <2> SUFFICES ASSUME Init, NEW r \in Returns PROVE VouchersCounted(r)
    OBVIOUS
  <2>1. Credited(r) \in SUBSET Requests
    BY DEF Credited
  <2>2. Cardinality(Credited(r)) \in Nat
    BY <2>1, FS_Subset, FS_CardinalityType
  <2> QED  BY <2>2 DEF Init, VouchersCounted
<1>2. AskedInv /\ Counted /\ [Next]_vars => Counted'
  BY VouchersStep
<1>3. AskedInv /\ Counted => OncePerRequest
  <2> SUFFICES ASSUME AskedInv, NEW r \in Returns, VouchersCounted(r)
               PROVE  Compensations(r) <= Cardinality(Asking(r))
    BY DEF OncePerRequest
  <2>1. Asking(r) = Sent(r) \cup Credited(r) /\ Sent(r) \cap Credited(r) = {}
    BY DEF Asking, Sent, Credited
  <2>2. Sent(r) \in SUBSET Requests /\ Credited(r) \in SUBSET Requests
    BY DEF Sent, Credited
  <2>3. IsFiniteSet(Sent(r)) /\ IsFiniteSet(Credited(r))
    BY <2>2, FS_Subset
  <2>4. Cardinality(Sent(r)) \in Nat /\ Cardinality(Credited(r)) \in Nat
    BY <2>3, FS_CardinalityType
  <2>5. Cardinality(Asking(r)) = Cardinality(Sent(r)) + Cardinality(Credited(r))
    <3>1. Cardinality(Sent(r) \cup Credited(r)) =
            Cardinality(Sent(r)) + Cardinality(Credited(r)) - Cardinality(Sent(r) \cap Credited(r))
      BY <2>3, FS_Union
    <3>2. Cardinality(Sent(r) \cap Credited(r)) = 0
      BY <2>1, FS_EmptySet
    <3> QED  BY <2>1, <2>4, <3>1, <3>2
  <2>6. vouchers[r] \in Nat
    BY DEF AskedInv, RecordInv, TypeOK
  <2> QED  BY <2>4, <2>5, <2>6, LiveWasSent DEF VouchersCounted, Compensations
<1> QED  BY <1>1, <1>2, <1>3, AskedInvariant, PTL DEF Spec

-----------------------------------------------------------------------------
(* A return is resolved once, when the sessions that write its status      *)
(* (refund, credit, override, inspection, carrier's event, poll) do not    *)
(* overlap and one that has sent its task commits, whatever happens to     *)
(* other returns and however the worker overlaps with the sessions.        *)
(* Nothing in the code keeps to this: it is what a lock on the return      *)
(* would give.                                                             *)

\* Nothing a return's resolution is made of has changed.
Aside(r) ==
  /\ status'[r] = status[r] /\ approved'[r] = approved[r] /\ vouchers'[r] = vouchers[r]
  /\ \A o \in Offers : refund'[<<r, o>>] = refund[<<r, o>>] /\ ledger'[<<r, o>>] = ledger[<<r, o>>]
  /\ \A q \in Requests : Addressee[q] = r => request'[q] = request[q] /\ task'[q] = task[q]

\* A request is about one return.
LEMMA OthersAside ==
  ASSUME TypeOK, NEW q \in Requests, Begin(q) \/ Handle(q) \/ AbortRefund(q),
         NEW r \in Returns, r # Addressee[q]
  PROVE  Aside(r)
<1>1. \A o \in Offers : <<r, o>> \in Keys
  BY DEF Keys
<1>2. UNCHANGED ledger /\ \A p \in Requests : p # q => request'[p] = request[p] /\ task'[p] = task[p]
  BY BeginCases
     DEF Handle, BeginRefund, BeginCredit, BeginMove, LookupRefund, InsertRefund, RejectRefund,
         CommitRefund, LookupVoucher, CommitCredit, CommitMove, AbortRefund, Finish, TypeOK
<1>3. \A o \in Offers : refund'[<<r, o>>] = refund[<<r, o>>]
  BY <1>1, BeginCases
     DEF Handle, BeginRefund, BeginCredit, BeginMove, LookupRefund, InsertRefund, RejectRefund,
         CommitRefund, LookupVoucher, CommitCredit, CommitMove, AbortRefund, OfferKey, TypeOK
<1>4. status'[r] = status[r] /\ approved'[r] = approved[r] /\ vouchers'[r] = vouchers[r]
  BY BeginCases
     DEF Handle, BeginRefund, BeginCredit, BeginMove, LookupRefund, InsertRefund, RejectRefund,
         CommitRefund, LookupVoucher, CommitCredit, CommitMove, AbortRefund, TypeOK
<1> QED  BY <1>2, <1>3, <1>4 DEF Aside

LEMMA AsideKeeps ==
  ASSUME NEW r \in Returns, TypeOK, ResolvedByOne(r), Aside(r)
  PROVE  ResolvedByOne(r)'
<1>1. \A q \in Requests : Addressee[q] = r =>
        /\ InFlight(q)' <=> InFlight(q)
        /\ Sending(q)' <=> Sending(q)
        /\ Started(q)' <=> Started(q)
        /\ task'[q].offer = task[q].offer /\ TaskKey(q) = <<r, task[q].offer>>
        /\ TaskKey(q)' = TaskKey(q)
        /\ Started(q) => task[q].offer \in Offers
  BY DEF Aside, InFlight, Sending, Started, TaskKey, TypeOK
<1>2. Fresh(r) => Fresh(r)'
  BY <1>1 DEF Aside, Fresh, Unpaid
<1>3. OneAtATime(r)' /\ OneTask(r)'
  BY <1>1 DEF ResolvedByOne, OneAtATime, OneTask
<1>4. ActsOnFresh(r)'
  BY <1>1, <1>2 DEF ResolvedByOne, ActsOnFresh, Aside
<1>5. StartedIsResolving(r)'
  BY <1>1 DEF ResolvedByOne, StartedIsResolving, Aside
<1>6. CreditedIsResolving(r)'
  BY DEF ResolvedByOne, CreditedIsResolving, Aside
<1> QED  BY <1>3, <1>4, <1>5, <1>6 DEF ResolvedByOne

\* A quiet step keeps every part of a return's resolution.
LEMMA QuietKeeps ==
  ASSUME NEW r \in Returns, TypeOK, ResolvedByOne(r), Quiet
  PROVE  ResolvedByOne(r)'
<1>1. \A p \in Requests : /\ Started(p)' <=> Started(p)
                          /\ TaskKey(p)' = TaskKey(p)
                          /\ InFlight(p)' <=> InFlight(p)
                          /\ Sending(p)' <=> Sending(p)
  BY DEF Quiet, QuietTasks, Started, TaskKey, InFlight, Sending
<1>2. ASSUME Fresh(r) PROVE Fresh(r)'
  <2>1. \A o \in Offers, q \in Requests : Started(q) => TaskKey(q) # <<r, o>>
    BY <1>2 DEF Fresh, TaskKey
  <2>2. \A o \in Offers : refund'[<<r, o>>] = "absent" /\ ledger'[<<r, o>>] = "none"
    BY <1>2, <2>1 DEF Fresh, Unpaid, Quiet, QuietRows, QuietLedger
  <2> QED  BY <1>1, <1>2, <2>2 DEF Fresh, Unpaid, Quiet
<1>3. OneAtATime(r)' /\ OneTask(r)'
  BY <1>1 DEF ResolvedByOne, OneAtATime, OneTask
<1>4. ActsOnFresh(r)'
  BY <1>1, <1>2 DEF ResolvedByOne, ActsOnFresh, Quiet
<1>5. StartedIsResolving(r)'
  <2> SUFFICES ASSUME NEW q \in Requests, Addressee[q] = r, Started(q)
               PROVE  /\ vouchers[r] = 0
                      /\ ~Sending(q) => /\ status'[r] \in Resolving
                                        /\ approved[r] = task'[q].offer
                                        /\ refund'[TaskKey(q)] # "absent"
    BY <1>1 DEF StartedIsResolving, Quiet
  <2>1. task'[q].offer = task[q].offer /\ task[q].offer \in Offers
    BY DEF Quiet, QuietTasks, Started, TypeOK
  <2> QED  BY <2>1 DEF ResolvedByOne, StartedIsResolving, Quiet, QuietRows, TaskKey
<1>6. CreditedIsResolving(r)'
  BY DEF ResolvedByOne, CreditedIsResolving, Quiet
<1> QED  BY <1>3, <1>4, <1>5, <1>6 DEF ResolvedByOne

\* A return nobody is working on that has not reached a resolving status is
\* fresh.
LEMMA IdleIsFresh ==
  ASSUME AskedInv, NEW r \in Returns, ResolvedByOne(r), ~Busy(r), status[r] \notin Resolving
  PROVE  Fresh(r)
<1>1. \A q \in Requests : Addressee[q] = r => ~Started(q)
  BY DEF ResolvedByOne, StartedIsResolving, Busy, Sending, InFlight
<1>2. vouchers[r] = 0
  BY DEF ResolvedByOne, CreditedIsResolving
<1>3. \A o \in Offers : refund[<<r, o>>] = "absent" /\ ledger[<<r, o>>] = "none"
  BY <1>1 DEF AskedInv, OnlyStartedKeys, TaskKey
<1> QED  BY <1>1, <1>2, <1>3 DEF Fresh, Unpaid

Unwritten == UNCHANGED <<status, approved, refund, refundId, vouchers, task, ledger>>

\* A request that starts, goes on or ends without having sent anything: what is
\* in flight acts on a fresh return or between resolving statuses.
LEMMA MoveKeeps ==
  ASSUME NEW q \in Requests, NEW x,
         TypeOK, ResolvedByOne(Addressee[q]), OneAtATime(Addressee[q])', Unwritten, ~Sending(q),
         request' = [request EXCEPT ![q] = x],
         ~(x.pc = "ready" /\ x.op = "refund"),
         x.pc \in {"read", "checked", "ready"} =>
           Fresh(Addressee[q]) \/ (x.op = "move" /\ x.target \in Resolving)
  PROVE  ResolvedByOne(Addressee[q])'
<1> DEFINE r == Addressee[q]
<1>1. request'[q] = x /\ ~Sending(q)' /\ \A p \in Requests : p # q => request'[p] = request[p]
  BY DEF TypeOK, Sending
<1>2. \A p \in Requests : Sending(p)' <=> Sending(p)
  BY <1>1 DEF Sending
<1>3. \A p \in Requests : p # q => (InFlight(p)' <=> InFlight(p))
  BY <1>1 DEF InFlight
<1>4. \A p \in Requests : (Started(p)' <=> Started(p)) /\ TaskKey(p)' = TaskKey(p)
  BY DEF Unwritten, Started, TaskKey
<1>5. Fresh(r)' <=> Fresh(r)
  BY <1>4 DEF Fresh, Unpaid, Unwritten
<1>6. OneTask(r)'
  BY <1>4 DEF ResolvedByOne, OneTask
<1>7. ActsOnFresh(r)'
  BY <1>1, <1>2, <1>3, <1>5 DEF ResolvedByOne, ActsOnFresh, InFlight
<1>8. StartedIsResolving(r)'
  BY <1>2, <1>4 DEF ResolvedByOne, StartedIsResolving, Unwritten
<1>9. CreditedIsResolving(r)'
  BY DEF ResolvedByOne, CreditedIsResolving, Unwritten
<1> QED  BY <1>6, <1>7, <1>8, <1>9 DEF ResolvedByOne

\* Sending the task is the decision: the return was fresh, so it is the only one.
LEMMA InsertKeeps ==
  ASSUME NEW q \in Requests, TypeOK, ResolvedByOne(Addressee[q]), OneAtATime(Addressee[q])',
         InsertRefund(q)
  PROVE  ResolvedByOne(Addressee[q])'
<1> DEFINE r == Addressee[q]
<1>1. InFlight(q) /\ ~Sending(q) /\ request[q].op = "refund"
  BY DEF InsertRefund, InFlight, Sending
<1>2. Fresh(r)
  BY <1>1 DEF ResolvedByOne, ActsOnFresh
<1>3. \A p \in Requests : p # q => request'[p] = request[p] /\ task'[p] = task[p]
  BY DEF InsertRefund, TypeOK
<1>4. Sending(q)' /\ InFlight(q)' /\ Started(q)'
  BY <1>1 DEF InsertRefund, TypeOK, RequestRecord, Message, Sending, InFlight, Started
<1>5. \A p \in Requests : Addressee[p] = r /\ p # q => ~Started(p)'
  BY <1>2, <1>3 DEF Fresh, Started
<1>6. UNCHANGED <<status, approved, refund, vouchers, ledger>>
  BY DEF InsertRefund
<1>7. OneTask(r)'
  BY <1>5 DEF OneTask
<1>8. ActsOnFresh(r)'
  BY <1>4 DEF OneAtATime, ActsOnFresh
<1>9. StartedIsResolving(r)'
  BY <1>2, <1>4, <1>5, <1>6 DEF StartedIsResolving, Fresh, Unpaid
<1>10. CreditedIsResolving(r)'
  BY <1>2, <1>6 DEF CreditedIsResolving, Fresh, Unpaid
<1> QED  BY <1>7, <1>8, <1>9, <1>10 DEF ResolvedByOne

\* The three commits move a return to a resolving status, or a fresh return
\* anywhere, and end its only request.
LEMMA CommitKeeps ==
  ASSUME NEW q \in Requests, AskedInv, ResolvedByOne(Addressee[q]), OneAtATime(Addressee[q])',
         CommitRefund(q) \/ CommitCredit(q) \/ CommitMove(q)
  PROVE  ResolvedByOne(Addressee[q])'
<1> DEFINE r == Addressee[q]
<1>0. TypeOK /\ RequestInv /\ SentOwnOffer /\ r \in Returns
  BY Parameters DEF AskedInv, RecordInv
<1>a. Done.pc = "done" /\ Idle.pc = "idle"
  BY DEF Done, Idle
<1>1. /\ InFlight(q) /\ UNCHANGED <<task, ledger>>
      /\ \E x \in {Done, Idle} : request' = [request EXCEPT ![q] = x]
  BY DEF CommitRefund, CommitCredit, CommitMove, Finish, InFlight
<1>2. \A p \in Requests : Addressee[p] = r => ~InFlight(p)' /\ ~Sending(p)'
  BY <1>0, <1>1, <1>a DEF TypeOK, InFlight, Sending, ResolvedByOne, OneAtATime
<1>3. \A p \in Requests : (Started(p)' <=> Started(p)) /\ TaskKey(p)' = TaskKey(p)
  BY <1>1 DEF Started, TaskKey
<1>4. OneTask(r)' /\ ActsOnFresh(r)'
  BY <1>2, <1>3 DEF ResolvedByOne, OneTask, ActsOnFresh
<1>5. CASE CommitRefund(q)
  <2>1. /\ Sending(q) /\ Started(q) /\ task[q].offer = request[q].offer /\ vouchers[r] = 0
        /\ request[q].target = "refund_initiated"
    BY <1>0, <1>1, <1>5
       DEF CommitRefund, Sending, SentOwnOffer, RequestInv, ResolvedByOne, StartedIsResolving
  <2>2. OfferKey(q) = TaskKey(q) /\ TaskKey(q) \in Keys
    BY <1>0, <2>1 DEF OfferKey, TaskKey, Keys, TypeOK, Started
  <2>3. /\ status'[r] \in Resolving /\ approved'[r] = task[q].offer
        /\ refund'[TaskKey(q)] # "absent" /\ UNCHANGED vouchers
    BY <1>0, <1>5, <2>1, <2>2 DEF CommitRefund, TypeOK, Resolving
  <2>4. \A p \in Requests : Addressee[p] = r /\ Started(p) => p = q
    BY <2>1 DEF ResolvedByOne, OneTask
  <2>5. StartedIsResolving(r)'
    BY <1>1, <1>3, <2>1, <2>3, <2>4 DEF StartedIsResolving
  <2>6. CreditedIsResolving(r)'
    BY <2>1, <2>3 DEF CreditedIsResolving
  <2> QED  BY <1>4, <2>5, <2>6 DEF ResolvedByOne
<1>6. CASE CommitCredit(q)
  <2>1. Fresh(r) /\ request[q].target = "store_credit_issued"
    BY <1>0, <1>1, <1>6 DEF CommitCredit, Sending, ResolvedByOne, ActsOnFresh, RequestInv
  <2>2. status'[r] \in Resolving /\ vouchers'[r] = 1
    BY <1>0, <1>6, <2>1 DEF CommitCredit, TypeOK, Resolving, Fresh, Unpaid
  <2>3. StartedIsResolving(r)'
    BY <1>3, <2>1 DEF StartedIsResolving, Fresh
  <2>4. CreditedIsResolving(r)'
    BY <2>2 DEF CreditedIsResolving
  <2> QED  BY <1>4, <2>3, <2>4 DEF ResolvedByOne
<1>7. CASE CommitMove(q)
  <2>1. ~Sending(q)
    BY <1>7 DEF CommitMove, Sending
  <2>2. Fresh(r) \/ request[q].target \in Resolving
    BY <1>1, <2>1 DEF ResolvedByOne, ActsOnFresh
  <2>3. status'[r] = request[q].target /\ UNCHANGED <<refund, vouchers, approved>>
    BY <1>0, <1>7 DEF CommitMove, TypeOK
  <2>4. \A p \in Requests : Addressee[p] = r => ~Sending(p)
    BY <1>1, <2>1 DEF Sending, InFlight, ResolvedByOne, OneAtATime
  <2>5. StartedIsResolving(r)'
    BY <1>1, <1>3, <2>2, <2>3, <2>4 DEF Fresh, ResolvedByOne, StartedIsResolving
  <2>6. CreditedIsResolving(r)'
    BY <2>2, <2>3 DEF Fresh, Unpaid, ResolvedByOne, CreditedIsResolving
  <2> QED  BY <1>4, <2>5, <2>6 DEF ResolvedByOne
<1> QED  BY <1>5, <1>6, <1>7

\* The requests' own steps, on the return they are about.
LEMMA RequestKeeps ==
  ASSUME AskedInv, NEW q \in Requests, Begin(q) \/ Handle(q),
         ResolvedByOne(Addressee[q]), OneAtATime(Addressee[q])'
  PROVE  ResolvedByOne(Addressee[q])'
<1> DEFINE r == Addressee[q]
<1>0. TypeOK /\ r \in Returns /\ request[q] \in RequestRecord /\ request \in [Requests -> RequestRecord]
  BY Parameters DEF AskedInv, RecordInv, TypeOK
<1>1. ASSUME NEW op, NEW o, NEW to, NEW pc \in {"read", "ready"}, request[q].pc = "idle",
             request' = [request EXCEPT ![q] = Reading(q, op, o, to, pc)], Unwritten,
             pc = "ready" => op = "move",
             status[r] \in Payable \/ (op = "move" /\ CanTransition(status[r], to))
      PROVE  ResolvedByOne(r)'
  <2> DEFINE x == Reading(q, op, o, to, pc)
  <2>1. x.pc = pc /\ x.op = op /\ x.target = to
    BY DEF Reading
  <2>2. request'[q] = x /\ \A p \in Requests : p # q => request'[p] = request[p]
    BY <1>0, <1>1
  <2> HIDE DEF x
  <2>3. InFlight(q)' /\ \A p \in Requests : p # q => (InFlight(p)' <=> InFlight(p))
    BY <2>1, <2>2 DEF InFlight
  <2>4. ~InFlight(q) /\ ~Sending(q)
    BY <1>1 DEF InFlight, Sending
  <2>5. ~Busy(r)
    BY <2>3, <2>4 DEF Busy, OneAtATime
  <2>6. Fresh(r) \/ (op = "move" /\ to \in Resolving)
    BY <1>0, <1>1, <2>5, IdleIsFresh, StatusSet, ResolvingClosed DEF TypeOK
  <2> QED  BY <1>0, <1>1, <2>1, <2>2, <2>4, <2>6, MoveKeeps DEF x
<1>2. CASE Begin(q)
  BY <1>1, <1>2, BeginCases DEF BeginRefund, BeginCredit, BeginMove, MayStart, Unwritten
<1>b. Done.pc = "done"
  BY DEF Done, Idle
<1>3. CASE LookupRefund(q) \/ RejectRefund(q) \/ LookupVoucher(q)
  <2>1. InFlight(q) /\ ~Sending(q) /\ Unwritten /\ request[q].op \in {"refund", "credit"}
    BY <1>3 DEF LookupRefund, RejectRefund, LookupVoucher, InFlight, Sending, Unwritten
  <2>2. Fresh(r)
    BY <2>1 DEF ResolvedByOne, ActsOnFresh
  <2>3. ASSUME NEW pc \in {"checked", "ready"}, request[q].op = "refund" => pc = "checked",
               request' = [request EXCEPT ![q] = [@ EXCEPT !.pc = pc]]
        PROVE  ResolvedByOne(r)'
    <3> DEFINE x == [request[q] EXCEPT !.pc = pc]
    <3>1. x.pc = pc /\ x.op = request[q].op
      BY <1>0 DEF RequestRecord
    <3>2. request' = [request EXCEPT ![q] = x]
      BY <2>3
    <3> HIDE DEF x
    <3> QED  BY <1>0, <2>1, <2>2, <2>3, <3>1, <3>2, MoveKeeps
  <2>4. ASSUME Finish(q) PROVE ResolvedByOne(r)'
    BY <1>0, <1>b, <2>1, <2>4, MoveKeeps DEF Finish
  <2> QED  BY <1>3, <2>3, <2>4 DEF LookupRefund, RejectRefund, LookupVoucher
<1>4. CASE InsertRefund(q)
  BY <1>0, <1>4, InsertKeeps
<1>5. CASE CommitRefund(q) \/ CommitCredit(q) \/ CommitMove(q)
  BY <1>5, CommitKeeps
<1> QED  BY <1>2, <1>3, <1>4, <1>5 DEF Handle

\* Every step keeps a return's resolution, if it leaves the requests for that
\* return one at a time and loses none of them after its task was sent.
LEMMA ResolvedStep ==
  ASSUME NEW r \in Returns, AskedInv, ResolvedByOne(r), [Next]_vars,
         OneAtATime(r)', ~LosesRequest(r)
  PROVE  ResolvedByOne(r)'
<1>0. TypeOK
  BY DEF AskedInv, RecordInv
<1>1. ASSUME NEW q \in Requests, Begin(q) \/ Handle(q) PROVE ResolvedByOne(r)'
  <2>1. CASE Addressee[q] = r
    BY <1>1, <2>1, RequestKeeps
  <2>2. CASE Addressee[q] # r
    BY <1>0, <1>1, <2>2, OthersAside, AsideKeeps
  <2> QED  BY <2>1, <2>2
<1>2. ASSUME NEW q \in Requests, AbortRefund(q) PROVE ResolvedByOne(r)'
  <2>1. Addressee[q] # r
    BY <1>2 DEF LosesRequest
  <2> QED  BY <1>0, <1>2, <2>1, OthersAside, AsideKeeps
<1>3. ASSUME \/ \E q \in Requests : Work(q) \/ WorkerLost(q)
             \/ \E k \in Keys : ProviderSettles(k) \/ StripeWebhook(k)
             \/ UNCHANGED vars
      PROVE  ResolvedByOne(r)'
  BY <1>0, <1>3, QuietSteps, QuietKeeps
<1> QED  BY <1>1, <1>2, <1>3 DEF Next

LEMMA InitResolved ==
  ASSUME Init, NEW r \in Returns
  PROVE  ResolvedByOne(r)
<1>1. \A q \in Requests : ~InFlight(q) /\ ~Sending(q) /\ ~Started(q)
  BY DEF Init, Idle, InFlight, Sending, Started, NoTask, Message
<1> QED
  BY <1>1 DEF Init, ResolvedByOne, OneAtATime, OneTask, ActsOnFresh, StartedIsResolving,
     CreditedIsResolving

\* One undisturbed return is resolved by one request, whatever the requests for
\* the others do.
LEMMA ResolvedOne ==
  ASSUME NEW r \in Returns
  PROVE  Spec /\ Undisturbed(r) => [](AskedInv /\ ResolvedByOne(r))
<1>1. Init => ResolvedByOne(r)
  BY InitResolved
<1>2. /\ AskedInv /\ ResolvedByOne(r) /\ [Next]_vars
      /\ OneAtATime(r)' /\ [~LosesRequest(r)]_vars
      => ResolvedByOne(r)'
  <2>1. CASE ~LosesRequest(r)
    BY <2>1, ResolvedStep
  <2>2. CASE UNCHANGED vars
    <3>1. ~LosesRequest(r) \/ ~TypeOK
      BY <2>2 DEF vars, LosesRequest, AbortRefund, TypeOK
    <3> QED  BY <3>1, ResolvedStep DEF AskedInv, RecordInv
  <2> QED  BY <2>1, <2>2
<1> QED  BY <1>1, <1>2, AskedInvariant, PTL DEF Spec, Undisturbed

ResolvedInv == AskedInv /\ \A r \in Returns : ResolvedByOne(r)

\* The step for all returns at once.
LEMMA ResolvedInvStep ==
  ASSUME ResolvedInv, [Next]_vars, \A r \in Returns : OneAtATime(r)',
         [\A r \in Returns : ~LosesRequest(r)]_vars
  PROVE  ResolvedInv'
<1>0. AskedInv /\ AskedInv' /\ TypeOK
  BY AskedStep DEF ResolvedInv, AskedInv, RecordInv
<1>1. \A r \in Returns : ~LosesRequest(r)
  BY <1>0 DEF vars, LosesRequest, AbortRefund, TypeOK
<1> QED  BY <1>0, <1>1, ResolvedStep DEF ResolvedInv

LEMMA InitResolvedInv == Init => ResolvedInv
BY InitAsked, InitResolved DEF ResolvedInv

LEMMA ResolvedInvariant == Spec /\ AllUndisturbed => []ResolvedInv
<1>1. ResolvedInv /\ [Next]_vars /\ (\A r \in Returns : OneAtATime(r))'
        /\ [\A r \in Returns : ~LosesRequest(r)]_vars => ResolvedInv'
  BY ResolvedInvStep
<1> QED  BY <1>1, InitResolvedInv, PTL DEF Spec, AllUndisturbed

\* The instances the runs check are undisturbed: their bounds forbid what
\* Undisturbed excludes.
LEMMA BoundsAreUndisturbed ==
  ASSUME Serialised, MaxAborts = 0
  PROVE  Spec => AllUndisturbed
<1> DEFINE Each == \A r \in Returns : OneAtATime(r)
           Gain == \A r \in Returns : ~LosesRequest(r)
<1>1. Init => Each
  BY DEF Init, OneAtATime, InFlight, Idle
<1>2. TypeOK /\ Each /\ [Next]_vars => Each'
  <2> SUFFICES ASSUME TypeOK, Each, [Next]_vars, NEW r \in Returns PROVE OneAtATime(r)'
    OBVIOUS
  <2>1. \A p \in Requests : request[p].pc = "done" => ~InFlight(p)
    BY DEF InFlight
  <2>2. ASSUME NEW q \in Requests, Begin(q) PROVE OneAtATime(r)'
    <3>1. /\ \A p \in Requests : Addressee[p] = Addressee[q] => ~InFlight(p)
          /\ \A p \in Requests : p # q => request'[p] = request[p]
      BY <2>2, BeginCases DEF BeginRefund, BeginCredit, BeginMove, MayStart, TypeOK
    <3> QED  BY <3>1 DEF OneAtATime, InFlight
  <2>3. ASSUME \A p \in Requests : InFlight(p)' => InFlight(p) PROVE OneAtATime(r)'
    BY <2>3 DEF OneAtATime
  <2>4. ASSUME ~\E q \in Requests : Begin(q), NEW p \in Requests, InFlight(p)' PROVE InFlight(p)
    <3>1. \/ request'[p] = request[p]
          \/ request[p].pc \in {"read", "checked"}
          \/ request'[p] = Done \/ request'[p] = Idle
          \/ request[p].pc = "idle"
      BY RequestStep
    <3>2. request[p].pc = "idle" => request'[p] = request[p]
      BY <2>4
         DEF Next, Handle, LookupRefund, InsertRefund, RejectRefund, CommitRefund,
             LookupVoucher, CommitCredit, CommitMove, AbortRefund, Finish, Work,
             MarkProcessing, CallProvider, RecordException, SettleFailure, SettleUpdate,
             SettleRead, SettleIllegal, SettleCommit, Ack, WorkerLost, ProviderSettles,
             StripeWebhook, vars, TypeOK
    <3> QED  BY <2>4, <3>1, <3>2 DEF InFlight, Done, Idle
  <2> QED  BY <2>2, <2>3, <2>4
<1>3. TypeOK => Gain
  BY DEF TypeOK, LosesRequest, AbortRefund
<1> QED  BY <1>1, <1>2, <1>3, TypeCorrect, PTL DEF Spec, AllUndisturbed

\* Under the discipline above, which the code leaves to chance, exactly one
\* request ever does something for a return, and no override, inspection, event
\* or poll that comes before or after it, and no settlement beside it, takes the
\* return back out of the resolving statuses (financial.py:52-98,
\* service.py:137-179, webhooks.py:61-91, tasks.py:61-85).
THEOREM ResolvedOnceHolds == Spec /\ AllUndisturbed => []ResolvedOnce
<1>1. ResolvedInv => ResolvedOnce
  BY DEF ResolvedInv, ResolvedOnce, AskedInv, RecordInv
<1> QED  BY <1>1, ResolvedInvariant, PTL

\* What resolution by one request gives a return.
LEMMA ResolvedGives ==
  ASSUME AskedInv, NEW r \in Returns, ResolvedByOne(r)
  PROVE  /\ CompensatedAtMostOnce(r)
         /\ MoneyRecorded(r)
         /\ status[r] \in Payable /\ ~Busy(r) => Unpaid(r)
<1>1. \A o \in Offers : Live(r, o) =>
        \E q \in Requests : Started(q) /\ TaskKey(q) = <<r, o>> /\ Addressee[q] = r /\ task[q].offer = o
  BY DEF AskedInv, OnlyStartedKeys, Live, TaskKey
<1>2. CompensatedAtMostOnce(r)
  <2>1. \A o1, o2 \in Offers : Live(r, o1) /\ Live(r, o2) => o1 = o2
    BY <1>1 DEF ResolvedByOne, OneTask
  <2>2. \A o \in Offers : Live(r, o) => vouchers[r] = 0
    BY <1>1 DEF ResolvedByOne, StartedIsResolving
  <2>3. vouchers[r] <= 1
    BY DEF ResolvedByOne, CreditedIsResolving, AskedInv, RecordInv, TypeOK
  <2> QED  BY <2>1, <2>2, <2>3 DEF CompensatedAtMostOnce
<1>3. MoneyRecorded(r)
  <2> SUFFICES ASSUME NEW o \in Offers, Live(r, o), ~Busy(r)
               PROVE  approved[r] = o /\ refund[<<r, o>>] # "absent"
    BY DEF MoneyRecorded
  <2>1. PICK q \in Requests : Started(q) /\ TaskKey(q) = <<r, o>> /\ Addressee[q] = r /\ task[q].offer = o
    BY <1>1
  <2>2. ~Sending(q)
    BY <2>1 DEF Busy, Sending, InFlight
  <2> QED  BY <2>1, <2>2 DEF ResolvedByOne, StartedIsResolving
<1>4. status[r] \in Payable /\ ~Busy(r) => Unpaid(r)
  BY IdleIsFresh, StatusSet DEF Fresh
<1> QED  BY <1>2, <1>3, <1>4

\* Golden Rule #1, return by return, and what it takes: if no two sessions that
\* write a return's status overlap, inspections, carrier's events and polls
\* included, and none is lost between sending its task and committing, the return
\* is compensated at most once, the money it got is the amount approved, and it is
\* not payable again, whatever the provider answers, however many workers are
\* lost and webhooks delayed, and whatever happens to other returns.
THEOREM EachReturnCompensatedOnce ==
  ASSUME NEW r \in Returns
  PROVE  Spec /\ Undisturbed(r) =>
           [](/\ CompensatedAtMostOnce(r)
              /\ MoneyRecorded(r)
              /\ status[r] \in Payable /\ ~Busy(r) => Unpaid(r))
<1>1. AskedInv /\ ResolvedByOne(r) =>
        /\ CompensatedAtMostOnce(r)
        /\ MoneyRecorded(r)
        /\ status[r] \in Payable /\ ~Busy(r) => Unpaid(r)
  BY ResolvedGives
<1> QED  BY <1>1, ResolvedOne, PTL

\* Golden Rule #1 for all returns: no double refund, and never a refund and a
\* voucher, when no two sessions that write one return's status overlap and none
\* is lost after sending.
THEOREM CompensatedOnce == Spec /\ AllUndisturbed => []OneCompensation
<1>1. ResolvedInv => OneCompensation
  BY ResolvedGives DEF ResolvedInv, OneCompensation
<1> QED  BY <1>1, ResolvedInvariant, PTL

\* Under the same discipline, what the provider holds for a return that no
\* session is working on is what the return and the refunds table record: no
\* inspection, event or poll lets a second offer be approved beside the first
\* one's money.
THEOREM MoneyIsRecorded == Spec /\ AllUndisturbed => []PaidAsApproved
<1>1. ResolvedInv => PaidAsApproved
  BY ResolvedGives DEF ResolvedInv, PaidAsApproved
<1> QED  BY <1>1, ResolvedInvariant, PTL

\* Under the same discipline, a return that can still be paid has not been: no
\* session that moves it commits "received" over a compensated return.
THEOREM PayableMeansUnpaid == Spec /\ AllUndisturbed => []PayableIsUncompensated
<1>1. ResolvedInv => PayableIsUncompensated
  BY ResolvedGives DEF ResolvedInv, PayableIsUncompensated
<1> QED  BY <1>1, ResolvedInvariant, PTL
-----------------------------------------------------------------------------
(* The pipeline implements Compensation.                                   *)

\* A return has been decided by the one request that sent a task for it, by its
\* voucher, or not at all.
DecidedByOne ==
  \A r \in Returns :
    /\ \A q \in Requests : Addressee[q] = r /\ Started(q) => Decided(r) = task[q].offer
    /\ (\A q \in Requests : Addressee[q] = r => ~Started(q)) =>
         Decided(r) = IF vouchers[r] > 0 THEN "credit" ELSE "open"

OneTaskEach == \A r \in Returns : OneTask(r)

LEMMA DecidedIs == OneTaskEach => DecidedByOne
<1> SUFFICES ASSUME OneTaskEach, NEW r \in Returns
             PROVE  /\ \A q \in Requests :
                         Addressee[q] = r /\ Started(q) => Decided(r) = task[q].offer
                    /\ (\A q \in Requests : Addressee[q] = r => ~Started(q)) =>
                         Decided(r) = IF vouchers[r] > 0 THEN "credit" ELSE "open"
  BY DEF DecidedByOne
<1>1. ASSUME NEW q \in Requests, Addressee[q] = r, Started(q)
      PROVE  Decided(r) = task[q].offer
  <2> DEFINE p == CHOOSE x \in Requests : Addressee[x] = r /\ Started(x)
  <2>1. p \in Requests /\ Addressee[p] = r /\ Started(p)
    BY <1>1
  <2>2. Decided(r) = task[p].offer
    BY <1>1 DEF Decided
  <2> HIDE DEF p
  <2>3. p = q
    BY <1>1, <2>1 DEF OneTaskEach, OneTask
  <2> QED  BY <2>2, <2>3
<1>2. ASSUME \A q \in Requests : Addressee[q] = r => ~Started(q)
      PROVE  Decided(r) = IF vouchers[r] > 0 THEN "credit" ELSE "open"
  BY <1>2 DEF Decided
<1> QED  BY <1>1, <1>2

LEMMA DecidedNext == OneTaskEach' => DecidedByOne'
BY DecidedIs, PTL

\* What leaves a return's task and vouchers alone leaves its decision alone.
LEMMA DecisionStands ==
  ASSUME OneTaskEach, OneTaskEach', NEW r \in Returns, vouchers'[r] = vouchers[r],
         \A q \in Requests : Addressee[q] = r =>
           (Started(q)' <=> Started(q)) /\ task'[q].offer = task[q].offer
  PROVE  Decided(r)' = Decided(r)
<1>1. CASE \E q \in Requests : Addressee[q] = r /\ Started(q)
  BY <1>1, DecidedIs, DecidedNext DEF DecidedByOne
<1>2. CASE \A q \in Requests : Addressee[q] = r => ~Started(q)
  BY <1>2, DecidedIs, DecidedNext DEF DecidedByOne
<1> QED  BY <1>1, <1>2

\* Two steps have the shape of the promise: one return is decided that was
\* open, or one that was decided for a refund is paid.
Decision ==
  \E r \in Returns, d \in Offers \cup {"credit"} :
    /\ Decided(r) = "open" /\ Decided(r)' = d
    /\ \A x \in Returns : /\ x # r => Decided(x)' = Decided(x)
                          /\ PaidFor(x)' <=> PaidFor(x)

Payment ==
  \E r \in Returns :
    /\ Decided(r) \in Offers /\ ~PaidFor(r) /\ PaidFor(r)'
    /\ \A x \in Returns : /\ Decided(x)' = Decided(x)
                          /\ x # r => (PaidFor(x)' <=> PaidFor(x))

Stutter ==
  \A x \in Returns : Decided(x)' = Decided(x) /\ (PaidFor(x)' <=> PaidFor(x))

\* A step of task, provider or webhook pays a decided return, or shows nothing.
LEMMA QuietPromise ==
  ASSUME ResolvedInv, ResolvedInv', [Next]_vars, Quiet,
         \/ \E q \in Requests : Work(q) \/ WorkerLost(q)
         \/ \E k \in Keys : ProviderSettles(k) \/ StripeWebhook(k)
         \/ UNCHANGED vars
  PROVE  Payment \/ Stutter
<1>1. TypeOK /\ OneTaskEach /\ OneTaskEach' /\ OnlyStartedKeys
  BY DEF ResolvedInv, ResolvedByOne, OneTaskEach, AskedInv, RecordInv
<1>2. \A x \in Returns : Decided(x)' = Decided(x)
  BY <1>1, DecisionStands DEF Quiet, QuietTasks, Started
<1>3. CASE UNCHANGED ledger
  BY <1>2, <1>3 DEF Stutter, PaidFor
<1>4. ASSUME NEW r \in Returns, NEW q \in Requests, Addressee[q] = r, Started(q),
             \A x \in Returns \ {r}, o \in Offers : ledger'[<<x, o>>] = ledger[<<x, o>>]
      PROVE  Payment \/ Stutter
  <2>1. Decided(r) \in Offers
    BY <1>1, <1>4, DecidedIs DEF DecidedByOne, TypeOK, Started
  <2>2. \A x \in Returns \ {r} : PaidFor(x)' <=> PaidFor(x)
    BY <1>4 DEF PaidFor
  <2>3. PaidFor(r) => PaidFor(r)'
    BY <1>1, PaidStays
  <2> QED  BY <1>2, <2>1, <2>2, <2>3 DEF Payment, Stutter
<1>5. ASSUME NEW q \in Requests, CallProvider(q) PROVE Payment \/ Stutter
  <2>1. Addressee[q] \in Returns /\ Started(q)
    BY <1>5, Parameters DEF CallProvider, Started
  <2>2. \A x \in Returns \ {Addressee[q]}, o \in Offers : ledger'[<<x, o>>] = ledger[<<x, o>>]
    BY <1>1, <1>5 DEF CallProvider, TaskKey, TypeOK, Keys
  <2> QED  BY <1>4, <2>1, <2>2
<1>6. ASSUME NEW k \in Keys, ProviderSettles(k) PROVE Payment \/ Stutter
  <2>1. PICK r \in Returns, o \in Offers : k = <<r, o>>
    BY DEF Keys
  <2>2. PICK q \in Requests : Started(q) /\ TaskKey(q) = <<r, o>>
    BY <1>1, <1>6, <2>1 DEF ProviderSettles, OnlyStartedKeys
  <2>3. \A x \in Returns \ {r}, p \in Offers : ledger'[<<x, p>>] = ledger[<<x, p>>]
    BY <1>1, <1>6, <2>1 DEF ProviderSettles, TypeOK, Keys
  <2>4. Addressee[q] = r
    BY <2>2 DEF TaskKey
  <2> QED  BY <1>4, <2>2, <2>3, <2>4
<1>7. ASSUME NEW q \in Requests, Work(q) PROVE Payment \/ Stutter
  BY <1>3, <1>5, <1>7, WorkIsApart
<1>8. CASE \/ \E q \in Requests : WorkerLost(q)
           \/ \E k \in Keys : StripeWebhook(k)
           \/ UNCHANGED vars
  BY <1>3, <1>8 DEF WorkerLost, StripeWebhook, vars
<1> QED  BY <1>6, <1>7, <1>8

\* A request that sends its task, or commits its voucher, acts on a fresh return.
LEMMA RequestPromise ==
  ASSUME ResolvedInv, ResolvedInv', NEW q \in Requests, Begin(q) \/ Handle(q)
  PROVE  Decision \/ Stutter
<1>1. /\ TypeOK /\ OneTaskEach /\ OneTaskEach'
      /\ ActsOnFresh(Addressee[q]) /\ Addressee[q] \in Returns
  BY Parameters DEF ResolvedInv, ResolvedByOne, OneTaskEach, AskedInv, RecordInv
<1>2. ASSUME UNCHANGED <<task, vouchers, ledger>> PROVE Stutter
  <2>1. \A x \in Returns : Decided(x)' = Decided(x)
    BY <1>1, <1>2, DecisionStands DEF Started
  <2> QED  BY <1>2, <2>1 DEF Stutter, PaidFor
<1> DEFINE r == Addressee[q]
<1>3. ASSUME Fresh(r) PROVE Decided(r) = "open"
  BY <1>1, <1>3, DecidedIs DEF DecidedByOne, Fresh, Unpaid
<1>4. CASE InsertRefund(q)
  <2>1. Fresh(r) /\ request[q].offer \in Offers
    BY <1>1, <1>4 DEF InsertRefund, ActsOnFresh, InFlight, Sending, TypeOK
  <2>2. /\ Started(q)' /\ task'[q].offer = request[q].offer
        /\ \A p \in Requests \ {q} : task'[p] = task[p]
    BY <1>1, <1>4 DEF InsertRefund, TypeOK, Started, Message
  <2>3. Decided(r)' = request[q].offer
    BY <1>1, <2>2, DecidedNext DEF DecidedByOne
  <2>4. \A x \in Returns : x # r => Decided(x)' = Decided(x)
    BY <1>1, <1>4, <2>2, DecisionStands DEF InsertRefund, Started
  <2>5. \A x \in Returns : PaidFor(x)' <=> PaidFor(x)
    BY <1>4 DEF InsertRefund, PaidFor
  <2> QED  BY <1>1, <1>3, <2>1, <2>3, <2>4, <2>5 DEF Decision
<1>5. CASE CommitCredit(q)
  <2>1. Fresh(r)
    BY <1>1, <1>5 DEF CommitCredit, ActsOnFresh, InFlight, Sending
  <2>2. \A p \in Requests : Addressee[p] = r => ~Started(p)'
    BY <1>5, <2>1 DEF CommitCredit, Fresh, Started
  <2>3. vouchers'[r] = 1
    BY <1>1, <1>5, <2>1 DEF CommitCredit, Fresh, Unpaid, TypeOK
  <2>4. Decided(r)' = "credit"
    BY <1>1, <2>2, <2>3, DecidedNext DEF DecidedByOne
  <2>5. \A x \in Returns : x # r => vouchers'[x] = vouchers[x]
    BY <1>1, <1>5 DEF CommitCredit, TypeOK
  <2>6. \A x \in Returns : x # r => Decided(x)' = Decided(x)
    BY <1>1, <1>5, <2>5, DecisionStands DEF CommitCredit, Started
  <2>7. \A x \in Returns : PaidFor(x)' <=> PaidFor(x)
    BY <1>5 DEF CommitCredit, PaidFor
  <2> QED  BY <1>1, <1>3, <2>1, <2>4, <2>6, <2>7 DEF Decision
<1> QED
  BY <1>2, <1>4, <1>5, BeginCases
     DEF Handle, BeginRefund, BeginCredit, BeginMove, LookupRefund, RejectRefund, CommitRefund,
         LookupVoucher, CommitMove

\* The shapes are steps of the promise.
LEMMA ShapesPromise ==
  ASSUME Decision \/ Payment \/ Stutter
  PROVE  [Promise!Next]_(Promise!vars)
<1> DEFINE decision == [r \in Returns |-> Decided(r)]
           paid == [r \in Returns |-> PaidFor(r)]
<1>b. \A x \in Returns : PaidFor(x) \in BOOLEAN /\ PaidFor(x)' \in BOOLEAN
  BY DEF PaidFor
<1>1. ASSUME NEW r \in Returns, NEW d \in Offers \cup {"credit"},
             Decided(r) = "open", Decided(r)' = d,
             \A x \in Returns : /\ x # r => Decided(x)' = Decided(x)
                                /\ PaidFor(x)' <=> PaidFor(x)
      PROVE  Promise!Decide(r, d)
  <2>1. decision[r] = "open"
    BY <1>1
  <2>2. [x \in Returns |-> Decided(x)'] = [decision EXCEPT ![r] = d]
    BY <1>1
  <2>3. \A x \in Returns : PaidFor(x)' = PaidFor(x)
    BY <1>b, <1>1, Zenon
  <2>4. [x \in Returns |-> PaidFor(x)'] = paid
    BY <2>3
  <2> QED  BY <2>1, <2>2, <2>4 DEF Promise!Decide
<1>2. ASSUME NEW r \in Returns,
             Decided(r) \in Offers, ~PaidFor(r), PaidFor(r)',
             \A x \in Returns : /\ Decided(x)' = Decided(x)
                                /\ x # r => (PaidFor(x)' <=> PaidFor(x))
      PROVE  Promise!Pay(r)
  <2>1. decision[r] \in Offers /\ ~paid[r]
    BY <1>2
  <2>a. \A x \in Returns : PaidFor(x)' = IF x = r THEN TRUE ELSE PaidFor(x)
    BY <1>b, <1>2, Zenon
  <2>2. [x \in Returns |-> PaidFor(x)'] = [paid EXCEPT ![r] = TRUE]
    BY <2>a
  <2>3. [x \in Returns |-> Decided(x)'] = decision
    BY <1>2
  <2> QED  BY <2>1, <2>2, <2>3 DEF Promise!Pay
<1>3. ASSUME Stutter PROVE UNCHANGED Promise!vars
  <2>1. [x \in Returns |-> Decided(x)'] = decision
    BY <1>3 DEF Stutter
  <2>a. \A x \in Returns : PaidFor(x)' = PaidFor(x)
    BY <1>b, <1>3, Zenon DEF Stutter
  <2>2. [x \in Returns |-> PaidFor(x)'] = paid
    BY <2>a
  <2> QED  BY <2>1, <2>2 DEF Promise!vars
<1> QED  BY <1>1, <1>2, <1>3 DEF Decision, Payment, Promise!Next

\* The pipeline keeps the promise of Compensation: whatever the provider answers
\* and whoever is lost, a return is decided once, and paid at most once, for what
\* was decided, as long as the sessions that write its status, inspections, events
\* and polls among them, come one at a time and those that send a task commit
\* (financial.py:34-142, service.py:137-179, webhooks.py:61-91, tasks.py:61-85 and
\* 173-227).
THEOREM ImplementsCompensation == Spec /\ AllUndisturbed => KeepsPromise
<1>1. Init => Promise!Init
  <2> SUFFICES ASSUME Init PROVE Promise!Init
    OBVIOUS
  <2>1. \A q \in Requests : ~Started(q)
    BY DEF Init, Started, NoTask, Message
  <2>2. \A r \in Returns : Decided(r) = "open"
    BY <2>1 DEF Init, Decided
  <2>3. \A r \in Returns : PaidFor(r) = FALSE
    BY DEF Init, PaidFor, Keys
  <2> QED  BY <2>2, <2>3 DEF Promise!Init
<1>2. /\ ResolvedInv /\ ResolvedInv' /\ [Next]_vars /\ [\A r \in Returns : ~LosesRequest(r)]_vars
      => [Promise!Next]_(Promise!vars)
  <2> SUFFICES ASSUME ResolvedInv, ResolvedInv', [Next]_vars,
                      [\A r \in Returns : ~LosesRequest(r)]_vars
               PROVE  Decision \/ Payment \/ Stutter
    BY ShapesPromise
  <2>1. ASSUME NEW q \in Requests, AbortRefund(q) PROVE FALSE
    BY <2>1, Parameters
       DEF AbortRefund, ResolvedInv, AskedInv, RecordInv, TypeOK, LosesRequest, vars
  <2>2. ASSUME NEW q \in Requests, Begin(q) \/ Handle(q) PROVE Decision \/ Stutter
    BY <2>2, RequestPromise
  <2>3. ASSUME \/ \E q \in Requests : Work(q) \/ WorkerLost(q)
               \/ \E k \in Keys : ProviderSettles(k) \/ StripeWebhook(k)
               \/ UNCHANGED vars
        PROVE  Payment \/ Stutter
    BY <2>3, QuietSteps, QuietPromise DEF ResolvedInv, AskedInv, RecordInv
  <2> QED  BY <2>1, <2>2, <2>3 DEF Next
<1> QED
  BY <1>1, <1>2, ResolvedInvariant, PTL DEF Spec, AllUndisturbed, KeepsPromise, Promise!Spec

-----------------------------------------------------------------------------
(* Nobody waits in a circle, and requests and messages come to an end.     *)

\* What the next step of a request waits for: only a key another transaction
\* has inserted.
CanHandle(q) ==
  \/ request[q].pc = "read" /\ request[q].op \in {"refund", "credit"}
  \/ request[q].pc = "checked" /\ request[q].op = "refund" /\ ~HeldByOther(q)
  \/ request[q].pc = "ready" /\ request[q].op \in {"refund", "credit", "move"}

\* What the next step of a worker waits for: the countdown of a retry, a row
\* another worker has updated, the provider's answer.
CanWork(q) ==
  \/ /\ task[q].stage = "queued" /\ ~RowLocked(TaskKey(q))
     /\ task[q].tries > 0 => request[q].pc # "ready"
  \/ task[q].stage = "marked" /\ Answers(TaskKey(q)) # {}
  \/ task[q].stage = "answered" /\ ~RowLocked(TaskKey(q))
  \/ task[q].stage = "refused" /\ (task[q].matched \/ ~RowLocked(TaskKey(q)))
  \/ task[q].stage \in {"recorded", "settling", "finished"}

UnderWay(q) == InFlight(q) \/ task[q].stage \notin {"none", "done"}

SomeoneGoesOn ==
  (\E q \in Requests : UnderWay(q)) => \E q \in Requests : CanHandle(q) \/ CanWork(q)

\* A request has the step of its own operation before it.
InStep ==
  \A q \in Requests :
    /\ request[q].pc = "read" => request[q].op \in {"refund", "credit"}
    /\ request[q].pc = "checked" => request[q].op = "refund"

\* A record that keeps to its operation, put in the place of another.
LEMMA StepInStep ==
  ASSUME TypeOK, InStep, NEW q \in Requests, NEW x, request' = [request EXCEPT ![q] = x],
         x.pc = "read" => x.op \in {"refund", "credit"},
         x.pc = "checked" => x.op = "refund"
  PROVE  InStep'
BY DEF TypeOK, InStep

LEMMA InStepInvariant == Spec => []InStep
<1>1. Init => InStep
  BY DEF Init, Idle, InStep
<1>2. TypeOK /\ InStep /\ [Next]_vars => InStep'
  <2> SUFFICES ASSUME TypeOK, InStep, [Next]_vars PROVE InStep'
    OBVIOUS
  <2>1. \A q \in Requests : request[q] \in RequestRecord
    BY DEF TypeOK
  <2>2. ASSUME NEW q \in Requests, Begin(q) PROVE InStep'
    <3>1. ASSUME NEW op, NEW o, NEW to, NEW pc \in {"read", "ready"},
                 pc = "read" => op \in {"refund", "credit"},
                 request' = [request EXCEPT ![q] = Reading(q, op, o, to, pc)]
          PROVE  InStep'
      <4>1. Reading(q, op, o, to, pc).pc = pc /\ Reading(q, op, o, to, pc).op = op
        BY DEF Reading
      <4> QED  BY <3>1, <4>1, StepInStep
    <3> QED  BY <2>2, <3>1, BeginCases DEF BeginRefund, BeginCredit, BeginMove
  <2>3. ASSUME NEW q \in Requests, NEW pc \in {"checked", "ready"},
               request' = [request EXCEPT ![q] = [@ EXCEPT !.pc = pc]],
               pc = "checked" => request[q].op = "refund"
        PROVE  InStep'
    <3> DEFINE x == [request[q] EXCEPT !.pc = pc]
    <3>1. x.pc = pc /\ x.op = request[q].op
      BY <2>1 DEF RequestRecord
    <3>2. request' = [request EXCEPT ![q] = x]
      BY <2>3
    <3> HIDE DEF x
    <3> QED  BY <2>3, <3>1, <3>2, StepInStep
  <2>4. ASSUME NEW q \in Requests, Finish(q) PROVE InStep'
    <3>1. Done.pc = "done"
      BY DEF Done, Idle
    <3> QED  BY <2>4, <3>1, StepInStep DEF Finish
  <2>5. ASSUME UNCHANGED request PROVE InStep'
    BY <2>5 DEF InStep
  <2>11. ASSUME NEW q \in Requests, CommitMove(q) PROVE InStep'
    BY <2>11, StepInStep DEF CommitMove, Idle
  <2>6. ASSUME NEW q \in Requests, Handle(q) \/ AbortRefund(q) PROVE InStep'
    BY <2>3, <2>4, <2>6, <2>11
       DEF Handle, LookupRefund, InsertRefund, RejectRefund, CommitRefund, LookupVoucher,
           CommitCredit, AbortRefund
  <2>7. ASSUME NEW q \in Requests, Work(q) PROVE InStep'
    BY <2>5, <2>7, WorkIsApart
  <2>8. ASSUME NEW q \in Requests, WorkerLost(q) PROVE InStep'
    BY <2>5, <2>8 DEF WorkerLost
  <2>9. ASSUME NEW k \in Keys, ProviderSettles(k) \/ StripeWebhook(k) PROVE InStep'
    BY <2>5, <2>9 DEF ProviderSettles, StripeWebhook
  <2>10. CASE UNCHANGED vars
    BY <2>5, <2>10 DEF vars
  <2> QED  BY <2>2, <2>6, <2>7, <2>8, <2>9, <2>10 DEF Next
<1> QED  BY <1>1, <1>2, TypeCorrect, PTL DEF Spec

\* A call may always be answered by an exception, when that is among the replies.
LEMMA CallMayRaise ==
  ASSUME TypeOK, "raised" \in Replies, NEW k \in Keys
  PROVE  Answers(k) # {}
<1>1. <<ledger[k], "raised">> \in Answers(k)
  BY DEF Answers, ProviderAnswers
<1> QED  BY <1>1

\* The transactions others wait for, a request that has inserted its key and a
\* worker that has updated its row, wait for nobody.
LEMMA SomeoneGoes == "raised" \in Replies /\ TypeOK /\ InStep => SomeoneGoesOn
<1> SUFFICES ASSUME "raised" \in Replies, TypeOK, InStep, NEW q \in Requests, UnderWay(q)
             PROVE  \E p \in Requests : CanHandle(p) \/ CanWork(p)
  BY DEF SomeoneGoesOn
<1> DEFINE Committing == \E p \in Requests : request[p].pc = "ready"
           Settling == \E p \in Requests :
             \/ task[p].stage \in {"recorded", "settling", "finished"}
             \/ Settles(p) /\ task[p].matched
<1>1. CASE Committing
  BY <1>1 DEF CanHandle, TypeOK, InFlight, RequestRecord
<1>2. CASE ~Committing /\ InFlight(q)
  BY <1>2 DEF CanHandle, HeldByOther, InStep, InFlight
<1>3. CASE Settling
  BY <1>3 DEF CanWork, Settles
<1>4. CASE ~Committing /\ ~Settling /\ task[q].stage \notin {"none", "done"}
  <2>1. ~RowLocked(TaskKey(q))
    BY <1>4 DEF RowLocked
  <2>2. task[q].stage \in {"queued", "marked", "answered", "refused"}
    BY <1>4 DEF TypeOK, TaskRecord
  <2>3. TaskKey(q) \in Keys
    BY <1>4, Parameters DEF TypeOK, TaskKey, Keys
  <2>4. CASE task[q].stage = "marked"
    BY <2>3, <2>4, CallMayRaise DEF CanWork
  <2>5. CASE task[q].stage \in {"answered", "refused"}
    BY <2>1, <2>5 DEF CanWork
  <2>6. CASE task[q].stage = "queued"
    <3>1. request[q].pc # "ready"
      BY <1>4
    <3> QED  BY <2>1, <2>6, <3>1 DEF CanWork
  <2> QED  BY <2>2, <2>4, <2>5, <2>6
<1> HIDE DEF Committing, Settling
<1> QED  BY <1>1, <1>2, <1>3, <1>4 DEF UnderWay

\* While a request or a message is under way, there is one that can go on:
\* inserts of one key, updates of one row, retries' countdowns and the provider
\* are never waited for in a circle, for any number of overlapping requests
\* and redelivered messages (financial.py:52-98, tasks.py:173-227).
THEOREM PipelineGoesOn == ASSUME "raised" \in Replies PROVE Spec => []SomeoneGoesOn
<1>1. TypeOK /\ InStep => SomeoneGoesOn
  BY SomeoneGoes
<1> QED  BY <1>1, TypeCorrect, InStepInvariant, PTL

\* The steps a request has before it, at most.
StepsLeft(pc) ==
  CASE pc = "idle" -> 4
    [] pc = "read" -> 3
    [] pc = "checked" -> 2
    [] pc = "ready" -> 1
    [] OTHER -> 0

\* The steps of a worker with a message before it is retried, lost or done with.
Ahead(stage) ==
  CASE stage = "queued" -> 6
    [] stage = "marked" -> 5
    [] stage = "answered" -> 4
    [] stage = "recorded" -> 3
    [] stage \in {"settling", "refused"} -> 2
    [] stage = "finished" -> 1
    [] OTHER -> 0

\* And with its retries, and the workers that may still be lost.
WorkLeft(t, lost) == 7 * ((MaxRetries - t.tries) + (MaxCrashes - lost)) + Ahead(t.stage)

\* Every step of a request brings it nearer to its end, the commit of a session
\* that only moves the return apart, which is its end and frees it for another;
\* every step with a message, redelivery and retry included, leaves less work for
\* it, and no step of anyone leaves more.
Drains ==
  \A q \in Requests :
    /\ (request'[q] # request[q] \/ Handle(q)) /\ ~CommitMove(q) =>
         StepsLeft(request'[q].pc) < StepsLeft(request[q].pc)
    /\ Started(q) => WorkLeft(task'[q], crashes') <= WorkLeft(task[q], crashes)
    /\ Started(q) /\ (task'[q] # task[q] \/ Work(q)) =>
         WorkLeft(task'[q], crashes') < WorkLeft(task[q], crashes)

LEMMA WorkLeftIsNatural ==
  ASSUME NEW t \in TaskRecord, NEW lost \in 0..MaxCrashes
  PROVE  WorkLeft(t, lost) \in Nat
<1>1. Ahead(t.stage) \in Nat
  BY DEF Ahead
<1>2. MaxRetries - t.tries \in Nat /\ MaxCrashes - lost \in Nat
  BY Parameters DEF TaskRecord
<1> QED  BY <1>1, <1>2 DEF WorkLeft

\* A retry costs more than the steps it brings back.
LEMMA RetryLeavesLess ==
  ASSUME NEW t \in TaskRecord, t.stage \in {"answered", "refused"}, NEW lost \in 0..MaxCrashes
  PROVE  WorkLeft(Retried(t), lost) < WorkLeft(t, lost)
<1>1. /\ t.tries \in Int /\ MaxRetries \in Int /\ MaxCrashes \in Int /\ lost \in Int
      /\ Ahead(t.stage) \in {2, 4} /\ Ahead("queued") = 6 /\ Ahead("done") = 0
  BY Parameters DEF TaskRecord, Ahead
<1>2. CASE t.tries < MaxRetries
  <2>1. Retried(t).tries = t.tries + 1 /\ Retried(t).stage = "queued"
    BY <1>2 DEF Retried, TaskRecord
  <2> QED  BY <1>1, <2>1 DEF WorkLeft
<1>3. CASE ~(t.tries < MaxRetries)
  <2>1. Retried(t).tries = t.tries /\ Retried(t).stage = "done"
    BY <1>3 DEF Retried, TaskRecord
  <2> QED  BY <1>1, <2>1 DEF WorkLeft
<1> QED  BY <1>2, <1>3

LEMMA WorkLeavesLess ==
  ASSUME TypeOK, NEW q \in Requests, Work(q)
  PROVE  /\ WorkLeft(task'[q], crashes') < WorkLeft(task[q], crashes)
         /\ \A p \in Requests : p # q => task'[p] = task[p]
         /\ UNCHANGED request /\ UNCHANGED crashes
<1>0. /\ task \in [Requests -> TaskRecord] /\ task[q] \in TaskRecord /\ crashes \in 0..MaxCrashes
      /\ task[q].tries \in Int /\ MaxRetries \in Int /\ MaxCrashes \in Int /\ crashes \in Int
  BY Parameters DEF TypeOK, TaskRecord
<1>1. UNCHANGED request /\ UNCHANGED crashes
  BY WorkIsApart
<1>2. ASSUME NEW u, task' = [task EXCEPT ![q] = u],
             \/ u.tries = task[q].tries /\ Ahead(u.stage) < Ahead(task[q].stage)
             \/ WorkLeft(u, crashes) < WorkLeft(task[q], crashes)
      PROVE  /\ WorkLeft(task'[q], crashes') < WorkLeft(task[q], crashes)
             /\ \A p \in Requests : p # q => task'[p] = task[p]
  <2>1. \A x : Ahead(x) \in Int
    BY DEF Ahead
  <2> QED  BY <1>0, <1>1, <1>2, <2>1 DEF WorkLeft
<1>3. ASSUME NEW u, u.tries = task[q].tries, task' = [task EXCEPT ![q] = u],
             \/ task[q].stage = "queued" /\ u.stage = "marked"
             \/ task[q].stage = "marked" /\ u.stage = "answered"
             \/ task[q].stage = "answered" /\ u.stage \in {"recorded", "finished"}
             \/ task[q].stage = "recorded" /\ u.stage \in {"settling", "refused"}
             \/ task[q].stage = "settling" /\ u.stage = "finished"
             \/ task[q].stage = "finished" /\ u.stage = "done"
      PROVE  /\ WorkLeft(task'[q], crashes') < WorkLeft(task[q], crashes)
             /\ \A p \in Requests : p # q => task'[p] = task[p]
  <2>1. Ahead(u.stage) < Ahead(task[q].stage)
    BY <1>3 DEF Ahead
  <2> QED  BY <1>2, <1>3, <2>1
<1>4. CASE MarkProcessing(q) \/ SettleFailure(q) \/ SettleRead(q) \/ SettleCommit(q)
  <2>1. PICK s \in {"marked", "settling", "refused", "finished"} :
          /\ task' = [task EXCEPT ![q] = [task[q] EXCEPT !.stage = s]]
          /\ \/ task[q].stage = "queued" /\ s = "marked"
             \/ task[q].stage \in {"answered", "settling"} /\ s = "finished"
             \/ task[q].stage = "recorded" /\ s \in {"settling", "refused"}
    BY <1>4 DEF MarkProcessing, SettleFailure, SettleRead, SettleCommit
  <2> DEFINE u == [task[q] EXCEPT !.stage = s]
  <2>2. u.stage = s /\ u.tries = task[q].tries
    BY <1>0 DEF TaskRecord
  <2> HIDE DEF u
  <2> QED  BY <1>1, <1>3, <2>1, <2>2 DEF u
<1>5. CASE CallProvider(q)
  <2>1. PICK a \in Answers(TaskKey(q)) :
          task' = [task EXCEPT ![q] = [@ EXCEPT !.stage = "answered", !.reply = a[2]]]
    BY ONLY <1>5, Zenon DEF CallProvider
  <2> DEFINE u == [task[q] EXCEPT !.stage = "answered", !.reply = a[2]]
  <2>2. u.stage = "answered" /\ u.tries = task[q].tries /\ task[q].stage = "marked"
    BY <1>0, <1>5 DEF TaskRecord, CallProvider
  <2>3. task' = [task EXCEPT ![q] = u]
    BY <2>1
  <2> HIDE DEF u
  <2> QED  BY <1>1, <1>3, <2>2, <2>3
<1>6. CASE RecordException(q) \/ SettleIllegal(q)
  <2>1. task' = [task EXCEPT ![q] = Retried(task[q])] /\ task[q].stage \in {"answered", "refused"}
    BY <1>6 DEF RecordException, SettleIllegal
  <2> QED  BY <1>0, <1>1, <1>2, <2>1, RetryLeavesLess
<1>7. CASE SettleUpdate(q)
  <2> DEFINE u == [task[q] EXCEPT !.stage = "recorded",
                                  !.matched = refund[TaskKey(q)] # "absent"]
  <2>1. u.stage = "recorded" /\ u.tries = task[q].tries /\ task[q].stage = "answered"
    BY <1>0, <1>7 DEF TaskRecord, SettleUpdate
  <2>2. task' = [task EXCEPT ![q] = u]
    BY <1>7 DEF SettleUpdate
  <2> HIDE DEF u
  <2> QED  BY <1>1, <1>3, <2>1, <2>2
<1>8. CASE Ack(q)
  <2> DEFINE u == [task[q] EXCEPT !.stage = "done", !.reply = "none", !.matched = FALSE]
  <2>1. u.stage = "done" /\ u.tries = task[q].tries /\ task[q].stage = "finished"
    BY <1>0, <1>8 DEF TaskRecord, Ack
  <2>2. task' = [task EXCEPT ![q] = u]
    BY <1>8 DEF Ack
  <2> HIDE DEF u
  <2> QED  BY <1>1, <1>3, <2>1, <2>2
<1> QED  BY <1>4, <1>5, <1>6, <1>7, <1>8, <1>1 DEF Work

\* A lost worker leaves less work with every message, its own included.
LEMMA LossLeavesLess ==
  ASSUME TypeOK, NEW q \in Requests, WorkerLost(q), NEW p \in Requests
  PROVE  WorkLeft(task'[p], crashes') < WorkLeft(task[p], crashes)
<1>0. /\ task \in [Requests -> TaskRecord] /\ task[p] \in TaskRecord /\ task[q] \in TaskRecord
      /\ task[p].tries \in Int /\ MaxRetries \in Int /\ MaxCrashes \in Int /\ crashes \in Int
  BY Parameters DEF TypeOK, TaskRecord
<1>1. crashes' = crashes + 1
  BY DEF WorkerLost
<1> DEFINE u == [task[q] EXCEPT !.stage = "queued", !.reply = "none", !.matched = FALSE]
<1>2. task' = [task EXCEPT ![q] = u] /\ Ahead(task[q].stage) \in 1..5
  BY DEF WorkerLost, Ahead
<1>3. u.stage = "queued" /\ u.tries = task[q].tries
  BY <1>0 DEF TaskRecord
<1> HIDE DEF u
<1>4. Ahead(u.stage) = 6 /\ Ahead(task[p].stage) \in Int
  BY <1>3 DEF Ahead
<1>5. CASE p = q
  BY <1>0, <1>1, <1>2, <1>3, <1>4, <1>5 DEF WorkLeft
<1>6. CASE p # q
  <2>1. task'[p] = task[p]
    BY <1>0, <1>2, <1>6
  <2> QED  BY <1>0, <1>1, <1>4, <2>1 DEF WorkLeft
<1> QED  BY <1>5, <1>6

\* What a request's own steps leave before it.
LEMMA HandleBringsNearer ==
  ASSUME TypeOK, NEW q \in Requests, Begin(q) \/ Handle(q) \/ AbortRefund(q)
  PROVE  /\ StepsLeft(request'[q].pc) < StepsLeft(request[q].pc) \/ CommitMove(q)
         /\ \A p \in Requests : p # q => request'[p] = request[p]
<1>0. request \in [Requests -> RequestRecord] /\ request[q] \in RequestRecord
  BY DEF TypeOK
<1>1. ASSUME NEW x, request' = [request EXCEPT ![q] = x],
             \/ request[q].pc = "idle" /\ x.pc \in {"read", "ready"}
             \/ request[q].pc = "read" /\ x.pc \in {"checked", "ready", "done"}
             \/ request[q].pc = "checked" /\ x.pc \in {"ready", "done"}
             \/ request[q].pc = "ready" /\ x.pc = "done"
      PROVE  /\ StepsLeft(request'[q].pc) < StepsLeft(request[q].pc)
             /\ \A p \in Requests : p # q => request'[p] = request[p]
  <2>1. request'[q] = x /\ \A p \in Requests : p # q => request'[p] = request[p]
    BY <1>0, <1>1
  <2>2. StepsLeft(x.pc) < StepsLeft(request[q].pc)
    BY <1>1 DEF StepsLeft
  <2> QED  BY <2>1, <2>2
<1>2. CASE Begin(q)
  <2>1. ASSUME NEW op, NEW o, NEW to, NEW pc \in {"read", "ready"}, request[q].pc = "idle",
               request' = [request EXCEPT ![q] = Reading(q, op, o, to, pc)]
        PROVE  /\ StepsLeft(request'[q].pc) < StepsLeft(request[q].pc)
               /\ \A p \in Requests : p # q => request'[p] = request[p]
    <3>1. Reading(q, op, o, to, pc).pc = pc
      BY DEF Reading
    <3> QED  BY <1>1, <2>1, <3>1
  <2> QED  BY <1>2, <2>1, BeginCases DEF BeginRefund, BeginCredit, BeginMove, MayStart
<1>3. ASSUME NEW pc \in {"checked", "ready"}, request[q].pc \in {"read", "checked"},
             request[q].pc # pc, request' = [request EXCEPT ![q] = [@ EXCEPT !.pc = pc]]
      PROVE  /\ StepsLeft(request'[q].pc) < StepsLeft(request[q].pc)
             /\ \A p \in Requests : p # q => request'[p] = request[p]
  <2> DEFINE x == [request[q] EXCEPT !.pc = pc]
  <2>1. x.pc = pc
    BY <1>0 DEF RequestRecord
  <2>2. request' = [request EXCEPT ![q] = x]
    BY <1>3
  <2> HIDE DEF x
  <2> QED  BY <1>1, <1>3, <2>1, <2>2
<1>4. ASSUME request[q].pc \in {"read", "checked", "ready"}, Finish(q)
      PROVE  /\ StepsLeft(request'[q].pc) < StepsLeft(request[q].pc)
             /\ \A p \in Requests : p # q => request'[p] = request[p]
  <2>1. Done.pc = "done"
    BY DEF Done, Idle
  <2> QED  BY <1>1, <1>4, <2>1 DEF Finish
<1>5. CASE LookupRefund(q)
  BY <1>3, <1>4, <1>5 DEF LookupRefund
<1>6. CASE LookupVoucher(q)
  BY <1>3, <1>4, <1>6 DEF LookupVoucher
<1>7. CASE InsertRefund(q)
  BY <1>3, <1>7 DEF InsertRefund
<1>8. CASE RejectRefund(q)
  BY <1>4, <1>8 DEF RejectRefund
<1>9. CASE CommitRefund(q) \/ AbortRefund(q)
  BY <1>4, <1>9 DEF CommitRefund, AbortRefund
<1>10. CASE CommitCredit(q)
  BY <1>4, <1>10 DEF CommitCredit
<1>11. CASE CommitMove(q)
  BY <1>0, <1>11 DEF CommitMove
<1> QED  BY <1>2, <1>5, <1>6, <1>7, <1>8, <1>9, <1>10, <1>11 DEF Handle

LEMMA DrainStep == RecordInv /\ Next => Drains
<1> SUFFICES ASSUME RecordInv, Next, NEW q \in Requests
             PROVE  /\ (request'[q] # request[q] \/ Handle(q)) /\ ~CommitMove(q) =>
                         StepsLeft(request'[q].pc) < StepsLeft(request[q].pc)
                    /\ Started(q) => WorkLeft(task'[q], crashes') <= WorkLeft(task[q], crashes)
                    /\ Started(q) /\ (task'[q] # task[q] \/ Work(q)) =>
                         WorkLeft(task'[q], crashes') < WorkLeft(task[q], crashes)
  BY DEF Drains
<1>0. TypeOK /\ task \in [Requests -> TaskRecord] /\ WorkLeft(task[q], crashes) \in Int
  <2>1. TypeOK /\ task \in [Requests -> TaskRecord] /\ task[q] \in TaskRecord
        /\ crashes \in 0..MaxCrashes
    BY DEF RecordInv, TypeOK
  <2> QED  BY <2>1, WorkLeftIsNatural
<1>1. (request'[q] # request[q] \/ Handle(q)) /\ ~CommitMove(q) =>
        StepsLeft(request'[q].pc) < StepsLeft(request[q].pc)
  <2>1. ASSUME NEW p \in Requests, Begin(p) \/ Handle(p) \/ AbortRefund(p)
        PROVE  p # q => request'[q] = request[q]
    BY <1>0, <2>1, HandleBringsNearer
  <2>2. ASSUME NEW p \in Requests, Work(p) PROVE request'[q] = request[q]
    BY <2>2, WorkIsApart
  <2>3. ASSUME NEW p \in Requests, WorkerLost(p) PROVE request'[q] = request[q]
    BY <2>3 DEF WorkerLost
  <2>4. ASSUME NEW k \in Keys, ProviderSettles(k) \/ StripeWebhook(k)
        PROVE  request'[q] = request[q]
    BY <2>4 DEF ProviderSettles, StripeWebhook
  <2>5. request'[q] # request[q] => Begin(q) \/ Handle(q) \/ AbortRefund(q)
    BY <2>1, <2>2, <2>3, <2>4 DEF Next
  <2> QED  BY <1>0, <2>5, HandleBringsNearer
<1>2. ASSUME Started(q)
      PROVE  \/ task'[q] = task[q] /\ crashes' = crashes
             \/ WorkLeft(task'[q], crashes') < WorkLeft(task[q], crashes)
  <2>1. ASSUME NEW p \in Requests, Work(p)
        PROVE  \/ task'[q] = task[q] /\ crashes' = crashes
               \/ WorkLeft(task'[q], crashes') < WorkLeft(task[q], crashes)
    BY <1>0, <2>1, WorkLeavesLess
  <2>2. ASSUME NEW p \in Requests, WorkerLost(p)
        PROVE  WorkLeft(task'[q], crashes') < WorkLeft(task[q], crashes)
    BY <1>0, <2>2, LossLeavesLess
  <2>3. ASSUME NEW p \in Requests, InsertRefund(p) PROVE task'[q] = task[q] /\ crashes' = crashes
    <3>1. p # q
      BY <1>2, <2>3 DEF InsertRefund, RecordInv, NothingSentYet, Sending, Started
    <3> QED  BY <1>0, <2>3, <3>1 DEF InsertRefund
  <2>4. ASSUME NEW p \in Requests,
               \/ Begin(p) \/ LookupRefund(p) \/ RejectRefund(p) \/ LookupVoucher(p)
               \/ CommitRefund(p) \/ CommitCredit(p) \/ CommitMove(p) \/ AbortRefund(p)
        PROVE  task' = task /\ crashes' = crashes
    BY <2>4, BeginCases
       DEF BeginRefund, BeginCredit, BeginMove, LookupRefund, RejectRefund, LookupVoucher,
           CommitRefund, CommitCredit, CommitMove, AbortRefund
  <2>5. ASSUME NEW k \in Keys, ProviderSettles(k) \/ StripeWebhook(k)
        PROVE  task' = task /\ crashes' = crashes
    BY <2>5 DEF ProviderSettles, StripeWebhook
  <2> QED  BY <2>1, <2>2, <2>3, <2>4, <2>5 DEF Next, Handle
<1>3. Work(q) => WorkLeft(task'[q], crashes') < WorkLeft(task[q], crashes)
  BY <1>0, WorkLeavesLess
<1>4. task'[q] = task[q] /\ crashes' = crashes =>
        WorkLeft(task'[q], crashes') = WorkLeft(task[q], crashes)
  OBVIOUS
<1>5. WorkLeft(task'[q], crashes') < WorkLeft(task[q], crashes) =>
        WorkLeft(task'[q], crashes') <= WorkLeft(task[q], crashes)
  <2>1. RecordInv'
    BY RecordStep
  <2>2. task'[q] \in TaskRecord /\ crashes' \in 0..MaxCrashes
    BY <2>1 DEF RecordInv, TypeOK
  <2> QED  BY <1>0, <2>2, WorkLeftIsNatural
<1> QED  BY <1>0, <1>1, <1>2, <1>3, <1>4, <1>5

\* Requests and messages come to an end: a request makes at most four steps, and
\* a message is handled in at most 7 * (MaxRetries + MaxCrashes) + 6, whoever
\* overlaps, whatever the provider answers and the webhook does meanwhile
\* (tasks.py:46-60 and 173-227, celery_app.py:19-20).
THEOREM PipelineDrains == Spec => [][Drains]_vars
<1>1. RecordInv /\ [Next]_vars => [Drains]_vars
  BY DrainStep
<1> QED  BY <1>1, RecordInvariant, PTL DEF Spec

\* What is left of a message is never less than nothing.
THEOREM WorkIsCounted ==
  Spec => [](\A q \in Requests : WorkLeft(task[q], crashes) \in
                                   0..(7 * (MaxRetries + MaxCrashes) + 6))
<1>1. TypeOK => \A q \in Requests : WorkLeft(task[q], crashes) \in
                                      0..(7 * (MaxRetries + MaxCrashes) + 6)
  <2> SUFFICES ASSUME TypeOK, NEW q \in Requests
               PROVE  WorkLeft(task[q], crashes) \in 0..(7 * (MaxRetries + MaxCrashes) + 6)
    OBVIOUS
  <2>1. task[q] \in TaskRecord /\ crashes \in 0..MaxCrashes
    BY DEF TypeOK
  <2>2. Ahead(task[q].stage) \in 0..6
    BY DEF Ahead
  <2>3. task[q].tries \in 0..MaxRetries /\ MaxRetries \in Nat /\ MaxCrashes \in Nat
    BY <2>1, Parameters DEF TaskRecord
  <2> QED  BY <2>1, <2>2, <2>3 DEF WorkLeft
<1> QED  BY <1>1, TypeCorrect, PTL

=============================================================================
