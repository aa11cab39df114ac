# REVERSE-OS in TLA+

TLA+ models of REVERSE-OS, the self-hosted returns platform in this repository
(FastAPI, PostgreSQL, Redis, Celery, payment and carrier integrators), the TLC
configurations that check them, and proofs that TLAPS checks. Paths below are
relative to `src/`.

    tlc -config RefundSerial.cfg MCRefund      # any run: see "Runs"
    tlapm RefundProofs.tla                     # the proofs: RefundProofs, LifecycleProofs,
                                               # PortalProofs, RuleProofs, KsefProofs,
                                               # CorrectionProofs, AdminProofs, Induction

## 1. Inventory

| component | state it keeps | operations | hard because | correct when | here |
|---|---|---|---|---|---|
| Return state machine, `core/models/return_model.py` | `returns.status`, `resolved_at` | `transition_to` | the test is made on an object in memory, not in the database | a committed status follows a legal edge from the one it replaced | `ReturnStatus`, `ReturnStateMachine`, `ReturnLifecycle` |
| Refund pipeline, `modules/returns/financial.py`, `admin/financial.py` | `refunds`, `vouchers`, `returns.approved_refund_amount` | initiate refund, issue store credit | reads and writes of overlapping requests; the task is sent before the commit | one compensation for one return, the amount that was approved | `RefundPipeline` |
| Refund worker, `workers/tasks.py`, `workers/celery_app.py` | messages, retry counts | `initiate_refund` task | redelivery, retries with the same key, lost workers | rows say what the provider did; tasks end | `RefundPipeline` |
| Payment integrators, `integrators/payments/` | the provider's refunds (external) | `create_refund` | lost replies, asynchronous outcomes | money moves once per key | `RefundPipeline` (external part) |
| Stripe webhook, `api/v1/endpoints/webhooks.py` | `refunds.status` | `refund.updated` | early, late, repeated or lost events | agrees with the provider | `RefundPipeline` |
| DB session, `core/database/session.py` | a transaction per request | `get_db`, the pool | READ COMMITTED, no row locks but those of UPDATE and unique indexes | all or nothing per request | every module |
| Status override, `admin/returns.py` | `returns.status` | `override_status` | any legal edge, at any time | cannot reopen a compensated return | `RefundPipeline`, `ReturnLifecycle` |
| Return tokens, portal sessions, `core/security/return_token.py`, `session.py` | `return_tokens`, Redis sessions | generate, redeem, look up, consume | two stores with no common transaction; many sessions of one token | a link buys at most one return, and is not used up for nothing | `PortalSession`, `ReturnRight` |
| Return submission, `modules/returns/service.py`, `endpoints/returns.py` | `returns`, `return_items`, customer, order | `initiate_return` | idempotency check then insert; licence count; locks and connections | one return per key; within the licence; no standstill | `PortalSession`, decision in `RuleEngine`, status in `ReturnLifecycle` |
| Licensing, `core/licensing/` | process-wide cache | load, check limit | whoever loads first decides; the count precedes the insert | the paid tier while it is paid, the limit nearly kept | `PortalSession` |
| Rule engine, `modules/rule_engine/engine.py`, `admin/rules.py` | rule sets, their versions, execution log, audit log | evaluate, create, update, deactivate | priority ties, empty condition lists, absent facts, overlapping edits, edits during evaluation | first match by priority; the log explains it | `RuleConditions`, `RuleEngine` |
| Warehouse inspection, `service.py:137` | item decisions, status | `warehouse_inspect` | several inspectors, partial lists | status agrees with the items' decisions | `ReturnLifecycle`, its write of the status also in `RefundPipeline` |
| Carrier webhook and poll, `webhooks.py`, `tasks.py:61` | status | event, poll | stale batch commit over other writers | legal moves only; a compensated return stays so | `ReturnLifecycle`, `RefundPipeline` |
| KSeF sync, `tasks.py:88`, `ksef_export.py` | `returns.ksef_reference`, the ERP (external) | hourly batch, correction arithmetic | lost reply, one commit for the batch, overlapping executions that deadlock, rounding, items that are not loaded | the stored reference is the ERP's own; totals add up; executions end | `KsefCorrection`, `KsefSync` |
| Admin users, RBAC, JWT, `admin/users.py`, `admin/auth.py`, `core/security/` | `users`, audit log, tokens in circulation | log in, create, update, deactivate, reset a password | concurrent edits, stale roles in tokens, audit entries of several forms | lost authority lapses; the log tells the row | `AdminUsers` |
| Frontend, `frontend/app/` | the `rsid` cookie, the form of a tab | redeem, open the form, submit | one cookie, many tabs | – | the portal's part in `PortalSession` |
| Start-up, `main.py`, `core/config.py` | the process, its registries | restart, `/health`, registering integrators | the licence starts unloaded; only the API's process registers | – | `Restart` and `Health` in `PortalSession`, `Registered` in `RefundPipeline` |
| SQL migrations | seed rules, unique constraints | – | – | – | the seed in `RuleConditions`, constraints where requests race for them |
| E-commerce integrators, PII vault, statistics | – | – | – | – | not modelled, see below |

Interactions. An HTTP request runs in one database session that `get_db`
commits after the handler has returned. A customer's submission first deletes a
Redis session, then uses the token, checks the licence, asks the platform for
the order, has the rule engine decide and inserts the return, all in one such
database session. A refund request sends a Celery message from inside its
session. The worker uses sessions of its own and calls the payment provider
between two commits; the provider reports back through the Stripe webhook, in
another session again. Overrides, inspections, carrier events, the poll and the
worker all write `returns.status`, each after having read it at some earlier
instant; nothing locks the row. The hourly KSeF task selects what has become
`refunded` and talks to the ERP in the middle of one long transaction. Rules are
edited while returns are decided by them. PostgreSQL's unique indexes
(`refunds.idempotency_key`, `returns.idempotency_key`, `users.email`, the
customer's and the order's) are the only arbiters between two requests.

## 2. Modules

**ReturnStatus** – the transition table of `return_model.py:19-35`,
`transition_to`'s test (`CanTransition`), the statuses the financial service
starts from (`Payable`), those the rule engine's decision gives a new return
(`DecisionStatus`) and those that stamp `resolved_at` (`Resolved`).

**RefundPipeline** – how a return is resolved. State and code:

| variable | code |
|---|---|
| `status`, `approved` | committed `returns.status`, `approved_refund_amount` |
| `refund`, `refundId` | `refunds.status` and `provider_refund_id` by idempotency key, `"absent"` without a row |
| `vouchers` | active vouchers of a return |
| `request[q]` | one session that may write the return: where it stands, what it read |
| `task[q]` | the Celery message that request sent: where its delivery stands, its retry count, the reply in the worker's hand |
| `ledger` | the provider's record of each key (external) |

`BeginRefund`, `LookupRefund`, `InsertRefund`/`RejectRefund`, `CommitRefund` are
the awaits of `initiate_refund` (`financial.py:34-101`) between which another
request may run; `BeginCredit`, `LookupVoucher`, `CommitCredit` those of
`issue_store_credit`. `BeginOverride` (`admin/returns.py:188-214`),
`BeginInspection` (`service.py:137-179`), `BeginCarrierEvent`
(`webhooks.py:61-91`) and `BeginPoll` (`tasks.py:61-85`) read the status, judge
their move by it and commit later, in `CommitMove`, whatever the status is by
then; any number of them may come, before, beside and after the decision of
money. What an inspection decides of items, and that a poll commits all its
returns together, is in `ReturnLifecycle`; here each is its part in one return.
A return starts anywhere before its money is decided (`Undecided`).
`AbortRefund` is a transaction lost after its message was sent.
`MarkProcessing`, `CallProvider`, `RecordException`, `SettleFailure`,
`SettleUpdate`, `SettleRead`, `SettleIllegal`, `SettleCommit`, `Ack`,
`WorkerLost` are the statements, calls and exits of `_do_refund`
(`tasks.py:173-227`) under `acks_late` and `reject_on_worker_lost`; the UPDATE of
the row and the SELECT of the return are two of them, for a request may commit in
between. `ProviderAnswers` and `ProviderSettles` are the provider,
`StripeWebhook` the event handler; `Answers` has `payment_registry.get` before
the call, which raises where the provider is not registered.

**RefundSafety** – the properties, and the strengthenings the proofs use.
**Compensation** – what resolving a return promises, without the machinery: a
return is decided once and paid at most once for what was decided.
`RefundPipeline` is checked to implement it under the refinement mapping
`Promise`. **MCRefund** instantiates the constants. **RefundProofs** holds the
theorems.

**ReturnLifecycle** – everything that writes `returns.status`, with the money
left out. `status`, `resolved` (the set of returns whose `resolved_at` is set),
`items` (`return_items.warehouse_decision`), `dispatched` (a refund task exists)
and `writer[w]`, an open transaction: the returns it will write, the status it
gives them, the item decisions it stores. Every handler has the same shape in
the code – read the row, judge the transition by what was read, commit an UPDATE
by primary key – and so each is a `Begin…` action that records what was read
and a later `Commit` or `Rollback`:

| action | code |
|---|---|
| `Submit` | `service.py:74-135`, draft, pending and the decision in one transaction |
| `BeginOverride` | `admin/returns.py:188-214` |
| `BeginInspection`, `Verdict` | `service.py:137-179`; a request lists some items, maybe one of them twice |
| `CarrierEvent` | `webhooks.py:61-91` |
| `PollTracking` | `tasks.py:61-85`, several returns in one commit |
| `BeginRefund`, `BeginCredit` | `financial.py:49-98`, `115-142` |
| `BeginSettlement` | `tasks.py:211-217` |
| `Commit`, `Rollback` | `session.py:24-33`, `tasks.py:85`, `217`, `webhooks.py:91` |

**ReturnStateMachine** – the promise: a return appears in a status the engine
can decide, and then moves along the table only. `ReturnLifecycle` implements it
while no two transactions about a return are open at once (`KeepsMachine`).

**LifecycleProofs**, **MCLifecycle** – its theorems and its instances.

**PortalSession** – the customer's way from the link to the return, over
PostgreSQL, Redis, the browser's cookie and the process's cached licence.

| variable | code |
|---|---|
| `token` | `return_tokens` as committed: no row, open, past `expires_at`, used |
| `session`, `cookie`, `forms` | Redis sessions and the token each stands for; the `rsid` cookie of a browser; the orders whose form is open in a tab |
| `rows`, `filed` | customers and orders with a row; `returns` by idempotency key, with the token each was filed with |
| `request[q]` | one submission: where it stands, its session or token, order, cart and the parent rows it found missing |
| `licence`, `licenceKey` | `LicenseManager._instance`; `settings.LICENSE_KEY` |

`GenerateToken`, `TokenExpires`, `Redeem`, `EndSession`, `OpenForm`, `Send` are
the pages and endpoints before a submission (`return_token.py`, `session.py`,
`endpoints/auth.py`, `orders.py`, `frontend/app/`). A submission is
`ConsumeSession` (Redis), then `Connect`, the first statement's wait for a
connection of the pool, `TakeToken`, which waits for the token's row with the
connection in hand, and, in the transaction that now holds both, `CountMonth`
(licence and monthly count), `LookupKey`, `FetchOrder`, `InsertReturn`, `Commit`, and `Respond` (the BFF's
`route.ts`), the awaits of `returns.py:66-116` and `service.py:35-135`; `Fail` is
any exception inside it. `Health`, `LicenceExpires`, `Restart` are what happens
to the licence.

**ReturnRight** – what the link promises: a right to one return of its order,
spent in the instant a return is filed with it or found on file.
**PortalSafety** – the properties, with the refinement mapping `Right`, and what a
step of a submission waits for (`CanMove`).
**PortalProofs**, **MCPortal** – theorems and instance.

**RuleConditions** – the pure part of the engine: facts (`service.py`,
`engine.py:165-191`), operators and conditions (`engine.py:17-28`, `102-125`),
`_derive_decision`, the status of a decision, and the rules of
`002_seed_rules.sql`. JSON values carry their kind, because Python compares two
kinds as unequal under `==` and raises, which is "not matched", under `<`.

**RuleEngine** – rules being edited while returns are decided.

| variable | code |
|---|---|
| `rules`, `version` | `rule_sets` and its `version` |
| `trail`, `updates` | the columns of each rule that audit entries name, and their last values: nothing of a seeded rule, the priority of a created one; its number of `rule_updated` entries |
| `edit[e]` | an administrator's request: the row it read, what it is to change |
| `decided[q]` | a submission in the engine: facts, the rules as its one SELECT read them, those left, the log, the decision |

`CreateRule`, `BeginUpdate`, `BeginDeactivate`, `CommitEdit` are
`admin/rules.py:52-116`; at the commit the ORM writes the columns that differ
from what was *read* (`DirtyRow`), while the audit entry has the payload
(`AuditNew`). `BeginEvaluation`, `Consult`, `NoMatch` are `RuleEngine.evaluate`;
`Consult` takes any rule of least priority, since nothing orders equals.
`CommitReturn`, `RollbackReturn` end the submission's transaction.
**RuleSafety**, **RuleProofs**, **MCRules** – properties, theorems, instance.

**KsefCorrection** – the correction invoice, in grosze: `ROUND_HALF_UP`, a line's
VAT and code (`Line`), one round of the loop over the items (`Add`) and the whole
of it (`Correction`, a recursive function), `ksef_export.py:20-127`; and what a
correction promises (`AddsUp`), for the items the columns allow (`Item`).
**CorrectionProofs** – its theorem. **Induction** – induction over numbers and
over finite sets as lemmas about sets, in the form those proofs cite.
**KsefSync** – the hourly task.

| variable | code |
|---|---|
| `status`, `reference` | `returns.status` as far as the task sees it; `ksef_reference` as committed |
| `items` | what was sent back, fixed for the run |
| `erp` | the ERP's corrections by number, `KOR/{rma}/{yyyymmdd}` (external) |
| `run[w]` | an execution of the task: the rest of its batch, the reference it is about to write, the rows it has written and not committed |
| `day` | the calendar day, which is part of a correction's number |

`ItemsLoaded` says whether the SELECT has loaded `Return.items`. In the code it has
not: `build_correction` reads the lazy relationship (`ksef_export.py:181`,
`return_model.py:67`, `tasks.py:117`), an asynchronous session raises
`MissingGreenlet`, the loop swallows it (`tasks.py:167`), and every item is
skipped (`SkipItem`). With `TRUE` the module says what the rest of the code does
once that one line is mended.

`Start`, `SkipItem`, `SendBooked`, `SendUnanswered`, `Wait`, `Store`, `DeadlockVictim`,
`Commit`, `Lost` are `_do_sync_ksef` (`tasks.py:88-170`), with PostgreSQL's row
locks and its deadlock detection, which knows circles of any length
(`Deadlocked`); `Book`, `Refund`, `Close`, `NextDay` are the world around it.
**KsefSafety**, **KsefProofs**, **MCKsef** – properties, theorems, instance.

**AdminUsers** – the accounts of the panel: `user` (rows), `token` (JWTs in
circulation with role and time of issue), `request[q]` (a request with the row
it read), `trail` (the columns audit entries name of a user, and their last
values), `now`. `LogIn` is `admin/auth.py:35-46`, `Begin` what
`require_role("admin")` and `db.get` do, `BeginCreate`, `BeginUpdate`,
`BeginReset`, `Commit`, `Rollback` are `admin/users.py:46-123`. `EntryOf` is what
each writes to the log: the role of a creation, old and new values of an update,
nothing of a reset.
**AdminSafety**, **AdminProofs**, **MCAdmin** – properties, theorems, instance.

Variables marked *history* (`overlapped`, `lost`) decide nothing;
properties use them to say under which circumstances something holds.

### What the lifecycle shows besides

Some transitions that handlers attempt are not in the table, so the attempt
raises and nothing is stored: an inspection that accepts everything on a return
in `requires_inspection` (`received` is not reachable from there), one that
rejects everything on a return in transit, a refund from `approved`, store
credit from `keep_it` or `approved` (`financial.py:52` and `118` let them
through, `transition_to` does not, although README.md:280 draws the first). Such
attempts change no state and are no action; `RejectRefund` and `LookupVoucher`
have them where something happened before. No code under `src/` writes
`tracking_number` or `logistics_provider`: `Tracked` stands for rows in which
someone else did, and without them the carrier event and the poll never act.

### Abstractions, and why they are sound for these properties

- A provider, amount and currency are one *offer*; the key, a hash of return and
  offer, is the pair itself. Actors, RMA numbers, the audit log and failure
  texts decide nothing and are left out.
- A retry's countdown (120 s) outlasts the request that sent the task: a retry
  runs only after that request has ended. Its first delivery may run at once.
- The worker's database is available while it works. Publishing a retry and
  acknowledging the old message are one step.
- The provider moves money once per idempotency key and does not take it back.
  What exhausts a charge is left open – another return of the order, a refund
  made by hand – so "already refunded" may answer any call for a key the provider
  has no refund of (`stripe.py:69-78`). It may answer a call
  with success, "already refunded", pending, failure, or not at all, with or
  without having acted. It settles a pending refund whenever it likes, and its
  event may come at any time, any number of times, or never.
- tenacity's attempts within one `create_refund` repeat one request with one
  key, and count as one call.
- The portal: one calendar month and one API process. `FreeLimit` and
  `PaidLimit` are the returns the month still has room for. A token's and a
  session's end come at any moment. The frontend never sends an idempotency key
  of its own, so the key is `generate_idempotency_key`'s hash of order and items;
  the platform is not hashed, and two orders with one number on two platforms
  collide, which the instance has.
- Within a submission, two statements are one step when nothing another actor
  does can come between them with an effect. PostgreSQL's waits are guards:
  `PoolFree` for a connection, `RowLocked` for the token's row, for which a
  submission waits with its connection, `Contended` for a key or parent row
  another transaction has inserted.
- A lazy attribute load that fails, a platform that answers with an error, and
  every other exception in a handler are the same thing to the state: `get_db`
  rolls back (`Fail`, `RollbackReturn`, `Rollback`, `AbortRefund`).
- The rule engine: conditions are sets of atoms, under "all" or "any"; a nested
  tree, which the docstring of `engine.py:103` promises, raises `KeyError` on
  "fact" and is a rollback. Prices are whole zlotys, rates hundredths.
- KSeF: an execution of the task is given its returns' items once. A reference
  is the correction's number. PostgreSQL grants a row first to the transaction
  that has waited for it. The victim of a deadlock has its exception swallowed
  by the loop (`tasks.py:167`), its later statements fail, and its COMMIT
  commits nothing: one step.
- A panel account is its e-mail address, which is unique and never changes. A
  token's age is counted in ticks.
- Tables are as the ORM models declare them. The SQL migration lacks `vouchers`
  and carries a check that refuses `refunded`; with it no refund could be
  settled at all.

### Serialised

`Serialised = TRUE` lets the sessions that write the status of one return run one
after another: refunds, credits, overrides, inspections, carrier events and polls.
It describes an installation in which these happen to keep apart. **Nothing in the
code enforces it** (a `SELECT … FOR UPDATE` of the return would), and it is not
only a matter of two clicks: an inspection, an InPost event or a poll that has read
a return in transit, and commits after the return was refunded, puts it back to
`received` (`service.py:171-176`, `webhooks.py:82-91`, `tasks.py:80-85`). The
refund requests themselves may then come one at a time, and the next one, with
another amount, pays again. So `OneCompensation`, `PaidAsApproved`,
`PayableIsUncompensated` and `KeepsPromise` are claims about installations without
such overlaps, and about nothing else. In `RefundPipeline` the worker, the provider
and the webhook overlap with everything in either case; in `ReturnLifecycle` it
covers every transaction on a return, the worker's included, as a row lock would.

It is a bound of TLC's instances only. The theorems make no assumption about it:
they speak of every behaviour in which those sessions do come one at a time for a
return and no refund request is lost after sending its task (`Undisturbed(r)`), or
in which two transactions about a return are never open at once (`Apart(r)`),
however it comes about, and whatever happens to other returns.
`BoundsAreUndisturbed` and `SerialisedIsApart` prove that the instances are among
them. `refund_double` and `lifecycle_overlap` show what happens otherwise,
`refund_overlap` what remains true.

### Where code and documents differ, besides the four findings

The models follow the code in each case.

- `README.md:298` has the submission consume session and token "atomically":
  they are in two stores, and what fails in between leaves the token unused and
  the session gone (`UsedForAReturn` is what remains true).
- `README.md:525` gives a token 24 hours, `return_token.py:22` seven days.
- `README.md:571` loads the licence with its key; the submission's own
  `LicenseManager.load()` has none, and pins the free tier in a process that has
  not served `/health` yet. `NoSilentDowngrade` is the direction that holds.
- `001_initial_schema.sql:261` has `rule_sets.platform`, "NULL = applies to
  all": `evaluate` does not look at it.
- The seed describes its fourth rule as "orders over 1000 PLN always require
  manual inspection"; the rules of priority 5 and 10 come first.
- A return with several reasons has a list for `return_reason`, which passes
  `notEqual "defective"` even if it contains "defective". `SeededPromises`
  therefore promises only that a *single* defective item is never given away.
- The worker's process never registers an integrator: `_register_integrators`
  is called in the API's (`main.py:65-94`), the worker starts from
  `workers.celery_app` (`docker-compose.yml:45`), and `payment_registry.get`
  (`tasks.py:192`) raises in every try. As shipped, an initiated refund is never
  paid: `NothingIsPaid`. The runs have `Registered = TRUE`, a worker in which that
  is mended.
- `base.py:42` says not to retry a refund with the same key; the task does, four
  times in all (`tasks.py:46`). `OncePerRequest` is why that does no harm with a
  provider that honours the key.
- As shipped no correction is ever sent (`ItemsLoaded` above): `NothingIsSent`.
- A rate of zero is falsy and becomes 23 % under "A" (`ksef_export.py:60`), though
  `VAT_RATE_MAP` (24-29) has it as "E", exempt; a rate without a code gets "A"; and
  a net price of zero is replaced by the gross price, to which VAT is added again.
  `CorrectionAddsUp` promises nothing about the VAT and the code of such items.
- A correction's number contains the day, so a retry after midnight has another
  number; `OneCorrectionInFairWeather` says when that cannot matter. A 202 is
  followed by the same POST, not by a poll (`tasks.py:94`).
- `admin/ksef.py:65` accepts the statuses "completed" and "partially_refunded",
  which do not exist.
- `users.py:83`, "can't demote yourself", guards deactivation only: one's own role
  may be taken. Two administrators can also remove each other at once. Nothing in
  the code keeps an administrator, and no property here says so.
- The audit log does not give a rule or an account by itself: a creation names
  `name` and `priority` of a rule (`rules.py:69-73`), address and role of a user
  (`users.py:64-68`), and what is seeded has no entry. `TrailAgrees` and `LogTells`
  say what it does give.

## 3. Runs

| run | question | instance |
|---|---|---|
| `refund_serial` | Does any sequence of refunds, credits, overrides, inspections, events and polls, with any provider, compensate a return twice, lose track of money, or leave a task running, as long as sessions keep apart? Does the pipeline implement `Compensation`? | 1 return, 2 offers, 3 requests, any number of moves, 3 retries, 2 lost workers; 268 031 states |
| `refund_overlap` | What holds when sessions of every kind overlap, abort, and workers are lost? | 2 requests, 2 offers, any number of moves, 2 retries, 1 abort, 2 lost workers; symmetric; 1 570 864 states |
| `lifecycle_serial` | Do the writers of `returns.status` together implement the state machine, with `resolved_at` and the item decisions in step? | 2 returns, 2 items each, 2 open transactions; symmetric; 52 977 states |
| `portal` | Does a link buy more than one return, or none? Does the portal implement `ReturnRight`? | 2 links for two orders of one customer, 2 carts, 2 sessions, 1 browser, 3 submissions, 2 connections, room for 0 free or 1 paid return, 1 fault; symmetric; 380 132 states |
| `portal_pool` | By how much can the limit be passed? Can submissions that hold connections and wait for rows block one another? | 3 links for one order, 3 sessions, 3 carts that are returns of their own, 3 submissions for 2 connections, 1 fault; `Race`; 1 277 799 states |
| `rules` | Is every return decided by a first match and can the log explain it, while rules are edited under it? Do audit entries and versions tell the truth? | the 5 seeded rules and 1 new one, 2 edits, 1 submission of 16 cases; symmetric; 294 962 states |
| `ksef` | Once items are loaded: are references the ERP's own, are corrections doubled, do they add up, and does every execution end? | 2 returns, 2 executions, batch of 2, 2 days, 2 faults, 5 kinds of item; 225 238 states |
| `console` | How long does lost authority last, and when does the audit log tell the row? | 2 administrators and an address without account, 2 tokens, 3 requests, tokens of 1 tick, 3 instants; symmetric; 875 729 states |
| `refund_double` | "no double refunds" (`migrations/001_initial_schema.sql:371`) | violated: two requests with different amounts overlap |
| `refund_unstored` | "must be stored in the refunds table BEFORE calling this" (`integrators/payments/base.py:40`) | violated: the task is sent before the commit |
| `refund_unrecorded` | "If this call succeeds, mark refunds.status = 'succeeded'" (`base.py:41`) | violated: the task's UPDATE comes before the request's commit and its SELECT after, and the row of a paid refund stays pending |
| `lifecycle_overlap` | "Illegal transitions … are blocked at the DB layer" (`README.md:285`) | violated: the second of two overlapping commits is an illegal transition |

Properties, in short. Every module has a `TypeOK` besides. Refunds:

- `OneCompensation`: never two live refunds, two vouchers, or one of each.
- `PaidAsApproved`: money at the provider is the approved offer, and has a row.
- `PayableIsUncompensated`: a return from which one can still pay has had
  nothing; no chain of overrides, inspections, events and polls brings a
  compensated return back.
- `KeepsPromise`: refinement of `Compensation`.
- `TasksDrain`: every message is done with in the end.
- `SucceededWasPaid`: a row that says `succeeded` was paid under its own key, or
  the provider called the charge already refunded and the row has our key for an id.
- `RefundedOnlyOnAnswer`: only a task with such an answer, or an override, makes a
  return `refunded`.
- `ProcessingHasTask`: a row in `processing` always has a message that will
  finish it.
- `OncePerRequest`: payments and vouchers of a return are never more than the
  requests that sent a task for it or ended: no retry pays anew.

The first four hold only while the sessions about a return keep apart (see
"Serialised"); the others hold in any case.

Lifecycle:

- `KeepsMachine`: refinement of `ReturnStateMachine`.
- `ResolvedAgrees`: `resolved_at` is set on exactly the resolved returns.
- `RejectedHasNothingAccepted`: no return is turned down with an accepted item.
- `DecisionsStand`: a stored item decision never changes.

Portal:

- `OneReturnPerToken`, `UsedForAReturn`: at most one return for a link, and none
  used up without a return on file under a key of its order.
- `OvershootIsBounded`: the month's limit is passed by fewer returns than the
  pool has connections.
- `NoStandstill`: while a submission is under way, some submission can move, though
  connections are held while rows are waited for; and one that waits for nothing
  has its next step (ENABLED).
- `NoSilentDowngrade`: a paid licence in force is lost to its end or a restart.
- `KeepsRight`: refinement of `ReturnRight`.

Rules:

- `DecidedByFirst`, `DecisionExplained`: a first match of one moment decided; the
  log alone gives the decision again, and misses no rule that was before it.
- `SeededPromises`: what the seeded rules promise while their flagged-customer
  rule stands, whatever else is edited.
- `TrailAgrees`: the audit entries laid over the rule as seeded or created give the
  rule in force; `VersionCounts`, `UnnamedColumnsStand`: version and columns under
  overlapping edits.

KSeF:

- `ReferenceIsBooked`, `ReferenceEndsIt`: a stored reference is the ERP's for
  that return; without overlap it stands and ends the matter.
- `OneCorrectionInFairWeather`: two corrections take a fault or an overlap.
- `CorrectionAddsUp`: lines and totals add up; for an item with a net price and a
  rate the VAT is the rate's to half a grosz a piece, and its code the map's.
- `ExecutionsEnd`: an execution that has begun ends. That every refund gets its
  reference is true neither of the code as shipped nor, for returns behind fifty
  that the ERP refuses, of a mended one.

Accounts:

- `AuthorityLapses`: lost authority begins nothing after a token's lifetime.
- `LogTells`: the audit log replayed gives the row, unless updates overlapped; a
  created account is active until an entry says otherwise, a reset changes nothing.

Bounds. One return is enough for the refunds: returns share no variable, and the
provider's answer for a key looks at that key alone. Two offers give "same
key" and "different key"; three requests one that decides, one that repeats, one
that contradicts. Three retries is the code's own value. A second lost worker
hits a delivery that already follows a loss; more repeat it. The lifecycle needs
two returns for the poll's common commit, two items for inspections of different
ones, and two open transactions for an overlap. In the portal two orders of one
customer contend for its row, two carts that are keys on both orders for the key,
room for one return is where the limit bites. `portal_pool` has three submissions
that can all be filed: two under way at once take both connections, so the third
waits, and the limit of one can be passed by one and, with a pool that did not
bound them (the mutant `PoolUnbounded`), by two. Its constraint `Race` names which
session and cart each submission takes and opens links and sessions before the
first submission is handled, since nothing about the race depends on when they were
opened. The rules' cases lie on both sides of every limit of the seed; two edits
overlap, and one submission reads between them (submissions share nothing but the
rules). Two KSeF executions are what a deadlock takes, two returns what they hold
crosswise, two days what a second number takes; a batch smaller than what is
pending is left out, since nothing orders the batch and a return could then wait
for ever (`tasks.py:118`). Two administrators can remove each other; three
requests add a reset or one that repairs or repeats; tokens of one tick in three instants
are valid, stale and expired. The proofs remove these bounds where they apply.

Deadlock checking is off because requests are finite in number, a closed return
has no successor, and the system then really comes to rest. That nothing stops
early is what the liveness properties and `NoStandstill` are for.

Fairness. `FairSpec` of `RefundPipeline` has weak fairness on each request's
handler once begun and on each message's worker: the event loop and the worker
run what they have. Nobody is obliged to make a request, a provider to settle, an
event to arrive, or a worker to die. `FairSpec`
of `KsefSync` has weak fairness on an execution's own steps: beat sends the task
every hour, and one that has begun runs on. An answer without a reference and a
lost transaction are not fair, and bounded.

## 4. Proofs

`RefundProofs` proves, for every set of returns, offers and requests, every
number of retries, aborts and lost workers, and every choice of operations and
replies:

- `TypeCorrect`: `Spec => []TypeOK`.
- `SucceededRowsWerePaid`: `Spec => []SucceededWasPaid`, overlapping or not. The
  strengthening `ReplyInv` says that a reply of "succeeded" in a worker's hand was
  paid for under the task's own key, and that a task settles on a success only; the
  provider never takes money back (`KeyPaidStays`). What has exhausted a charge that
  is "already refunded" is not assumed.
- `RefundedOnAnswer`: `Spec => RefundedOnlyOnAnswer`, from `ReplyInv` and from what
  a request's own record says (`RecordInv`: a request that is a refund or a
  credit never writes `refunded`).
- `NothingIsPaid`: the code as shipped, `~Registered`: the provider's record stays
  empty, no row ever succeeds, and only an override makes a return `refunded`.
- `NoRowIsStranded`: `Spec => []ProcessingHasTask`. The property is not inductive:
  of the messages it names, one that settles need not write the row. It is
  strengthened to `ProcessingIsHeld`: a settling message counts only if its
  UPDATE has matched the row (`WillWrite`), and no row is matched before it is
  inserted (`NothingSentYet`).
- `MoneyWasAskedFor`: `Spec => []OnlyStartedKeys`, overlapping or not: a row, and
  any trace at the provider, is of a return and an offer that some request has
  sent. In the serial case this is a part of `ResolvedOnce`; here it needs only
  that a request sends its own offer (`SentOwnOffer`) and that no message exists
  before it (`AskedInv`).
- `PipelineGoesOn`: `Spec => []SomeoneGoesOn`, where a call of the provider may
  raise. `CanHandle` and `CanWork` say what a request's and a worker's next step
  waits for: another's insert of the same key, another's update of the same row,
  the countdown of a retry, an answer. Whatever it is, it is waited for from a
  request about to commit or a worker that has updated its row, and these wait
  for nobody.
- `PipelineDrains`: `Spec => [][Drains]_vars`. The measure of a message is
  `WorkLeft`, `7 * ((MaxRetries - tries) + (MaxCrashes - crashes))` and the steps
  ahead of its stage, at most six: a retry or a lost worker costs more than the steps
  it brings back. Every step with a message lowers it, nobody else's raises it, and
  `WorkIsCounted` gives its range. A request for money has at most four steps; a
  session that only moves the return ends with its commit and may come again, so that
  there is no end of those.

Together the last two are `TasksDrain` but for the scheduling: somebody can
always go on, and everybody has finitely many steps.

About payments and keys, whatever overlaps, is lost or dies:

- `PaidPerRequest`: `Spec => []OncePerRequest`, for finitely many requests,
  overlapping or not. From `MoneyWasAskedFor`, every live offer at the provider
  has a request that sent it; a voucher has a request that is done and sent
  nothing (`VouchersCounted`), and the two kinds do not meet.
- `OfferIsSentOnce`: until a request for a return is lost after sending its task,
  overlapping requests never send two tasks of one key: the unique index on
  `refunds.idempotency_key` refuses the second (`KeySentOnce`, from `StoredInv`:
  what a request that has ended has sent is stored).

The next results hold of behaviours in which the world keeps to something the
code does not enforce. Each says so as a temporal hypothesis, not about the
constants, and return by return: nothing is asked of other returns.
`Undisturbed(r)` is that the sessions that write `r`'s status – refund, credit,
override, inspection, event and poll, but not the worker – come one at a time and
none is lost after sending its task; `AllUndisturbed` is the same of all returns.

- `ResolvedOnceHolds`, `CompensatedOnce`, `MoneyIsRecorded`,
  `PayableMeansUnpaid`: `Spec /\ AllUndisturbed => []…`. `ResolvedOnce` is the
  inductive invariant behind the other three.
- `EachReturnCompensatedOnce`: the same three for any one `r`, from
  `Undisturbed(r)` alone.
- `ImplementsCompensation`: `Spec /\ AllUndisturbed => KeepsPromise`. Since at most
  one request of a return has sent a task, the mapping's CHOOSE has one value
  (`DecidedByOne`), and every step has one of three shapes, `Decision`, `Payment`
  or `Stutter`.

`OneCompensation` alone is not inductive: that the provider holds one live refund
says nothing about a second message that waits at the broker. `ResolvedByOne(r)`
adds what makes it so: at most one request of a return has ever sent a task; once
it has committed, the status is one of `Resolving`, which no legal edge leaves;
and a request acts on a return for which nothing has been done yet, or moves it
among the resolving statuses (`ActsOnFresh`): that is where a stale inspection,
event or poll would break the induction. `QuietSteps` collects what worker, provider
and webhook may do, so that the induction treats them once. The only assumption
on the constants is `Parameters` in `RefundPipeline`.

Three of the four refuted statements have a theorem that says under which
circumstances they do hold, and so where the counterexample must go:

| refuted by | holds | theorem |
|---|---|---|
| `refund_double` | while the sessions that write a return's status come one at a time, inspections, events and polls included, and none is lost after sending its task | `CompensatedOnce` |
| `refund_unstored` | while none is lost so, and no worker calls the provider before the request of its message has ended; overlaps do no harm | `StoredUnlessOpen` |
| `lifecycle_overlap` | while two transactions about a return are never open at once | `LegalUnlessOverlapping` |

`refund_unrecorded` has none: two awaits of the worker around the request's commit
are enough, without a lost worker, a retry or a second request.

`LifecycleProofs` proves, for every set of returns, items, tracked returns and
writers, `TypeCorrect` and, for behaviours in which no two transactions about a
return are open at once (`[]AllApart`), `ImplementsStateMachine`,
`LegalUnlessOverlapping`, `ResolvedAtIsExact`, `RejectedHoldsNothing` and
`DecisionsAreFinal`. `EachReturnInOrder` has them for any one return from
`[](Apart(r))` alone. The shared invariant `InOrder(r)` says that what an open
transaction read of the return is still so (`NothingStale`), and that a return
with item decisions is in a status that no edge of the table leaves and none of
whose edges an inspection can take, so that a transaction that carries decisions
is always about a return that has none (`InspectedOnce`). A poll writes several
returns in one commit, so that one of them may overlap and another not;
`CarriedInv` is what holds of every transaction whatever overlaps, and the rest
is per return. `NoWayBack` adds that such a return only goes forward (`Stage`
ranks the statuses, `TableGoesForward` checks the table): it never comes back to
a status and moves at most ten times. `StepShape` reduces the ten actions to
submit, begin, commit and roll back. The assumption on the constants is
`LifecycleParameters`.

`PortalProofs` proves for all links, sessions, browsers, submissions, keys, limits
and pools: `TypeCorrect`, `LinkBuysOne`, `NeverForNothing`, `LimitHoldsNearly`,
`LicenceStays` and `ImplementsRight`. The invariant `Safe` says that no two
transactions hold one link (`Distinct`), that a held link is open (`HeldOpen`),
that two transactions which have inserted have different keys not on file
(`InsertedFresh`), that a hit is on file (`HitFiled`), that the transactions fit
the pool (`WithinPool`), and, for the limit, that the returns on file together
with the transactions that have passed the count stay below the limit plus the
connections (`Room`): a transaction passes when the filed ones are below the
limit, and the others past the count hold a connection each, as it does.
`LicenceNeedsKey` ties the cached tier to the key that `MonthlyLimit` speaks of.
`NobodyStandsStill` (`Spec => []SomeoneCanMove`) is the first half of
`NoStandstill`: a submission that waits for a connection waits for one that has a
connection; one that has and waits for a token's row waits for one inside a
transaction; of those, only one about to insert can wait, and for one that has
inserted, which waits for nothing. `SubmissionsEnd` says that a
submission, once sent, has at most nine steps left, and that whatever changes it,
its own step or a restart, leaves fewer. Assumption: `Parameters` of `PortalSession`.

`RuleProofs` proves for all rules, changes, cases, edits and submissions:
`TypeCorrect`, `FirstMatchWins`, `LogExplains`, `AuditGivesTheRule`,
`VersionNeverAhead`, `OthersColumnsStand`. For the edits, `EditInv` says that two
open edits are of different rules unless the rule is marked as overlapped
(`OpenApart`), that what an edit of an unmarked rule read is still so
(`ReadIsCurrent`), and that it is never ahead (`ReadIsBehind`). `AuditGivesTheRule`
speaks of the entries laid over `Origin(r)`, the rule as it was seeded or created,
since the log does not have that. For the
decisions, `Decides` holds the invariant of `evaluate`'s loop over a submission's
record: while it runs (`Loop`), everything consulted is in the log, did not
match, and comes before everything left; when it has ended (`Outcome`), both
properties hold of it and nothing changes it. `SeedKeepsItsPromises` follows from
`Decides` and the definitions of the five seeded rules: where the flagged-customer
rule stands (`Stands`), it is the only one of least priority, and it matches every
flagged customer (`FlaggedDecides`), so that what any other rule decides is about
somebody else; the keep-it rule's own conditions give the rest (`KeepItAsks`).
Assumptions:
`Parameters` of `RuleEngine`, that rules have the columns of a rule and priorities
are integers; and `Installation`, that the seed is that of `002_seed_rules.sql` and
an order has finitely many prices.

`KsefProofs` proves for all returns, executions, batches, days and faults:
`TypeCorrect`, `StoredIsBooked`, `OneCorrection`, `StoredEndsIt`. What an
execution is about to write or has written is booked and of its own return
(`RunBooked`); without overlap only one execution is under way (`Alone`), works
on returns without reference only (`OnlyPending`), and a correction that exists
in fair weather is remembered in the row or in the one execution (`Remembered`).

`OutOfSightForGood` asks for no fair weather: a return that is closed or has its
reference, and that no execution has in its batch, keeps its reference as it is
and has nothing more sent for it, for good, since an execution takes up nothing
after its SELECT (`TakesLess`). So a return closed before the beat that would
have selected it is never exported, and an overlap can repeat a correction only
in an execution that had selected the return before the reference was stored.

`NobodyIsStuck`: as long as an execution is under way, one can go on. An execution
that can not waits for a row of another that is under way (`StuckWait`, by
`OwnRow`: what one is about to write it does not hold already); if none can, the
finite set of those under way contains a least one closed under waiting, and a
least one is a circle (`WaitersCircle`), of which PostgreSQL aborts one. So
breaking deadlocks is enough, for any number of executions. `ExecutionsComeToAnEnd`
bounds each by its batch (`Remaining`). Together they are what `ExecutionsEnd` needs
besides the scheduling. `NothingIsSent` is the code as shipped, `~ItemsLoaded`: no
correction ever reaches the ERP and no reference is stored.

`SentAddsUp` (`Spec => []CorrectionAddsUp`) is `EveryCorrectionAddsUp` of
`CorrectionProofs` for what was sent back: `AddsUp(items)` for every
`items \in Seq(Item)`. Its loop is a recursive function, its invariant (`After`: the
lines so far are those of the items so far, one each, and the totals theirs) is
proved by induction over the number of rounds. The library's induction theorems
take an operator as a parameter; `Induction` states the principle about a *set* of
numbers instead (`SetInduction`, from the least element of a set), and a proof
names the set for which its claim holds. VAT within half a grosz is `HalfUp`'s
rounding error times the quantity, for any rate and net price but zero; nothing is
claimed about the VAT and the code of a rate of zero, of an item without a net price,
or about the code of a rate the map does not have. That an ordinary line charges nothing is
claimed for items without negative prices, rates or quantities only (`Ordinary`):
nothing in the code refuses a negative `quantity_accepted`. Assumption: `Parameters`
of `KsefSync`: what is sent back is a list of items, returns and executions are
finite in number.

`AdminProofs` proves for all users, roles, changes, tokens, requests and
lifetimes: `TypeCorrect`, `LostAuthorityLapses`, `AuditTellsTheRow`.
`RequestsCarry` says what an open request keeps to its commit; `TokensLapse` that a token's subject is an
administrator or lost it no earlier than the token was issued; `Alone` that two
open requests about one user mark it as overlapped, so that what an unmarked one
read is still so. Assumption: `Parameters` of `AdminUsers`.

Model-checked only: the liveness properties `TasksDrain` and `ExecutionsEnd`, of which the theorems above prove everything but the step
from "can go on" and "finitely many steps" to "does", which is fairness; and the
half of `NoStandstill` that speaks of ENABLED.

## 5. Not modelled

- E-commerce integrators (`integrators/ecommerce/`) and
  `sync_order_status` (`financial.py`): HTTP clients without state; a fetch that
  fails is `Fail`. What the platform is told has no reader here.
- PII vault (`core/security/`): encrypts single values; nothing interleaves.
- Statistics, listings, details, notes, previews, the export endpoints of KSeF
  and the XML: they read, or write what nothing else modelled reads.
- Passwords, `last_login_at` (which nothing writes), user and rule names: data.
- PayU: the same interface as Stripe; its answers are among those of
  `CallProvider`. Label creation (`inpost.py`): nothing under `src/` calls it.
- Licence signatures, password hashing, JWT signatures, webhook signatures:
  computations whose outcome is taken as good or as a refusal without effect.
- The panel's pages (`frontend/app/admin/`), layout and wording.
- Alembic, Docker and logging configuration.

## 6. Plan

Done, in this order: `ReturnStatus`, `RefundPipeline` with `Compensation`,
`RefundProofs`, `ReturnLifecycle` with `ReturnStateMachine`, `LifecycleProofs`,
`PortalSession` with `ReturnRight`, `AdminUsers`, `KsefCorrection` and `KsefSync`,
`RuleConditions` and `RuleEngine`, their proofs, the refinement and the remaining
invariants of the refunds, the arithmetic of every correction, the promises of the
seed, the safety halves of the liveness properties, and the circumstances, return
by return, under which each refuted statement holds.

What could still be added:

1. A refund, a KSeF execution and an override in one model: that a return closed
   between the refund and the next beat is never exported is `OutOfSightForGood`
   for the export alone.
2. Starvation of the batch: an abstract ERP that refuses fifty returns for ever
   (`tasks.py:118`), as a refuted liveness property.
3. Several API processes with a licence cache each.
4. When a refund that was paid is recorded (`PaidIsRecorded`): besides the task
   that runs before its commit and the redelivery, a "pending" or "failed" answer
   leaves the row to the webhook, and what is to be asked of its events has to be
   found first.
