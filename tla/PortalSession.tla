--------------------------- MODULE PortalSession ---------------------------
(***************************************************************************)
(* The customer portal, from the link in the e-mail to the return.         *)
(*                                                                         *)
(* A link carries a token (PostgreSQL).  Opening it exchanges the token    *)
(* for a session (Redis), whose id the browser keeps in a cookie.  A       *)
(* submission deletes the session and then, in one database transaction,   *)
(* uses the token, checks the licence and files the return.  No            *)
(* transaction spans the two stores: what fails after the session is gone  *)
(* rolls back the token only.                                              *)
(*                                                                         *)
(* One calendar month, one API process with its cached licence.  A         *)
(* token's lifetime and a session's end at any moment.                     *)
(***************************************************************************)
EXTENDS Integers, FiniteSets

CONSTANTS
  Tokens, Sessions, Browsers, Submissions,
  Orders,       \* orders, each on its platform
  Carts,        \* what a customer may choose to send back of an order
  Keys,         \* idempotency keys
  None,
  OrderOf,      \* the order a token is issued for
  CustomerOf,   \* the customer of an order
  KeyOf,        \* the key of an order and a cart: not injective, for the
                \* platform is not part of what is hashed
  FreeLimit,    \* returns the month has room for without a licence
  PaidLimit,    \* and under the configured key, 0 for unlimited
  Connections,  \* the database connections of the API: pool_size + max_overflow
  MaxFaults     \* bound: failures from outside the model, and restarts

Customers == {CustomerOf[o] : o \in Orders}

ASSUME Parameters ==
  /\ IsFiniteSet(Submissions) /\ IsFiniteSet(Keys)
  /\ OrderOf \in [Tokens -> Orders]
  /\ KeyOf \in [Orders \X Carts -> Keys]
  /\ None \notin Tokens \cup Sessions \cup Orders \cup Carts
  /\ "free" \notin Tokens /\ "gone" \notin Tokens
  /\ FreeLimit \in Nat /\ PaidLimit \in Nat
  /\ Connections \in Nat \ {0}
  /\ MaxFaults \in Nat

VARIABLES
  token,       \* return_tokens, as committed: "unissued" without a row, "open",
               \* "expired" when unused and past expires_at, or "used"
  session,     \* Redis: the token of a session, "free" before and "gone" after
  cookie,      \* the rsid cookie of a browser
  forms,       \* the orders whose form is open in some tab of a browser
  rows,        \* customers and orders that have a row
  filed,       \* returns by idempotency key: the token they were filed with
  request,     \* the submissions
  licence,     \* LicenseManager._instance
  licenceKey,  \* settings.LICENSE_KEY: absent, valid or past its date
  faults

vars == <<token, session, cookie, forms, rows, filed, request,
          licence, licenceKey, faults>>

store == <<token, rows, filed>>
front == <<session, cookie, forms>>
process == <<licence, licenceKey>>

Unsent == [pc |-> "idle", browser |-> None, session |-> None, token |-> None,
           order |-> None, cart |-> None, new |-> {}]

Init ==
  /\ token = [t \in Tokens |-> "unissued"]
  /\ session = [s \in Sessions |-> "free"]
  /\ cookie = [b \in Browsers |-> None]
  /\ forms = [b \in Browsers |-> {}]
  /\ rows = {}
  /\ filed = [k \in Keys |-> None]
  /\ request = [q \in Submissions |-> Unsent]
  /\ licence = "unloaded"
  /\ licenceKey \in {"absent", "valid"}
  /\ faults = 0

InTransaction(q) ==
  request[q].pc \in {"held", "counted", "missed", "fetched", "inserted", "hit"}

\* The connection is taken with the first statement, the UPDATE of the token's
\* row, and kept while that waits for the row.
HasConnection(q) == request[q].pc = "connected" \/ InTransaction(q)

\* A transaction that has updated a token's row: another UPDATE of it waits.
RowLocked(t) == \E p \in Submissions : InTransaction(p) /\ request[p].token = t

-----------------------------------------------------------------------------
(* Links, sessions and the pages of the portal.                            *)

GenerateToken(t) ==
  /\ token[t] = "unissued"
  /\ token' = [token EXCEPT ![t] = "open"]
  /\ UNCHANGED <<front, rows, filed, request, process, faults>>

\* NOW() is the start of a transaction: the token does not lapse under one that
\* holds it or waits for it.
TokenExpires(t) ==
  /\ token[t] = "open"
  /\ \A q \in Submissions : HasConnection(q) => request[q].token # t
  /\ token' = [token EXCEPT ![t] = "expired"]
  /\ UNCHANGED <<front, rows, filed, request, process, faults>>

\* create_session, under an id nobody has had.
NewSession(s, t) == session[s] = "free" /\ session' = [session EXCEPT ![s] = t]

\* consume_session: GET and DEL in one MULTI/EXEC.
Consume(s) == session' = [session EXCEPT ![s] = "gone"]

\* Mutant: the token is not looked up.
AnyLink(t) == TRUE

\* redeem_token looks the token up and does not consume it.
LinkIsGood(t) == token[t] = "open"

\* Opening the link: each opening makes a session of its own, and the browser
\* forgets the session it had.
Redeem(b, t) ==
  \E s \in Sessions :
    /\ LinkIsGood(t) /\ NewSession(s, t)
    /\ cookie' = [cookie EXCEPT ![b] = s]
    /\ UNCHANGED <<store, forms, request, process, faults>>

\* Redis's TTL, and DELETE /auth/session.
EndSession(s) ==
  /\ session[s] \in Tokens /\ Consume(s)
  /\ UNCHANGED <<store, cookie, forms, request, process, faults>>

\* get_session: the token of the browser's session, if there is one.
SessionOf(b) == IF cookie[b] = None THEN "gone" ELSE session[cookie[b]]

\* GET /orders, for an order of the session's own.
MaySee(b, o) == SessionOf(b) \in Tokens /\ OrderOf[SessionOf(b)] = o

OpenForm(b) ==
  \E o \in Orders :
    /\ MaySee(b, o)
    /\ forms' = [forms EXCEPT ![b] = @ \cup {o}]
    /\ UNCHANGED <<store, session, cookie, request, process, faults>>

\* The wizard sends the order of its own tab with whatever cookie the browser
\* has by then, which another tab may have replaced.
Send(q, b, o, c) ==
  /\ request[q].pc = "idle" /\ cookie[b] # None /\ o \in forms[b]
  /\ request' = [request EXCEPT ![q] =
       [pc |-> "sent", browser |-> b, session |-> cookie[b], token |-> None,
        order |-> o, cart |-> c, new |-> {}]]
  /\ UNCHANGED <<store, front, process, faults>>

-----------------------------------------------------------------------------
(* One submission.  From "connected" on it has a connection, from "held" on *)
(* its transaction holds the token's row.                                   *)

Key(q) == KeyOf[<<request[q].order, request[q].cart>>]

Goto(q, pc) == request' = [request EXCEPT ![q] = [@ EXCEPT !.pc = pc]]

\* get_db rolls back: the token, if it was held, is as it was.  The session,
\* consumed before, is not restored.
Refused == [Unsent EXCEPT !.pc = "refused"]
Done == [Unsent EXCEPT !.pc = "done"]
Refuse(q) == request' = [request EXCEPT ![q] = Refused]

\* A session of another order is consumed too.
ConsumeSession(q) ==
  LET s == request[q].session IN
  /\ request[q].pc = "sent" /\ Consume(s)
  /\ request' = [request EXCEPT ![q] =
       IF session[s] \in Tokens /\ OrderOf[session[s]] = request[q].order
       THEN [@ EXCEPT !.pc = "opened", !.token = session[s], !.session = None]
       ELSE Refused]
  /\ UNCHANGED <<store, cookie, forms, process, faults>>

\* Mutant: a refused submission keeps its connection.
PoolLeaks ==
  Cardinality({p \in Submissions : HasConnection(p) \/ request[p].pc = "refused"}) < Connections

\* Mutant: max_overflow is -1, without a bound.
PoolUnbounded == TRUE

PoolFree == Cardinality({p \in Submissions : HasConnection(p)}) < Connections

\* The first statement of the transaction takes a connection of the pool, for
\* which it may have to wait.
Connect(q) ==
  /\ request[q].pc = "opened" /\ PoolFree
  /\ Goto(q, "connected")
  /\ UNCHANGED <<store, front, process, faults>>

\* Mutant: the token is read, not updated: no row is locked.
PeekToken(q) ==
  /\ request[q].pc = "connected"
  /\ IF token[request[q].token] = "open" THEN Goto(q, "held") ELSE Refuse(q)
  /\ UNCHANGED <<store, front, process, faults>>

\* Mutant: the token is used in a transaction of its own.
SpendToken(q) ==
  /\ request[q].pc = "connected" /\ ~RowLocked(request[q].token)
  /\ IF token[request[q].token] = "open"
     THEN Goto(q, "held") /\ token' = [token EXCEPT ![request[q].token] = "used"]
     ELSE Refuse(q) /\ UNCHANGED token
  /\ UNCHANGED <<rows, filed, front, process, faults>>

\* verify_and_consume_token.  It keeps the connection while it waits for the row,
\* and what it writes others see at the commit.
TakeToken(q) ==
  /\ request[q].pc = "connected" /\ ~RowLocked(request[q].token)
  /\ IF token[request[q].token] = "open" THEN Goto(q, "held") ELSE Refuse(q)
  /\ UNCHANGED <<store, front, process, faults>>

Filed == {k \in Keys : filed[k] # None}

\* Mutant: load() forgets what was loaded before.
LoadedAgain == "free"

\* LicenseManager.load() without a key: the free tier, if nothing was loaded.
Loaded == IF licence = "unloaded" THEN "free" ELSE licence

Allows(lic, n) ==
  \/ lic = "paid" /\ (PaidLimit = 0 \/ n < PaidLimit)
  \/ lic = "free" /\ n < FreeLimit

\* The count sees the committed returns only: not those under way.
CountMonth(q) ==
  /\ request[q].pc = "held"
  /\ licence' = Loaded
  /\ IF Allows(Loaded, Cardinality(Filed)) THEN Goto(q, "counted") ELSE Refuse(q)
  /\ UNCHANGED <<store, front, licenceKey, faults>>

\* The idempotency lookup: a hit is the answer, and the token is used for it.
LookupKey(q) ==
  /\ request[q].pc = "counted"
  /\ Goto(q, IF filed[Key(q)] = None THEN "missed" ELSE "hit")
  /\ UNCHANGED <<store, front, process, faults>>

\* fetch_order, then the customer and the order are looked up.
FetchOrder(q) ==
  LET o == request[q].order IN
  /\ request[q].pc = "missed"
  /\ request' = [request EXCEPT ![q] =
       [@ EXCEPT !.pc = "fetched", !.new = {CustomerOf[o], o} \ rows]]
  /\ UNCHANGED <<store, front, process, faults>>

\* Rows inserted and not committed: a second insert waits for them.
Contended(q) ==
  \E p \in Submissions \ {q} :
    /\ request[p].pc = "inserted"
    /\ Key(p) = Key(q) \/ request[p].new \cap request[q].new # {}

\* Mutant: idempotency_key has no unique index, and only the parents do.
InsertUnindexed(q) ==
  /\ request[q].pc = "fetched"
  /\ IF request[q].new \cap rows = {} THEN Goto(q, "inserted") ELSE Refuse(q)
  /\ UNCHANGED <<store, front, process, faults>>

\* The customer, the order and the return, or IntegrityError when what was not
\* there to be read is there by now.
InsertReturn(q) ==
  /\ request[q].pc = "fetched" /\ ~Contended(q)
  /\ IF filed[Key(q)] = None /\ request[q].new \cap rows = {}
     THEN Goto(q, "inserted") ELSE Refuse(q)
  /\ UNCHANGED <<store, front, process, faults>>

Commit(q) ==
  /\ request[q].pc \in {"inserted", "hit"}
  /\ token' = [token EXCEPT ![request[q].token] = "used"]
  /\ filed' = IF request[q].pc = "hit" THEN filed
              ELSE [filed EXCEPT ![Key(q)] = request[q].token]
  /\ rows' = rows \cup request[q].new
  /\ request' = [request EXCEPT ![q] =
       [Unsent EXCEPT !.pc = "committed", !.browser = request[q].browser]]
  /\ UNCHANGED <<front, process, faults>>

\* Anything else that raises: the platform, the rule engine, the connection or
\* the wait for one.
Fail(q) ==
  /\ request[q].pc = "opened" \/ HasConnection(q)
  /\ faults < MaxFaults
  /\ faults' = faults + 1
  /\ Refuse(q)
  /\ UNCHANGED <<store, front, process>>

\* The BFF clears the cookie on success, though it may be a newer session's by
\* now; an answer that is lost clears nothing.
Respond(q) ==
  /\ request[q].pc = "committed"
  /\ request' = [request EXCEPT ![q] = Done]
  /\ \/ cookie' = [cookie EXCEPT ![request[q].browser] = None]
     \/ UNCHANGED cookie
  /\ UNCHANGED <<store, session, forms, process, faults>>

-----------------------------------------------------------------------------
(* The licence.                                                            *)

KeyTier == IF licenceKey = "valid" THEN "paid" ELSE "free"

\* GET /health: settings.is_enterprise drops the cached licence and loads the
\* key, when there is one.
Health ==
  /\ licenceKey # "absent"
  /\ licence' = KeyTier
  /\ UNCHANGED <<store, front, request, licenceKey, faults>>

LicenceExpires ==
  /\ licenceKey = "valid"
  /\ licenceKey' = "expired"
  /\ UNCHANGED <<store, front, request, licence, faults>>

\* The process starts again: transactions are rolled back, their sessions gone.
Restart ==
  /\ faults < MaxFaults
  /\ faults' = faults + 1
  /\ licence' = "unloaded"
  /\ request' = [q \in Submissions |->
       IF request[q].pc \in {"sent", "opened"} \/ HasConnection(q)
       THEN Refused
       ELSE IF request[q].pc = "committed" THEN Done ELSE request[q]]
  /\ UNCHANGED <<store, front, licenceKey>>

-----------------------------------------------------------------------------

Handle(q) ==
  \/ ConsumeSession(q) \/ Connect(q) \/ TakeToken(q) \/ CountMonth(q)
  \/ LookupKey(q) \/ FetchOrder(q) \/ InsertReturn(q) \/ Commit(q) \/ Respond(q)

Customer(b) ==
  \/ \E t \in Tokens : Redeem(b, t)
  \/ OpenForm(b)
  \/ \E q \in Submissions, o \in Orders, c \in Carts : Send(q, b, o, c)

Next ==
  \/ \E t \in Tokens : GenerateToken(t) \/ TokenExpires(t)
  \/ \E s \in Sessions : EndSession(s)
  \/ \E b \in Browsers : Customer(b)
  \/ \E q \in Submissions : Handle(q) \/ Fail(q)
  \/ Health \/ LicenceExpires \/ Restart

Spec == Init /\ [][Next]_vars
=============================================================================
