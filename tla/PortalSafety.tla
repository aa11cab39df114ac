---------------------------- MODULE PortalSafety ----------------------------
(***************************************************************************)
(* What the customer portal guarantees, whatever overlaps, fails, expires  *)
(* or is sent twice.                                                       *)
(***************************************************************************)
EXTENDS PortalSession

SubmissionRecord ==
  [ pc : {"idle", "sent", "opened", "connected", "held", "counted", "missed", "fetched",
          "inserted", "hit", "committed", "done", "refused"},
    browser : Browsers \cup {None}, session : Sessions \cup {None},
    token : Tokens \cup {None}, order : Orders \cup {None},
    cart : Carts \cup {None}, new : SUBSET (Orders \cup Customers) ]

\* The type invariant; no session is made but for a token that was issued, no
\* submission is without a session, an order and a cart, and no transaction is
\* without a token of the very order it files a return of.
TypeOK ==
  /\ token \in [Tokens -> {"unissued", "open", "expired", "used"}]
  /\ session \in [Sessions -> Tokens \cup {"free", "gone"}]
  /\ cookie \in [Browsers -> Sessions \cup {None}]
  /\ forms \in [Browsers -> SUBSET Orders]
  /\ rows \in SUBSET (Orders \cup Customers)
  /\ filed \in [Keys -> Tokens \cup {None}]
  /\ request \in [Submissions -> SubmissionRecord]
  /\ licence \in {"unloaded", "free", "paid"}
  /\ licenceKey \in {"absent", "valid", "expired"}
  /\ faults \in 0..MaxFaults
  /\ \A s \in Sessions : session[s] \in Tokens => token[session[s]] # "unissued"
  /\ \A q \in Submissions :
       /\ request[q].pc = "committed" => request[q].browser \in Browsers
       /\ request[q].pc = "sent" => request[q].session \in Sessions
       /\ request[q].pc = "sent" \/ request[q].pc = "opened" \/ HasConnection(q) =>
            /\ request[q].browser \in Browsers
            /\ request[q].order \in Orders /\ request[q].cart \in Carts
       /\ HasConnection(q) \/ request[q].pc = "opened" =>
            /\ request[q].token \in Tokens
            /\ OrderOf[request[q].token] = request[q].order

\* A link buys at most one return, however often it was opened and however its
\* sessions' submissions overlap, and the return is there from the very commit
\* that uses the link (return_token.py:44-67, returns.py:76-90).
OneReturnPerToken ==
  \A k \in Keys : filed[k] # None =>
    /\ token[filed[k]] = "used"
    /\ \A l \in Keys : filed[l] = filed[k] => l = k

\* A link is never used up for nothing: when it is used, a return is on file
\* under a key of its order, though its session may have been consumed by many
\* a submission that failed (returns.py:77-116, session.py:24-33).
UsedForAReturn ==
  \A t \in Tokens : token[t] = "used" =>
    \E c \in Carts : filed[KeyOf[<<OrderOf[t], c>>]] # None

\* The most returns a month may have under any licence that was ever in force.
MonthlyLimit ==
  IF licenceKey = "absent" \/ PaidLimit < FreeLimit THEN FreeLimit ELSE PaidLimit

\* The monthly limit is exceeded by fewer returns than the database has
\* connections: the count is taken before the return is inserted and nothing
\* locks the month, but each submission that has counted holds a connection
\* (returns.py:92-98, license.py:146-159, database/session.py:6-11).
OvershootIsBounded ==
  licenceKey = "absent" \/ PaidLimit # 0 =>
    Cardinality(Filed) < MonthlyLimit + Connections

\* Once a process serves under the key's licence, only the key's end or a
\* restart takes it away: no submission's load() without a key puts the free
\* tier in its place (license.py:84-102, config.py:55-66).
NoSilentDowngrade ==
  [][ licence = "paid" /\ licence' # "paid" =>
        licenceKey = "expired" \/ Restart ]_vars

\* The portal keeps the promise of a return link.
Right == INSTANCE ReturnRight WITH
  right <- token,
  May <- [t \in Tokens |-> {KeyOf[<<OrderOf[t], c>>] : c \in Carts}]

\* Sessions, submissions and failures of every kind grant a right, file one
\* return with it, or find that return on file; nothing restores it.
KeepsRight == Right!Spec

UnderWay(q) == request[q].pc \notin {"idle", "done", "refused"}

\* What a step of a submission waits for: a connection, the token's row, which it
\* waits for with the connection in hand, and the insert for what it would add.
CanMove(q) ==
  /\ UnderWay(q)
  /\ request[q].pc = "opened" => PoolFree
  /\ request[q].pc = "connected" => ~RowLocked(request[q].token)
  /\ request[q].pc = "fetched" => ~Contended(q)

SomeoneCanMove ==
  (\E q \in Submissions : UnderWay(q)) => \E q \in Submissions : CanMove(q)

\* Submissions never wait for one another in a circle: while any is under way,
\* one of them can move, though they hold connections while they wait for a
\* token's row, and a token's row while they wait for a customer's or a key; and
\* one that need not wait has its next step (session.py:6-11,
\* return_token.py:54-66, service.py:68-85).
NoStandstill ==
  /\ SomeoneCanMove
  /\ \A q \in Submissions : CanMove(q) => ENABLED Handle(q)
=============================================================================
