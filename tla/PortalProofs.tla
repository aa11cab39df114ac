---------------------------- MODULE PortalProofs ----------------------------
(***************************************************************************)
(* What PortalSafety states holds for any sets of links, sessions,         *)
(* browsers and submissions, any keys, limits and number of connections.   *)
(* Of NoStandstill the first half: that CanMove is what enables a step of  *)
(* the model is left to TLC, for it speaks of ENABLED.                     *)
(***************************************************************************)
EXTENDS PortalSafety, FiniteSetTheorems, TLAPS

-----------------------------------------------------------------------------
(* Type correctness.                                                       *)

\* What the types say of one submission.
Shape(r) ==
  /\ r \in SubmissionRecord
  /\ r.pc = "committed" => r.browser \in Browsers
  /\ r.pc = "sent" => r.session \in Sessions
  /\ r.pc \notin {"idle", "committed", "done", "refused"} =>
       r.browser \in Browsers /\ r.order \in Orders /\ r.cart \in Carts
  /\ r.pc \notin {"idle", "sent", "committed", "done", "refused"} =>
       r.token \in Tokens /\ OrderOf[r.token] = r.order

\* The part of the type invariant that is not about submissions.
Stores ==
  /\ token \in [Tokens -> {"unissued", "open", "expired", "used"}]
  /\ session \in [Sessions -> Tokens \cup {"free", "gone"}]
  /\ cookie \in [Browsers -> Sessions \cup {None}]
  /\ forms \in [Browsers -> SUBSET Orders]
  /\ rows \in SUBSET (Orders \cup Customers)
  /\ filed \in [Keys -> Tokens \cup {None}]
  /\ licence \in {"unloaded", "free", "paid"}
  /\ licenceKey \in {"absent", "valid", "expired"}
  /\ faults \in 0..MaxFaults
  /\ \A s \in Sessions : session[s] \in Tokens => token[session[s]] # "unissued"

Shaped == request \in [Submissions -> SubmissionRecord] /\ \A q \in Submissions : Shape(request[q])

LEMMA TypeParts == TypeOK <=> Stores /\ Shaped
  <1>1. Stores /\ Shaped => TypeOK
    BY DEF TypeOK, Stores, Shaped, Shape, SubmissionRecord, HasConnection, InTransaction
  <1>2. TypeOK => Stores /\ Shaped
    <2>1. ASSUME TypeOK, NEW q \in Submissions PROVE Shape(request[q])
      <3>1. request[q] \in SubmissionRecord
        BY <2>1 DEF TypeOK
      <3>2. /\ request[q].pc = "committed" => request[q].browser \in Browsers
            /\ request[q].pc = "sent" => request[q].session \in Sessions
            /\ request[q].pc = "sent" \/ request[q].pc = "opened" \/ HasConnection(q) =>
                 /\ request[q].browser \in Browsers
                 /\ request[q].order \in Orders /\ request[q].cart \in Carts
            /\ HasConnection(q) \/ request[q].pc = "opened" =>
                 /\ request[q].token \in Tokens
                 /\ OrderOf[request[q].token] = request[q].order
        BY <2>1 DEF TypeOK
      <3> QED BY <3>1, <3>2 DEF Shape, SubmissionRecord, HasConnection, InTransaction
    <2> QED BY <2>1 DEF TypeOK, Stores, Shaped
  <1> QED BY <1>1, <1>2

\* The records a submission ends or begins as.
LEMMA Endings ==
  /\ Shape(Unsent) /\ Shape(Refused) /\ Shape(Done)
  /\ Unsent.pc = "idle" /\ Refused.pc = "refused" /\ Done.pc = "done"
  BY DEF Shape, SubmissionRecord, Unsent, Refused, Done

\* One submission takes a shape.
LEMMA Reshape ==
  ASSUME Shaped, NEW q \in Submissions, NEW r, Shape(r),
         request' = [request EXCEPT ![q] = r]
  PROVE  Shaped'
  <1>1. request' \in [Submissions -> SubmissionRecord]
    BY DEF Shaped, Shape
  <1>2. \A p \in Submissions : Shape(request'[p])
    BY DEF Shaped
  <1> QED BY <1>1, <1>2 DEF Shaped

\* A submission under way moves on, or is refused.
LEMMA GotoShape ==
  ASSUME Shaped, NEW q \in Submissions,
         request[q].pc \notin {"idle", "sent", "committed", "done", "refused"},
         NEW pc \in {"connected", "held", "counted", "missed", "fetched", "inserted", "hit"},
         Goto(q, pc) \/ Refuse(q)
  PROVE  Shaped'
  <1>1. Shape([request[q] EXCEPT !.pc = pc])
    BY DEF Shaped, Shape, SubmissionRecord
  <1> QED BY <1>1, Endings, Reshape DEF Goto, Refuse

LEMMA TypePartsPrime == TypeOK' <=> Stores' /\ Shaped'
  BY TypeParts, PTL

LEMMA TypeHandle ==
  ASSUME Stores, Shaped, NEW q \in Submissions, Handle(q) \/ Fail(q)
  PROVE  Stores' /\ Shaped'
  <1>1. CASE ConsumeSession(q)
    <2> DEFINE s == request[q].session
               r == [request[q] EXCEPT !.pc = "opened", !.token = session[s], !.session = None]
    <2>1. s \in Sessions /\ Shape(request[q]) /\ request[q].pc = "sent"
      BY <1>1 DEF ConsumeSession, Shaped, Shape
    <2>2. session[s] \in Tokens /\ OrderOf[session[s]] = request[q].order => Shape(r)
      BY <2>1 DEF Shape, SubmissionRecord
    <2>3. Shaped'
      BY <1>1, <2>2, Endings, Reshape DEF ConsumeSession
    <2>4. Stores'
      BY <1>1, <2>1, Parameters DEF ConsumeSession, Consume, Stores, store, process
    <2> QED BY <2>3, <2>4
  <1>2. CASE TakeToken(q)
    BY <1>2, GotoShape DEF TakeToken, Stores, store, front, process
  <1>10. CASE Connect(q)
    BY <1>10, GotoShape DEF Connect, Stores, store, front, process
  <1>3. CASE CountMonth(q)
    BY <1>3, GotoShape DEF CountMonth, Loaded, Stores, store, front
  <1>4. CASE LookupKey(q)
    BY <1>4, GotoShape DEF LookupKey, Stores, store, front, process
  <1>5. CASE FetchOrder(q)
    <2> DEFINE o == request[q].order
               r == [request[q] EXCEPT !.pc = "fetched", !.new = {CustomerOf[o], o} \ rows]
    <2>1. Shape(request[q]) /\ request[q].pc = "missed"
      BY <1>5 DEF FetchOrder, Shaped
    <2>2. o \in Orders
      BY <2>1 DEF Shape
    <2>3. {CustomerOf[o], o} \ rows \subseteq Orders \cup Customers
      BY <2>2 DEF Customers
    <2>4. Shape(r)
      BY <2>1, <2>3 DEF Shape, SubmissionRecord
    <2>5. request' = [request EXCEPT ![q] = r]
      BY <1>5 DEF FetchOrder
    <2> QED BY <1>5, <2>4, <2>5, Reshape DEF FetchOrder, Stores, store, front, process
  <1>6. CASE InsertReturn(q)
    BY <1>6, GotoShape DEF InsertReturn, Stores, store, front, process
  <1>7. CASE Commit(q)
    <2>1. Shape(request[q]) /\ request[q].pc \in {"inserted", "hit"}
      BY <1>7 DEF Commit, Shaped
    <2>2. request[q].browser \in Browsers /\ request[q].token \in Tokens
          /\ request[q].new \subseteq Orders \cup Customers
      BY <2>1 DEF Shape, SubmissionRecord
    <2>3. Shape([Unsent EXCEPT !.pc = "committed", !.browser = request[q].browser])
      BY <2>2 DEF Shape, SubmissionRecord, Unsent
    <2>4. Shaped'
      BY <1>7, <2>3, Reshape DEF Commit
    <2>5. filed' \in [Keys -> Tokens \cup {None}]
      BY <1>7, <2>2 DEF Commit, Stores
    <2>6. token' \in [Tokens -> {"unissued", "open", "expired", "used"}]
          /\ \A t \in Tokens : token[t] # "unissued" => token'[t] # "unissued"
      BY <1>7, <2>2 DEF Commit, Stores
    <2>7. rows' \in SUBSET (Orders \cup Customers)
      BY <1>7, <2>2 DEF Commit, Stores
    <2> QED BY <1>7, <2>4, <2>5, <2>6, <2>7 DEF Commit, Stores, front, process
  <1>8. CASE Respond(q)
    <2>1. Shaped'
      BY <1>8, Endings, Reshape DEF Respond
    <2> QED BY <1>8, <2>1 DEF Respond, Stores, store, process
  <1>9. CASE Fail(q)
    <2>1. Shaped'
      BY <1>9, Endings, Reshape DEF Fail, Refuse
    <2> QED BY <1>9, <2>1, Parameters DEF Fail, Stores, store, front, process
  <1> QED BY <1>1, <1>2, <1>3, <1>4, <1>5, <1>6, <1>7, <1>8, <1>9, <1>10 DEF Handle

LEMMA TypeStep == TypeOK /\ [Next]_vars => TypeOK'
  <1> SUFFICES ASSUME Stores, Shaped, [Next]_vars PROVE Stores' /\ Shaped'
    BY TypeParts, TypePartsPrime
  <1>1. CASE \E t \in Tokens : GenerateToken(t) \/ TokenExpires(t)
    BY <1>1 DEF GenerateToken, TokenExpires, Stores, Shaped, front, process
  <1>2. CASE \E s \in Sessions : EndSession(s)
    BY <1>2, Parameters DEF EndSession, Consume, Stores, Shaped, store, process
  <1>3. CASE \E b \in Browsers : Customer(b)
    <2> PICK b \in Browsers : Customer(b)
      BY <1>3
    <2>1. CASE \E t \in Tokens : Redeem(b, t)
      BY <2>1 DEF Redeem, LinkIsGood, NewSession, Stores, Shaped, store, process
    <2>2. CASE OpenForm(b)
      BY <2>2 DEF OpenForm, Stores, Shaped, store, process
    <2>3. CASE \E q \in Submissions, o \in Orders, c \in Carts : Send(q, b, o, c)
      <3> PICK q \in Submissions, o \in Orders, c \in Carts : Send(q, b, o, c)
        BY <2>3
      <3>1. cookie[b] \in Sessions
        BY DEF Send, Stores
      <3>2. Shape([pc |-> "sent", browser |-> b, session |-> cookie[b], token |-> None,
                   order |-> o, cart |-> c, new |-> {}])
        BY <3>1 DEF Shape, SubmissionRecord
      <3>3. Shaped'
        BY <3>2, Reshape DEF Send
      <3> QED BY <3>3 DEF Send, Stores, store, front, process
    <2> QED BY <2>1, <2>2, <2>3 DEF Customer
  <1>4. CASE \E q \in Submissions : Handle(q) \/ Fail(q)
    BY <1>4, TypeHandle
  <1>5. CASE Health \/ LicenceExpires
    BY <1>5 DEF Health, LicenceExpires, KeyTier, Stores, Shaped, store, front
  <1>6. CASE Restart
    <2>1. \A q \in Submissions :
            /\ request'[q] \in {request[q], Refused, Done}
            /\ Shape(request'[q]) /\ request'[q] \in SubmissionRecord
      BY <1>6, Endings DEF Restart, Shaped, Shape
    <2>2. Shaped'
      BY <1>6, <2>1 DEF Restart, Shaped
    <2> QED BY <1>6, <2>2, Parameters DEF Restart, Stores, store, front
  <1>7. CASE UNCHANGED vars
    BY <1>7 DEF vars, Stores, Shaped
  <1> QED BY <1>1, <1>2, <1>3, <1>4, <1>5, <1>6, <1>7 DEF Next

LEMMA TypeInit == Init => TypeOK
  <1>1. Init => Stores /\ Shaped
    BY Endings, Parameters DEF Init, Stores, Shaped, Shape
  <1> QED BY <1>1, TypeParts

\* Every reachable state of the portal is well typed: a transaction always
\* holds a link of the very order it files a return of (returns.py:76-86).
THEOREM TypeCorrect == Spec => []TypeOK
  BY TypeInit, TypeStep, PTL DEF Spec

-----------------------------------------------------------------------------
(* The inductive invariant.                                                *)

Held == {"held", "counted", "missed", "fetched", "inserted", "hit"}
InUse == {q \in Submissions : HasConnection(q)}

\* The submissions whose count of the month may be out of date.
Past == {q \in Submissions : request[q].pc \in Held \ {"held"}}

\* A held link is open, and held once: this is what its row's lock is for.
Distinct ==
  \A p, q \in Submissions :
    InTransaction(p) /\ InTransaction(q) /\ request[p].token = request[q].token => p = q
HeldOpen == \A q \in Submissions : InTransaction(q) => token[request[q].token] = "open"

\* What has been inserted is nobody else's, and what was hit is on file.
InsertedFresh ==
  \A q \in Submissions : request[q].pc = "inserted" =>
    /\ filed[Key(q)] = None
    /\ \A p \in Submissions : request[p].pc = "inserted" /\ Key(p) = Key(q) => p = q
HitFiled == \A q \in Submissions : request[q].pc = "hit" => filed[Key(q)] # None

LicenceNeedsKey == licence = "paid" => licenceKey # "absent"

\* Returns filed and returns that may yet be filed on an old count together
\* stay below the limit and the connections.
Bounded == licenceKey = "absent" \/ PaidLimit # 0
WithinPool == Cardinality(InUse) <= Connections
Room == Bounded => Cardinality(Filed) + Cardinality(Past) < MonthlyLimit + Connections

Safe ==
  /\ Distinct /\ HeldOpen /\ InsertedFresh /\ HitFiled
  /\ OneReturnPerToken /\ UsedForAReturn
  /\ LicenceNeedsKey /\ WithinPool /\ Room

Inv == TypeOK /\ Safe

\* The sets that are counted are finite, and those past the count are within.
LEMMA Finite ==
  /\ IsFiniteSet(InUse) /\ IsFiniteSet(Past) /\ IsFiniteSet(Filed)
  /\ Cardinality(InUse) \in Nat /\ Cardinality(Past) \in Nat /\ Cardinality(Filed) \in Nat
  /\ Cardinality(Past) <= Cardinality(InUse)
  /\ MonthlyLimit \in Nat
  <1>1. InUse \subseteq Submissions /\ Past \subseteq InUse /\ Filed \subseteq Keys
    BY DEF InUse, HasConnection, Past, Filed, InTransaction, Held
  <1>2. IsFiniteSet(InUse) /\ IsFiniteSet(Filed)
    BY <1>1, FS_Subset, Parameters
  <1>3. IsFiniteSet(Past) /\ Cardinality(Past) <= Cardinality(InUse)
    BY <1>1, <1>2, FS_Subset
  <1>4. MonthlyLimit \in Nat
    BY Parameters DEF MonthlyLimit
  <1> QED BY <1>2, <1>3, <1>4, FS_CardinalityType

LEMMA FinitePrime ==
  /\ IsFiniteSet(InUse') /\ IsFiniteSet(Past') /\ IsFiniteSet(Filed')
  /\ Cardinality(InUse') \in Nat /\ Cardinality(Past') \in Nat /\ Cardinality(Filed') \in Nat
  /\ Cardinality(Past') <= Cardinality(InUse')
  /\ MonthlyLimit' \in Nat
  <1>1. InUse' \subseteq Submissions /\ Past' \subseteq InUse' /\ Filed' \subseteq Keys
    BY DEF InUse, HasConnection, Past, Filed, InTransaction, Held
  <1>2. IsFiniteSet(InUse') /\ IsFiniteSet(Filed')
    BY <1>1, FS_Subset, Parameters
  <1>3. IsFiniteSet(Past') /\ Cardinality(Past') <= Cardinality(InUse')
    BY <1>1, <1>2, FS_Subset
  <1>4. MonthlyLimit' \in Nat
    BY Parameters DEF MonthlyLimit
  <1> QED BY <1>2, <1>3, <1>4, FS_CardinalityType

\* What the key's state says of the limit does not change while the key is there.
SameKey ==
  /\ licenceKey' = "absent" <=> licenceKey = "absent"
  /\ licence' = "paid" => licenceKey' # "absent"

LEMMA SameLimit == SameKey => MonthlyLimit' = MonthlyLimit /\ (Bounded' <=> Bounded)
  BY DEF SameKey, MonthlyLimit, Bounded

\* A step in which submissions at most give up their connections.
LEMMA Quiet ==
  ASSUME Inv, UNCHANGED <<token, filed>>, SameKey,
         \A p \in Submissions :
           request'[p] = request[p] \/ request'[p].pc \notin Held \cup {"connected"}
  PROVE  Safe'
  <1>1. \A p \in Submissions : InTransaction(p)' => InTransaction(p) /\ request'[p] = request[p]
    BY DEF InTransaction, Held
  <1>10. \A p \in Submissions : HasConnection(p)' => HasConnection(p)
    BY DEF HasConnection, InTransaction, Held
  <1>2. Distinct' /\ HeldOpen'
    BY <1>1 DEF Inv, Safe, Distinct, HeldOpen
  <1>3. InsertedFresh' /\ HitFiled'
    BY DEF Inv, Safe, InsertedFresh, HitFiled, Key, Held
  <1>4. OneReturnPerToken' /\ UsedForAReturn'
    BY DEF Inv, Safe, OneReturnPerToken, UsedForAReturn
  <1>5. InUse' \subseteq InUse /\ Past' \subseteq Past
    BY <1>1, <1>10 DEF InUse, Past, Held
  <1>6. Cardinality(InUse') <= Cardinality(InUse) /\ Cardinality(Past') <= Cardinality(Past)
    BY <1>5, Finite, FS_Subset
  <1>7. WithinPool'
    BY <1>6, Finite, FinitePrime, Parameters DEF Inv, Safe, WithinPool
  <1>8. Filed' = Filed
    BY DEF Filed
  <1>9. Room'
    BY <1>6, <1>8, SameLimit, Finite, FinitePrime, Parameters DEF Inv, Safe, Room
  <1> QED BY <1>2, <1>3, <1>4, <1>7, <1>9 DEF Safe, LicenceNeedsKey, SameKey

\* A step of a transaction that has written nothing others see.
LEMMA Advance ==
  ASSUME Inv, UNCHANGED <<token, filed>>, SameKey, NEW q \in Submissions,
         InTransaction(q), InTransaction(q)',
         \A p \in Submissions \ {q} : request'[p] = request[p],
         request'[q].token = request[q].token, Key(q)' = Key(q),
         request'[q].pc = "inserted" =>
           /\ filed[Key(q)] = None
           /\ \A p \in Submissions \ {q} : request[p].pc = "inserted" => Key(p) # Key(q),
         request'[q].pc = "hit" => filed[Key(q)] # None,
         q \notin Past => (Bounded => Cardinality(Filed) < MonthlyLimit)
  PROVE  Safe'
  <1>1. /\ \A p \in Submissions : InTransaction(p)' <=> InTransaction(p)
        /\ \A p \in Submissions : request'[p].token = request[p].token /\ Key(p)' = Key(p)
        /\ \A p \in Submissions \ {q} : request'[p].pc = request[p].pc
    BY DEF InTransaction, Key
  <1>2. Distinct' /\ HeldOpen'
    BY <1>1 DEF Inv, Safe, Distinct, HeldOpen
  <1>3. InsertedFresh' /\ HitFiled'
    BY <1>1 DEF Inv, Safe, InsertedFresh, HitFiled
  <1>4. OneReturnPerToken' /\ UsedForAReturn'
    BY DEF Inv, Safe, OneReturnPerToken, UsedForAReturn
  <1>5. InUse' = InUse
    BY <1>1 DEF InUse, HasConnection, InTransaction
  <1>6. WithinPool'
    BY <1>5 DEF Inv, Safe, WithinPool
  <1>7. Filed' = Filed
    BY DEF Filed
  <1>8. CASE q \in Past
    <2>1. Past' \subseteq Past
      BY <1>1, <1>8 DEF Past
    <2>2. Cardinality(Past') <= Cardinality(Past)
      BY <2>1, Finite, FS_Subset
    <2>3. Room'
      BY <2>2, <1>7, SameLimit, Finite, FinitePrime, Parameters DEF Inv, Safe, Room
    <2> QED BY <2>3, <1>2, <1>3, <1>4, <1>6 DEF Safe, LicenceNeedsKey, SameKey
  <1>9. CASE q \notin Past
    <2>1. Cardinality(Past') <= Connections
      BY <1>6, FinitePrime, Parameters DEF WithinPool
    <2>2. Room'
      BY <2>1, <1>7, <1>9, SameLimit, Finite, FinitePrime, Parameters DEF Room
    <2> QED BY <2>2, <1>2, <1>3, <1>4, <1>6 DEF Safe, LicenceNeedsKey, SameKey
  <1> QED BY <1>8, <1>9

\* A submission that goes on to another point keeps what it carries.
LEMMA GotoKeeps ==
  ASSUME Inv, NEW q \in Submissions, NEW pc, Goto(q, pc)
  PROVE  /\ request'[q].pc = pc /\ request'[q].token = request[q].token
         /\ Key(q)' = Key(q)
         /\ \A p \in Submissions \ {q} : request'[p] = request[p]
  <1>1. request \in [Submissions -> SubmissionRecord]
    BY DEF Inv, TypeOK
  <1>2. request' = [request EXCEPT ![q] = [request[q] EXCEPT !.pc = pc]]
    BY DEF Goto
  <1>3. request'[q] = [request[q] EXCEPT !.pc = pc]
    BY <1>1, <1>2
  <1> QED BY <1>1, <1>2, <1>3 DEF SubmissionRecord, Key

\* A refusal, and any other step of one submission out of its transaction.
LEMMA Leaves ==
  ASSUME Inv, NEW q \in Submissions, NEW r, r.pc \notin Held \cup {"connected"},
         request' = [request EXCEPT ![q] = r],
         UNCHANGED <<token, filed>>, SameKey
  PROVE  Safe'
  <1>1. \A p \in Submissions :
          request'[p] = request[p] \/ request'[p].pc \notin Held \cup {"connected"}
    BY DEF Inv, TypeOK
  <1> QED BY <1>1, Quiet

LEMMA KeyUntouched ==
  ASSUME Inv, UNCHANGED licenceKey, licence' = licence \/ licence' # "paid"
  PROVE  SameKey
  BY DEF Inv, Safe, LicenceNeedsKey, SameKey

\* The pool makes one too many wait for its connection.
LEMMA ConnectSafe ==
  ASSUME Inv, NEW q \in Submissions, Connect(q)
  PROVE  Safe'
  <1>1. /\ request[q].pc = "opened" /\ PoolFree /\ Goto(q, "connected")
        /\ UNCHANGED <<token, filed, rows, licence, licenceKey>>
    BY DEF Connect, store, process
  <1>2. SameKey
    BY <1>1, KeyUntouched
  <1>3. /\ request'[q].pc = "connected"
        /\ \A p \in Submissions \ {q} : request'[p] = request[p]
    BY <1>1, GotoKeeps
  <1>4. /\ \A p \in Submissions : InTransaction(p)' <=> InTransaction(p)
        /\ \A p \in Submissions : InTransaction(p) => request'[p] = request[p]
        /\ \A p \in Submissions \ {q} : Key(p)' = Key(p)
    BY <1>1, <1>3 DEF InTransaction, Key
  <1>5. Distinct' /\ HeldOpen'
    BY <1>1, <1>4 DEF Inv, Safe, Distinct, HeldOpen
  <1>6. InsertedFresh' /\ HitFiled'
    BY <1>1, <1>3, <1>4 DEF Inv, Safe, InsertedFresh, HitFiled
  <1>7. OneReturnPerToken' /\ UsedForAReturn'
    BY <1>1 DEF Inv, Safe, OneReturnPerToken, UsedForAReturn
  <1>8. InUse' = InUse \cup {q} /\ q \notin InUse
    BY <1>1, <1>3, <1>4 DEF InUse, HasConnection, InTransaction
  <1>9. Cardinality(InUse') = Cardinality(InUse) + 1
    BY <1>8, Finite, FS_AddElement
  <1>10. Cardinality(InUse) < Connections
    BY <1>1 DEF PoolFree, InUse
  <1>11. WithinPool'
    BY <1>9, <1>10, Finite, Parameters DEF WithinPool
  <1>12. Past' = Past /\ Filed' = Filed
    BY <1>1, <1>3 DEF Past, Held, Filed
  <1>13. Room'
    BY <1>12, <1>2, SameLimit DEF Inv, Safe, Room
  <1> QED
    BY <1>5, <1>6, <1>7, <1>11, <1>13, <1>2 DEF Safe, LicenceNeedsKey, SameKey

\* The row lock makes the second holder of a link wait.
LEMMA TakeSafe ==
  ASSUME Inv, NEW q \in Submissions, TakeToken(q)
  PROVE  Safe'
  <1> DEFINE t == request[q].token
  <1>1. /\ request[q].pc = "connected" /\ ~RowLocked(t)
        /\ UNCHANGED <<token, filed, rows, licence, licenceKey>>
    BY DEF TakeToken, store, process
  <1>2. SameKey
    BY <1>1, KeyUntouched
  <1>3. CASE Refuse(q)
    BY <1>1, <1>2, <1>3, Endings, Leaves DEF Refuse, Held
  <1>4. CASE token[t] = "open" /\ Goto(q, "held")
    <2>1. /\ request'[q].pc = "held" /\ request'[q].token = t
          /\ \A p \in Submissions \ {q} : request'[p] = request[p]
      BY <1>4, GotoKeeps
    <2>2. \A p \in Submissions \ {q} :
            /\ InTransaction(p)' <=> InTransaction(p)
            /\ Key(p)' = Key(p)
      BY <2>1 DEF InTransaction, Key
    <2>3. \A p \in Submissions : InTransaction(p) => request[p].token # t
      BY <1>1 DEF RowLocked
    <2>4. Distinct'
      BY <2>1, <2>2, <2>3 DEF Inv, Safe, Distinct
    <2>5. HeldOpen'
      BY <1>1, <1>4, <2>1, <2>2 DEF Inv, Safe, HeldOpen
    <2>6. InsertedFresh' /\ HitFiled'
      BY <1>1, <2>1, <2>2 DEF Inv, Safe, InsertedFresh, HitFiled
    <2>7. OneReturnPerToken' /\ UsedForAReturn'
      BY <1>1 DEF Inv, Safe, OneReturnPerToken, UsedForAReturn
    <2>8. InUse' = InUse
      BY <1>1, <2>1, <2>2 DEF InUse, HasConnection, InTransaction
    <2>9. Past' = Past /\ Filed' = Filed
      BY <1>1, <2>1 DEF Past, Held, Filed
    <2>10. WithinPool' /\ Room'
      BY <2>8, <2>9, <1>2, SameLimit DEF Inv, Safe, WithinPool, Room
    <2> QED
      BY <2>4, <2>5, <2>6, <2>7, <2>10, <1>2 DEF Safe, LicenceNeedsKey, SameKey
  <1> QED BY <1>3, <1>4 DEF TakeToken

\* The licence in force never allows more than the month's limit.
LEMMA AllowedIsBelow ==
  ASSUME Inv, NEW n \in Nat, Allows(Loaded, n), Bounded
  PROVE  n < MonthlyLimit
  BY Parameters DEF Inv, Safe, TypeOK, LicenceNeedsKey, Allows, Loaded, Bounded, MonthlyLimit

LEMMA CountSafe ==
  ASSUME Inv, NEW q \in Submissions, CountMonth(q)
  PROVE  Safe'
  <1>1. request[q].pc = "held" /\ UNCHANGED <<token, filed, licenceKey>> /\ licence' = Loaded
    BY DEF CountMonth, store
  <1>2. SameKey
    BY <1>1, KeyUntouched DEF Loaded
  <1>3. CASE Refuse(q)
    BY <1>1, <1>2, <1>3, Endings, Leaves DEF Refuse, Held
  <1>4. CASE Allows(Loaded, Cardinality(Filed)) /\ Goto(q, "counted")
    <2>1. Bounded => Cardinality(Filed) < MonthlyLimit
      BY <1>4, Finite, AllowedIsBelow
    <2>2. InTransaction(q) /\ InTransaction(q)'
      BY <1>1, <1>4, GotoKeeps DEF InTransaction
    <2> QED BY <1>1, <1>2, <1>4, <2>1, <2>2, GotoKeeps, Advance
  <1> QED BY <1>3, <1>4 DEF CountMonth

LEMMA LookupSafe ==
  ASSUME Inv, NEW q \in Submissions, LookupKey(q)
  PROVE  Safe'
  <1>1. /\ request[q].pc = "counted" /\ UNCHANGED <<token, filed, licence, licenceKey>>
        /\ Goto(q, IF filed[Key(q)] = None THEN "missed" ELSE "hit")
    BY DEF LookupKey, store, process
  <1>2. SameKey
    BY <1>1, KeyUntouched
  <1>3. /\ request'[q].pc = IF filed[Key(q)] = None THEN "missed" ELSE "hit"
        /\ request'[q].token = request[q].token /\ Key(q)' = Key(q)
        /\ \A p \in Submissions \ {q} : request'[p] = request[p]
    BY <1>1, GotoKeeps
  <1>4. InTransaction(q) /\ InTransaction(q)' /\ q \in Past
    BY <1>1, <1>3 DEF InTransaction, Past, Held
  <1>5. /\ request'[q].pc = "hit" => filed[Key(q)] # None
        /\ request'[q].pc # "inserted"
    BY <1>3
  <1> QED BY <1>1, <1>2, <1>3, <1>4, <1>5, Advance

LEMMA FetchSafe ==
  ASSUME Inv, NEW q \in Submissions, FetchOrder(q)
  PROVE  Safe'
  <1> DEFINE r == [request[q] EXCEPT !.pc = "fetched",
                     !.new = {CustomerOf[request[q].order], request[q].order} \ rows]
  <1>1. /\ request[q].pc = "missed" /\ UNCHANGED <<token, filed, licence, licenceKey>>
        /\ request' = [request EXCEPT ![q] = r]
    BY DEF FetchOrder, store, process
  <1>2. SameKey
    BY <1>1, KeyUntouched
  <1>3. /\ request'[q] = r
        /\ \A p \in Submissions \ {q} : request'[p] = request[p]
    BY <1>1 DEF Inv, TypeOK
  <1>4. request[q] \in SubmissionRecord
    BY DEF Inv, TypeOK
  <1>5. /\ request'[q].pc = "fetched" /\ request'[q].token = request[q].token
        /\ Key(q)' = Key(q)
    BY <1>3, <1>4 DEF SubmissionRecord, Key
  <1>6. InTransaction(q) /\ InTransaction(q)' /\ q \in Past
    BY <1>1, <1>5 DEF InTransaction, Past, Held
  <1> QED BY <1>1, <1>2, <1>3, <1>5, <1>6, Advance

\* The unique index makes a second insert wait, and then find the first.
LEMMA InsertSafe ==
  ASSUME Inv, NEW q \in Submissions, InsertReturn(q)
  PROVE  Safe'
  <1>1. /\ request[q].pc = "fetched" /\ UNCHANGED <<token, filed, licence, licenceKey>>
        /\ ~Contended(q)
    BY DEF InsertReturn, store, process
  <1>2. SameKey
    BY <1>1, KeyUntouched
  <1>3. CASE Refuse(q)
    BY <1>1, <1>2, <1>3, Endings, Leaves DEF Refuse, Held
  <1>4. CASE filed[Key(q)] = None /\ Goto(q, "inserted")
    <2>1. /\ request'[q].pc = "inserted" /\ request'[q].token = request[q].token
          /\ Key(q)' = Key(q)
          /\ \A p \in Submissions \ {q} : request'[p] = request[p]
      BY <1>4, GotoKeeps
    <2>2. InTransaction(q) /\ InTransaction(q)' /\ q \in Past
      BY <1>1, <2>1 DEF InTransaction, Past, Held
    <2>3. \A p \in Submissions \ {q} : request[p].pc = "inserted" => Key(p) # Key(q)
      BY <1>1 DEF Contended
    <2> QED BY <1>1, <1>2, <1>4, <2>1, <2>2, <2>3, Advance
  <1> QED BY <1>3, <1>4 DEF InsertReturn

\* What a commit finds and leaves.
LEMMA CommitEffect ==
  ASSUME Inv, NEW q \in Submissions, Commit(q)
  PROVE  LET t == request[q].token
             k == Key(q)
         IN  /\ t \in Tokens /\ k \in Keys /\ token[t] = "open"
             /\ k \in {KeyOf[<<OrderOf[t], c>>] : c \in Carts}
             /\ token' = [token EXCEPT ![t] = "used"]
             /\ \/ filed[k] # None /\ filed' = filed
                \/ filed[k] = None /\ filed' = [filed EXCEPT ![k] = t]
             /\ request'[q].pc = "committed"
             /\ \A p \in Submissions \ {q} : request'[p] = request[p]
  <1> DEFINE t == request[q].token
             k == Key(q)
  <1>1. Shape(request[q]) /\ request[q].pc \in {"inserted", "hit"}
    BY TypeParts DEF Inv, Shaped, Commit
  <1>2. /\ t \in Tokens /\ OrderOf[t] = request[q].order
        /\ request[q].order \in Orders /\ request[q].cart \in Carts
    BY <1>1 DEF Shape
  <1>3. k \in Keys /\ k \in {KeyOf[<<OrderOf[t], c>>] : c \in Carts}
    BY <1>2, Parameters DEF Key
  <1>4. token[t] = "open"
    BY <1>1 DEF Inv, Safe, HeldOpen, InTransaction
  <1>5. token' = [token EXCEPT ![t] = "used"]
    BY DEF Commit
  <1>6. \/ filed[k] # None /\ filed' = filed
        \/ filed[k] = None /\ filed' = [filed EXCEPT ![k] = t]
    BY <1>1 DEF Commit, Inv, Safe, InsertedFresh, HitFiled
  <1>7. /\ request'[q] = [Unsent EXCEPT !.pc = "committed", !.browser = request[q].browser]
        /\ \A p \in Submissions \ {q} : request'[p] = request[p]
    BY DEF Commit, Inv, TypeOK
  <1>8. request'[q].pc = "committed"
    BY <1>7 DEF Unsent
  <1> QED BY <1>2, <1>3, <1>4, <1>5, <1>6, <1>7, <1>8

LEMMA CommitSafe ==
  ASSUME Inv, NEW q \in Submissions, Commit(q)
  PROVE  Safe'
  <1> DEFINE t == request[q].token
             k == Key(q)
  <1>1. /\ t \in Tokens /\ k \in Keys /\ token[t] = "open"
        /\ k \in {KeyOf[<<OrderOf[t], c>>] : c \in Carts}
        /\ token' = [token EXCEPT ![t] = "used"]
        /\ \/ filed[k] # None /\ filed' = filed
           \/ filed[k] = None /\ filed' = [filed EXCEPT ![k] = t]
        /\ request'[q].pc = "committed"
        /\ \A p \in Submissions \ {q} : request'[p] = request[p]
    BY CommitEffect
  <1>2. /\ filed \in [Keys -> Tokens \cup {None}]
        /\ token \in [Tokens -> {"unissued", "open", "expired", "used"}]
    BY DEF Inv, TypeOK
  <1>3. UNCHANGED <<licence, licenceKey>>
    BY DEF Commit, process
  <1>4. SameKey
    BY <1>3, KeyUntouched
  <1>5. InTransaction(q) /\ q \in Past /\ q \in InUse /\ ~InTransaction(q)'
    BY <1>1 DEF Commit, HasConnection, InTransaction, Past, InUse, Held
  <1>6. \A p \in Submissions \ {q} :
          /\ InTransaction(p)' <=> InTransaction(p)
          /\ Key(p)' = Key(p)
          /\ InTransaction(p) => request[p].token # t
    BY <1>1, <1>5 DEF InTransaction, Key, Inv, Safe, Distinct
  <1>20. ASSUME NEW p \in Submissions, InTransaction(p) PROVE Key(p) \in Keys
    <2>1. request[p].order \in Orders /\ request[p].cart \in Carts
      BY <1>20 DEF Inv, TypeOK, HasConnection
    <2> QED BY <2>1, Parameters DEF Key
  <1>7. \A l \in Keys : filed[l] # None => filed'[l] = filed[l]
    BY <1>1, <1>2
  <1>8. filed'[k] # None
    BY <1>1, <1>2, Parameters
  <1>9. Distinct'
    BY <1>1, <1>5, <1>6 DEF Inv, Safe, Distinct
  <1>10. HeldOpen'
    <2>1. ASSUME NEW p \in Submissions, InTransaction(p)' PROVE token'[request'[p].token] = "open"
      <3>1. p # q /\ InTransaction(p) /\ request[p].token # t /\ request'[p] = request[p]
        BY <1>1, <1>5, <1>6, <2>1
      <3>2. token[request[p].token] = "open"
        BY <3>1 DEF Inv, Safe, HeldOpen
      <3>3. request[p].token \in Tokens
        BY <3>1 DEF Inv, TypeOK, HasConnection
      <3> QED BY <1>1, <1>2, <3>1, <3>2, <3>3
    <2> QED BY <2>1 DEF HeldOpen
  <1>11. InsertedFresh'
    <2>1. ASSUME NEW p \in Submissions, request'[p].pc = "inserted"
          PROVE  /\ filed'[Key(p)'] = None
                 /\ \A x \in Submissions :
                      request'[x].pc = "inserted" /\ Key(x)' = Key(p)' => x = p
      <3>1. p # q /\ request[p].pc = "inserted" /\ Key(p)' = Key(p)
        BY <1>1, <1>6, <2>1
      <3>2. filed[Key(p)] = None
        BY <3>1 DEF Inv, Safe, InsertedFresh
      <3>3. ASSUME NEW x \in Submissions, request'[x].pc = "inserted", Key(x)' = Key(p)'
            PROVE  x = p
        <4>1. x # q /\ request[x].pc = "inserted" /\ Key(x) = Key(p)
          BY <1>1, <1>6, <3>1, <3>3
        <4> QED BY <3>1, <4>1 DEF Inv, Safe, InsertedFresh
      <3>4. filed[k] = None => request[q].pc = "inserted"
        BY DEF Commit, Inv, Safe, HitFiled
      <3>5. filed[k] = None => Key(p) # k
        BY <3>1, <3>4 DEF Inv, Safe, InsertedFresh
      <3>6. Key(p) \in Keys
        BY <1>20, <3>1 DEF InTransaction
      <3>7. filed'[Key(p)] = None
        BY <1>1, <1>2, <3>2, <3>5, <3>6
      <3> QED BY <3>1, <3>3, <3>7
    <2> QED BY <2>1 DEF InsertedFresh
  <1>12. HitFiled'
    <2>1. ASSUME NEW p \in Submissions, request'[p].pc = "hit" PROVE filed'[Key(p)'] # None
      <3>1. p # q /\ request[p].pc = "hit" /\ Key(p)' = Key(p)
        BY <1>1, <1>6, <2>1
      <3>2. filed[Key(p)] # None
        BY <3>1 DEF Inv, Safe, HitFiled
      <3>3. Key(p) \in Keys
        BY <1>20, <3>1 DEF InTransaction
      <3> QED BY <1>7, <3>1, <3>2, <3>3
    <2> QED BY <2>1 DEF HitFiled
  <1>13. OneReturnPerToken'
    <2>1. \A l \in Keys : filed[l] # t
      BY <1>1, Parameters DEF Inv, Safe, OneReturnPerToken
    <2>2. \A l \in Keys : filed[l] # None =>
            /\ filed[l] \in Tokens /\ token[filed[l]] = "used"
            /\ \A m \in Keys : filed[m] = filed[l] => m = l
      BY <1>2 DEF Inv, Safe, OneReturnPerToken
    <2>3. token'[t] = "used" /\ \A x \in Tokens : token[x] = "used" => token'[x] = "used"
      BY <1>1, <1>2
    <2>4. CASE filed' = filed
      BY <2>2, <2>3, <2>4 DEF OneReturnPerToken
    <2>5. CASE filed' = [filed EXCEPT ![k] = t]
      <3>1. filed'[k] = t /\ \A l \in Keys \ {k} : filed'[l] = filed[l]
        BY <1>1, <1>2, <2>5
      <3> QED BY <1>1, <2>1, <2>2, <2>3, <3>1 DEF OneReturnPerToken
    <2> QED BY <1>1, <2>4, <2>5
  <1>14. UsedForAReturn'
    <2>1. \A x \in Tokens \ {t} : token'[x] = token[x]
      BY <1>1, <1>2
    <2>2. \A x \in Tokens, c \in Carts : KeyOf[<<OrderOf[x], c>>] \in Keys
      BY Parameters
    <2>3. ASSUME NEW x \in Tokens \ {t}, token'[x] = "used"
          PROVE  \E c \in Carts : filed'[KeyOf[<<OrderOf[x], c>>]] # None
      <3>1. PICK c \in Carts : filed[KeyOf[<<OrderOf[x], c>>]] # None
        BY <2>1, <2>3 DEF Inv, Safe, UsedForAReturn
      <3>2. KeyOf[<<OrderOf[x], c>>] \in Keys
        BY <2>2
      <3>3. filed'[KeyOf[<<OrderOf[x], c>>]] # None
        BY <1>7, <3>1, <3>2
      <3> QED BY <3>3
    <2>4. \E c \in Carts : filed'[KeyOf[<<OrderOf[t], c>>]] # None
      BY <1>1, <1>8
    <2> QED BY <2>3, <2>4 DEF UsedForAReturn
  <1>15. InUse' = InUse \ {q} /\ Past' = Past \ {q}
    BY <1>1, <1>5, <1>6 DEF InUse, HasConnection, Past, Held
  <1>16. /\ Cardinality(InUse') <= Cardinality(InUse)
         /\ Cardinality(Past') = Cardinality(Past) - 1
    <2>1. Cardinality(Past \ {q}) = Cardinality(Past) - 1
      BY <1>5, Finite, FS_RemoveElement
    <2>2. Cardinality(InUse \ {q}) = Cardinality(InUse) - 1
      BY <1>5, Finite, FS_RemoveElement
    <2> QED BY <2>1, <2>2, <1>15, Finite
  <1>17. Cardinality(Filed') <= Cardinality(Filed) + 1
    <2>1. Filed' = Filed \/ Filed' = Filed \cup {k}
      BY <1>1, <1>2, <1>8 DEF Filed
    <2>2. Cardinality(Filed \cup {k}) <= Cardinality(Filed) + 1
      <3> HIDE DEF k
      <3>1. IsFiniteSet(Filed) /\ Cardinality(Filed) \in Nat
        BY Finite
      <3>2. Cardinality(Filed \cup {k}) =
              IF k \in Filed THEN Cardinality(Filed) ELSE Cardinality(Filed) + 1
        BY <3>1, FS_AddElement
      <3> QED BY <3>1, <3>2
    <2>3. Cardinality(Filed) \in Nat
      BY Finite
    <2>4. CASE Filed' = Filed
      BY <2>3, <2>4
    <2>5. CASE Filed' = Filed \cup {k}
      BY <2>2, <2>5
    <2> QED BY <2>1, <2>4, <2>5
  <1>18. WithinPool'
    BY <1>16, Finite, FinitePrime, Parameters DEF Inv, Safe, WithinPool
  <1>19. Room'
    BY <1>4, <1>16, <1>17, SameLimit, Finite, FinitePrime, Parameters DEF Inv, Safe, Room
  <1> QED
    BY <1>4, <1>9, <1>10, <1>11, <1>12, <1>13, <1>14, <1>18, <1>19
    DEF Safe, LicenceNeedsKey, SameKey

LEMMA HandleSafe ==
  ASSUME Inv, NEW q \in Submissions, Handle(q) \/ Fail(q)
  PROVE  Safe'
  <1>1. CASE ConsumeSession(q)
    <2>1. SameKey /\ UNCHANGED <<token, filed>>
      BY <1>1, KeyUntouched DEF ConsumeSession, store, process
    <2>2. \A p \in Submissions : request'[p] = request[p] \/ request'[p].pc \in {"opened", "refused"}
      BY <1>1, Endings DEF ConsumeSession, Inv, TypeOK, SubmissionRecord
    <2> QED BY <2>1, <2>2, Quiet DEF Held
  <1>2. CASE Respond(q)
    <2>1. SameKey /\ UNCHANGED <<token, filed>>
      BY <1>2, KeyUntouched DEF Respond, store, process
    <2> QED BY <1>2, <2>1, Endings, Leaves DEF Respond, Held
  <1>3. CASE Fail(q)
    <2>1. SameKey /\ UNCHANGED <<token, filed>>
      BY <1>3, KeyUntouched DEF Fail, store, process
    <2> QED BY <1>3, <2>1, Endings, Leaves DEF Fail, Refuse, Held
  <1> QED
    BY <1>1, <1>2, <1>3, TakeSafe, CountSafe, LookupSafe, FetchSafe, InsertSafe, CommitSafe,
       ConnectSafe
    DEF Handle

\* A link is granted, or it lapses while no transaction holds it.
LEMMA LinkSafe ==
  ASSUME Inv, NEW t \in Tokens, GenerateToken(t) \/ TokenExpires(t)
  PROVE  Safe'
  <1>1. /\ UNCHANGED <<filed, request, licence, licenceKey>>
        /\ token[t] # "used" /\ token' \in {[token EXCEPT ![t] = "open"], [token EXCEPT ![t] = "expired"]}
        /\ token[t] = "open" => ~RowLocked(t)
    BY DEF GenerateToken, TokenExpires, HasConnection, RowLocked, process
  <1>2. token \in [Tokens -> {"unissued", "open", "expired", "used"}]
    BY DEF Inv, TypeOK
  <1>3. \A x \in Tokens : token'[x] = "used" <=> token[x] = "used"
    BY <1>1, <1>2
  <1>4. HeldOpen'
    <2>1. \A p \in Submissions : InTransaction(p) => request[p].token # t
      BY <1>1 DEF Inv, Safe, HeldOpen, RowLocked
    <2>2. \A p \in Submissions : InTransaction(p) => request[p].token \in Tokens
      BY DEF Inv, TypeOK, HasConnection
    <2> QED BY <1>1, <1>2, <2>1, <2>2 DEF Inv, Safe, HeldOpen, InTransaction
  <1>5. \A k \in Keys : filed[k] # None => filed[k] \in Tokens
    BY DEF Inv, TypeOK
  <1>6. OneReturnPerToken' /\ UsedForAReturn'
    BY <1>1, <1>3, <1>5 DEF Inv, Safe, OneReturnPerToken, UsedForAReturn
  <1>7. Distinct' /\ InsertedFresh' /\ HitFiled' /\ LicenceNeedsKey'
    BY <1>1 DEF Inv, Safe, Distinct, InTransaction, InsertedFresh, HitFiled, Key, LicenceNeedsKey
  <1>8. InUse' = InUse /\ Past' = Past /\ Filed' = Filed /\ MonthlyLimit' = MonthlyLimit
        /\ (Bounded' <=> Bounded)
    BY <1>1 DEF InUse, HasConnection, InTransaction, Past, Filed, MonthlyLimit, Bounded
  <1>9. WithinPool' /\ Room'
    BY <1>8 DEF Inv, Safe, WithinPool, Room
  <1> QED BY <1>4, <1>6, <1>7, <1>9 DEF Safe

LEMMA InvStep == Inv /\ [Next]_vars => Inv'
  <1> SUFFICES ASSUME Inv, [Next]_vars PROVE Inv'
    OBVIOUS
  <1>1. TypeOK'
    BY TypeStep DEF Inv
  <1>2. CASE \E t \in Tokens : GenerateToken(t) \/ TokenExpires(t)
    BY <1>1, <1>2, LinkSafe DEF Inv
  <1>3. CASE \E q \in Submissions : Handle(q) \/ Fail(q)
    BY <1>1, <1>3, HandleSafe DEF Inv
  <1>4. CASE \E s \in Sessions : EndSession(s)
    <2>1. UNCHANGED <<token, filed, request, licence, licenceKey>>
      BY <1>4 DEF EndSession, store, process
    <2> QED BY <1>1, <2>1, KeyUntouched, Quiet DEF Inv
  <1>5. CASE \E b \in Browsers : Customer(b)
    <2>1. PICK b \in Browsers : Customer(b)
      BY <1>5
    <2>2. UNCHANGED <<token, filed, licence, licenceKey>>
      BY <2>1 DEF Customer, Redeem, OpenForm, Send, store, process
    <2>3. \A p \in Submissions :
            request'[p] = request[p] \/ request'[p].pc \notin Held \cup {"connected"}
      BY <2>1 DEF Customer, Redeem, OpenForm, Send, Inv, TypeOK, Held
    <2> QED BY <1>1, <2>2, <2>3, KeyUntouched, Quiet DEF Inv
  <1>6. CASE Health \/ LicenceExpires
    <2>1. UNCHANGED <<token, filed, request>> /\ SameKey
      BY <1>6 DEF Health, LicenceExpires, store, SameKey, Inv, Safe, LicenceNeedsKey
    <2> QED BY <1>1, <2>1, Quiet DEF Inv
  <1>7. CASE Restart
    <2>1. UNCHANGED <<token, filed, licenceKey>> /\ licence' # "paid"
      BY <1>7 DEF Restart, store
    <2>2. \A p \in Submissions :
            request'[p] = request[p] \/ request'[p].pc \notin Held \cup {"connected"}
      BY <1>7, Endings DEF Restart, Held
    <2> QED BY <1>1, <2>1, <2>2, KeyUntouched, Quiet DEF Inv
  <1>8. CASE UNCHANGED vars
    <2>1. UNCHANGED <<token, filed, request, licence, licenceKey>>
      BY <1>8 DEF vars
    <2> QED BY <1>1, <2>1, KeyUntouched, Quiet DEF Inv
  <1> QED BY <1>2, <1>3, <1>4, <1>5, <1>6, <1>7, <1>8 DEF Next

LEMMA InvInit == Init => Inv
  <1> SUFFICES ASSUME Init PROVE Safe
    BY TypeInit DEF Inv
  <1>1. \A q \in Submissions : request[q].pc = "idle"
    BY Endings DEF Init
  <1>2. InUse = {} /\ Past = {} /\ Filed = {}
    BY <1>1 DEF Init, InUse, HasConnection, InTransaction, Past, Held, Filed
  <1>3. WithinPool /\ Room
    BY <1>2, FS_EmptySet, Finite, Parameters DEF WithinPool, Room
  <1>4. Distinct /\ HeldOpen /\ InsertedFresh /\ HitFiled
    BY <1>1 DEF Distinct, HeldOpen, InTransaction, InsertedFresh, HitFiled
  <1>5. OneReturnPerToken /\ UsedForAReturn /\ LicenceNeedsKey
    BY DEF Init, OneReturnPerToken, UsedForAReturn, LicenceNeedsKey
  <1> QED BY <1>3, <1>4, <1>5 DEF Safe

\* The invariant the results below share.
THEOREM Invariant == Spec => []Inv
  BY InvInit, InvStep, PTL DEF Spec

-----------------------------------------------------------------------------
(* What it is for.                                                         *)

\* A link buys at most one return, filed in the commit that uses the link
\* (return_token.py:44-67).
THEOREM LinkBuysOne == Spec => []OneReturnPerToken
  <1>1. Inv => OneReturnPerToken
    BY DEF Inv, Safe
  <1> QED BY <1>1, Invariant, PTL

\* A link is never used up for nothing (returns.py:77-116).
THEOREM NeverForNothing == Spec => []UsedForAReturn
  <1>1. Inv => UsedForAReturn
    BY DEF Inv, Safe
  <1> QED BY <1>1, Invariant, PTL

\* The monthly limit is exceeded by fewer returns than there are connections
\* (returns.py:92-98, database/session.py:6-11).
THEOREM LimitHoldsNearly == Spec => []OvershootIsBounded
  <1>1. Inv => OvershootIsBounded
    BY Finite, Parameters DEF Inv, Safe, Room, Bounded, OvershootIsBounded
  <1> QED BY <1>1, Invariant, PTL

\* A paid licence is not replaced by the free tier behind the administrator's
\* back (license.py:84-102).
THEOREM LicenceStays == Spec => NoSilentDowngrade
  <1>1. Inv /\ [Next]_vars =>
          [licence = "paid" /\ licence' # "paid" => licenceKey = "expired" \/ Restart]_vars
    <2> SUFFICES ASSUME Inv, Next, licence = "paid", licence' # "paid", ~Restart
                 PROVE  licenceKey = "expired"
      BY DEF vars
    <2>1. ASSUME NEW q \in Submissions, Handle(q) PROVE licence' = licence
      BY <2>1 DEF Handle, ConsumeSession, Connect, TakeToken, CountMonth, Loaded, LookupKey, FetchOrder,
                  InsertReturn, Commit, Respond, process
    <2>2. ASSUME NEW q \in Submissions, Fail(q) PROVE licence' = licence
      BY <2>2 DEF Fail, process
    <2>3. ASSUME NEW b \in Browsers, Customer(b) PROVE licence' = licence
      BY <2>3 DEF Customer, Redeem, OpenForm, Send, process
    <2>4. Health
      BY <2>1, <2>2, <2>3 DEF Next, GenerateToken, TokenExpires, EndSession, LicenceExpires, process
    <2> QED BY <2>4 DEF Health, KeyTier, Inv, TypeOK
  <1> QED BY <1>1, Invariant, PTL DEF Spec, NoSilentDowngrade

\* The initial states grant no right.
LEMMA RightInit == Init => Right!Init
  BY DEF Init, Right!Init

\* Only a commit spends a right, and only Grant and Lapse change one besides.
LEMMA RightStep ==
  ASSUME Inv, [Next]_vars
  PROVE  [Right!Next]_<<token, filed>>
  <1>1. ASSUME NEW t \in Tokens, GenerateToken(t) PROVE Right!Next
    BY <1>1 DEF GenerateToken, Right!Next, Right!Grant
  <1>2. ASSUME NEW t \in Tokens, TokenExpires(t) PROVE Right!Next
    BY <1>2 DEF TokenExpires, Right!Next, Right!Lapse
  <1>3. ASSUME NEW q \in Submissions, Commit(q) PROVE Right!Next
    <2> DEFINE t == request[q].token
               k == Key(q)
    <2>1. /\ t \in Tokens /\ k \in Keys /\ token[t] = "open"
          /\ k \in {KeyOf[<<OrderOf[t], c>>] : c \in Carts}
          /\ token' = [token EXCEPT ![t] = "used"]
          /\ \/ filed[k] # None /\ filed' = filed
             \/ filed[k] = None /\ filed' = [filed EXCEPT ![k] = t]
      BY <1>3, CommitEffect
    <2>2. Right!File(t, k) \/ Right!Repeat(t, k)
      BY <2>1 DEF Right!File, Right!Repeat
    <2> QED BY <2>1, <2>2 DEF Right!Next
  <1>4. ASSUME NEW q \in Submissions, Handle(q), ~Commit(q) PROVE UNCHANGED <<token, filed>>
    BY <1>4 DEF Handle, ConsumeSession, Connect, TakeToken, CountMonth, LookupKey, FetchOrder,
                InsertReturn, Respond, store
  <1>5. ASSUME NEW q \in Submissions, Fail(q) PROVE UNCHANGED <<token, filed>>
    BY <1>5 DEF Fail, store
  <1>6. ASSUME NEW b \in Browsers, Customer(b) PROVE UNCHANGED <<token, filed>>
    BY <1>6 DEF Customer, Redeem, OpenForm, Send, store
  <1>7. ASSUME NEW s \in Sessions, EndSession(s) PROVE UNCHANGED <<token, filed>>
    BY <1>7 DEF EndSession, store
  <1>8. ASSUME Health \/ LicenceExpires \/ Restart PROVE UNCHANGED <<token, filed>>
    BY <1>8 DEF Health, LicenceExpires, Restart, store
  <1>9. ASSUME UNCHANGED vars PROVE UNCHANGED <<token, filed>>
    BY <1>9 DEF vars
  <1> QED BY <1>1, <1>2, <1>3, <1>4, <1>5, <1>6, <1>7, <1>8, <1>9 DEF Next

\* The portal, over two stores and with whatever fails in between, implements
\* the promise of a return link (return_token.py:44-67, returns.py:76-116).
THEOREM ImplementsRight == Spec => KeepsRight
  <1> QED BY RightInit, RightStep, Invariant, PTL DEF Spec, KeepsRight, Right!Spec

-----------------------------------------------------------------------------
(* Submissions never stand still, and each comes to an end.                *)

\* An insert waits only for what another has inserted, and that one commits;
\* without inserts, a holder of a token's row goes on; without holders, whoever
\* waits for the row with a connection in hand gets it; and without those there is
\* a connection.
LEMMA SomeoneMoves == TypeOK => SomeoneCanMove
  <1> SUFFICES ASSUME TypeOK, NEW q \in Submissions, UnderWay(q)
               PROVE  \E p \in Submissions : CanMove(p)
    BY DEF SomeoneCanMove
  <1> DEFINE Waiting == {"opened", "connected", "fetched"}
  <1>1. CASE \E p \in Submissions : UnderWay(p) /\ request[p].pc \notin Waiting
    BY <1>1 DEF CanMove
  <1>2. CASE /\ \A p \in Submissions : UnderWay(p) => request[p].pc \in Waiting
             /\ \E p \in Submissions : request[p].pc = "fetched"
    <2>1. PICK p \in Submissions : request[p].pc = "fetched"
      BY <1>2
    <2>2. \A r \in Submissions : request[r].pc # "inserted"
      BY <1>2 DEF UnderWay
    <2>3. ~Contended(p)
      BY <2>2 DEF Contended
    <2> QED BY <2>1, <2>3 DEF CanMove, UnderWay
  <1>3. CASE \A p \in Submissions : UnderWay(p) => request[p].pc \in {"opened", "connected"}
    <2>1. \A p \in Submissions : ~InTransaction(p)
      BY <1>3 DEF UnderWay, InTransaction
    <2>2. CASE \E p \in Submissions : request[p].pc = "connected"
      <3>1. PICK p \in Submissions : request[p].pc = "connected"
        BY <2>2
      <3>2. ~RowLocked(request[p].token)
        BY <2>1 DEF RowLocked
      <3> QED BY <3>1, <3>2 DEF CanMove, UnderWay
    <2>3. CASE \A p \in Submissions : request[p].pc # "connected"
      <3>1. {p \in Submissions : HasConnection(p)} = {}
        BY <2>1, <2>3 DEF HasConnection
      <3>2. PoolFree
        BY <3>1, FS_EmptySet, Parameters DEF PoolFree
      <3> QED BY <1>3, <2>3, <3>2 DEF CanMove, UnderWay
    <2> QED BY <2>2, <2>3
  <1> QED BY <1>1, <1>2, <1>3

\* While a submission is under way, there is one that waits for nothing, though
\* others hold a connection while they wait for a token's row, and a token's row
\* while they wait for a customer's or a key: none of this goes in a circle
\* (session.py:6-11, return_token.py:54-66, service.py:68-85).
THEOREM NobodyStandsStill == Spec => []SomeoneCanMove
  BY TypeCorrect, SomeoneMoves, PTL

\* The steps a submission has before it, at most.
StepsLeft(pc) ==
  CASE pc = "idle" -> 10
    [] pc = "sent" -> 9
    [] pc = "opened" -> 8
    [] pc = "connected" -> 7
    [] pc = "held" -> 6
    [] pc = "counted" -> 5
    [] pc = "missed" -> 4
    [] pc = "fetched" -> 3
    [] pc \in {"inserted", "hit"} -> 2
    [] pc = "committed" -> 1
    [] OTHER -> 0

\* What a step does to one submission.
Nearer(q) == StepsLeft(request'[q].pc) < StepsLeft(request[q].pc)

LEMMA NearerByRecord ==
  ASSUME request \in [Submissions -> SubmissionRecord], NEW q \in Submissions, NEW r,
         request' = [request EXCEPT ![q] = r],
         StepsLeft(r.pc) < StepsLeft(request[q].pc)
  PROVE  Nearer(q) /\ \A p \in Submissions : request'[p] # request[p] => Nearer(p)
  BY DEF Nearer

LEMMA NearerByRefusal ==
  ASSUME request \in [Submissions -> SubmissionRecord], NEW q \in Submissions,
         Refuse(q), UnderWay(q)
  PROVE  Nearer(q) /\ \A p \in Submissions : request'[p] # request[p] => Nearer(p)
  <1>1. StepsLeft(Refused.pc) = 0
    BY Endings DEF StepsLeft
  <1>2. StepsLeft(request[q].pc) > 0
    BY DEF UnderWay, StepsLeft, SubmissionRecord
  <1> QED BY <1>1, <1>2, NearerByRecord DEF Refuse

LEMMA NearerByGoto ==
  ASSUME request \in [Submissions -> SubmissionRecord], NEW q \in Submissions, NEW pc,
         Goto(q, pc), StepsLeft(pc) < StepsLeft(request[q].pc)
  PROVE  Nearer(q) /\ \A p \in Submissions : request'[p] # request[p] => Nearer(p)
  <1>1. [request[q] EXCEPT !.pc = pc].pc = pc
    BY DEF SubmissionRecord
  <1> QED BY <1>1, NearerByRecord DEF Goto

LEMMA HandleIsNearer ==
  ASSUME TypeOK, NEW q \in Submissions, Handle(q) \/ Fail(q)
  PROVE  Nearer(q) /\ \A p \in Submissions : request'[p] # request[p] => Nearer(p)
  <1> USE DEF UnderWay
  <1>0. request \in [Submissions -> SubmissionRecord] /\ request[q] \in SubmissionRecord
    BY DEF TypeOK
  <1>1. CASE ConsumeSession(q)
    <2> DEFINE s == request[q].session
               r == [request[q] EXCEPT !.pc = "opened", !.token = session[s], !.session = None]
    <2>1. request[q].pc = "sent" /\ (request' = [request EXCEPT ![q] = r] \/ Refuse(q))
      BY <1>1 DEF ConsumeSession, Refuse
    <2>2. StepsLeft(r.pc) < StepsLeft(request[q].pc)
      BY <1>0, <2>1 DEF StepsLeft, SubmissionRecord
    <2> HIDE DEF r
    <2> QED BY <1>0, <2>1, <2>2, NearerByRecord, NearerByRefusal
  <1>2. CASE TakeToken(q)
    <2>1. StepsLeft("held") < StepsLeft(request[q].pc)
      BY <1>2 DEF TakeToken, StepsLeft
    <2> QED BY <1>0, <1>2, <2>1, NearerByGoto, NearerByRefusal DEF TakeToken
  <1>10. CASE Connect(q)
    <2>1. StepsLeft("connected") < StepsLeft(request[q].pc)
      BY <1>10 DEF Connect, StepsLeft
    <2> QED BY <1>0, <1>10, <2>1, NearerByGoto DEF Connect
  <1>3. CASE CountMonth(q)
    <2>1. StepsLeft("counted") < StepsLeft(request[q].pc)
      BY <1>3 DEF CountMonth, StepsLeft
    <2> QED BY <1>0, <1>3, <2>1, NearerByGoto, NearerByRefusal DEF CountMonth
  <1>4. CASE LookupKey(q)
    <2>1. StepsLeft("missed") < StepsLeft(request[q].pc) /\ StepsLeft("hit") < StepsLeft(request[q].pc)
      BY <1>4 DEF LookupKey, StepsLeft
    <2> QED BY <1>0, <1>4, <2>1, NearerByGoto DEF LookupKey
  <1>5. CASE FetchOrder(q)
    <2> DEFINE o == request[q].order
               r == [request[q] EXCEPT !.pc = "fetched", !.new = {CustomerOf[o], o} \ rows]
    <2>1. request[q].pc = "missed" /\ request' = [request EXCEPT ![q] = r]
      BY <1>5 DEF FetchOrder
    <2>2. StepsLeft(r.pc) < StepsLeft(request[q].pc)
      BY <1>0, <2>1 DEF StepsLeft, SubmissionRecord
    <2> HIDE DEF r
    <2> QED BY <1>0, <2>1, <2>2, NearerByRecord
  <1>6. CASE InsertReturn(q)
    <2>1. StepsLeft("inserted") < StepsLeft(request[q].pc)
      BY <1>6 DEF InsertReturn, StepsLeft
    <2> QED BY <1>0, <1>6, <2>1, NearerByGoto, NearerByRefusal DEF InsertReturn
  <1>7. CASE Commit(q)
    <2> DEFINE r == [Unsent EXCEPT !.pc = "committed", !.browser = request[q].browser]
    <2>1. request[q].pc \in {"inserted", "hit"} /\ request' = [request EXCEPT ![q] = r]
      BY <1>7 DEF Commit
    <2>2. StepsLeft(r.pc) < StepsLeft(request[q].pc)
      BY <2>1 DEF StepsLeft, Unsent
    <2> HIDE DEF r
    <2> QED BY <1>0, <2>1, <2>2, NearerByRecord
  <1>8. CASE Respond(q)
    <2>1. request[q].pc = "committed" /\ request' = [request EXCEPT ![q] = Done]
      BY <1>8 DEF Respond
    <2>2. StepsLeft(Done.pc) < StepsLeft(request[q].pc)
      BY <2>1, Endings DEF StepsLeft
    <2> QED BY <1>0, <2>1, <2>2, NearerByRecord
  <1>9. CASE Fail(q)
    BY <1>0, <1>9, NearerByRefusal DEF Fail, HasConnection, InTransaction
  <1> QED BY <1>1, <1>2, <1>3, <1>4, <1>5, <1>6, <1>7, <1>8, <1>9, <1>10 DEF Handle

\* Whatever happens to a submission brings it nearer to its end, and each step
\* of its own does: none is taken twice, and the API never tries again.
Forward ==
  \A q \in Submissions :
    /\ request'[q] # request[q] => Nearer(q)
    /\ Handle(q) => Nearer(q)

LEMMA ForwardStep == TypeOK /\ Next => Forward
  <1> SUFFICES ASSUME TypeOK, Next PROVE Forward
    OBVIOUS
  <1>0. request \in [Submissions -> SubmissionRecord]
    BY DEF TypeOK
  <1> SUFFICES \A q \in Submissions : request'[q] # request[q] => Nearer(q)
    BY HandleIsNearer DEF Forward
  <1>1. ASSUME NEW q \in Submissions, Handle(q) \/ Fail(q)
        PROVE  \A p \in Submissions : request'[p] # request[p] => Nearer(p)
    BY <1>1, HandleIsNearer
  <1>2. ASSUME NEW q \in Submissions, NEW b \in Browsers, NEW o \in Orders, NEW c \in Carts,
               Send(q, b, o, c)
        PROVE  \A p \in Submissions : request'[p] # request[p] => Nearer(p)
    <2> DEFINE r == [pc |-> "sent", browser |-> b, session |-> cookie[b], token |-> None,
                     order |-> o, cart |-> c, new |-> {}]
    <2>1. request[q].pc = "idle" /\ request' = [request EXCEPT ![q] = r]
      BY <1>2 DEF Send
    <2>2. StepsLeft(r.pc) < StepsLeft(request[q].pc)
      BY <2>1 DEF StepsLeft
    <2> HIDE DEF r
    <2> QED BY <1>0, <2>1, <2>2, NearerByRecord
  <1>3. CASE Restart
    <2> SUFFICES ASSUME NEW q \in Submissions, request'[q] # request[q] PROVE Nearer(q)
      OBVIOUS
    <2>1. \/ UnderWay(q) /\ request'[q] = Refused
          \/ request[q].pc = "committed" /\ request'[q] = Done
      BY <1>3 DEF Restart, UnderWay, HasConnection, InTransaction
    <2>2. StepsLeft(request'[q].pc) = 0
      BY <2>1, Endings DEF StepsLeft
    <2>3. StepsLeft(request[q].pc) > 0
      BY <1>0, <2>1 DEF UnderWay, StepsLeft, SubmissionRecord
    <2> QED BY <2>2, <2>3 DEF Nearer
  <1>4. ASSUME UNCHANGED request
        PROVE  \A p \in Submissions : request'[p] # request[p] => Nearer(p)
    BY <1>4
  <1> QED
    BY <1>1, <1>2, <1>3, <1>4
    DEF Next, Customer, GenerateToken, TokenExpires, EndSession, Redeem, OpenForm,
        Health, LicenceExpires

\* No submission is under way for more than nine steps, whatever the others
\* do, what fails and how often the process restarts: what is taken of a
\* connection, a row or a key is given back (core/database/session.py:24-33,
\* returns.py:66-116).
THEOREM SubmissionsEnd == Spec => [][Forward]_vars
  <1>1. TypeOK /\ [Next]_vars => [Forward]_vars
    BY ForwardStep
  <1> QED BY <1>1, TypeCorrect, PTL DEF Spec
=============================================================================
