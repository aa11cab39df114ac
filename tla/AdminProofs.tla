---------------------------- MODULE AdminProofs ----------------------------
(***************************************************************************)
(* What AdminSafety states holds for every number of users, tokens and     *)
(* requests, every set of roles and of changes, and every token lifetime.  *)
(***************************************************************************)
EXTENDS AdminSafety, TLAPS

Accounts == [role : Roles, active : BOOLEAN]

GoodChange(change) ==
  /\ "role" \in DOMAIN change => change.role \in Roles
  /\ "active" \in DOMAIN change => change.active \in BOOLEAN

\* What a request carries from its beginning to its commit.
Carried(q) ==
  /\ GoodChange(request[q].change)
  /\ request[q].op = "create" =>
       /\ request[q].seen = Absent
       /\ {"role", "active"} \subseteq DOMAIN request[q].change
       /\ request[q].change.active
  /\ request[q].op = "update" =>
       /\ request[q].seen \in Accounts
       /\ MayUpdate(request[q].actor, request[q].target, request[q].change)
  /\ request[q].op = "reset" => request[q].change = NewPassword

RequestsCarry == \A q \in Requests : request[q].pc = "read" => Carried(q)

Base == TypeOK /\ RequestsCarry

LEMMA RowShape ==
  ASSUME NEW row \in Rows
  PROVE  /\ row # Absent => row \in Accounts
         /\ row \in Accounts => row # Absent
         /\ row.active \in BOOLEAN
  <1>1. row \in Accounts => row # Absent
    <2>1. SUFFICES ASSUME row \in Accounts PROVE row.role # Absent.role
      OBVIOUS
    <2>2. row.role \in Roles /\ Absent.role = "none"
      BY <2>1 DEF Accounts, Absent
    <2> QED BY <2>2, Parameters
  <1>2. row \in Accounts => row.active \in BOOLEAN
    BY DEF Accounts
  <1>3. Absent.active \in BOOLEAN
    BY DEF Absent
  <1> QED BY <1>1, <1>2, <1>3 DEF Rows, Accounts

\* A request is open, and then a record of what it has read, or it is not.
LEMMA RequestShape ==
  ASSUME TypeOK, NEW q \in Requests
  PROVE  /\ request[q].pc = "read" => request[q] \in Opened
         /\ Idle.pc # "read" /\ Closed.pc # "read"
  BY DEF TypeOK, Idle, Closed, Opened

LEMMA TokenShape ==
  ASSUME TypeOK, NEW k \in Tokens, token[k] # NoToken
  PROVE  /\ token[k].sub \in Users /\ token[k].role \in Roles
         /\ token[k].issued \in 0..now /\ now \in Nat
  BY Parameters DEF TypeOK

\* What a commit leaves in the row and in the log.
TrailTyped(log) ==
  /\ DOMAIN log \subseteq {"role", "active"}
  /\ "role" \in DOMAIN log => log.role \in Roles

LEMMA CommitShape ==
  ASSUME Base, NEW q \in Requests, MayCommit(q)
  PROVE  /\ Result(q) \in Accounts
         /\ TrailTyped(Logged(trail[request[q].target], EntryOf(q)))
  <1> DEFINE u == request[q].target
             change == request[q].change
             seen == request[q].seen
  <1>1. /\ u \in Users /\ GoodChange(change) /\ Carried(q)
        /\ request[q].op \in {"create", "update", "reset"}
        /\ user[u] \in Rows /\ TrailTyped(trail[u])
    BY RequestShape DEF Base, TypeOK, RequestsCarry, MayCommit, Carried, Opened, TrailTyped
  <1>2. SUFFICES Result(q) \in Accounts /\ TrailTyped(EntryOf(q))
    BY <1>1 DEF TrailTyped, Logged
  <1>3. CASE request[q].op = "create"
    <2>1. /\ user[u] = Absent /\ seen = Absent
          /\ "role" \in DOMAIN change /\ "active" \in DOMAIN change
          /\ change.active = TRUE /\ change.role \in Roles
      BY <1>1, <1>3 DEF MayCommit, Carried, GoodChange
    <2>2. Result(q) = [c \in {"role", "active"} |-> change[c]]
      BY <2>1 DEF Result, Absent
    <2>3. EntryOf(q) = [role |-> change.role]
      BY <1>3 DEF EntryOf
    <2>4. Result(q) \in Accounts
      BY <2>1, <2>2 DEF Accounts
    <2>5. TrailTyped([role |-> change.role])
      BY <2>1 DEF TrailTyped
    <2> QED BY <2>3, <2>4, <2>5
  <1>4. CASE request[q].op = "update"
    <2>1. user[u] \in Accounts /\ seen \in Accounts
      BY <1>1, <1>4, RowShape DEF Base, TypeOK, Carried, MayCommit
    <2>2. EntryOf(q) = Over(seen, change)
      BY <1>4 DEF EntryOf
    <2>3. Result(q) \in Accounts /\ Over(seen, change) \in Accounts
      BY <1>1, <2>1 DEF Result, Over, Accounts, GoodChange
    <2> QED BY <2>2, <2>3 DEF Accounts, TrailTyped
  <1>5. CASE request[q].op = "reset"
    <2>1. user[u] \in Accounts /\ change = NewPassword
      BY <1>1, <1>5, RowShape DEF Base, TypeOK, Carried, MayCommit
    <2>2. Result(q) = user[u]
      BY <2>1 DEF Result, NewPassword, Accounts
    <2>3. EntryOf(q) = << >>
      BY <1>5 DEF EntryOf
    <2> QED BY <2>1, <2>2, <2>3 DEF TrailTyped
  <1> QED BY <1>1, <1>3, <1>4, <1>5

LEMMA BaseInit == Init => Base
  <1> SUFFICES ASSUME Init PROVE Base
    OBVIOUS
  <1>1. \A u \in Users : user[u] \in Rows
    BY Parameters DEF Init, Rows
  <1>2. user \in [Users -> Rows] /\ DOMAIN trail = Users /\ \A u \in Users : trail[u] = << >>
    BY <1>1 DEF Init
  <1>3. lost \in [Users -> 0..MaxTime] /\ now \in 0..MaxTime
    BY Parameters DEF Init
  <1>4. request \in [Requests -> {Idle}] /\ \A q \in Requests : request[q].pc # "read"
    BY DEF Init, Idle
  <1>5. token \in [Tokens -> {NoToken}]
    BY DEF Init
  <1>6. overlapped \subseteq Users
    BY DEF Init
  <1> QED BY <1>2, <1>3, <1>4, <1>5, <1>6 DEF Base, TypeOK, RequestsCarry

LEMMA BaseBegin ==
  ASSUME Base, NEW q \in Requests, NEW k \in Tokens, NEW u \in Users,
         (\E role \in Roles : BeginCreate(q, k, u, role)) \/
         (\E change \in Changes : BeginUpdate(q, k, u, change)) \/
         BeginReset(q, k, u)
  PROVE  Base'
  <1>1. PICK op \in {"create", "update", "reset"}, change \in Claims :
          /\ Begin(q, k, op, u, change) /\ GoodChange(change)
          /\ op = "create" => /\ user[u] = Absent /\ change.active
                              /\ {"role", "active"} \subseteq DOMAIN change
          /\ op = "update" => user[u] # Absent /\ MayUpdate(token[k].sub, u, change)
          /\ op = "reset" => user[u] # Absent /\ change = NewPassword
    <2>1. CASE \E role \in Roles : BeginCreate(q, k, u, role)
      <3>1. PICK role \in Roles : BeginCreate(q, k, u, role)
        BY <2>1
      <3>2. GoodChange([role |-> role, active |-> TRUE])
        BY DEF GoodChange
      <3>3. [role |-> role, active |-> TRUE] \in Claims
        BY DEF Claims
      <3> QED BY <3>1, <3>2, <3>3 DEF BeginCreate
    <2>2. CASE \E change \in Changes : BeginUpdate(q, k, u, change)
      BY <2>2, Parameters DEF BeginUpdate, GoodChange, Claims
    <2>3. CASE BeginReset(q, k, u)
      BY <2>3 DEF BeginReset, GoodChange, Claims, NewPassword
    <2> QED BY <2>1, <2>2, <2>3
  <1>2. /\ token[k].sub \in Users /\ now \in 0..MaxTime /\ user[u] \in Rows
        /\ token[k] # NoToken
    BY <1>1, TokenShape DEF Base, TypeOK, Begin, Admitted, Expired
  <1>3. /\ request' = [request EXCEPT ![q] =
             [pc |-> "read", op |-> op, actor |-> token[k].sub, target |-> u,
              change |-> change, seen |-> user[u], began |-> now]]
        /\ UNCHANGED <<user, token, now, trail, lost>>
        /\ overlapped' \subseteq Users
    BY <1>1 DEF Begin, Base, TypeOK
  <1>4. TypeOK'
    <2>1. request' \in [Requests -> {Idle, Closed} \cup Opened]
      BY <1>1, <1>2, <1>3 DEF Base, TypeOK, Opened
    <2>2. \A p \in Requests : request'[p].pc = "read" =>
            /\ request'[p].began <= now
            /\ request'[p].op # "create" => user[request'[p].target] # Absent
      BY <1>1, <1>2, <1>3, Parameters DEF Base, TypeOK
    <2> QED BY <1>3, <2>1, <2>2 DEF Base, TypeOK
  <1>5. RequestsCarry'
    BY <1>1, <1>2, <1>3, RowShape DEF Base, RequestsCarry, Carried, MayUpdate, GoodChange
  <1> QED BY <1>4, <1>5 DEF Base

LEMMA BaseCommit ==
  ASSUME Base, NEW q \in Requests, Commit(q)
  PROVE  Base'
  <1> DEFINE u == request[q].target
  <1>1. /\ request[q].pc = "read" /\ u \in Users /\ request[q].actor \in Users
        /\ MayCommit(q)
    BY RequestShape DEF Base, TypeOK, Commit, MayCommit, Opened
  <1>2. Result(q) \in Accounts /\ TrailTyped(Logged(trail[u], EntryOf(q)))
    BY <1>1, CommitShape
  <1>3. Result(q) \in Rows /\ Result(q) # Absent
    <2>1. Result(q) \in Rows
      BY <1>2 DEF Rows, Accounts
    <2> QED BY <1>2, <2>1, RowShape
  <1>4. /\ user' \in [Users -> Rows]
        /\ \A v \in Users : user[v] # Absent => user'[v] # Absent
    BY <1>1, <1>3 DEF Base, TypeOK, Commit
  <1>6. DOMAIN trail' = Users /\ \A v \in Users : TrailTyped(trail'[v])
    BY <1>1, <1>2 DEF Base, TypeOK, Commit, TrailTyped
  <1>5. lost' \in [Users -> 0..MaxTime] /\ now' = now /\ token' = token /\ overlapped' = overlapped
    BY <1>1 DEF Base, TypeOK, Commit
  <1>7. \A p \in Requests : request'[p] = IF p = q THEN Closed ELSE request[p]
    BY DEF Commit, Base, TypeOK
  <1>8. TypeOK'
    <2>1. request' \in [Requests -> {Idle, Closed} \cup Opened]
      BY DEF Commit, Base, TypeOK
    <2>2. \A p \in Requests : request'[p].pc = "read" =>
            /\ p # q /\ request'[p] = request[p] /\ request[p].target \in Users
      BY <1>7, RequestShape DEF Closed, Base, Opened
    <2>3. \A p \in Requests : request'[p].pc = "read" =>
            /\ request'[p].began <= now
            /\ request'[p].op # "create" => user'[request'[p].target] # Absent
      BY <1>4, <2>2 DEF Base, TypeOK
    <2> QED BY <1>4, <1>5, <1>6, <2>1, <2>3 DEF Base, TypeOK, TrailTyped
  <1>9. RequestsCarry'
    BY <1>7 DEF Base, RequestsCarry, Carried, Closed
  <1> QED BY <1>8, <1>9 DEF Base

LEMMA BaseStep == Base /\ [Next]_vars => Base'
  <1> SUFFICES ASSUME Base, [Next]_vars PROVE Base'
    OBVIOUS
  <1>1. CASE Tick
    <2>1. /\ now' \in 0..MaxTime /\ now <= now'
          /\ UNCHANGED <<user, token, request, trail, lost, overlapped>>
      BY <1>1, Parameters DEF Base, TypeOK, Tick
    <2>3. /\ \A k \in Tokens : token[k] # NoToken => token[k].issued <= now'
          /\ \A q \in Requests : request[q].pc = "read" => request[q].began <= now'
      BY <2>1, Parameters, TokenShape, RequestShape DEF Base, TypeOK, Opened
    <2>4. TypeOK'
      BY <2>1, <2>3 DEF Base, TypeOK
    <2>2. RequestsCarry'
      BY <1>1 DEF Base, RequestsCarry, Carried, Tick
    <2> QED BY <2>2, <2>4 DEF Base
  <1>2. ASSUME NEW k \in Tokens, NEW u \in Users, LogIn(k, u) PROVE Base'
    <2>1. user[u] \in Rows /\ user[u].active
      BY <1>2 DEF Base, TypeOK, LogIn
    <2>2. user[u].role \in Roles
      BY <2>1 DEF Rows, Absent
    <2>3. TypeOK'
      BY <1>2, <2>2, Parameters DEF Base, TypeOK, LogIn, Issue
    <2>4. RequestsCarry'
      BY <1>2 DEF Base, RequestsCarry, Carried, LogIn, Issue
    <2> QED BY <2>3, <2>4 DEF Base
  <1>3. ASSUME NEW q \in Requests, Rollback(q) PROVE Base'
    <2>0. Closed.pc # "read"
      BY DEF Closed
    <2>1. TypeOK'
      BY <1>3, <2>0 DEF Base, TypeOK, Rollback
    <2>2. RequestsCarry'
      BY <1>3, <2>0 DEF Base, TypeOK, RequestsCarry, Carried, Rollback
    <2> QED BY <2>1, <2>2 DEF Base
  <1>4. CASE UNCHANGED vars
    <2>1. TypeOK'
      BY <1>4 DEF Base, TypeOK, vars
    <2>2. RequestsCarry'
      BY <1>4 DEF Base, RequestsCarry, Carried, vars
    <2> QED BY <2>1, <2>2 DEF Base
  <1> QED BY <1>1, <1>2, <1>3, <1>4, BaseBegin, BaseCommit DEF Next, Administer

LEMMA BaseAlways == Spec => []Base
  <1> QED BY BaseInit, BaseStep, PTL DEF Spec

\* Rows, tokens and requests are always what TypeOK says.
THEOREM TypeCorrect == Spec => []TypeOK
  <1>1. Base => TypeOK
    BY DEF Base
  <1> QED BY <1>1, BaseAlways, PTL

-----------------------------------------------------------------------------

\* A token of an administrator's outlives the authority by its lifetime at most.
TokensLapse ==
  \A k \in Tokens : token[k] # NoToken /\ token[k].role = "admin" =>
    IsAdmin(user[token[k].sub]) \/ token[k].issued <= lost[token[k].sub]

\* How a commit moves a user's authority.
LEMMA Authority ==
  ASSUME Base, NEW q \in Requests, Commit(q), NEW u \in Users
  PROVE  /\ lost[u] \in Nat /\ now \in Nat
         /\ ~IsAdmin(user[u]) => IsAdmin(user'[u]) \/ lost'[u] = lost[u]
         /\ IsAdmin(user[u]) => IsAdmin(user'[u]) \/ lost'[u] = now
  <1>1. request[q].target \in Users
    BY RequestShape DEF Base, Commit, MayCommit, Opened
  <1> QED BY <1>1, Parameters DEF Base, TypeOK, Commit

\* Whoever has lost the role or the account begins no request once the tokens
\* issued before have expired: jwt.py:13-19, admin/auth.py:35-43.
THEOREM LostAuthorityLapses == Spec => []AuthorityLapses
  <1> DEFINE I == TokensLapse /\ AuthorityLapses
  <1>1. Init => I
    <2> SUFFICES ASSUME Init PROVE I
      OBVIOUS
    <2>1. /\ \A k \in Tokens : token[k] = NoToken
          /\ \A q \in Requests : request[q].pc # "read"
      BY DEF Init, Idle
    <2> QED BY <2>1 DEF TokensLapse, AuthorityLapses
  <1>2. I /\ Base /\ [Next]_vars => I'
    <2> SUFFICES ASSUME I, Base, [Next]_vars PROVE I'
      OBVIOUS
    <2>0. TTL \in Nat /\ now \in Nat
      BY Parameters DEF Base, TypeOK
    <2>1. ASSUME NEW q \in Requests, Commit(q) PROVE I'
      <3>1. TokensLapse'
        <4> SUFFICES ASSUME NEW k \in Tokens, token[k] # NoToken, token[k].role = "admin"
                     PROVE  IsAdmin(user'[token[k].sub]) \/ token[k].issued <= lost'[token[k].sub]
          BY <2>1 DEF TokensLapse, Commit
        <4>1. token[k].sub \in Users /\ token[k].issued \in 0..now
          BY TokenShape DEF Base
        <4> QED BY <2>0, <2>1, <4>1, Authority DEF TokensLapse
      <3>2. AuthorityLapses'
        <4> SUFFICES ASSUME NEW p \in Requests, request'[p].pc = "read"
                     PROVE  \/ IsAdmin(user'[request'[p].actor])
                            \/ request'[p].began <= lost'[request'[p].actor] + TTL
          BY DEF AuthorityLapses
        <4>1. request'[p] = request[p] /\ request[p].pc = "read"
          BY <2>1 DEF Commit, Base, TypeOK, Closed
        <4>2. request[p].actor \in Users /\ request[p].began \in 0..now
          BY <4>1, <2>0, RequestShape DEF Base, TypeOK, Opened
        <4> QED BY <2>0, <2>1, <4>1, <4>2, Authority DEF AuthorityLapses
      <3> QED BY <3>1, <3>2
    <2>2. ASSUME NEW k \in Tokens, NEW u \in Users, LogIn(k, u) PROVE I'
      <3>1. TokensLapse'
        BY <2>2 DEF TokensLapse, LogIn, Issue, IsAdmin, Base, TypeOK
      <3>2. AuthorityLapses'
        BY <2>2 DEF AuthorityLapses, LogIn, Issue, IsAdmin
      <3> QED BY <3>1, <3>2
    <2>3. ASSUME NEW q \in Requests, NEW k \in Tokens, NEW op, NEW u, NEW change,
                 Begin(q, k, op, u, change) PROVE I'
      <3>1. TokensLapse'
        BY <2>3 DEF TokensLapse, Begin, IsAdmin
      <3>2. /\ token[k] # NoToken /\ token[k].role = "admin" /\ now <= token[k].issued + TTL
            /\ token[k].sub \in Users /\ token[k].issued \in Nat /\ lost[token[k].sub] \in Nat
        BY <2>0, <2>3, TokenShape DEF Begin, Admitted, Expired, Base, TypeOK
      <3>3. IsAdmin(user[token[k].sub]) \/ now <= lost[token[k].sub] + TTL
        BY <2>0, <3>2 DEF TokensLapse
      <3>4. AuthorityLapses'
        BY <2>3, <3>3 DEF AuthorityLapses, Begin, IsAdmin, Base, TypeOK
      <3> QED BY <3>1, <3>4
    <2>4. ASSUME NEW q \in Requests, Rollback(q) PROVE I'
      BY <2>4 DEF TokensLapse, AuthorityLapses, Rollback, IsAdmin, Closed, Base, TypeOK
    <2>5. CASE UNCHANGED <<user, token, request, lost>>
      BY <2>5 DEF TokensLapse, AuthorityLapses, IsAdmin
    <2> QED BY <2>1, <2>2, <2>3, <2>4, <2>5
         DEF Next, Administer, Tick, BeginCreate, BeginUpdate, BeginReset, vars
  <1> QED BY <1>1, <1>2, BaseAlways, PTL DEF Spec

-----------------------------------------------------------------------------

\* A request about a user of whom no two were open has read the row in force.
Alone ==
  \A q \in Requests : \A u \in Users \ overlapped : Contends(q, u) =>
    /\ request[q].seen = user[u]
    /\ \A p \in Requests : Contends(p, u) => p = q

Told(row, log) == row = Over([role |-> "admin", active |-> TRUE], log)

\* The entry of a commit, added to the log, tells the row that it leaves.
LEMMA CommitTells ==
  ASSUME Base, Alone, LogTells, \A u \in Users : user[u] = Absent => trail[u] = << >>, NEW q \in Requests, MayCommit(q),
         request[q].target \notin overlapped
  PROVE  Told(Result(q), Logged(trail[request[q].target], EntryOf(q)))
  <1> DEFINE u == request[q].target
             change == request[q].change
             seen == request[q].seen
  <1>1. /\ u \in Users /\ GoodChange(change) /\ Carried(q)
        /\ request[q].op \in {"create", "update", "reset"}
        /\ user[u] \in Rows /\ DOMAIN trail[u] \subseteq {"role", "active"}
    BY RequestShape DEF Base, TypeOK, RequestsCarry, MayCommit, Carried, Opened
  <1>2. CASE request[q].op = "create"
    <2>1. /\ user[u] = Absent /\ seen = Absent /\ change.active = TRUE
          /\ "role" \in DOMAIN change /\ "active" \in DOMAIN change
      BY <1>1, <1>2 DEF MayCommit, Carried
    <2>2. Result(q) = [c \in {"role", "active"} |-> change[c]]
      BY <2>1 DEF Result, Absent
    <2>3. EntryOf(q) = [role |-> change.role]
      BY <1>2 DEF EntryOf
    <2>4. trail[u] = << >>
      BY <1>1, <2>1
    <2>5. Logged(<< >>, [role |-> change.role]) = [c \in {"role"} |-> change.role]
      BY DEF Logged
    <2> DEFINE first == [role |-> "admin", active |-> TRUE]
    <2>6. first.active = change.active
      BY <2>1
    <2>7. Over(first, [c \in {"role"} |-> change.role])
            = [c \in {"role", "active"} |-> IF c = "role" THEN change.role ELSE first[c]]
      <3> HIDE DEF first
      <3> QED BY DEF Over
    <2>8. Result(q) = [c \in {"role", "active"} |-> IF c = "role" THEN change.role ELSE first[c]]
      <3> HIDE DEF first
      <3> QED BY <2>2, <2>6
    <2> QED BY <2>3, <2>4, <2>5, <2>7, <2>8 DEF Told
  <1>3. CASE request[q].op = "update"
    <2>1. seen = user[u] /\ user[u] \in Accounts
      BY <1>1, <1>3, RowShape DEF Alone, Contends, MayCommit, Base, TypeOK
    <2>2. EntryOf(q) = Over(seen, change)
      BY <1>3 DEF EntryOf
    <2>3. Result(q) = Over(seen, change)
      BY <2>1 DEF Result, Over
    <2>4. Over([role |-> "admin", active |-> TRUE], Logged(trail[u], Over(seen, change)))
            = Over(seen, change)
      BY <1>1 DEF Over, Logged
    <2> QED BY <2>2, <2>3, <2>4 DEF Told
  <1>4. CASE request[q].op = "reset"
    <2>1. user[u] \in Accounts /\ user[u] # Absent /\ change = NewPassword
      BY <1>1, <1>4, RowShape DEF Base, TypeOK, Carried, MayCommit
    <2>2. Result(q) = user[u]
      BY <2>1 DEF Result, NewPassword, Accounts
    <2>3. EntryOf(q) = << >>
      BY <1>4 DEF EntryOf
    <2>4. Told(user[u], trail[u])
      BY <1>1, <2>1 DEF LogTells, Told
    <2>5. Over([role |-> "admin", active |-> TRUE], Logged(trail[u], << >>))
            = Over([role |-> "admin", active |-> TRUE], trail[u])
      BY DEF Over, Logged
    <2> QED BY <2>2, <2>3, <2>4, <2>5 DEF Told
  <1> QED BY <1>1, <1>2, <1>3, <1>4

\* The audit log, replayed, tells the row, unless updates of that user overlapped:
\* users.py:63-68, 87-102, 119-122.
THEOREM AuditTellsTheRow == Spec => []LogTells
  <1> DEFINE NoLog == \A u \in Users : user[u] = Absent => trail[u] = << >>
             I == Alone /\ NoLog /\ LogTells
  <1>1. Init => I
    <2>1. Init => \A q \in Requests : request[q].pc # "read"
      BY DEF Init, Idle
    <2> QED BY <2>1 DEF Init, Alone, Contends, LogTells, Over
  <1>2. I /\ Base /\ [Next]_vars => I'
    <2> SUFFICES ASSUME I, Base, [Next]_vars PROVE I'
      OBVIOUS
    <2>1. ASSUME NEW q \in Requests, Commit(q) PROVE I'
      <3> DEFINE u == request[q].target
      <3>1. /\ u \in Users /\ request[q].pc = "read" /\ overlapped' = overlapped
            /\ user' = [user EXCEPT ![u] = Result(q)]
            /\ trail' = [trail EXCEPT ![u] = Logged(trail[u], EntryOf(q))]
            /\ request' = [request EXCEPT ![q] = Closed]
            /\ MayCommit(q)
        BY <2>1, RequestShape DEF Base, TypeOK, Commit, MayCommit, Opened
      <3>2. /\ user'[u] = Result(q) /\ trail'[u] = Logged(trail[u], EntryOf(q))
            /\ \A v \in Users \ {u} : user'[v] = user[v] /\ trail'[v] = trail[v]
            /\ request'[q] = Closed
            /\ \A p \in Requests \ {q} : request'[p] = request[p]
        BY <3>1 DEF Base, TypeOK
      <3>3. u \notin overlapped => Told(Result(q), Logged(trail[u], EntryOf(q)))
        BY <3>1, CommitTells
      <3>4. LogTells'
        BY <3>1, <3>2, <3>3 DEF LogTells, Told
      <3>5. NoLog'
        BY <3>1, <3>2, CommitShape, RowShape DEF Rows, Accounts
      <3>6. Alone'
        <4> SUFFICES ASSUME NEW p \in Requests, NEW v \in Users \ overlapped, Contends(p, v)'
                     PROVE  /\ request'[p].seen = user'[v]
                            /\ \A o \in Requests : Contends(o, v)' => o = p
          BY <3>1 DEF Alone
        <4>1. p # q /\ Contends(p, v)
          BY <3>2 DEF Contends, Closed
        <4>2. \A o \in Requests : Contends(o, v)' => Contends(o, v)
          BY <3>2 DEF Contends, Closed
        <4>3. request[p].seen = user[v] /\ \A o \in Requests : Contends(o, v) => o = p
          BY <4>1 DEF Alone
        <4>4. v = u => request[q].op = "reset"
          BY <3>1, <4>1, <4>3 DEF Contends
        <4>5. user'[v] = user[v]
          <5>1. CASE v = u
            <6>1. Carried(q) /\ user[u] # Absent /\ user[u] \in Rows
              BY <3>1, <4>4, <5>1 DEF Base, TypeOK, RequestsCarry
            <6>2. user[u] \in Accounts /\ request[q].change = NewPassword
              BY <4>4, <5>1, <6>1, RowShape DEF Carried
            <6>3. Result(q) = user[u]
              BY <6>2 DEF Result, NewPassword, Accounts
            <6> QED BY <3>2, <5>1, <6>3
          <5> QED BY <3>2, <5>1
        <4> QED BY <3>2, <4>1, <4>2, <4>3, <4>5
      <3> QED BY <3>4, <3>5, <3>6
    <2>2. ASSUME NEW q \in Requests, NEW k \in Tokens, NEW op, NEW u, NEW change,
                 Begin(q, k, op, u, change) PROVE I'
      <3>1. /\ request'[q] = [pc |-> "read", op |-> op, actor |-> token[k].sub, target |-> u,
                              change |-> change, seen |-> user[u], began |-> now]
            /\ \A p \in Requests \ {q} : request'[p] = request[p]
            /\ request[q].pc = "idle" /\ UNCHANGED <<user, trail>>
            /\ overlapped \subseteq overlapped'
            /\ op # "reset" /\ (\E p \in Requests : Contends(p, u)) => u \in overlapped'
        BY <2>2 DEF Begin, Base, TypeOK
      <3>2. \A p \in Requests \ {q} : \A v : Contends(p, v)' <=> Contends(p, v)
        BY <3>1 DEF Contends
      <3>3. \A v : Contends(q, v)' <=> v = u /\ op # "reset"
        BY <3>1 DEF Contends
      <3>4. Alone'
        BY <3>1, <3>2, <3>3 DEF Alone
      <3>5. LogTells' /\ NoLog'
        BY <3>1 DEF LogTells
      <3> QED BY <3>4, <3>5
    <2>3. ASSUME NEW q \in Requests, Rollback(q) PROVE I'
      <3>1. \A p \in Requests, v \in Users : Contends(p, v)' =>
              Contends(p, v) /\ request'[p] = request[p]
        BY <2>3 DEF Contends, Rollback, Closed, Base, TypeOK
      <3>2. Alone'
        BY <2>3, <3>1 DEF Alone, Rollback
      <3> QED BY <2>3, <3>2 DEF LogTells, Rollback
    <2>4. CASE UNCHANGED <<user, request, trail, overlapped>>
      BY <2>4 DEF Alone, Contends, LogTells
    <2> QED BY <2>1, <2>2, <2>3, <2>4
         DEF Next, Administer, Tick, LogIn, Issue, BeginCreate, BeginUpdate, BeginReset, vars
  <1> QED BY <1>1, <1>2, BaseAlways, PTL DEF Spec
=============================================================================
