----------------------------- MODULE AdminUsers -----------------------------
(***************************************************************************)
(* The accounts of the admin panel.  A login takes the role from the row   *)
(* into a token that is believed until it expires: no request looks at the *)
(* row of its own actor.  A request reads the target's row, and what it    *)
(* changes is written at its commit, in the columns that differ from what  *)
(* it had read.                                                            *)
(*                                                                         *)
(* A user is an e-mail address: it is unique, and nothing changes it.      *)
(***************************************************************************)
EXTENDS Integers

CONSTANTS
  Users,      \* addresses that have an account or may get one
  Admins,     \* those that are administrators at first
  Roles,      \* VALID_ROLES, or those of them that are tried
  Changes,    \* what an update may ask for: records of role, active or both
  Tokens,     \* bound: tokens in circulation
  Requests,   \* bound: requests
  NoToken,
  TTL,        \* JWT_ACCESS_TOKEN_EXPIRE_MINUTES, in ticks
  MaxTime     \* bound: ticks

ASSUME Parameters ==
  /\ Admins \subseteq Users /\ Admins # {}
  /\ "admin" \in Roles /\ "none" \notin Roles
  /\ \A change \in Changes : "role" \in DOMAIN change => change.role \in Roles
  /\ \A change \in Changes : "active" \in DOMAIN change => change.active \in BOOLEAN
  /\ TTL \in Nat /\ MaxTime \in Nat

VARIABLES
  user,       \* users: role and is_active, Absent without a row
  token,      \* the tokens that were issued: subject, role, time of issue
  request,    \* the administrators' requests
  now,
  trail,      \* the columns of each user the audit log names, and their last values
  lost,       \* history: when a user last ceased to be an active administrator
  overlapped  \* history: users of whom two requests were open at once, resets apart

vars == <<user, token, request, now, trail, lost, overlapped>>

Absent == [role |-> "none", active |-> FALSE]
Idle == [pc |-> "idle"]
Closed == [pc |-> "done"]

Init ==
  /\ user = [u \in Users |-> IF u \in Admins THEN [role |-> "admin", active |-> TRUE] ELSE Absent]
  /\ token = [k \in Tokens |-> NoToken]
  /\ request = [q \in Requests |-> Idle]
  /\ now = 0
  /\ trail = [u \in Users |-> << >>]
  /\ lost = [u \in Users |-> 0]
  /\ overlapped = {}

IsAdmin(row) == row.role = "admin" /\ row.active

\* A token that nobody has is as good as one that has expired.
Expired(k) == token[k] # NoToken => now > token[k].issued + TTL

Tick ==
  /\ now < MaxTime
  /\ now' = now + 1
  /\ UNCHANGED <<user, token, request, trail, lost, overlapped>>

Issue(k, u) ==
  /\ Expired(k)
  /\ token' = [token EXCEPT ![k] = [sub |-> u, role |-> user[u].role, issued |-> now]]
  /\ UNCHANGED <<user, request, now, trail, lost, overlapped>>

\* Mutant: is_active is not asked.
LogInInactive(k, u) == user[u] # Absent /\ Issue(k, u)

\* Whoever knows the password of an active account.
LogIn(k, u) == user[u].active /\ Issue(k, u)

\* require_role("admin"), by the token alone.
Admitted(k) == ~Expired(k) /\ token[k].role = "admin"

\* A reset writes neither of the columns that are modelled.
Contends(p, u) == request[p].pc = "read" /\ request[p].op # "reset" /\ request[p].target = u

Begin(q, k, op, u, change) ==
  /\ request[q].pc = "idle" /\ Admitted(k)
  /\ request' = [request EXCEPT ![q] =
       [pc |-> "read", op |-> op, actor |-> token[k].sub, target |-> u,
        change |-> change, seen |-> user[u], began |-> now]]
  /\ overlapped' =
       IF op # "reset" /\ \E p \in Requests : Contends(p, u)
       THEN overlapped \cup {u} ELSE overlapped
  /\ UNCHANGED <<user, token, now, trail, lost>>

\* The address is looked up; the row, its defaults and its audit entry follow.
BeginCreate(q, k, u, role) ==
  /\ user[u] = Absent
  /\ Begin(q, k, "create", u, [role |-> role, active |-> TRUE])

\* "Cannot deactivate your own account": the role is not looked at.
MayUpdate(actor, u, change) ==
  ~(u = actor /\ "active" \in DOMAIN change /\ ~change.active)

\* Mutant: an account that does not exist is updated.
UpdateAny(q, k, u, change) ==
  Begin(q, k, "update", u, change) /\ MayUpdate(token[k].sub, u, change)

BeginUpdate(q, k, u, change) ==
  /\ user[u] # Absent
  /\ Begin(q, k, "update", u, change)
  /\ MayUpdate(token[k].sub, u, change)

NewPassword == [password |-> "new"]

BeginReset(q, k, u) ==
  /\ user[u] # Absent
  /\ Begin(q, k, "reset", u, NewPassword)

Over(row, columns) ==
  [c \in {"role", "active"} |-> IF c \in DOMAIN columns THEN columns[c] ELSE row[c]]

\* The columns a log names once an entry with these has been added.
Logged(log, columns) ==
  [c \in DOMAIN log \cup DOMAIN columns |-> IF c \in DOMAIN columns THEN columns[c] ELSE log[c]]

\* Mutant: old and new values are exchanged.
EntryOfOld(q) == request[q].seen

\* What the entry names: the role of a new account, the new values of an update
\* laid over the old ones, nothing of a reset.
EntryOf(q) ==
  CASE request[q].op = "create" -> [role |-> request[q].change.role]
    [] request[q].op = "update" -> Over(request[q].seen, request[q].change)
    [] request[q].op = "reset" -> << >>

\* The row as the UPDATE or INSERT leaves it.
Result(q) ==
  LET change == request[q].change
      seen == request[q].seen
  IN [c \in {"role", "active"} |->
        IF c \in DOMAIN change /\ change[c] # seen[c] THEN change[c]
        ELSE user[request[q].target][c]]

\* The unique index on the address fails the second of two INSERTs.
MayCommit(q) ==
  /\ request[q].pc = "read"
  /\ request[q].op = "create" => user[request[q].target] = Absent

Commit(q) ==
  LET u == request[q].target IN
  /\ MayCommit(q)
  /\ user' = [user EXCEPT ![u] = Result(q)]
  /\ trail' = [trail EXCEPT ![u] = Logged(@, EntryOf(q))]
  /\ lost' = [lost EXCEPT ![u] = IF IsAdmin(user[u]) /\ ~IsAdmin(Result(q)) THEN now ELSE @]
  /\ request' = [request EXCEPT ![q] = Closed]
  /\ UNCHANGED <<token, now, overlapped>>

Rollback(q) ==
  /\ request[q].pc = "read"
  /\ request' = [request EXCEPT ![q] = Closed]
  /\ UNCHANGED <<user, token, now, trail, lost, overlapped>>

Administer(q) ==
  \/ \E k \in Tokens, u \in Users, role \in Roles : BeginCreate(q, k, u, role)
  \/ \E k \in Tokens, u \in Users, change \in Changes : BeginUpdate(q, k, u, change)
  \/ \E k \in Tokens, u \in Users : BeginReset(q, k, u)
  \/ Commit(q) \/ Rollback(q)

Next ==
  \/ Tick
  \/ \E k \in Tokens, u \in Users : LogIn(k, u)
  \/ \E q \in Requests : Administer(q)

Spec == Init /\ [][Next]_vars
=============================================================================
