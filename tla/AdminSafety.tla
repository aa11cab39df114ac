---------------------------- MODULE AdminSafety ----------------------------
(***************************************************************************)
(* What the accounts of the admin panel guarantee.                         *)
(***************************************************************************)
EXTENDS AdminUsers

Rows == [role : Roles, active : BOOLEAN] \cup {Absent}

Claims == Changes \cup [role : Roles, active : {TRUE}] \cup {NewPassword}

Opened ==
  [ pc : {"read"}, op : {"create", "update", "reset"}, actor : Users, target : Users,
    change : Claims, seen : Rows, began : 0..MaxTime ]

\* The type invariant; nothing is from the future, an account once made stays,
\* an update or a reset is always of one that exists, and the log names roles
\* that are roles.
TypeOK ==
  /\ user \in [Users -> Rows] /\ DOMAIN trail = Users
  /\ \A u \in Users :
       /\ DOMAIN trail[u] \subseteq {"role", "active"}
       /\ "role" \in DOMAIN trail[u] => trail[u].role \in Roles
  /\ token \in [Tokens -> {NoToken} \cup [sub : Users, role : Roles, issued : 0..MaxTime]]
  /\ request \in [Requests -> {Idle, Closed} \cup Opened]
  /\ now \in 0..MaxTime
  /\ lost \in [Users -> 0..MaxTime]
  /\ overlapped \subseteq Users
  /\ \A k \in Tokens : token[k] # NoToken => token[k].issued <= now
  /\ \A q \in Requests : request[q].pc = "read" =>
       /\ request[q].began <= now
       /\ request[q].op # "create" => user[request[q].target] # Absent

\* A token outlives its subject's authority, but not for longer than a token
\* lives: whoever has lost the role or the account begins no request later than
\* that (jwt.py:13-19, admin/auth.py:37-43).
AuthorityLapses ==
  \A q \in Requests : request[q].pc = "read" =>
    IsAdmin(user[request[q].actor]) \/ request[q].began <= lost[request[q].actor] + TTL

\* The audit log, replayed, tells the row in force, unless updates of that user
\* overlapped: the entry of a creation names the role, and the account is active
\* until an entry says otherwise; that of an update has both values before and
\* those asked for, that of a reset none; and those who were administrators from
\* the beginning have no entry at first (users.py:63-68, 87-102, 119-122).
LogTells ==
  \A u \in Users \ overlapped :
    user[u] # Absent => user[u] = Over([role |-> "admin", active |-> TRUE], trail[u])
=============================================================================
