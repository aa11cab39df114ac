SPECIFICATION Spec
CONSTANTS
  u1 = u1  u2 = u2  u3 = u3  k1 = k1  k2 = k2  q1 = q1  q2 = q2  q3 = q3
  NoToken = NoToken
  Users = {u1, u2, u3}
  Admins = {u1, u2}
  Roles = {"admin", "viewer"}
  Changes <- SomeChanges
  Tokens = {k1, k2}
  Requests = {q1, q2, q3}
  TTL = 1
  MaxTime = 2
SYMMETRY Symmetry
CHECK_DEADLOCK FALSE
INVARIANTS TypeOK AuthorityLapses LogTells
