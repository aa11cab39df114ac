SPECIFICATION Spec
CONSTANTS
  t1 = t1  t2 = t2  t3 = t3  s1 = s1  s2 = s2  s3 = s3  b1 = b1
  q1 = q1  q2 = q2  q3 = q3  o1 = o1  o2 = o2  u1 = u1  c1 = c1  c2 = c2  c3 = c3
  None = None
  Tokens = {t1, t2, t3}
  Sessions = {s1, s2, s3}
  Browsers = {b1}
  Submissions = {q1, q2, q3}
  Orders = {o1}
  Carts = {c1, c2, c3}
  Keys = {c1, c2, c3}
  OrderOf <- OneOrder
  CustomerOf <- OneOwner
  KeyOf <- SameNumber
  FreeLimit = 0
  PaidLimit = 1
  Connections = 2
  MaxFaults = 1
CONSTRAINT Race
CHECK_DEADLOCK FALSE
INVARIANTS OvershootIsBounded NoStandstill
