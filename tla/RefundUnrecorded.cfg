SPECIFICATION Spec
CONSTANTS
  r1 = r1  q1 = q1  q2 = q2  q3 = q3
  o1 = o1  o2 = o2  NoOffer = NoOffer
  Returns = {r1}
  Offers = {o1, o2}
  Requests = {q1}
  Addressee <- OneReturn
  Operations = {"refund"}
  Replies = {"succeeded"}
  MaxRetries = 3
  MaxAborts = 0
  MaxCrashes = 1
  Registered = TRUE
  Serialised = TRUE
CHECK_DEADLOCK FALSE
INVARIANTS PaidIsRecorded
