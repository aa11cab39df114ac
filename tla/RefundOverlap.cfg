SPECIFICATION Spec
CONSTANTS
  r1 = r1  q1 = q1  q2 = q2  q3 = q3
  o1 = o1  o2 = o2  NoOffer = NoOffer
  Returns = {r1}
  Offers = {o1, o2}
  Requests = {q1, q2}
  Addressee <- OneReturn
  Operations = {"refund", "credit", "override", "inspect", "event", "poll"}
  Replies = {"succeeded", "already", "pending", "failed", "raised"}
  MaxRetries = 2
  MaxAborts = 1
  MaxCrashes = 2
  Registered = TRUE
  Serialised = FALSE
SYMMETRY Symmetry
CHECK_DEADLOCK FALSE
INVARIANTS SucceededWasPaid ProcessingHasTask OncePerRequest
PROPERTIES RefundedOnlyOnAnswer
