SPECIFICATION FairSpec
CONSTANTS
  r1 = r1  q1 = q1  q2 = q2  q3 = q3
  o1 = o1  o2 = o2  NoOffer = NoOffer
  Returns = {r1}
  Offers = {o1, o2}
  Requests = {q1, q2, q3}
  Addressee <- OneReturn
  Operations = {"refund", "credit", "override", "inspect", "event", "poll"}
  Replies = {"succeeded", "already", "pending", "failed", "raised"}
  MaxRetries = 3
  MaxAborts = 0
  MaxCrashes = 2
  Registered = TRUE
  Serialised = TRUE
CHECK_DEADLOCK FALSE
INVARIANTS TypeOK OneCompensation PaidAsApproved PayableIsUncompensated
PROPERTIES KeepsPromise TasksDrain
