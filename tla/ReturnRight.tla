---------------------------- MODULE ReturnRight ----------------------------
(***************************************************************************)
(* What a return link promises: it is a right to one return of its order.  *)
(* The right is spent in the same instant as a return is filed with it, or *)
(* as its holder is told that the same return has been filed already; it   *)
(* is never spent for nothing, after it has lapsed, or twice.              *)
(***************************************************************************)
CONSTANTS
  Tokens,   \* the rights that may be granted
  Keys,     \* what tells one return from another
  May,      \* May[t]: the returns that t is a right to
  None      \* no right

VARIABLES
  right,    \* "unissued", "open", "expired" or "used"
  filed     \* the right each return was filed with, None before it is filed

Init ==
  /\ right = [t \in Tokens |-> "unissued"]
  /\ filed = [k \in Keys |-> None]

Grant(t) ==
  /\ right[t] = "unissued"
  /\ right' = [right EXCEPT ![t] = "open"]
  /\ UNCHANGED filed

Lapse(t) ==
  /\ right[t] = "open"
  /\ right' = [right EXCEPT ![t] = "expired"]
  /\ UNCHANGED filed

File(t, k) ==
  /\ right[t] = "open" /\ k \in May[t] /\ filed[k] = None
  /\ right' = [right EXCEPT ![t] = "used"]
  /\ filed' = [filed EXCEPT ![k] = t]

Repeat(t, k) ==
  /\ right[t] = "open" /\ k \in May[t] /\ filed[k] # None
  /\ right' = [right EXCEPT ![t] = "used"]
  /\ UNCHANGED filed

Next == \E t \in Tokens : Grant(t) \/ Lapse(t) \/ \E k \in Keys : File(t, k) \/ Repeat(t, k)

Spec == Init /\ [][Next]_<<right, filed>>
=============================================================================
