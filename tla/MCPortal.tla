------------------------------ MODULE MCPortal ------------------------------
(***************************************************************************)
(* Small instances of the portal for TLC.                                  *)
(***************************************************************************)
EXTENDS PortalSafety, TLC

CONSTANTS t1, t2, s1, s2, s3, b1, q1, q2, q3, o1, o2, u1, c1, c2, c3, t3

\* Two orders of one customer with a link each.
TwoOrders == (t1 :> o1) @@ (t2 :> o2)
OneCustomer == (o1 :> u1) @@ (o2 :> u1)

\* The orders have one number on two platforms: the cart alone is the key.
SameNumber == [oc \in Orders \X Carts |-> oc[2]]

\* Nothing tells submissions or session ids apart.
Symmetry == Permutations(Submissions) \cup Permutations(Sessions)

\* A race for the connections: one order with all the links, and a session and a
\* cart for each submission, each cart a return of its own.
OneOrder == [t \in Tokens |-> o1]
OneOwner == (o1 :> u1)
Place == (q1 :> <<s1, c1>>) @@ (q2 :> <<s2, c2>>) @@ (q3 :> <<s3, c3>>)

\* Bound of the race: links are issued and sessions opened in turn, before the first
\* submission is handled.
Race ==
  /\ token[t1] = "unissued" => token[t2] = "unissued"
  /\ token[t2] = "unissued" => token[t3] = "unissued"
  /\ session[s1] = "free" => session[s2] = "free"
  /\ session[s2] = "free" => session[s3] = "free"
  /\ \A q \in Submissions :
       request[q].pc = "sent" => Place[q] = <<request[q].session, request[q].cart>>
  /\ \A q \in Submissions :
       request[q].pc \notin {"idle", "sent"} => \A s \in Sessions : session[s] # "free"
=============================================================================
