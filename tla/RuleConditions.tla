--------------------------- MODULE RuleConditions ---------------------------
(***************************************************************************)
(* What the rule engine computes: the facts of a return, whether a rule's  *)
(* conditions hold of them, and the decision its actions stand for; and    *)
(* the rules that a new installation starts with.                          *)
(***************************************************************************)
EXTENDS Integers, Sequences, FiniteSets

\* A JSON value with its kind: Python's comparisons depend on both.  Rates are
\* in hundredths, prices and totals in whole zlotys.
Num(n) == [kind |-> "number", num |-> n, text |-> << >>]
Str(s) == [kind |-> "string", num |-> 0, text |-> <<s>>]
Several(s) == [kind |-> "list", num |-> 0, text |-> s]
Null == [kind |-> "null", num |-> 0, text |-> << >>]

\* The order of two numbers; anything else raises TypeError, which is FALSE.
\* (Strings have an order too, which no rule of the seed uses.)
Numbers(a, b) == a.kind = "number" /\ b.kind = "number"

\* OPERATORS; a name that is not there is FALSE.
Compare(op, a, b) ==
  \/ op = "equal" /\ a = b
  \/ op = "notEqual" /\ a # b
  \/ op = "lessThan" /\ Numbers(a, b) /\ a.num < b.num
  \/ op = "lessThanInclusive" /\ Numbers(a, b) /\ a.num <= b.num
  \/ op = "greaterThan" /\ Numbers(a, b) /\ a.num > b.num
  \/ op = "greaterThanInclusive" /\ Numbers(a, b) /\ a.num >= b.num

When(fact, op, value) == [fact |-> fact, op |-> op, value |-> value]

\* An absent fact fails every condition, "notEqual" too.
ConditionHolds(c, facts) ==
  /\ c.fact \in DOMAIN facts /\ facts[c.fact] # Null
  /\ Compare(c.op, facts[c.fact], c.value)

\* "all" before "any": one of them, with atoms, is all the engine reads.
AllOf(cs) == [all |-> cs]
AnyOf(cs) == [any |-> cs]

Matches(conditions, facts) ==
  IF "all" \in DOMAIN conditions
  THEN \A c \in conditions.all : ConditionHolds(c, facts)
  ELSE "any" \in DOMAIN conditions /\ \E c \in conditions.any : ConditionHolds(c, facts)

\* Mutant: actions that decide nothing stand for nothing.
DeriveNoDefault(actions) ==
  IF "keep_it" \in actions THEN "keep_it"
  ELSE IF "approve_instant" \in actions THEN "auto_approved"
  ELSE IF "require_inspection" \in actions THEN "require_inspection"
  ELSE IF "reject_return" \in actions THEN "rejected" ELSE "none"

\* actions: the set of their types.
DeriveDecision(actions) ==
  IF "keep_it" \in actions THEN "keep_it"
  ELSE IF "approve_instant" \in actions THEN "auto_approved"
  ELSE IF "require_inspection" \in actions THEN "require_inspection"
  ELSE IF "reject_return" \in actions THEN "rejected" ELSE "auto_approved"

\* decision_to_status of the return that was decided.
StatusOf ==
  [auto_approved |-> "approved", keep_it |-> "keep_it", rejected |-> "rejected",
   require_inspection |-> "requires_inspection", no_match |-> "requires_inspection"]

-----------------------------------------------------------------------------
(* The facts of a return: "case" has the order's item prices, total and    *)
(* age in days, the customer's segment and return rate, and the reasons of *)
(* the items sent back.                                                    *)

\* Mutant: the cheapest of the items is taken.
CheapestPrice(prices) ==
  IF prices = {} THEN 0 ELSE CHOOSE p \in prices : \A o \in prices : p <= o

\* Of all items of the order, returned or not.
DearestPrice(prices) ==
  IF prices = {} THEN 0 ELSE CHOOSE p \in prices : \A o \in prices : p >= o

BuildFacts(case) ==
  [ item_price_max       |-> Num(DearestPrice(case.prices)),
    total_order_value    |-> Num(case.total),
    customer_segment     |-> IF case.segment = "none" THEN Null ELSE Str(case.segment),
    customer_return_rate |-> Num(case.rate),
    days_since_purchase  |-> Num(case.days),
    return_reason        |-> IF Len(case.reasons) = 1 THEN Str(case.reasons[1])
                             ELSE Several(case.reasons),
    items_count          |-> Num(Len(case.reasons)) ]

-----------------------------------------------------------------------------
(* The seed.  A rule: whether it is active, its priority, its conditions   *)
(* and its actions.                                                        *)

Rule(priority, conditions, actions) ==
  [active |-> TRUE, priority |-> priority, conditions |-> conditions, actions |-> actions]

FlaggedRule == Rule(1,
  AnyOf({When("customer_segment", "equal", Str("flagged")),
       When("customer_return_rate", "greaterThan", Num(50))}),
  {"require_inspection", "free_shipping_toggle"})

KeepItRule == Rule(5,
  AllOf({When("item_price_max", "lessThan", Num(25)),
       When("return_reason", "notEqual", Str("defective")),
       When("days_since_purchase", "lessThanInclusive", Num(14))}),
  {"keep_it", "approve_instant"})

TrustedRule == Rule(10,
  AllOf({When("item_price_max", "lessThan", Num(50)),
       When("customer_segment", "equal", Str("trusted")),
       When("days_since_purchase", "lessThanInclusive", Num(30))}),
  {"approve_instant", "free_shipping_toggle", "offer_store_credit_bonus"})

HighValueRule == Rule(20,
  AllOf({When("total_order_value", "greaterThan", Num(1000))}), {"require_inspection"})

FallbackRule == Rule(999,
  AllOf({When("days_since_purchase", "lessThanInclusive", Num(30))}), {"approve_instant"})
=============================================================================
