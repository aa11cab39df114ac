------------------------------ MODULE MCRules ------------------------------
(***************************************************************************)
(* The seeded rules, one more, and returns on both sides of their limits.  *)
(***************************************************************************)
EXTENDS RuleSafety, TLC

CONSTANTS flagged, keepit, trusted, high, fallback, extra, e1, e2, q1

SeedRules ==
  (flagged :> FlaggedRule) @@ (keepit :> KeepItRule) @@ (trusted :> TrustedRule)
    @@ (high :> HighValueRule) @@ (fallback :> FallbackRule)

Case(prices, total, segment, rate, days, reasons) ==
  [prices |-> prices, total |-> total, segment |-> segment, rate |-> rate,
   days |-> days, reasons |-> reasons]

\* Cheap, dear and mixed orders; customers of every kind; old orders; one
\* reason and two; numbers on both sides of the rules' limits.
SomeCases ==
  {Case(p, 60, s, 0, 14, r) :
     p \in {{24}, {24, 25}}, s \in {"flagged", "trusted"},
     r \in {<<"defective">>, <<"other">>, <<"defective", "other">>}}
  \cup {Case({24}, 60, "none", 0, 15, <<"other">>), Case({49}, 1001, "trusted", 51, 30, <<"other">>),
        Case({50}, 1001, "trusted", 50, 31, <<"other">>), Case({}, 0, "none", 50, 999, <<"other">>)}

SomeChanges ==
  { [priority |-> 5], [priority |-> 1, actions |-> {"reject_return"}],
    [conditions |-> AllOf({}), actions |-> {"free_shipping_toggle"}],
    [active |-> TRUE, conditions |-> AnyOf({})] }

SomeNewRules == {Rule(100, [none |-> {}], {"keep_it"}), Rule(20, AllOf({}), {"reject_return"})}

Symmetry == Permutations(Edits)
=============================================================================
