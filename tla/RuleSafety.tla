----------------------------- MODULE RuleSafety -----------------------------
(***************************************************************************)
(* What the rules guarantee while they are being edited.                   *)
(***************************************************************************)
EXTENDS RuleEngine

\* The type invariant: rows have all of a rule's columns or are absent, only
\* rows that exist are edited, and what was decided is one of the decisions.
TypeOK ==
  /\ DOMAIN rules = RuleIds /\ DOMAIN trail = RuleIds
  /\ \A r \in RuleIds : rules[r] = None \/ IsRule(rules[r])
  /\ \A r \in RuleIds : DOMAIN trail[r] \subseteq Columns
  /\ version \in [RuleIds -> Nat] /\ updates \in [RuleIds -> Nat]
  /\ overlapped \subseteq RuleIds
  /\ DOMAIN edit = Edits /\ DOMAIN decided = Submissions
  /\ \A e \in Edits : edit[e].pc = "read" =>
       /\ edit[e].op \in {"update", "deactivate"}
       /\ edit[e].rule \in RuleIds /\ IsRule(rules[edit[e].rule]) /\ IsRule(edit[e].seen)
       /\ edit[e].version \in Nat
       /\ DOMAIN edit[e].change \subseteq Columns
       /\ "priority" \in DOMAIN edit[e].change => edit[e].change.priority \in Int
  /\ \A q \in Submissions : decided[q].pc \in {"evaluated", "committed"} =>
       decided[q].decision \in DOMAIN StatusOf

Finished(q) == decided[q].pc = "committed"
Facts(q) == BuildFacts(decided[q].case)

\* The rules that match, of those active when the submission read them.
Hits(q) ==
  {r \in RuleIds : /\ decided[q].table[r].active
                   /\ Matches(decided[q].table[r].conditions, Facts(q))}

\* A return is decided by a matching rule of least priority among the rules as
\* they stood at one moment, whatever is edited meanwhile, and by none only if
\* none matches: the database's choice is confined to equal priorities
\* (engine.py:55-100, README "The first matching rule wins").
DecidedByFirst ==
  \A q \in Submissions : Finished(q) =>
    \/ Hits(q) = {} /\ decided[q].decision = "no_match"
    \/ \E r \in Hits(q) :
         /\ \A o \in Hits(q) : decided[q].table[r].priority <= decided[q].table[o].priority
         /\ decided[q].decision = DeriveDecision(decided[q].table[r].actions)

\* Golden Rule #3: the log alone, with the facts, gives the decision again,
\* however the rules were edited since: its rows say truly whether they matched,
\* only the last may have, its actions are the decision's; and a rule that was
\* active and of higher priority is never missing (engine.py:62-100, 145-162).
DecisionExplained ==
  \A q \in Submissions : Finished(q) =>
    LET entries == decided[q].log
        n == Len(entries)
        matched == n > 0 /\ entries[n].matched
    IN
    /\ \A i \in 1..n : entries[i].matched = Matches(entries[i].conditions, Facts(q))
    /\ \A i \in 1..(n - 1) : ~entries[i].matched
    /\ decided[q].decision =
         IF matched THEN DeriveDecision(entries[n].actions) ELSE "no_match"
    /\ \A r \in RuleIds :
         /\ decided[q].table[r].active
         /\ matched => decided[q].table[r].priority
                         < decided[q].table[entries[n].rule].priority
         => \E i \in 1..n : entries[i].rule = r

\* Nobody has touched the rule, nor put another on a level with it or above.
Stands(q, r) ==
  /\ decided[q].table[r] = Seed[r]
  /\ \A o \in RuleIds \ {r} :
       decided[q].table[o].active /\ (o \in DOMAIN Seed => decided[q].table[o] # Seed[o]) =>
         decided[q].table[o].priority > Seed[r].priority

\* While the flagged-customer rule stands, no edit below it lets a flagged
\* customer's return through without an inspection, and what the keep-it rule
\* gives away is never a flagged customer's, nor of an order with a dear item,
\* sent back or not, nor a single defective item
\* (002_seed_rules.sql:24-58, engine.py:165-188).
SeededPromises ==
  \A q \in Submissions, r \in DOMAIN Seed :
    Finished(q) /\ Seed[r] = FlaggedRule /\ Stands(q, r) =>
      LET case == decided[q].case
          last == decided[q].log[Len(decided[q].log)]  \* if there is a decision by rule
      IN
      /\ case.segment = "flagged" => decided[q].status = "requires_inspection"
      /\ decided[q].decision = "keep_it" /\ last.rule \in DOMAIN Seed /\ Seed[last.rule] = KeepItRule
            /\ decided[q].table[last.rule] = KeepItRule =>
           /\ case.segment # "flagged" /\ case.reasons # <<"defective">>
           /\ \A p \in case.prices : p < 25

\* What a rule was before any update: the seed's, or what some request created.
Origin(r) == IF r \in DOMAIN Seed THEN {Seed[r]} ELSE NewRules

\* The updates in the audit log, laid over the rule as it was seeded or created,
\* give the rule in force, and no column changes without an entry that names it;
\* unless edits of the rule overlapped: the ORM leaves out a column that is what
\* the edit had read, which the log names all the same.  The log alone does not
\* give the rule: a seeded one has no entry, and the entry of a creation has its
\* name and priority only (rules.py:69-73, 84-97, 107-115).
TrailAgrees ==
  \A r \in RuleIds \ overlapped :
    rules[r] # None => \E row \in Origin(r) : rules[r] = Over(row, trail[r])

\* A version counts the updates of its rule; overlapping edits make it fall
\* behind, never run ahead (rules.py:91, 110).
VersionCounts ==
  \A r \in RuleIds :
    /\ version[r] <= 1 + updates[r]
    /\ r \notin overlapped => version[r] = 1 + updates[r]

\* However edits overlap, none takes back a column it does not name.
UnnamedColumnsStand ==
  [][ \A e \in Edits : CommitEdit(e) =>
        \A c \in DOMAIN rules[edit[e].rule] :
          rules'[edit[e].rule][c] # rules[edit[e].rule][c] =>
            c \in DOMAIN edit[e].change ]_vars
=============================================================================
