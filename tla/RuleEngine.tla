----------------------------- MODULE RuleEngine -----------------------------
(***************************************************************************)
(* The rules of a running installation: administrators edit them while     *)
(* submitted returns are decided by them.                                  *)
(*                                                                         *)
(* A submission reads the active rules in one SELECT and goes through them *)
(* in memory; what it decided, its log and the return become visible at    *)
(* its commit.  An edit reads one row and commits later, and the ORM then  *)
(* writes only the columns that differ from what the edit had read.        *)
(***************************************************************************)
EXTENDS RuleConditions

CONSTANTS
  RuleIds,      \* the rows rule_sets may have
  Seed,         \* the rules of the installation, by id: a part of RuleIds
  Cases,        \* the returns that may be submitted
  Changes,      \* what an edit may ask for: rows with some of a rule's columns
  NewRules,     \* what a new rule may be
  Edits,        \* the requests of administrators
  Submissions

None == [active |-> FALSE]

Columns == {"active", "priority", "conditions", "actions"}
IsRule(row) == row = [c \in Columns |-> row[c]] /\ row.priority \in Int

ASSUME Parameters ==
  /\ DOMAIN Seed \subseteq RuleIds
  /\ \A r \in DOMAIN Seed : IsRule(Seed[r])
  /\ \A rule \in NewRules : IsRule(rule)
  /\ \A change \in Changes :
       /\ DOMAIN change \subseteq Columns
       /\ "priority" \in DOMAIN change => change.priority \in Int

\* The rules of an installation are those of 002_seed_rules.sql, and an order has
\* finitely many prices.
ASSUME Installation ==
  /\ \A r \in DOMAIN Seed :
       Seed[r] \in {FlaggedRule, KeepItRule, TrustedRule, HighValueRule, FallbackRule}
  /\ \A case \in Cases : IsFiniteSet(case.prices) /\ case.prices \subseteq Int

VARIABLES
  rules,      \* rule_sets: None without a row
  version,    \* rule_sets.version
  trail,      \* the columns of each rule the audit log names, and their last values
  updates,    \* the number of rule_updated entries of each rule
  edit,       \* the administrators' requests
  decided,    \* the submissions
  overlapped  \* history: rules of which two edits were open at once

vars == <<rules, version, trail, updates, edit, decided, overlapped>>

NoEdit == [pc |-> "idle"]
Closed == [pc |-> "done"]
Undecided == [pc |-> "idle"]

Init ==
  /\ rules = [r \in RuleIds |-> IF r \in DOMAIN Seed THEN Seed[r] ELSE None]
  /\ version = [r \in RuleIds |-> 1]
  /\ trail = [r \in RuleIds |-> << >>]
  /\ updates = [r \in RuleIds |-> 0]
  /\ edit = [e \in Edits |-> NoEdit]
  /\ decided = [q \in Submissions |-> Undecided]
  /\ overlapped = {}

-----------------------------------------------------------------------------
(* Administrators.                                                         *)

\* The audit entry of a creation names the rule and its priority, no more.
CreateRule(e, r, rule) ==
  /\ edit[e].pc = "idle" /\ rules[r] = None
  /\ rules' = [rules EXCEPT ![r] = rule]
  /\ trail' = [trail EXCEPT ![r] = [priority |-> rule.priority]]
  /\ edit' = [edit EXCEPT ![e] = Closed]
  /\ UNCHANGED <<version, updates, decided, overlapped>>

\* db.get; "change" is the payload without what it leaves out, or is_active
\* alone when the rule is being deactivated.
BeginEdit(e, op, r, change) ==
  /\ edit[e].pc = "idle" /\ rules[r] # None
  /\ edit' = [edit EXCEPT ![e] =
       [pc |-> "read", op |-> op, rule |-> r, change |-> change,
        seen |-> rules[r], version |-> version[r]]]
  /\ overlapped' = IF \E f \in Edits : edit[f].pc = "read" /\ edit[f].rule = r
                   THEN overlapped \cup {r} ELSE overlapped
  /\ UNCHANGED <<rules, version, trail, updates, decided>>

BeginUpdate(e, r, change) == BeginEdit(e, "update", r, change)
BeginDeactivate(e, r) == BeginEdit(e, "deactivate", r, [active |-> FALSE])

\* A row of columns laid over another.
Over(row, columns) ==
  [c \in DOMAIN row |-> IF c \in DOMAIN columns THEN columns[c] ELSE row[c]]

\* Mutant: what the change does not name is written back as it was read.
WholeRow(e) == Over(edit[e].seen, edit[e].change)

\* The columns the ORM finds changed, written to the row as it is by then.
DirtyRow(e) ==
  LET was == edit[e].seen
      change == edit[e].change
  IN [c \in DOMAIN was |->
        IF c \in DOMAIN change /\ change[c] # was[c] THEN change[c]
        ELSE rules[edit[e].rule][c]]

\* Mutant: the version is raised by whatever request writes.
NextVersionAlways(e) == edit[e].version + 1

\* rule.version += 1, from the version that was read; not when deactivating.
NextVersion(e) ==
  IF edit[e].op = "update" THEN edit[e].version + 1 ELSE version[edit[e].rule]

\* The columns a log names once an entry with these has been added.
Logged(log, columns) ==
  [c \in DOMAIN log \cup DOMAIN columns |-> IF c \in DOMAIN columns THEN columns[c] ELSE log[c]]

\* Mutant: the audit log keeps the values the row had.
AuditOld(e) == Logged(trail[edit[e].rule], [c \in DOMAIN edit[e].change |-> edit[e].seen[c]])

\* The audit entry has the payload, changed or not.
AuditNew(e) == Logged(trail[edit[e].rule], edit[e].change)

CommitEdit(e) ==
  LET r == edit[e].rule IN
  /\ edit[e].pc = "read"
  /\ rules' = [rules EXCEPT ![r] = DirtyRow(e)]
  /\ version' = [version EXCEPT ![r] = NextVersion(e)]
  /\ trail' = [trail EXCEPT ![r] = AuditNew(e)]
  /\ updates' = [updates EXCEPT ![r] = IF edit[e].op = "update" THEN @ + 1 ELSE @]
  /\ edit' = [edit EXCEPT ![e] = Closed]
  /\ UNCHANGED <<decided, overlapped>>

-----------------------------------------------------------------------------
(* Submissions.                                                            *)

Active == {r \in RuleIds : rules[r].active}

\* A submission in the engine: the return and its facts, the rules as they were
\* read, those not yet consulted, the log, and the decision.
Evaluation(pc, case, table, left, log, decision) ==
  [pc |-> pc, facts |-> BuildFacts(case), case |-> case, table |-> table,
   left |-> left, log |-> log, decision |-> decision]

\* build_facts, and the one SELECT of the active rules.
BeginEvaluation(q, case) ==
  /\ decided[q].pc = "idle"
  /\ decided' = [decided EXCEPT ![q] =
       Evaluation("evaluating", case, rules, Active, << >>, "none")]
  /\ UNCHANGED <<rules, version, trail, updates, edit, overlapped>>

\* Mutant: the rule added first comes first.
NextOfAny(q) == decided[q].left

\* ORDER BY priority: nothing decides among equals.
NextOf(q) ==
  {r \in decided[q].left :
     \A o \in decided[q].left :
       decided[q].table[r].priority <= decided[q].table[o].priority}

\* Mutant: the conditions are logged as they are when the row is written.
EntryAsOfNow(q, r) ==
  [rule |-> r, conditions |-> rules[r].conditions,
   matched |-> Matches(decided[q].table[r].conditions, decided[q].facts),
   actions |-> IF Matches(decided[q].table[r].conditions, decided[q].facts)
               THEN decided[q].table[r].actions ELSE {}]

\* The row of rule_execution_log for a rule that was consulted; actions_taken is
\* empty unless it matched.
Entry(q, r) ==
  [rule |-> r, conditions |-> decided[q].table[r].conditions,
   matched |-> Matches(decided[q].table[r].conditions, decided[q].facts),
   actions |-> IF Matches(decided[q].table[r].conditions, decided[q].facts)
               THEN decided[q].table[r].actions ELSE {}]

\* One round of the loop: a rule that matches decides.
Consult(q) ==
  /\ decided[q].pc = "evaluating"
  /\ \E r \in NextOf(q) :
       decided' = [decided EXCEPT ![q] =
         IF Entry(q, r).matched
         THEN Evaluation("evaluated", @.case, @.table, @.left \ {r},
                         Append(@.log, Entry(q, r)), DeriveDecision(Entry(q, r).actions))
         ELSE Evaluation("evaluating", @.case, @.table, @.left \ {r},
                         Append(@.log, Entry(q, r)), "none")]
  /\ UNCHANGED <<rules, version, trail, updates, edit, overlapped>>

NoMatch(q) ==
  /\ decided[q].pc = "evaluating" /\ decided[q].left = {}
  /\ decided' = [decided EXCEPT ![q] =
       Evaluation("evaluated", @.case, @.table, {}, @.log, "no_match")]
  /\ UNCHANGED <<rules, version, trail, updates, edit, overlapped>>

\* The return, its decision, its status and the log are committed together, or
\* none of them is.
CommitReturn(q) ==
  /\ decided[q].pc = "evaluated"
  /\ decided' = [decided EXCEPT ![q] =
       [pc |-> "committed", case |-> decided[q].case, table |-> decided[q].table,
        log |-> decided[q].log, decision |-> decided[q].decision,
        status |-> StatusOf[decided[q].decision]]]
  /\ UNCHANGED <<rules, version, trail, updates, edit, overlapped>>

RollbackReturn(q) ==
  /\ decided[q].pc \in {"evaluating", "evaluated"}
  /\ decided' = [decided EXCEPT ![q] = [pc |-> "rolled back"]]
  /\ UNCHANGED <<rules, version, trail, updates, edit, overlapped>>

-----------------------------------------------------------------------------

Edit(e) ==
  \/ \E r \in RuleIds, rule \in NewRules : CreateRule(e, r, rule)
  \/ \E r \in RuleIds, change \in Changes : BeginUpdate(e, r, change)
  \/ \E r \in RuleIds : BeginDeactivate(e, r)
  \/ CommitEdit(e)

Submit(q) ==
  \/ \E case \in Cases : BeginEvaluation(q, case)
  \/ Consult(q) \/ NoMatch(q)
  \/ CommitReturn(q) \/ RollbackReturn(q)

Next == (\E e \in Edits : Edit(e)) \/ (\E q \in Submissions : Submit(q))

Spec == Init /\ [][Next]_vars
=============================================================================
