----------------------------- MODULE RuleProofs -----------------------------
(***************************************************************************)
(* Proofs about the rule engine, for any rules, returns and changes, any   *)
(* number of administrators and of submissions.                            *)
(***************************************************************************)
EXTENDS RuleSafety, Induction, TLAPS

\* What an edit asks for names columns of a rule.
GoodChange(change) ==
  /\ DOMAIN change \subseteq Columns
  /\ "priority" \in DOMAIN change => change.priority \in Int

LEMMA ChangesGood ==
  /\ \A change \in Changes : GoodChange(change)
  /\ GoodChange([active |-> FALSE])
BY Parameters DEF GoodChange, Columns

LEMMA RuleColumns == \A row : IsRule(row) => DOMAIN row = Columns
BY DEF IsRule

\* A row with all columns is a row.
LEMMA RuleIsNoNone == \A row : IsRule(row) => row # None
BY RuleColumns DEF None, Columns

\* What an edit read, and what it is to write.
EditIsGood(e) ==
  /\ edit[e].op \in {"update", "deactivate"}
  /\ edit[e].rule \in RuleIds /\ IsRule(rules[edit[e].rule]) /\ IsRule(edit[e].seen)
  /\ edit[e].version \in Nat
  /\ GoodChange(edit[e].change)

TableTyped ==
  /\ DOMAIN rules = RuleIds /\ DOMAIN trail = RuleIds
  /\ \A r \in RuleIds : rules[r] = None \/ IsRule(rules[r])
  /\ \A r \in RuleIds : DOMAIN trail[r] \subseteq Columns
  /\ version \in [RuleIds -> Nat] /\ updates \in [RuleIds -> Nat]
  /\ overlapped \subseteq RuleIds
  /\ DOMAIN edit = Edits /\ DOMAIN decided = Submissions
  /\ \A e \in Edits : edit[e].pc = "read" => EditIsGood(e)

DecisionTyped ==
  \A q \in Submissions : decided[q].pc \in {"evaluated", "committed"} =>
    decided[q].decision \in DOMAIN StatusOf

LEMMA TypeParts == TypeOK <=> TableTyped /\ DecisionTyped
BY DEF TypeOK, TableTyped, DecisionTyped, EditIsGood, GoodChange

-----------------------------------------------------------------------------
(* Edits.                                                                  *)

\* What a step of a submission leaves alone.
Table == <<rules, version, trail, updates, edit, overlapped>>

LEMMA SubmitLeavesTable ==
  ASSUME NEW q \in Submissions, Submit(q)
  PROVE  UNCHANGED Table
BY DEF Submit, BeginEvaluation, Consult, NoMatch, CommitReturn, RollbackReturn, Table

\* The row an edit leaves is a rule, and so are the columns of the trail.
LEMMA DirtyRowTyped ==
  ASSUME TableTyped, NEW e \in Edits, edit[e].pc = "read"
  PROVE  /\ IsRule(DirtyRow(e))
         /\ DOMAIN AuditNew(e) \subseteq Columns
         /\ NextVersion(e) \in Nat
<1>1. EditIsGood(e)
  BY DEF TableTyped
<1>2. DOMAIN edit[e].seen = Columns
  BY <1>1, RuleColumns DEF EditIsGood
<1>3. /\ DirtyRow(e) = [c \in Columns |-> DirtyRow(e)[c]]
      /\ DirtyRow(e).priority \in Int
  BY <1>1, <1>2 DEF DirtyRow, EditIsGood, GoodChange, IsRule, Columns
<1>4. DOMAIN AuditNew(e) \subseteq Columns
  BY <1>1 DEF AuditNew, Logged, EditIsGood, GoodChange, TableTyped
<1>5. NextVersion(e) \in Nat
  BY <1>1 DEF NextVersion, EditIsGood, TableTyped
<1> QED  BY <1>3, <1>4, <1>5 DEF IsRule

\* A step of an edit opens it, or commits it, or creates a rule.
Opens(e, op, r, change) ==
  BeginEdit(e, op, r, change) /\ GoodChange(change) /\ op \in {"update", "deactivate"}

LEMMA EditShape ==
  ASSUME NEW e \in Edits, Edit(e)
  PROVE  \/ \E r \in RuleIds, rule \in NewRules : CreateRule(e, r, rule)
         \/ \E r \in RuleIds : \E op, change : Opens(e, op, r, change)
         \/ CommitEdit(e)
<1>1. ASSUME NEW r \in RuleIds, NEW change \in Changes, BeginUpdate(e, r, change)
      PROVE  Opens(e, "update", r, change)
  BY <1>1, ChangesGood DEF BeginUpdate, Opens
<1>2. ASSUME NEW r \in RuleIds, BeginDeactivate(e, r)
      PROVE  Opens(e, "deactivate", r, [active |-> FALSE])
  BY <1>2, ChangesGood DEF BeginDeactivate, Opens
<1> QED  BY <1>1, <1>2 DEF Edit

LEMMA TableCreate ==
  ASSUME TableTyped, NEW e \in Edits, NEW r \in RuleIds, NEW rule \in NewRules,
         CreateRule(e, r, rule)
  PROVE  TableTyped'
<1>1. IsRule(rule) /\ DOMAIN rule = Columns
  BY Parameters, RuleColumns
<1>2. /\ DOMAIN rules' = RuleIds /\ DOMAIN trail' = RuleIds /\ DOMAIN edit' = Edits
      /\ rules'[r] = rule /\ trail'[r] = [priority |-> rule.priority] /\ edit'[e] = Closed
      /\ \A x \in RuleIds \ {r} : rules'[x] = rules[x] /\ trail'[x] = trail[x]
      /\ \A f \in Edits \ {e} : edit'[f] = edit[f]
  BY DEF CreateRule, TableTyped
<1>3. ASSUME NEW f \in Edits, edit'[f].pc = "read" PROVE EditIsGood(f)'
  <2>1. f # e
    BY <1>2, <1>3 DEF Closed
  <2>2. EditIsGood(f) /\ edit'[f] = edit[f]
    BY <1>2, <1>3, <2>1 DEF TableTyped
  <2>3. IsRule(rules'[edit[f].rule])
    BY <1>1, <1>2, <2>2 DEF EditIsGood
  <2> QED  BY <2>2, <2>3 DEF EditIsGood
<1>4. \A x \in RuleIds : (rules'[x] = None \/ IsRule(rules'[x]))
                         /\ DOMAIN trail'[x] \subseteq Columns
  BY <1>1, <1>2 DEF TableTyped, Columns
<1> QED  BY <1>2, <1>3, <1>4 DEF TableTyped, CreateRule

LEMMA TableOpen ==
  ASSUME TableTyped, NEW e \in Edits, NEW r \in RuleIds, NEW op, NEW change,
         Opens(e, op, r, change)
  PROVE  TableTyped'
<1>1. /\ DOMAIN edit' = Edits
      /\ edit'[e] = [pc |-> "read", op |-> op, rule |-> r, change |-> change,
                     seen |-> rules[r], version |-> version[r]]
      /\ \A f \in Edits \ {e} : edit'[f] = edit[f]
  BY DEF Opens, BeginEdit, TableTyped
<1>2. IsRule(rules[r]) /\ version[r] \in Nat
  BY DEF Opens, BeginEdit, TableTyped
<1>3. UNCHANGED <<rules, trail, version, updates, decided>>
  BY DEF Opens, BeginEdit
<1>4. EditIsGood(e)'
  BY <1>1, <1>2, <1>3 DEF EditIsGood, Opens
<1>5. \A f \in Edits \ {e} : edit'[f].pc = "read" => EditIsGood(f)'
  BY <1>1, <1>3 DEF EditIsGood, TableTyped
<1>6. overlapped' \subseteq RuleIds
  BY DEF Opens, BeginEdit, TableTyped
<1> QED  BY <1>1, <1>3, <1>4, <1>5, <1>6 DEF TableTyped

LEMMA TableCommit ==
  ASSUME TableTyped, NEW e \in Edits, CommitEdit(e)
  PROVE  TableTyped'
<1> DEFINE r == edit[e].rule
<1>1. EditIsGood(e) /\ edit[e].pc = "read" /\ r \in RuleIds
  BY DEF CommitEdit, TableTyped, EditIsGood
<1>2. /\ DOMAIN rules' = RuleIds /\ DOMAIN trail' = RuleIds /\ DOMAIN edit' = Edits
      /\ rules'[r] = DirtyRow(e) /\ trail'[r] = AuditNew(e) /\ edit'[e] = Closed
      /\ \A x \in RuleIds \ {r} : rules'[x] = rules[x] /\ trail'[x] = trail[x]
      /\ \A f \in Edits \ {e} : edit'[f] = edit[f]
  BY <1>1 DEF CommitEdit, TableTyped
<1>3. IsRule(DirtyRow(e)) /\ DOMAIN AuditNew(e) \subseteq Columns /\ NextVersion(e) \in Nat
  BY <1>1, DirtyRowTyped
<1>4. ASSUME NEW f \in Edits, edit'[f].pc = "read" PROVE EditIsGood(f)'
  <2>1. f # e
    BY <1>2, <1>4 DEF Closed
  <2>2. EditIsGood(f) /\ edit'[f] = edit[f]
    BY <1>2, <1>4, <2>1 DEF TableTyped
  <2>3. IsRule(rules'[edit[f].rule])
    BY <1>2, <1>3, <2>2 DEF EditIsGood
  <2> QED  BY <2>2, <2>3 DEF EditIsGood
<1>5. \A x \in RuleIds : (rules'[x] = None \/ IsRule(rules'[x]))
                         /\ DOMAIN trail'[x] \subseteq Columns
  BY <1>2, <1>3 DEF TableTyped, IsRule
<1>6. version' \in [RuleIds -> Nat] /\ updates' \in [RuleIds -> Nat]
  BY <1>1, <1>3 DEF CommitEdit, TableTyped
<1> QED  BY <1>2, <1>4, <1>5, <1>6 DEF TableTyped, CommitEdit

LEMMA TableStep == TableTyped /\ [Next]_vars => TableTyped'
<1> SUFFICES ASSUME TableTyped, [Next]_vars PROVE TableTyped'
  OBVIOUS
<1>1. ASSUME NEW e \in Edits, Edit(e) PROVE TableTyped'
  BY <1>1, EditShape, TableCreate, TableOpen, TableCommit
<1>2. ASSUME NEW q \in Submissions, Submit(q) PROVE TableTyped'
  <2>1. UNCHANGED Table
    BY <1>2, SubmitLeavesTable
  <2>2. DOMAIN decided' = Submissions
    BY <1>2 DEF Submit, BeginEvaluation, Consult, NoMatch, CommitReturn, RollbackReturn, TableTyped
  <2> QED  BY <2>1, <2>2 DEF Table, TableTyped, EditIsGood
<1>3. ASSUME UNCHANGED vars PROVE TableTyped'
  BY <1>3 DEF vars, TableTyped, EditIsGood
<1> QED  BY <1>1, <1>2, <1>3 DEF Next

LEMMA TableInit == Init => TableTyped
<1> SUFFICES ASSUME Init PROVE TableTyped
  OBVIOUS
<1>1. \A r \in RuleIds : rules[r] = None \/ IsRule(rules[r])
  BY Parameters DEF Init
<1> QED  BY <1>1 DEF Init, TableTyped, NoEdit

-----------------------------------------------------------------------------
(* The audit log and the version of a rule.                                *)

\* Two edits of one rule that are open have been seen to overlap.
OpenApart ==
  \A e, f \in Edits :
    edit[e].pc = "read" /\ edit[f].pc = "read" /\ edit[e].rule = edit[f].rule /\ e # f =>
      edit[e].rule \in overlapped

\* What an edit has read of a rule that no other edits is so still.
ReadIsCurrent ==
  \A e \in Edits : edit[e].pc = "read" /\ edit[e].rule \notin overlapped =>
    edit[e].seen = rules[edit[e].rule] /\ edit[e].version = version[edit[e].rule]

ReadIsBehind ==
  \A e \in Edits : edit[e].pc = "read" => edit[e].version <= 1 + updates[edit[e].rule]

\* A rule of the seed is never deleted.
SeedIsThere == \A r \in DOMAIN Seed : rules[r] # None

EditInv ==
  /\ TableTyped /\ SeedIsThere /\ OpenApart /\ ReadIsCurrent /\ ReadIsBehind
  /\ TrailAgrees /\ VersionCounts

LEMMA EditCreate ==
  ASSUME EditInv, NEW e \in Edits, NEW r \in RuleIds, NEW rule \in NewRules,
         CreateRule(e, r, rule)
  PROVE  EditInv'
<1>1. TableTyped'
  BY TableCreate DEF EditInv
<1>2. /\ rules'[r] = rule /\ trail'[r] = [priority |-> rule.priority] /\ edit'[e] = Closed /\ rules[r] = None
      /\ \A x \in RuleIds \ {r} : rules'[x] = rules[x] /\ trail'[x] = trail[x]
      /\ \A f \in Edits \ {e} : edit'[f] = edit[f]
      /\ UNCHANGED <<version, updates, overlapped>>
  BY DEF CreateRule, TableTyped, EditInv
<1>3. \A f \in Edits : edit'[f].pc = "read" =>
        f # e /\ edit'[f] = edit[f] /\ edit[f].rule \in RuleIds /\ edit[f].rule # r
  BY <1>2, RuleIsNoNone DEF Closed, EditInv, TableTyped, EditIsGood
<1>4. OpenApart' /\ ReadIsCurrent' /\ ReadIsBehind'
  BY <1>2, <1>3 DEF EditInv, OpenApart, ReadIsCurrent, ReadIsBehind
<1>5. SeedIsThere'
  BY <1>1, <1>2, Parameters, RuleIsNoNone DEF EditInv, SeedIsThere
<1>6. rules'[r] = Over(rule, trail'[r]) /\ rule \in Origin(r)
  <2>1. rule = [c \in Columns |-> rule[c]] /\ "priority" \in Columns
    BY Parameters DEF IsRule, Columns
  <2>2. rule = Over(rule, [priority |-> rule.priority])
    BY <2>1 DEF Over
  <2> QED  BY <1>2, <2>2 DEF Origin, EditInv, SeedIsThere
<1>7. TrailAgrees' /\ VersionCounts'
  BY <1>2, <1>6 DEF EditInv, TrailAgrees, VersionCounts
<1> QED  BY <1>1, <1>4, <1>5, <1>7 DEF EditInv

LEMMA EditOpen ==
  ASSUME EditInv, NEW e \in Edits, NEW r \in RuleIds, NEW op, NEW change,
         Opens(e, op, r, change)
  PROVE  EditInv'
<1>1. TableTyped'
  BY TableOpen DEF EditInv
<1>2. /\ edit'[e] = [pc |-> "read", op |-> op, rule |-> r, change |-> change,
                     seen |-> rules[r], version |-> version[r]]
      /\ \A f \in Edits \ {e} : edit'[f] = edit[f]
      /\ UNCHANGED <<rules, trail, version, updates>>
      /\ overlapped \subseteq overlapped' /\ overlapped' \subseteq overlapped \cup {r}
      /\ edit[e].pc = "idle"
  BY DEF Opens, BeginEdit, TableTyped, EditInv
<1>3. ASSUME NEW f \in Edits, edit[f].pc = "read", edit[f].rule = r PROVE r \in overlapped'
  BY <1>3 DEF Opens, BeginEdit
<1>4. OpenApart'
  BY <1>2, <1>3 DEF EditInv, OpenApart
<1>5. ReadIsCurrent'
  BY <1>2 DEF EditInv, ReadIsCurrent
<1>6. ReadIsBehind'
  BY <1>2 DEF EditInv, ReadIsBehind, VersionCounts
<1>7. SeedIsThere' /\ TrailAgrees' /\ VersionCounts'
  BY <1>2 DEF EditInv, SeedIsThere, TrailAgrees, VersionCounts
<1> QED  BY <1>1, <1>4, <1>5, <1>6, <1>7 DEF EditInv

LEMMA EditCommit ==
  ASSUME EditInv, NEW e \in Edits, CommitEdit(e)
  PROVE  EditInv'
<1> DEFINE r == edit[e].rule
<1>1. TableTyped'
  BY TableCommit DEF EditInv
<1>2. /\ EditIsGood(e) /\ edit[e].pc = "read" /\ r \in RuleIds
      /\ rules'[r] = DirtyRow(e) /\ trail'[r] = AuditNew(e) /\ edit'[e] = Closed
      /\ version'[r] = NextVersion(e)
      /\ updates'[r] = IF edit[e].op = "update" THEN updates[r] + 1 ELSE updates[r]
      /\ \A x \in RuleIds \ {r} : /\ rules'[x] = rules[x] /\ trail'[x] = trail[x]
                                 /\ version'[x] = version[x] /\ updates'[x] = updates[x]
      /\ \A f \in Edits \ {e} : edit'[f] = edit[f]
      /\ UNCHANGED overlapped
  BY DEF CommitEdit, TableTyped, EditInv, EditIsGood
<1>3. \A f \in Edits : edit'[f].pc = "read" =>
        f # e /\ edit'[f] = edit[f] /\ edit[f].rule \in RuleIds
  BY <1>2 DEF Closed, EditInv, TableTyped, EditIsGood
<1>4. OpenApart'
  BY <1>2, <1>3 DEF EditInv, OpenApart
<1>5. ASSUME NEW f \in Edits, edit'[f].pc = "read", edit[f].rule \notin overlapped
      PROVE  edit[f].rule # r
  BY <1>2, <1>3, <1>5 DEF EditInv, OpenApart
<1>6. ReadIsCurrent'
  BY <1>2, <1>3, <1>5 DEF EditInv, ReadIsCurrent
<1>7. version[r] \in Nat /\ updates[r] \in Nat /\ edit[e].version \in Nat
      /\ edit[e].version <= 1 + updates[r]
  BY <1>2 DEF EditInv, TableTyped, EditIsGood, ReadIsBehind
<1>8. updates[r] <= updates'[r]
  BY <1>2, <1>7
<1>9. ReadIsBehind'
  <2> SUFFICES ASSUME NEW f \in Edits, edit'[f].pc = "read"
               PROVE  edit'[f].version <= 1 + updates'[edit'[f].rule]
    BY DEF ReadIsBehind
  <2>1. /\ edit'[f] = edit[f] /\ edit[f].version \in Nat /\ edit[f].rule \in RuleIds
        /\ edit[f].version <= 1 + updates[edit[f].rule] /\ updates'[r] \in Nat
    BY <1>1, <1>2, <1>3 DEF EditInv, TableTyped, EditIsGood, ReadIsBehind
  <2> QED  BY <1>2, <1>7, <1>8, <2>1
<1>10. SeedIsThere'
  BY <1>1, <1>2, DirtyRowTyped, RuleIsNoNone, Parameters DEF EditInv, SeedIsThere
<1>11. TrailAgrees'
  <2>1. ASSUME r \notin overlapped
        PROVE  \E row \in Origin(r) : DirtyRow(e) = Over(row, AuditNew(e))
    <3>1. rules[r] # None /\ edit[e].seen = rules[r] /\ DOMAIN rules[r] = Columns
      BY <1>2, <2>1, RuleIsNoNone DEF EditInv, ReadIsCurrent, EditIsGood, IsRule
    <3>2. PICK row \in Origin(r) : rules[r] = Over(row, trail[r])
      BY <1>2, <2>1, <3>1 DEF EditInv, TrailAgrees
    <3>3. DOMAIN row = Columns
      BY <1>2, Parameters DEF Origin, IsRule
    <3>4. DOMAIN edit[e].change \subseteq Columns
      BY <1>2 DEF EditIsGood, GoodChange
    <3>5. \A c \in Columns : DirtyRow(e)[c] =
            IF c \in DOMAIN edit[e].change THEN edit[e].change[c] ELSE rules[r][c]
      BY <3>1 DEF DirtyRow
    <3>6. \A c \in Columns : Over(row, AuditNew(e))[c] =
            IF c \in DOMAIN edit[e].change THEN edit[e].change[c] ELSE Over(row, trail[r])[c]
      BY <3>3 DEF AuditNew, Logged, Over
    <3>7. DirtyRow(e) = [c \in Columns |-> DirtyRow(e)[c]]
      BY <3>1 DEF DirtyRow
    <3>8. Over(row, AuditNew(e)) = [c \in Columns |-> Over(row, AuditNew(e))[c]]
      BY <3>3 DEF Over
    <3> QED  BY <3>2, <3>5, <3>6, <3>7, <3>8
  <2> QED  BY <1>2, <2>1 DEF EditInv, TrailAgrees
<1>12. VersionCounts'
  <2>1. version[r] <= 1 + updates[r] /\ (r \notin overlapped => version[r] = 1 + updates[r])
    BY <1>2 DEF EditInv, VersionCounts
  <2>2. r \notin overlapped => edit[e].version = version[r]
    BY <1>2 DEF EditInv, ReadIsCurrent
  <2>3. edit[e].op = "update" => version'[r] = edit[e].version + 1 /\ updates'[r] = updates[r] + 1
    BY <1>2 DEF NextVersion
  <2>4. edit[e].op # "update" => version'[r] = version[r] /\ updates'[r] = updates[r]
    BY <1>2 DEF NextVersion
  <2>5. version'[r] <= 1 + updates'[r] /\ (r \notin overlapped => version'[r] = 1 + updates'[r])
    BY <1>7, <2>1, <2>2, <2>3, <2>4
  <2> QED  BY <1>2, <2>5 DEF EditInv, VersionCounts
<1> QED  BY <1>1, <1>4, <1>6, <1>9, <1>10, <1>11, <1>12 DEF EditInv

LEMMA EditStep == EditInv /\ [Next]_vars => EditInv'
<1> SUFFICES ASSUME EditInv, [Next]_vars PROVE EditInv'
  OBVIOUS
<1>1. ASSUME NEW e \in Edits, Edit(e) PROVE EditInv'
  BY <1>1, EditShape, EditCreate, EditOpen, EditCommit
<1>2. ASSUME UNCHANGED Table PROVE EditInv'
  <2>1. TableTyped'
    BY TableStep DEF EditInv
  <2> QED
    BY <1>2, <2>1 DEF Table, EditInv, SeedIsThere, OpenApart, ReadIsCurrent, ReadIsBehind,
       TrailAgrees, VersionCounts
<1> QED  BY <1>1, <1>2, SubmitLeavesTable DEF Next, vars, Table

LEMMA EditInvariant == Spec => []EditInv
<1>1. ASSUME Init PROVE EditInv
  <2>1. SeedIsThere
    BY <1>1, Parameters, RuleIsNoNone DEF Init, SeedIsThere
  <2>2. TrailAgrees
    <3> SUFFICES ASSUME NEW r \in DOMAIN Seed PROVE rules[r] = Over(Seed[r], trail[r])
      BY <1>1, Parameters DEF Init, TrailAgrees, Origin
    <3> QED  BY <1>1, Parameters DEF Init, Over, IsRule
  <2> QED
    BY <1>1, <2>1, <2>2, TableInit DEF Init, EditInv, OpenApart, ReadIsCurrent, ReadIsBehind,
       VersionCounts, NoEdit
<1> QED  BY <1>1, EditStep, PTL DEF Spec

\* The updates in the audit log, laid over the rule as it was seeded or created,
\* give the rule in force, unless edits of that rule overlapped, for any sequence
\* of edits (rules.py:69-73, 84-97, 107-115).
THEOREM AuditGivesTheRule == Spec => []TrailAgrees
<1>1. EditInv => TrailAgrees
  BY DEF EditInv
<1> QED  BY <1>1, EditInvariant, PTL

\* A rule's version never runs ahead of its updates, and counts them exactly
\* unless edits of the rule overlapped (rules.py:91).
THEOREM VersionNeverAhead == Spec => []VersionCounts
<1>1. EditInv => VersionCounts
  BY DEF EditInv
<1> QED  BY <1>1, EditInvariant, PTL

\* However edits overlap, a commit leaves alone the columns its change does not
\* name: the ORM writes what differs from what was read (rules.py:88-91).
THEOREM OthersColumnsStand == Spec => UnnamedColumnsStand
<1> DEFINE Stand ==
      \A e \in Edits : CommitEdit(e) =>
        \A c \in DOMAIN rules[edit[e].rule] :
          rules'[edit[e].rule][c] # rules[edit[e].rule][c] => c \in DOMAIN edit[e].change
<1>1. EditInv /\ [Next]_vars => [Stand]_vars
  <2> SUFFICES ASSUME EditInv, NEW e \in Edits, CommitEdit(e),
                      NEW c \in DOMAIN rules[edit[e].rule], c \notin DOMAIN edit[e].change
               PROVE  rules'[edit[e].rule][c] = rules[edit[e].rule][c]
    OBVIOUS
  <2>1. EditIsGood(e) /\ rules'[edit[e].rule] = DirtyRow(e)
    BY DEF CommitEdit, EditInv, TableTyped, EditIsGood
  <2>2. c \in DOMAIN edit[e].seen
    BY <2>1 DEF EditIsGood, IsRule
  <2> QED  BY <2>1, <2>2 DEF DirtyRow
<1> QED  BY <1>1, EditInvariant, PTL DEF Spec, UnnamedColumnsStand

-----------------------------------------------------------------------------
(* Decisions.  d stands for a submission's record.                         *)

ActiveIn(table) == {r \in RuleIds : table[r].active}

EntryIn(d, r) ==
  [rule |-> r, conditions |-> d.table[r].conditions,
   matched |-> Matches(d.table[r].conditions, BuildFacts(d.case)),
   actions |-> IF Matches(d.table[r].conditions, BuildFacts(d.case))
               THEN d.table[r].actions ELSE {}]

\* The rules that were read have priorities; each entry of the log is that of a
\* rule that was active.
Sound(d) ==
  /\ \A r \in ActiveIn(d.table) : d.table[r].priority \in Int
  /\ d.log \in Seq({EntryIn(d, r) : r \in ActiveIn(d.table)})

\* All that were consulted are in the log, come before all that are left, and
\* did not match.
Loop(d) ==
  /\ Sound(d)
  /\ d.facts = BuildFacts(d.case)
  /\ d.left \subseteq ActiveIn(d.table)
  /\ \A i \in 1..Len(d.log) : ~d.log[i].matched
  /\ \A r \in ActiveIn(d.table) \ d.left : \E i \in 1..Len(d.log) : d.log[i].rule = r
  /\ \A r \in ActiveIn(d.table) \ d.left, o \in d.left :
       d.table[r].priority <= d.table[o].priority

HitsIn(d) ==
  {r \in RuleIds : d.table[r].active /\ Matches(d.table[r].conditions, BuildFacts(d.case))}

FirstIn(d) ==
  \/ HitsIn(d) = {} /\ d.decision = "no_match"
  \/ \E r \in HitsIn(d) :
       /\ \A o \in HitsIn(d) : d.table[r].priority <= d.table[o].priority
       /\ d.decision = DeriveDecision(d.table[r].actions)

LastMatched(d) == Len(d.log) > 0 /\ d.log[Len(d.log)].matched

ExplainedIn(d) ==
  /\ \A i \in 1..Len(d.log) :
       d.log[i].matched = Matches(d.log[i].conditions, BuildFacts(d.case))
  /\ \A i \in 1..(Len(d.log) - 1) : ~d.log[i].matched
  /\ d.decision = IF LastMatched(d) THEN DeriveDecision(d.log[Len(d.log)].actions) ELSE "no_match"
  /\ \A r \in RuleIds :
       /\ d.table[r].active
       /\ LastMatched(d) => d.table[r].priority < d.table[d.log[Len(d.log)].rule].priority
       => \E i \in 1..Len(d.log) : d.log[i].rule = r

Outcome(d) ==
  Sound(d) /\ FirstIn(d) /\ ExplainedIn(d) /\ d.decision \in DOMAIN StatusOf

LEMMA DecisionKnown ==
  ASSUME NEW actions
  PROVE  DeriveDecision(actions) \in DOMAIN StatusOf
BY DEF DeriveDecision, StatusOf

\* An entry of a sound log tells what its rule was and did.
LEMMA EntryTells ==
  ASSUME NEW d, Sound(d), NEW i \in 1..Len(d.log)
  PROVE  \E r \in ActiveIn(d.table) : d.log[i] = EntryIn(d, r)
BY DEF Sound

LEMMA EntryTrue ==
  ASSUME NEW d, Sound(d), NEW i \in 1..Len(d.log)
  PROVE  d.log[i].matched = Matches(d.log[i].conditions, BuildFacts(d.case))
<1>1. PICK x \in ActiveIn(d.table) : d.log[i] = EntryIn(d, x)
  BY EntryTells
<1>2. d.log[i].conditions = d.table[x].conditions
  BY <1>1 DEF EntryIn
<1>3. d.log[i].matched = Matches(d.table[x].conditions, BuildFacts(d.case))
  BY <1>1 DEF EntryIn
<1> QED  BY <1>2, <1>3, Zenon

\* Whether a log is sound depends on the rules, the return and the log.
LEMMA SoundByParts ==
  ASSUME NEW d, NEW e, e.case = d.case, e.table = d.table, e.log = d.log, Sound(d)
  PROVE  Sound(e)
<1>1. \A r : EntryIn(e, r) = EntryIn(d, r)
  BY DEF EntryIn
<1> QED  BY <1>1 DEF Sound

\* Nothing is consulted when the loop begins.
LEMMA LoopBegins ==
  ASSUME TableTyped, NEW case
  PROVE  Loop(Evaluation("evaluating", case, rules, Active, << >>, "none"))
<1> DEFINE d == Evaluation("evaluating", case, rules, Active, << >>, "none")
<1>1. /\ d.table = rules /\ d.left = Active /\ d.log = << >> /\ d.case = case
      /\ d.facts = BuildFacts(case)
  BY DEF Evaluation
<1> HIDE DEF d
<1>2. ActiveIn(d.table) = Active
  BY <1>1 DEF ActiveIn, Active
<1>3. \A r \in ActiveIn(d.table) : d.table[r].priority \in Int
  BY <1>1 DEF ActiveIn, TableTyped, None, IsRule
<1>4. Sound(d)
  BY <1>1, <1>3 DEF Sound
<1>5. Loop(d)
  BY <1>1, <1>2, <1>4 DEF Loop
<1> QED  BY <1>5 DEF d

\* What consulting a rule of least priority adds to the log.
Consulted(d, r, pc, decision) ==
  Evaluation(pc, d.case, d.table, d.left \ {r}, Append(d.log, EntryIn(d, r)), decision)

LEMMA ConsultedShape ==
  ASSUME NEW d, Loop(d), NEW r \in d.left, NEW pc, NEW decision
  PROVE  LET e == Consulted(d, r, pc, decision)
             n == Len(d.log)
         IN  /\ e.case = d.case /\ e.table = d.table /\ e.left = d.left \ {r}
             /\ e.facts = BuildFacts(d.case) /\ e.decision = decision
             /\ Sound(e) /\ n \in Nat
             /\ Len(e.log) = n + 1 /\ e.log[n + 1] = EntryIn(d, r)
             /\ \A i \in 1..n : e.log[i] = d.log[i]
<1> DEFINE e == Consulted(d, r, pc, decision)
           S == {EntryIn(d, x) : x \in ActiveIn(d.table)}
           x == EntryIn(d, r)
<1>1. /\ e.case = d.case /\ e.table = d.table /\ e.left = d.left \ {r}
      /\ e.facts = BuildFacts(d.case) /\ e.decision = decision
      /\ e.log = Append(d.log, x)
  BY DEF Consulted, Evaluation
<1> HIDE DEF e
<1>2. d.log \in Seq(S) /\ x \in S
  BY DEF Loop, Sound
<1>3. \A y : EntryIn(e, y) = EntryIn(d, y)
  BY <1>1 DEF EntryIn
<1>4. {EntryIn(e, y) : y \in ActiveIn(e.table)} = S
  BY <1>1, <1>3
<1> HIDE DEF S, x
<1>5. Append(d.log, x) \in Seq(S) /\ Len(d.log) \in Nat
      /\ Len(Append(d.log, x)) = Len(d.log) + 1
      /\ Append(d.log, x)[Len(d.log) + 1] = x
      /\ \A i \in 1..Len(d.log) : Append(d.log, x)[i] = d.log[i]
  BY <1>2
<1>6. Sound(e)
  BY <1>1, <1>4, <1>5 DEF Loop, Sound
<1> QED  BY <1>1, <1>5, <1>6 DEF e, x

\* A rule that does not match leaves the loop as it should be.
LEMMA LoopGoesOn ==
  ASSUME NEW d, Loop(d), NEW r \in d.left, ~EntryIn(d, r).matched,
         \A o \in d.left : d.table[r].priority <= d.table[o].priority
  PROVE  Loop(Consulted(d, r, "evaluating", "none"))
<1> DEFINE e == Consulted(d, r, "evaluating", "none")
           n == Len(d.log)
<1>1. /\ e.case = d.case /\ e.table = d.table /\ e.left = d.left \ {r}
      /\ e.facts = BuildFacts(d.case)
      /\ Sound(e) /\ n \in Nat
      /\ Len(e.log) = n + 1 /\ e.log[n + 1] = EntryIn(d, r)
      /\ \A i \in 1..n : e.log[i] = d.log[i]
  BY ConsultedShape
<1> HIDE DEF e
<1>2. \A i \in 1..Len(e.log) : ~e.log[i].matched
  BY <1>1 DEF Loop
<1>3. EntryIn(d, r).rule = r
  BY DEF EntryIn
<1>4. ASSUME NEW x \in ActiveIn(e.table) \ e.left PROVE \E i \in 1..Len(e.log) : e.log[i].rule = x
  <2>1. CASE x = r
    BY <1>1, <1>3, <2>1
  <2>2. CASE x # r
    <3>1. PICK i \in 1..n : d.log[i].rule = x
      BY <1>1, <2>2 DEF Loop
    <3> QED  BY <1>1, <3>1
  <2> QED  BY <2>1, <2>2
<1>5. \A x \in ActiveIn(e.table) \ e.left, o \in e.left :
        e.table[x].priority <= e.table[o].priority
  BY <1>1 DEF Loop
<1>6. Loop(e)
  BY <1>1, <1>2, <1>4, <1>5 DEF Loop
<1> QED  BY <1>6 DEF e

\* A rule that matches is a first one, and the log tells why.
LEMMA LoopHits ==
  ASSUME NEW d, Loop(d), NEW r \in d.left, EntryIn(d, r).matched,
         \A o \in d.left : d.table[r].priority <= d.table[o].priority
  PROVE  Outcome(Consulted(d, r, "evaluated", DeriveDecision(EntryIn(d, r).actions)))
<1> DEFINE e == Consulted(d, r, "evaluated", DeriveDecision(EntryIn(d, r).actions))
           n == Len(d.log)
<1>1. /\ e.case = d.case /\ e.table = d.table /\ e.left = d.left \ {r}
      /\ e.decision = DeriveDecision(EntryIn(d, r).actions)
      /\ Sound(e) /\ n \in Nat
      /\ Len(e.log) = n + 1 /\ e.log[n + 1] = EntryIn(d, r)
      /\ \A i \in 1..n : e.log[i] = d.log[i]
  BY ConsultedShape
<1> HIDE DEF e
<1>2. /\ EntryIn(d, r).rule = r /\ EntryIn(d, r).actions = d.table[r].actions
      /\ Matches(d.table[r].conditions, BuildFacts(d.case))
      /\ r \in ActiveIn(d.table)
  BY DEF EntryIn, Loop
<1>3. \A i \in 1..Len(e.log) :
        e.log[i].matched = Matches(e.log[i].conditions, BuildFacts(e.case))
  BY <1>1, EntryTrue, Zenon
<1>4. \A i \in 1..n : ~e.log[i].matched
  BY <1>1 DEF Loop
<1>5. ASSUME NEW o \in HitsIn(e) PROVE e.table[r].priority <= e.table[o].priority
  <2>1. o \in ActiveIn(d.table) /\ Matches(d.table[o].conditions, BuildFacts(d.case))
    BY <1>1 DEF HitsIn, ActiveIn
  <2>2. ASSUME o \notin d.left PROVE FALSE
    <3>1. PICK i \in 1..n : d.log[i].rule = o
      BY <2>1, <2>2 DEF Loop
    <3>2. PICK x \in ActiveIn(d.table) : d.log[i] = EntryIn(d, x)
      BY <3>1, EntryTells DEF Loop
    <3>3. d.log[i].matched = Matches(d.table[o].conditions, BuildFacts(d.case))
      BY <3>1, <3>2 DEF EntryIn
    <3> QED  BY <2>1, <3>1, <3>3 DEF Loop
  <2> QED  BY <1>1, <2>2
<1>6. r \in HitsIn(e)
  BY <1>1, <1>2 DEF HitsIn, ActiveIn
<1>7. FirstIn(e)
  BY <1>1, <1>2, <1>5, <1>6 DEF FirstIn
<1>8. LastMatched(e) /\ e.log[Len(e.log)] = EntryIn(d, r)
  BY <1>1 DEF LastMatched
<1>9. ASSUME NEW x \in RuleIds, e.table[x].active, e.table[x].priority < e.table[r].priority
      PROVE  \E i \in 1..Len(e.log) : e.log[i].rule = x
  <2>1. x \in ActiveIn(d.table) /\ d.table[x].priority \in Int /\ d.table[r].priority \in Int
    BY <1>1, <1>2, <1>9 DEF ActiveIn, Loop, Sound
  <2>2. x \notin d.left
    BY <1>1, <1>9, <2>1
  <2>3. PICK i \in 1..n : d.log[i].rule = x
    BY <2>1, <2>2 DEF Loop
  <2> QED  BY <1>1, <2>3
<1>10. ExplainedIn(e)
  BY <1>1, <1>2, <1>3, <1>4, <1>8, <1>9 DEF ExplainedIn
<1>11. Outcome(e)
  BY <1>1, <1>7, <1>10, DecisionKnown DEF Outcome
<1> QED  BY <1>11 DEF e

\* When nothing is left, nothing has matched.
LEMMA LoopEnds ==
  ASSUME NEW d, Loop(d), d.left = {}
  PROVE  Outcome(Evaluation("evaluated", d.case, d.table, {}, d.log, "no_match"))
<1> DEFINE e == Evaluation("evaluated", d.case, d.table, {}, d.log, "no_match")
<1>1. /\ e.case = d.case /\ e.table = d.table /\ e.log = d.log /\ e.decision = "no_match"
  BY DEF Evaluation
<1> HIDE DEF e
<1>2. Len(d.log) \in Nat
  BY DEF Loop, Sound
<1>3. \A i \in 1..Len(d.log) : ~d.log[i].matched
  BY DEF Loop
<1>4. ~LastMatched(e)
  BY <1>1, <1>2, <1>3 DEF LastMatched
<1>5. \A r \in ActiveIn(d.table) : \E i \in 1..Len(d.log) : d.log[i].rule = r
  BY DEF Loop
<1>6. \A i \in 1..Len(d.log) :
        d.log[i].matched = Matches(d.log[i].conditions, BuildFacts(d.case))
  BY EntryTrue, Zenon DEF Loop
<1>7. ExplainedIn(e)
  BY <1>1, <1>2, <1>3, <1>4, <1>5, <1>6 DEF ExplainedIn, ActiveIn
<1>8. ASSUME NEW o \in HitsIn(e) PROVE FALSE
  <2>1. o \in ActiveIn(d.table) /\ Matches(d.table[o].conditions, BuildFacts(d.case))
    BY <1>1 DEF HitsIn, ActiveIn
  <2>2. PICK i \in 1..Len(d.log) : d.log[i].rule = o
    BY <1>5, <2>1
  <2>3. PICK x \in ActiveIn(d.table) : d.log[i] = EntryIn(d, x)
    BY EntryTells DEF Loop
  <2>4. d.log[i].matched = Matches(d.table[o].conditions, BuildFacts(d.case))
    BY <2>2, <2>3 DEF EntryIn
  <2> QED  BY <1>3, <2>1, <2>4
<1>9. FirstIn(e)
  BY <1>1, <1>8 DEF FirstIn
<1>10. Sound(e)
  BY <1>1, SoundByParts DEF Loop
<1>11. Outcome(e)
  BY <1>1, <1>7, <1>9, <1>10 DEF Outcome, StatusOf
<1> QED  BY <1>11 DEF e

\* What is true of every submission.
Decides ==
  /\ TableTyped
  /\ \A q \in Submissions :
       /\ decided[q].pc = "evaluating" => Loop(decided[q])
       /\ decided[q].pc \in {"evaluated", "committed"} => Outcome(decided[q])

\* The return as it is committed.
Committed(d) ==
  [pc |-> "committed", case |-> d.case, table |-> d.table, log |-> d.log,
   decision |-> d.decision, status |-> StatusOf[d.decision]]

LEMMA CommitKeepsOutcome ==
  ASSUME NEW d, Outcome(d)
  PROVE  Outcome(Committed(d))
<1> DEFINE e == Committed(d)
<1>1. /\ e.case = d.case /\ e.table = d.table /\ e.log = d.log /\ e.decision = d.decision
  BY DEF Committed
<1> HIDE DEF e
<1>2. HitsIn(e) = HitsIn(d) /\ (LastMatched(e) <=> LastMatched(d))
  BY <1>1 DEF HitsIn, LastMatched
<1>3. FirstIn(e)
  BY <1>1, <1>2 DEF FirstIn, Outcome
<1>4. ExplainedIn(e)
  BY <1>1, <1>2 DEF ExplainedIn, Outcome
<1>5. Sound(e)
  BY <1>1, SoundByParts DEF Outcome
<1>6. Outcome(e)
  BY <1>1, <1>3, <1>4, <1>5 DEF Outcome
<1> QED  BY <1>6 DEF e

\* The entry an action logs is that of the record.
LEMMA EntryIsIn ==
  ASSUME NEW q \in Submissions, Loop(decided[q]), NEW r
  PROVE  Entry(q, r) = EntryIn(decided[q], r)
BY DEF Entry, EntryIn, Loop

LEMMA ConsultKeeps ==
  ASSUME Decides, NEW q \in Submissions, Consult(q)
  PROVE  \/ decided'[q].pc = "evaluating" /\ Loop(decided'[q])
         \/ decided'[q].pc = "evaluated" /\ Outcome(decided'[q])
<1> DEFINE d == decided[q]
<1>1. Loop(d) /\ q \in DOMAIN decided
  BY DEF Decides, Consult, TableTyped
<1>2. PICK r \in NextOf(q) :
        decided' = [decided EXCEPT ![q] =
          IF Entry(q, r).matched
          THEN Evaluation("evaluated", @.case, @.table, @.left \ {r},
                          Append(@.log, Entry(q, r)), DeriveDecision(Entry(q, r).actions))
          ELSE Evaluation("evaluating", @.case, @.table, @.left \ {r},
                          Append(@.log, Entry(q, r)), "none")]
  BY DEF Consult
<1>3. r \in d.left /\ \A o \in d.left : d.table[r].priority <= d.table[o].priority
  BY DEF NextOf
<1>4. Entry(q, r) = EntryIn(d, r)
  BY <1>1, EntryIsIn
<1>5. CASE EntryIn(d, r).matched
  <2>1. decided'[q] = Consulted(d, r, "evaluated", DeriveDecision(EntryIn(d, r).actions))
    BY <1>1, <1>2, <1>4, <1>5 DEF Consulted
  <2>2. Outcome(Consulted(d, r, "evaluated", DeriveDecision(EntryIn(d, r).actions)))
    BY <1>1, <1>3, <1>5, LoopHits
  <2>3. Consulted(d, r, "evaluated", DeriveDecision(EntryIn(d, r).actions)).pc = "evaluated"
    BY DEF Consulted, Evaluation
  <2> QED  BY <2>1, <2>2, <2>3
<1>6. CASE ~EntryIn(d, r).matched
  <2>1. decided'[q] = Consulted(d, r, "evaluating", "none")
    BY <1>1, <1>2, <1>4, <1>6 DEF Consulted
  <2>2. Loop(Consulted(d, r, "evaluating", "none"))
    BY <1>1, <1>3, <1>6, LoopGoesOn
  <2>3. Consulted(d, r, "evaluating", "none").pc = "evaluating"
    BY DEF Consulted, Evaluation
  <2> QED  BY <2>1, <2>2, <2>3
<1> QED  BY <1>5, <1>6

\* A step of a submission changes its own record only, and as the loop goes.
LEMMA SubmitKeeps ==
  ASSUME Decides, NEW q \in Submissions, Submit(q)
  PROVE  /\ \A p \in Submissions \ {q} : decided'[p] = decided[p]
         /\ decided'[q].pc = "evaluating" => Loop(decided'[q])
         /\ decided'[q].pc \in {"evaluated", "committed"} => Outcome(decided'[q])
<1>1. \A p \in Submissions \ {q} : decided'[p] = decided[p]
  BY DEF Submit, BeginEvaluation, Consult, NoMatch, CommitReturn, RollbackReturn, Decides,
     TableTyped
<1>2. q \in DOMAIN decided
  BY DEF Decides, TableTyped
<1>3. ASSUME NEW case \in Cases, BeginEvaluation(q, case)
      PROVE  decided'[q].pc = "evaluating" /\ Loop(decided'[q])
  <2>1. decided'[q] = Evaluation("evaluating", case, rules, Active, << >>, "none")
    BY <1>2, <1>3 DEF BeginEvaluation
  <2>2. Evaluation("evaluating", case, rules, Active, << >>, "none").pc = "evaluating"
    BY DEF Evaluation
  <2> QED  BY <2>1, <2>2, LoopBegins DEF Decides
<1>4. ASSUME NoMatch(q) PROVE decided'[q].pc = "evaluated" /\ Outcome(decided'[q])
  <2> DEFINE d == decided[q]
  <2>1. Loop(d) /\ d.left = {}
    BY <1>4 DEF NoMatch, Decides
  <2>2. decided'[q] = Evaluation("evaluated", d.case, d.table, {}, d.log, "no_match")
    BY <1>2, <1>4 DEF NoMatch
  <2>3. Evaluation("evaluated", d.case, d.table, {}, d.log, "no_match").pc = "evaluated"
    BY DEF Evaluation
  <2> HIDE DEF d
  <2> QED  BY <2>1, <2>2, <2>3, LoopEnds
<1>5. ASSUME CommitReturn(q) PROVE Outcome(decided'[q]) /\ decided'[q].pc = "committed"
  <2>1. decided'[q] = Committed(decided[q])
    BY <1>2, <1>5 DEF CommitReturn, Committed
  <2>2. Outcome(decided[q])
    BY <1>5 DEF CommitReturn, Decides
  <2>3. Committed(decided[q]).pc = "committed"
    BY DEF Committed
  <2> QED  BY <2>1, <2>2, <2>3, CommitKeepsOutcome
<1>6. ASSUME RollbackReturn(q) PROVE decided'[q].pc = "rolled back"
  BY <1>2, <1>6 DEF RollbackReturn
<1> QED  BY <1>1, <1>3, <1>4, <1>5, <1>6, ConsultKeeps DEF Submit

LEMMA DecidesStep == Decides /\ [Next]_vars => Decides'
<1> SUFFICES ASSUME Decides, [Next]_vars PROVE Decides'
  OBVIOUS
<1>1. TableTyped'
  BY TableStep DEF Decides
<1>2. ASSUME UNCHANGED decided PROVE Decides'
  BY <1>1, <1>2 DEF Decides
<1>3. ASSUME NEW e \in Edits, Edit(e) PROVE UNCHANGED decided
  BY <1>3 DEF Edit, CreateRule, BeginUpdate, BeginDeactivate, BeginEdit, CommitEdit
<1>4. ASSUME NEW q \in Submissions, Submit(q) PROVE Decides'
  <2>1. ASSUME NEW p \in Submissions
        PROVE  /\ decided'[p].pc = "evaluating" => Loop(decided'[p])
               /\ decided'[p].pc \in {"evaluated", "committed"} => Outcome(decided'[p])
    <3>1. CASE p = q
      BY <1>4, <3>1, SubmitKeeps
    <3>2. CASE p # q
      <4>1. decided'[p] = decided[p]
        BY <1>4, <3>2, SubmitKeeps
      <4> QED  BY <4>1 DEF Decides
    <3> QED  BY <3>1, <3>2
  <2> QED  BY <1>1, <2>1 DEF Decides
<1> QED  BY <1>2, <1>3, <1>4 DEF Next, vars

LEMMA DecidesInvariant == Spec => []Decides
<1>1. Init => Decides
  BY TableInit DEF Init, Decides, Undecided
<1> QED  BY <1>1, DecidesStep, PTL DEF Spec

\* Rows, edits and decisions are what they may be, for every set of rules.
THEOREM TypeCorrect == Spec => []TypeOK
<1>1. Decides => TypeOK
  BY TypeParts DEF Decides, DecisionTyped, Outcome
<1> QED  BY <1>1, DecidesInvariant, PTL

\* However the rules are edited meanwhile, a return is decided by a matching rule
\* of least priority among those read at one moment (engine.py:55-100).
THEOREM FirstMatchWins == Spec => []DecidedByFirst
<1>1. Decides => DecidedByFirst
  <2> SUFFICES ASSUME Decides, NEW q \in Submissions, Finished(q)
               PROVE  \/ Hits(q) = {} /\ decided[q].decision = "no_match"
                      \/ \E r \in Hits(q) :
                           /\ \A o \in Hits(q) : decided[q].table[r].priority
                                                   <= decided[q].table[o].priority
                           /\ decided[q].decision = DeriveDecision(decided[q].table[r].actions)
    BY DEF DecidedByFirst
  <2>1. FirstIn(decided[q])
    BY DEF Decides, Finished, Outcome
  <2>2. Hits(q) = HitsIn(decided[q])
    BY DEF Hits, HitsIn, Facts
  <2> QED  BY <2>1, <2>2 DEF FirstIn
<1> QED  BY <1>1, DecidesInvariant, PTL

\* Golden Rule #3: the log alone, with the facts, gives the decision again,
\* whatever has become of the rules (engine.py:62-100, 145-162).
THEOREM LogExplains == Spec => []DecisionExplained
<1>1. Decides => DecisionExplained
  <2> SUFFICES ASSUME Decides, NEW q \in Submissions, Finished(q) PROVE ExplainedIn(decided[q])
    BY DEF DecisionExplained, ExplainedIn, LastMatched, Facts
  <2> QED  BY DEF Decides, Finished, Outcome
<1> QED  BY <1>1, DecidesInvariant, PTL

-----------------------------------------------------------------------------
(* What the seed promises.                                                 *)

\* A submission's return is one that may be submitted, and its status is what
\* its decision stands for.
Recorded ==
  \A q \in Submissions :
    /\ decided[q].pc \in {"evaluating", "evaluated", "committed"} => decided[q].case \in Cases
    /\ decided[q].pc = "committed" => decided[q].status = StatusOf[decided[q].decision]

LEMMA RecordedStep == TableTyped /\ Recorded /\ [Next]_vars => Recorded'
<1> SUFFICES ASSUME TableTyped, Recorded, [Next]_vars PROVE Recorded'
  OBVIOUS
<1>1. ASSUME UNCHANGED decided PROVE Recorded'
  BY <1>1 DEF Recorded
<1>2. ASSUME NEW e \in Edits, Edit(e) PROVE UNCHANGED decided
  BY <1>2 DEF Edit, CreateRule, BeginUpdate, BeginDeactivate, BeginEdit, CommitEdit
<1>3. ASSUME NEW q \in Submissions, Submit(q) PROVE Recorded'
  <2> DEFINE Good(d) ==
        /\ d.pc \in {"evaluating", "evaluated", "committed"} => d.case \in Cases
        /\ d.pc = "committed" => d.status = StatusOf[d.decision]
  <2>1. q \in DOMAIN decided /\ Good(decided[q])
    BY DEF TableTyped, Recorded
  <2>2. \A p \in Submissions \ {q} : decided'[p] = decided[p]
    BY <1>3 DEF Submit, BeginEvaluation, Consult, NoMatch, CommitReturn, RollbackReturn, TableTyped
  <2>3. ASSUME NEW case \in Cases, BeginEvaluation(q, case) PROVE Good(decided'[q])
    BY <2>1, <2>3 DEF BeginEvaluation, Evaluation
  <2>4. ASSUME Consult(q) PROVE Good(decided'[q])
    BY <2>1, <2>4 DEF Consult, Evaluation
  <2>5. ASSUME NoMatch(q) PROVE Good(decided'[q])
    BY <2>1, <2>5 DEF NoMatch, Evaluation
  <2>6. ASSUME CommitReturn(q) PROVE Good(decided'[q])
    BY <2>1, <2>6 DEF CommitReturn
  <2>7. ASSUME RollbackReturn(q) PROVE Good(decided'[q])
    BY <2>1, <2>7 DEF RollbackReturn
  <2>8. Good(decided'[q])
    BY <1>3, <2>3, <2>4, <2>5, <2>6, <2>7 DEF Submit
  <2> QED  BY <2>2, <2>8 DEF Recorded
<1> QED  BY <1>1, <1>2, <1>3 DEF Next, vars

LEMMA RecordedInvariant == Spec => []Recorded
<1>1. Init => Recorded
  BY DEF Init, Recorded, Undecided
<1>2. Decides => TableTyped
  BY DEF Decides
<1> QED  BY <1>1, <1>2, RecordedStep, DecidesInvariant, PTL DEF Spec

\* The dearest price is a price that no other exceeds.
LEMMA DearestIsDearest ==
  ASSUME NEW prices, IsFiniteSet(prices), prices \subseteq Int, NEW p \in prices
  PROVE  DearestPrice(prices) \in Int /\ p <= DearestPrice(prices)
<1>1. \E m \in prices : \A o \in prices : m >= o
  BY FiniteMaximum
<1>2. DearestPrice(prices) = CHOOSE m \in prices : \A o \in prices : m >= o
  BY DEF DearestPrice
<1>3. DearestPrice(prices) \in prices /\ \A o \in prices : DearestPrice(prices) >= o
  BY <1>1, <1>2, Zenon
<1> QED  BY <1>3

\* The flagged-customer rule matches a flagged customer's return, and decides
\* for an inspection.
LEMMA FlaggedMatches ==
  ASSUME NEW case, case.segment = "flagged"
  PROVE  Matches(FlaggedRule.conditions, BuildFacts(case))
<1> DEFINE c == When("customer_segment", "equal", Str("flagged"))
<1>1. FlaggedRule.conditions =
        [any |-> {c, When("customer_return_rate", "greaterThan", Num(50))}]
  BY DEF FlaggedRule, Rule, AnyOf
<1>2. /\ "customer_segment" \in DOMAIN BuildFacts(case)
      /\ BuildFacts(case)["customer_segment"] = Str("flagged")
  BY DEF BuildFacts
<1>3. Str("flagged") # Null
  BY DEF Str, Null
<1>4. /\ c.fact = "customer_segment" /\ c.op = "equal" /\ c.value = Str("flagged")
  BY DEF When
<1>5. ConditionHolds(c, BuildFacts(case))
  BY <1>2, <1>3, <1>4 DEF ConditionHolds, Compare
<1> HIDE DEF c
<1>6. "all" \notin DOMAIN FlaggedRule.conditions /\ "any" \in DOMAIN FlaggedRule.conditions
      /\ c \in FlaggedRule.conditions.any
  BY <1>1
<1> QED  BY <1>5, <1>6 DEF Matches

\* What the keep-it rule asks of a return.
LEMMA KeepItAsks ==
  ASSUME NEW case \in Cases, Matches(KeepItRule.conditions, BuildFacts(case))
  PROVE  case.reasons # <<"defective">> /\ \A p \in case.prices : p < 25
<1> DEFINE facts == BuildFacts(case)
           cheap == When("item_price_max", "lessThan", Num(25))
           sound == When("return_reason", "notEqual", Str("defective"))
           fresh == When("days_since_purchase", "lessThanInclusive", Num(14))
<1>1. KeepItRule.conditions = [all |-> {cheap, sound, fresh}]
  BY DEF KeepItRule, Rule, AllOf
<1> HIDE DEF cheap, sound, fresh, facts
<1>2. ConditionHolds(cheap, facts) /\ ConditionHolds(sound, facts)
  BY <1>1 DEF Matches, facts
<1>3. facts["item_price_max"] = Num(DearestPrice(case.prices))
  BY DEF facts, BuildFacts
<1>4. Num(DearestPrice(case.prices)).num < 25
  <2>1. cheap.fact = "item_price_max" /\ cheap.op = "lessThan" /\ cheap.value = Num(25)
    BY DEF cheap, When
  <2>2. Compare("lessThan", facts["item_price_max"], Num(25))
    BY <1>2, <2>1 DEF ConditionHolds
  <2>3. Num(25).num = 25
    BY DEF Num
  <2> QED  BY <1>3, <2>2, <2>3 DEF Compare
<1>5. ASSUME NEW p \in case.prices PROVE p < 25
  <2>1. DearestPrice(case.prices) \in Int /\ p <= DearestPrice(case.prices) /\ p \in Int
    <3>1. IsFiniteSet(case.prices) /\ case.prices \subseteq Int
      BY Installation
    <3> QED  BY <3>1, DearestIsDearest
  <2>2. DearestPrice(case.prices) < 25
    BY <1>4 DEF Num
  <2> QED  BY <2>1, <2>2
<1>6. ASSUME case.reasons = <<"defective">> PROVE FALSE
  <2>1. facts["return_reason"] = Str("defective")
    BY <1>6 DEF facts, BuildFacts
  <2>2. sound.fact = "return_reason" /\ sound.op = "notEqual" /\ sound.value = Str("defective")
    BY DEF sound, When
  <2> QED  BY <1>2, <2>1, <2>2 DEF ConditionHolds, Compare
<1> QED  BY <1>5, <1>6

\* A rule on a level with the flagged-customer rule, as it came, is that rule.
LEMMA OnlyFlaggedIsFirst ==
  ASSUME NEW r \in DOMAIN Seed, Seed[r].priority <= 1
  PROVE  Seed[r] = FlaggedRule
<1>1. /\ KeepItRule.priority = 5 /\ TrustedRule.priority = 10
      /\ HighValueRule.priority = 20 /\ FallbackRule.priority = 999
  BY DEF KeepItRule, TrustedRule, HighValueRule, FallbackRule, Rule
<1> QED  BY <1>1, Installation

\* As long as the flagged-customer rule stands, it is what decides for a flagged
\* customer, or its equal is.
LEMMA FlaggedDecides ==
  ASSUME Decides, NEW q \in Submissions, NEW r \in DOMAIN Seed,
         Finished(q), Seed[r] = FlaggedRule, Stands(q, r), decided[q].case.segment = "flagged"
  PROVE  decided[q].decision = "require_inspection"
<1> DEFINE d == decided[q]
<1>1. Outcome(d) /\ r \in RuleIds
  BY Parameters DEF Decides, Finished
<1>2. d.table[r] = FlaggedRule /\ FlaggedRule.active /\ FlaggedRule.priority = 1
      /\ DeriveDecision(FlaggedRule.actions) = "require_inspection"
  BY DEF Stands, FlaggedRule, Rule, DeriveDecision
<1>3. Matches(d.table[r].conditions, BuildFacts(d.case))
  BY <1>2, FlaggedMatches
<1>4. r \in HitsIn(d)
  BY <1>1, <1>2, <1>3 DEF HitsIn
<1>5. PICK w \in HitsIn(d) :
        /\ \A o \in HitsIn(d) : d.table[w].priority <= d.table[o].priority
        /\ d.decision = DeriveDecision(d.table[w].actions)
  BY <1>1, <1>4 DEF Outcome, FirstIn
<1>6. /\ w \in RuleIds /\ d.table[w].active
      /\ d.table[w].priority \in Int /\ d.table[w].priority <= 1
  BY <1>1, <1>2, <1>4, <1>5 DEF HitsIn, Outcome, Sound, ActiveIn
<1>7. d.table[w] = FlaggedRule
  <2>1. CASE w = r
    BY <1>2, <2>1
  <2>2. CASE w # r
    <3>1. w \in DOMAIN Seed /\ d.table[w] = Seed[w]
      BY <1>2, <1>6, <2>2 DEF Stands
    <3> QED  BY <1>6, <3>1, OnlyFlaggedIsFirst
  <2> QED  BY <2>1, <2>2
<1> QED  BY <1>2, <1>5, <1>7

\* While the flagged-customer rule stands, whatever is edited below it, a flagged
\* customer's return is inspected; and what the keep-it rule gives away is no
\* flagged customer's, of no dear order and not a single defective item
\* (002_seed_rules.sql:24-58).
THEOREM SeedKeepsItsPromises == Spec => []SeededPromises
<1>1. Decides /\ Recorded => SeededPromises
  <2> SUFFICES ASSUME Decides, Recorded, NEW q \in Submissions, NEW r \in DOMAIN Seed,
                      Finished(q), Seed[r] = FlaggedRule, Stands(q, r)
               PROVE  LET case == decided[q].case
                          last == decided[q].log[Len(decided[q].log)]
                      IN
                      /\ case.segment = "flagged" => decided[q].status = "requires_inspection"
                      /\ decided[q].decision = "keep_it" /\ last.rule \in DOMAIN Seed
                           /\ Seed[last.rule] = KeepItRule
                           /\ decided[q].table[last.rule] = KeepItRule =>
                           /\ case.segment # "flagged" /\ case.reasons # <<"defective">>
                           /\ \A p \in case.prices : p < 25
    BY DEF SeededPromises
  <2> DEFINE d == decided[q]
             last == d.log[Len(d.log)]
  <2>1. Outcome(d) /\ d.case \in Cases /\ d.status = StatusOf[d.decision]
    BY DEF Decides, Recorded, Finished
  <2>2. d.case.segment = "flagged" => d.decision = "require_inspection"
    BY FlaggedDecides
  <2>3. d.case.segment = "flagged" => d.status = "requires_inspection"
    BY <2>1, <2>2 DEF StatusOf
  <2>4. ASSUME d.decision = "keep_it", d.table[last.rule] = KeepItRule
        PROVE  Matches(KeepItRule.conditions, BuildFacts(d.case))
    <3>1. LastMatched(d)
      BY <2>1, <2>4 DEF Outcome, ExplainedIn
    <3>2. Len(d.log) \in 1..Len(d.log)
      BY <2>1, <3>1 DEF LastMatched, Outcome, Sound
    <3>3. PICK x \in ActiveIn(d.table) : last = EntryIn(d, x)
      BY <2>1, <3>2, EntryTells DEF Outcome
    <3>4. last.rule = x /\ last.matched = Matches(d.table[x].conditions, BuildFacts(d.case))
      BY <3>3 DEF EntryIn
    <3> QED  BY <2>4, <3>1, <3>4 DEF LastMatched
  <2> QED  BY <2>1, <2>2, <2>3, <2>4, KeepItAsks
<1> QED  BY <1>1, DecidesInvariant, RecordedInvariant, PTL
=============================================================================
