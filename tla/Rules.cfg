SPECIFICATION Spec
CONSTANTS
  flagged = flagged  keepit = keepit  trusted = trusted  high = high
  fallback = fallback  extra = extra  e1 = e1  e2 = e2  q1 = q1
  RuleIds = {flagged, keepit, trusted, high, fallback, extra}
  Seed <- SeedRules
  Cases <- SomeCases
  Changes <- SomeChanges
  NewRules <- SomeNewRules
  Edits = {e1, e2}
  Submissions = {q1}
SYMMETRY Symmetry
CHECK_DEADLOCK FALSE
INVARIANTS TypeOK DecidedByFirst DecisionExplained SeededPromises TrailAgrees VersionCounts
PROPERTIES UnnamedColumnsStand
