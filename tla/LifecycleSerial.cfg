SPECIFICATION Spec
CONSTANTS
  r1 = r1  r2 = r2  i1 = i1  i2 = i2  w1 = w1  w2 = w2
  Returns = {r1, r2}
  Items = {i1, i2}
  Tracked = {r1, r2}
  Writers = {w1, w2}
  Serialised = TRUE
SYMMETRY Symmetry
CHECK_DEADLOCK FALSE
INVARIANTS TypeOK ResolvedAgrees RejectedHasNothingAccepted
PROPERTIES KeepsMachine DecisionsStand
