SPECIFICATION Spec
CONSTANTS
  r1 = r1  r2 = r2  i1 = i1  i2 = i2  w1 = w1  w2 = w2
  Returns = {r1}
  Items = {i1}
  Tracked = {r1}
  Writers = {w1, w2}
  Serialised = FALSE
SYMMETRY Symmetry
CHECK_DEADLOCK FALSE
PROPERTIES LegalMoves
