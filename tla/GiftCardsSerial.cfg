SPECIFICATION Spec
CONSTANTS
  Workers = {w1}
  Cards = {g1}
  Checkouts = {k1, k2}
  Items = {t1, t2}
  Amounts = {1, 2}
  Adjustments = {2}
  MaxBalance = 3
  Overlap = FALSE
INVARIANTS TypeOK   
SYMMETRY ItemSymmetry
CHECK_DEADLOCK FALSE
