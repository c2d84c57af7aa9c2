SPECIFICATION Spec
CONSTANTS
  Workers = {w1}
  Checkouts = {c1, c2}
  Drafts = {d1}
  Customers = {anna}
  Codes = {code1, code2}
  UsageLimits = {1, 2}
  Overlap = FALSE
INVARIANTS TypeOK 
CHECK_DEADLOCK FALSE
