SPECIFICATION Spec
CONSTANTS
  Workers = {w1}
  Transactions = {1}
  PspReferences = {psp1, psp2}
  Types <- ReportedTypes
  RequestActions = {"refund"}
  Amounts = {1, 2}
  Times = {1, 2, 3, 4}
  Overlap = FALSE
SYMMETRY PspSymmetry
INVARIANTS TypeOK OneEventPerAction AmountsMatchEvents MoneyIsConserved
 
CHECK_DEADLOCK FALSE
