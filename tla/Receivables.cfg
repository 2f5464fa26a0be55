SPECIFICATION Spec
CONSTANTS
  Invoice = {i1}
  Payment = {p1, p2}
  Deposit = {d1}
  Entry = {e1, e2, e3}
  TxHash = {h1}
  Amount = {0, 1, 2}
  None = None
SYMMETRY Symmetry
INVARIANTS TypeOK PostedAmount PaidHasEvidence
