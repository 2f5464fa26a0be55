SPECIFICATION Spec
CONSTANTS
  Invoice = {i1}
  Payment = {p1}
  Deposit = {d1}
  Entry = {e1, e2, e3}
  TxHash = {h1}
  Amount = {0, 1}
  None = None
INVARIANT DepositBookedOnce
