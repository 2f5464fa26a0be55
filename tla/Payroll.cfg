SPECIFICATION PayrollSpec
CONSTANTS
  Run = {s1, s2}
  Payment = {p1, p2, p3}
  Amount = {1, 2}
  None = None
  Other = Other
  MaxNumber = 3
SYMMETRY Symmetry
INVARIANTS PayrollTypeOK PaidByItsPayment NumbersNeverCollide
PROPERTY PayslipFinal
\* The instance is full once every run is paid and every payment row is used.
CHECK_DEADLOCK FALSE
