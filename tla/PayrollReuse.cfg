SPECIFICATION PayrollSpec
CONSTANTS
  Run = {s1, s2}
  Payment = {p1}
  Amount = {1, 2}
  None = None
  Other = Other
  MaxNumber = 3
INVARIANT PaymentPaysOneRun
