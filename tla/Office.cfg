SPECIFICATION OfficeSpec
CONSTANTS
  None = None
  Request = {r1, r2}
  Payment = {p1}
  Amount = {1, 2}
  Loan = {l1}
  Allocation = {a1, a2}
  Other = Other
  MaxFiles = 2
  Template = {t1}
  DueMonth = 0
  NextDueMonth = 0
  MaxMonth = 2
  MaxRows = 2
  Expense = {e1}
  Employee = {m1}
  MaxVersion = 2
  Commitment = {c1}
  Tx = {x1, x2}
  Month = {1, 2}
  Rule = {q1, q2}
  LastMonth = 2
  MaxNumber = 3
  Deposit = {d1}
  MaxContra = 2
  Event = {v1, v2}
  Item = {i1, i2}
  Price = {50}
  TaxRate = {0, 900}
  Salary = {95}
  DaysInMonth = 2
  Sheet = {h1, h2, h3}
  Invoice = {n1}
  Sum = {5, 13}
  Rate = {2, 3}
  RateScale = 4
  MaxEntries = 3
SYMMETRY Symmetry
CONSTRAINT Bounded
INVARIANTS OfficeTypeOK DischargedNotActive LandedOnce HandledOnce PayBounded
  TrialBalances ReceivablesAreOpenItems
PROPERTIES
  OverAllocationNeedsOverlap SettledTermsNeedOverlap RepaidFallsOnly
  ReopenNeedsOverlap SecondOpenNeedsOverlap
  PackImmutable PackMatchesCheck ConfirmedNeedsOverlap
  DuplicateNeedsOverlap GenerationCovers SettledTxNeedsOverlap
  SecondBillNeedsOverlap SecondBookingNeedsOverlap
  StaleTotalsNeedOverlap StaleSlipNeedsOverlap
