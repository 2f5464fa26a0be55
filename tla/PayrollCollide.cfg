SPECIFICATION PRSpec
CONSTANTS
  Run = {s1}
  Payment = {p1}
  Amount = {1}
  None = None
  Other = Other
  MaxNumber = 2
  Request = {q1, q2}
SYMMETRY Symmetry
INVARIANT NumbersNeverCollide
