SPECIFICATION RSpec
CONSTANTS
  Invoice = {i1}
  Payment = {p1, p2}
  Deposit = {d1}
  Entry = {e1, e2, e3}
  TxHash = {h1}
  Amount = {0, 1}
  None = None
  Request = {r1, r2}
  Handlers = {"issue", "receive", "settle", "edit"}
SYMMETRY Symmetry
CONSTRAINT Bounded
INVARIANTS RequestsTypeOK BooksFollowStatus HashPaysOnce
PROPERTIES ImplementsOpenItem CancelledStays
