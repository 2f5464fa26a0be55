SPECIFICATION RSpec
CONSTANTS
  Invoice = {i1}
  Payment = {p1}
  Deposit = {}
  Entry = {e1, e2, e3}
  TxHash = {}
  Amount = {0, 1}
  None = None
  Request = {r1, r2}
  Handlers = {"issue", "post_journal"}
PROPERTY OnlyIssuedPosted
