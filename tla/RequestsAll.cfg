SPECIFICATION FairSpec
CONSTANTS
  Invoice = {i1}
  Payment = {p1}
  Deposit = {d1}
  Entry = {e1, e2}
  TxHash = {}
  Amount = {0, 1}
  None = None
  Request = {r1, r2}
  Handlers = {"issue", "post_journal", "cancel", "mark_paid", "link", "contra"}
INVARIANT IssuePostedOnce
PROPERTY LockingRequestsEnd
