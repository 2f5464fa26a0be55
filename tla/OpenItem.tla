------------------------------ MODULE OpenItem ------------------------------
(***************************************************************************)
(* What the accrual ledger promises about one customer receivable: it is   *)
(* raised at most once, and a raised receivable is closed in exactly one   *)
(* way, by a receipt or by a reversal.  A receipt whose journal entry was  *)
(* still unconfirmed may be withdrawn, which opens the item again; a       *)
(* reversal is final.  No code appears here: Receivables implements it.    *)
(***************************************************************************)
CONSTANT Invoice        \* the invoices

VARIABLE item           \* state of each invoice's receivable

ItemState == {"none", "open", "settled", "reversed"}

ItemTypeOK == item \in [Invoice -> ItemState]

ItemInit == item = [i \in Invoice |-> "none"]

Move(i, from, to) == item[i] = from /\ item' = [item EXCEPT ![i] = to]

Raise(i)    == Move(i, "none", "open")
Settle(i)   == Move(i, "open", "settled")
Withdraw(i) == Move(i, "settled", "open")
Reverse(i)  == Move(i, "open", "reversed")

ItemNext ==
  \E i \in Invoice : Raise(i) \/ Settle(i) \/ Withdraw(i) \/ Reverse(i)

ItemSpec == ItemInit /\ [][ItemNext]_item
=============================================================================
