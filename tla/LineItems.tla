------------------------------ MODULE LineItems ------------------------------
(***************************************************************************)
(* The line items of a draft invoice and its totals.  Adding, changing or   *)
(* deleting an item, and switching tax_inclusive, end in recalculate_totals:*)
(* it sums up the items the request sees and sets the totals.  No lock is   *)
(* taken, so a second request may commit an item between sum and commit.    *)
(*                                                                         *)
(* One invoice; what happens to it once it is issued is in Receivables and  *)
(* ReceivableRequests.  Amounts are cents, and the company's rate stays.    *)
(***************************************************************************)
EXTENDS Requests, FiniteSetsExt

CONSTANTS
  Item,
  Price,      \* amounts of an item: quantity times unit price
  TaxRate     \* rates of an item, in ten-thousandths: its own, or the company's

ASSUME PriceAssumption == Price \subseteq Nat /\ TaxRate \subseteq Nat

VARIABLES
  item,       \* the line items
  bill,       \* tax_inclusive and the totals of the invoice
  itemReq     \* requests in progress

itemVars == <<item, bill, itemReq>>

-----------------------------------------------------------------------------

\* The codes ZR, ES and NT, and a company without GST, make the rate 0.
ItemRow == [amount : Price, rate : TaxRate]
Bill == [inclusive : BOOLEAN, subtotal : Nat, tax : Nat, total : Nat]

TaxOf(row, inclusive) ==
  HalfUp(row.amount * row.rate, IF inclusive THEN 10000 + row.rate ELSE 10000)

\* recalculate_totals of the items seen.
Totals(items, inclusive) ==
  LET seen == {i \in Item : items[i] # None}
      subtotal == MapThenSumSet(LAMBDA i : items[i].amount, seen)
      tax == MapThenSumSet(LAMBDA i : TaxOf(items[i], inclusive), seen)
  IN [inclusive |-> inclusive, subtotal |-> subtotal, tax |-> tax,
      total |-> IF inclusive THEN subtotal ELSE subtotal + tax]

\* loaded: the invoice was read; summed: the change is flushed, the totals are computed.
Opened == [op : {"loaded"}, bill : Bill]
Summed ==
  [op : {"summed"}, bill : Bill, items : [Item -> ItemRow \cup {None}],
   changed : Item \cup {None}, row : ItemRow \cup {None}, totals : Bill]

LineItemsTypeOK ==
  /\ item \in [Item -> ItemRow \cup {None}]
  /\ bill \in Bill
  /\ itemReq \in [Request -> {Idle} \cup Opened \cup Summed]

LineItemsInit ==
  /\ item = [i \in Item |-> None]
  /\ bill = Totals(item, FALSE)
  /\ itemReq = [r \in Request |-> Idle]

EndItem(r) == itemReq' = [itemReq EXCEPT ![r] = Idle]

OpenDraft(r) ==
  /\ itemReq[r] = Idle
  /\ itemReq' = [itemReq EXCEPT ![r] = [op |-> "loaded", bill |-> bill]]
  /\ UNCHANGED <<item, bill>>

\* Mutant: the change is not flushed before the items are read again.
SeenUnflushed(i, row) == item

\* The items committed by now, with the request's own change.
Seen(i, row) == IF i = None THEN item ELSE [item EXCEPT ![i] = row]

Recalculate(r, i, row, inclusive) ==
  /\ itemReq' = [itemReq EXCEPT ![r] =
       [op |-> "summed", bill |-> itemReq[r].bill, items |-> item, changed |-> i, row |-> row,
        totals |-> Totals(Seen(i, row), inclusive)]]
  /\ UNCHANGED <<item, bill>>

AddItem(r) ==
  /\ itemReq[r].op = "loaded"
  /\ \E i \in Item, row \in ItemRow :
       item[i] = None /\ Recalculate(r, i, row, itemReq[r].bill.inclusive)

ChangeItem(r) ==
  /\ itemReq[r].op = "loaded"
  /\ \E i \in Item, row \in ItemRow :
       item[i] # None /\ Recalculate(r, i, row, itemReq[r].bill.inclusive)

DeleteItem(r) ==
  /\ itemReq[r].op = "loaded"
  /\ \E i \in Item :
       item[i] # None /\ Recalculate(r, i, None, itemReq[r].bill.inclusive)

SetInclusive(r) ==
  itemReq[r].op = "loaded" /\ \E inclusive \in BOOLEAN : Recalculate(r, None, None, inclusive)

\* The totals are set as floats, which may differ from the Decimal loaded for the same
\* amount: the flush may write a column although its amount is the same.
FlushTotals(loaded, new) ==
  \E again \in SUBSET {c \in {"subtotal", "tax", "total"} : new[c] = loaded[c]} :
    bill' = [c \in DOMAIN bill |->
      IF c \in again THEN new[c] ELSE Flushed(loaded, new, bill)[c]]

\* A row that another request has deleted cannot be updated any more: see Abort.  Two
\* requests that add an item add two: one that finds its Item taken does not count.
FinishEdit(r) ==
  LET i == itemReq[r].changed
      row == itemReq[r].row
  IN
  /\ itemReq[r].op = "summed"
  /\ i # None /\ row # None => (item[i] = None) = (itemReq[r].items[i] = None)
  /\ item' = IF i = None THEN item ELSE [item EXCEPT ![i] = row]
  /\ FlushTotals(itemReq[r].bill, itemReq[r].totals)
  /\ EndItem(r)

AbortEdit(r) ==
  /\ itemReq[r] # Idle
  /\ EndItem(r)
  /\ UNCHANGED <<item, bill>>

LineItemsNext ==
  \E r \in Request :
    \/ OpenDraft(r)
    \/ AddItem(r) \/ ChangeItem(r) \/ DeleteItem(r) \/ SetInclusive(r)
    \/ FinishEdit(r) \/ AbortEdit(r)

LineItemsSpec == LineItemsInit /\ [][LineItemsNext]_itemVars

-----------------------------------------------------------------------------
(* Properties *)

TotalsMatch == bill = Totals(item, bill.inclusive)

\* The totals of a draft stop being those of its line items only through a request that
\* decided on an invoice, or on items, that another request has changed since.
StaleTotalsNeedOverlap ==
  [][<<item, bill>>' # <<item, bill>> /\ TotalsMatch /\ ~TotalsMatch' =>
       \E r \in Request :
         /\ itemReq[r].op = "summed" /\ itemReq'[r] = Idle
         /\ itemReq[r].bill # bill \/ itemReq[r].items # item]_itemVars
=============================================================================
