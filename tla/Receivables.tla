----------------------------- MODULE Receivables -----------------------------
(***************************************************************************)
(* Invoices, the payments that pay them, the bank deposits matched to the  *)
(* payments, and the journal entries all of them post.  Every handler of   *)
(* the API is one action: this is the meaning of a request that runs       *)
(* alone.  ReceivableRequests splits the same handlers at their unlocked   *)
(* reads and row locks.                                                    *)
(*                                                                         *)
(* One currency; FX rates, GST and the split of an entry into lines are    *)
(* left out (an entry is what it does to the receivable, and its amount).  *)
(***************************************************************************)
EXTENDS Naturals

CONSTANTS
  Invoice, Payment, Deposit,   \* rows of invoices, payments, bank_transactions
  Entry,                       \* rows of journal_entries
  TxHash,                      \* on-chain transaction hashes
  Amount,                      \* amounts an invoice, payment or deposit may have
  None                         \* SQL NULL

ASSUME AmountAssumption == Amount \subseteq Nat /\ 0 \in Amount
ASSUME NoneAssumption ==
  None \notin Invoice \cup Payment \cup Deposit \cup Entry \cup TxHash

VARIABLES
  ledger,     \* are the receivable and revenue accounts mapped?
  inv,        \* invoices
  pay,        \* payments
  dep,        \* bank transactions with a positive amount
  entry       \* journal entries

vars == <<ledger, inv, pay, dep, entry>>

-----------------------------------------------------------------------------
(* Rows *)

InvoiceStatus == {"absent", "draft", "issued", "paid", "cancelled"}
InvoiceRow ==
  [status : InvoiceStatus, lines : BOOLEAN, total : Amount,
   journal : Entry \cup {None}]

PaymentKind == {"bank", "crypto"}
PaymentRow ==
  [kind : PaymentKind \cup {"absent"}, invoice : Invoice \cup {None},
   amount : Amount, hash : TxHash \cup {None}, verified : BOOLEAN,
   journal : Entry \cup {None}]

MatchStatus == {"unmatched", "auto_matched", "manual_matched", "reconciled", "ignored"}
DepositRow ==
  [status : MatchStatus \cup {"absent"}, payment : Payment \cup {None},
   amount : Amount]

EntryKind == {"issue", "reversal", "receipt", "contra"}
EntryRow ==
  [kind : EntryKind \cup {"free"}, invoice : Invoice \cup {None},
   deposit : Deposit \cup {None}, amount : Amount, confirmed : BOOLEAN]

NoInvoice == [status |-> "absent", lines |-> FALSE, total |-> 0, journal |-> None]
NoPayment == [kind |-> "absent", invoice |-> None, amount |-> 0, hash |-> None,
              verified |-> FALSE, journal |-> None]
NoDeposit == [status |-> "absent", payment |-> None, amount |-> 0]
NoEntry   == [kind |-> "free", invoice |-> None, deposit |-> None, amount |-> 0,
              confirmed |-> FALSE]

TypeOK ==
  /\ ledger \in BOOLEAN
  /\ inv \in [Invoice -> InvoiceRow]
  /\ pay \in [Payment -> PaymentRow]
  /\ dep \in [Deposit -> DepositRow]
  /\ entry \in [Entry -> EntryRow]

Init ==
  /\ ledger = FALSE
  /\ inv = [i \in Invoice |-> NoInvoice]
  /\ pay = [p \in Payment |-> NoPayment]
  /\ dep = [d \in Deposit |-> NoDeposit]
  /\ entry = [e \in Entry |-> NoEntry]

-----------------------------------------------------------------------------
(* Queries the handlers make *)

PaysFor(p, i) == pay[p].kind # "absent" /\ pay[p].invoice = i

\* cancel_invoice counts the linked payments, whatever their state.
LinkedPayment(i) == \E p \in Payment : PaysFor(p, i)

\* receivable_settled: some payment of the invoice carries a receipt entry.
ReceivableSettled(i) == \E p \in Payment : PaysFor(p, i) /\ pay[p].journal # None

\* Mutant: any linked payment is evidence.
AnyPaymentCounts(p) == TRUE

\* A crypto payment counts only with an on-chain verification (or its recorded skip).
VerifiedIfCrypto(p) == pay[p].kind = "crypto" => pay[p].verified

HashRecorded(h) == \E p \in Payment : pay[p].kind # "absent" /\ pay[p].hash = h

\* A deposit already booked to revenue before the receivable was posted.
ReconciledDeposit(i) ==
  \E d \in Deposit : /\ dep[d].status = "reconciled"
                     /\ dep[d].payment # None
                     /\ PaysFor(dep[d].payment, i)

\* _invoice_settled_by: the deposit is matched to a payment of a posted invoice.
SettlesInvoice(d, i) ==
  dep[d].payment # None /\ PaysFor(dep[d].payment, i) /\ inv[i].journal # None

\* Mutant: line items may still be edited on an issued invoice.
EditableUntilPaid(i) == inv[i].status \in {"draft", "issued"}

Editable(i) == inv[i].status = "draft"

-----------------------------------------------------------------------------
(* Writes shared by the handlers *)

\* create_journal_entry.
Post(e, kind, i, d, a, confirmed) ==
  /\ entry[e].kind = "free"
  /\ entry' = [entry EXCEPT ![e] =
       [kind |-> kind, invoice |-> i, deposit |-> d, amount |-> a,
        confirmed |-> confirmed]]

\* Mutant: an invoice that has its journal entry is posted again.
PostAgain(i, status) ==
  \/ /\ ledger /\ inv[i].total > 0
     /\ \E e \in Entry :
          /\ Post(e, "issue", i, None, inv[i].total, TRUE)
          /\ inv' = [inv EXCEPT ![i].status = status, ![i].journal = e]
  \/ /\ ~(ledger /\ inv[i].total > 0)
     /\ inv' = [inv EXCEPT ![i].status = status]
     /\ UNCHANGED entry

\* post_invoice_issue, with the status the caller leaves the invoice in.
PostInvoiceIssue(i, status) ==
  /\ inv[i].journal = None
  /\ \/ /\ ledger /\ inv[i].total > 0
        /\ \E e \in Entry :
             /\ Post(e, "issue", i, None, inv[i].total, TRUE)
             /\ inv' = [inv EXCEPT ![i].status = status, ![i].journal = e]
     \/ /\ ~(ledger /\ inv[i].total > 0)
        /\ inv' = [inv EXCEPT ![i].status = status]
        /\ UNCHANGED entry

\* cancel_invoice after its checks; status and journal are what it read.
CancelFrom(i, status, journal) ==
  /\ inv' = [inv EXCEPT ![i].status = "cancelled"]
  /\ \/ /\ status = "issued" /\ journal # None
        /\ \E e \in Entry : Post(e, "reversal", i, None, entry[journal].amount, TRUE)
     \/ ~(status = "issued" /\ journal # None) /\ UNCHANGED entry

NewPayment(p, kind, i, a, h, verified, journal) ==
  /\ pay[p].kind = "absent"
  /\ pay' = [pay EXCEPT ![p] =
       [kind |-> kind, invoice |-> i, amount |-> a, hash |-> h,
        verified |-> verified, journal |-> journal]]

-----------------------------------------------------------------------------
(* Invoice handlers *)

CreateInvoice(i) ==
  /\ inv[i].status = "absent"
  /\ inv' = [inv EXCEPT ![i].status = "draft"]
  /\ UNCHANGED <<ledger, pay, dep, entry>>

\* Mutant: the total is adjusted instead of recalculated.
AdjustTotal(i, lines, total) ==
  /\ Editable(i)
  /\ inv' = [inv EXCEPT ![i].lines = lines, ![i].total = @ + total]
  /\ UNCHANGED <<ledger, pay, dep, entry>>

\* Adding, changing or deleting a line item ends in recalculate_totals; without
\* line items the total is zero.
WriteLines(i, lines, total) ==
  /\ ~lines => total = 0
  /\ inv' = [inv EXCEPT ![i].lines = lines, ![i].total = total]
  /\ UNCHANGED <<ledger, pay, dep, entry>>

EditLines(i, lines, total) == Editable(i) /\ WriteLines(i, lines, total)

IssueInvoice(i) ==
  /\ inv[i].status = "draft"
  /\ inv[i].lines
  /\ PostInvoiceIssue(i, "issued")
  /\ UNCHANGED <<ledger, pay, dep>>

Postable(i) ==
  inv[i].status = "issued" /\ inv[i].total > 0 /\ ledger /\ ~ReconciledDeposit(i)

PostJournal(i) ==
  /\ Postable(i)
  /\ PostInvoiceIssue(i, "issued")
  /\ UNCHANGED <<ledger, pay, dep>>

CancelInvoice(i) ==
  /\ inv[i].status \in {"draft", "issued"}
  /\ inv[i].status = "issued" => ~LinkedPayment(i)
  /\ CancelFrom(i, inv[i].status, inv[i].journal)
  /\ UNCHANGED <<ledger, pay, dep>>

MarkPaid(i, p) ==
  /\ inv[i].status = "issued"
  /\ PaysFor(p, i)
  /\ VerifiedIfCrypto(p)
  /\ inv' = [inv EXCEPT ![i].status = "paid"]
  /\ UNCHANGED <<ledger, pay, dep, entry>>

-----------------------------------------------------------------------------
(* Payment handlers *)

\* The related invoice is not looked at: it may be in any state.
RecordPayment(p, kind, i, a, h) ==
  /\ i # None => inv[i].status # "absent"
  /\ h # None => ~HashRecorded(h)
  /\ NewPayment(p, kind, i, a, h, FALSE, None)
  /\ UNCHANGED <<ledger, inv, dep, entry>>

Linkable(p, i) ==
  /\ pay[p].kind # "absent"
  /\ pay[p].invoice \in {None, i}
  /\ inv[i].status = "issued"
  /\ VerifiedIfCrypto(p)
  /\ pay[p].amount >= inv[i].total

WriteLink(p, i) ==
  /\ inv' = [inv EXCEPT ![i].status = "paid"]
  /\ pay' = [pay EXCEPT ![p].invoice = i]
  /\ UNCHANGED <<ledger, dep, entry>>

LinkPayment(p, i) == Linkable(p, i) /\ WriteLink(p, i)

\* create_and_match_payment: a payment of the invoice's total, and perhaps a
\* match with an unmatched deposit of that amount (the confidence score is a choice).
PipelinePayment(p, kind, i, d) ==
  /\ inv[i].status = "issued"
  /\ NewPayment(p, kind, i, inv[i].total, None, FALSE, None)
  /\ \/ d = None /\ UNCHANGED dep
     \/ /\ d # None /\ dep[d].status = "unmatched" /\ dep[d].amount = inv[i].total
        /\ dep' = [dep EXCEPT ![d].status = "auto_matched", ![d].payment = p]
  /\ UNCHANGED <<ledger, inv, entry>>

\* receive_crypto_payment for an invoice whose receivable is posted.  The amount
\* must equal the invoice's total; the entry credits the receivable by what the
\* issue entry debited.
ReceivableDue(i, h) ==
  /\ inv[i].status = "issued"
  /\ h # None => ~HashRecorded(h)
  /\ ~ReceivableSettled(i)

WriteReceipt(p, i, h) ==
  /\ \E e \in Entry :
       /\ Post(e, "receipt", i, None, entry[inv[i].journal].amount, TRUE)
       /\ NewPayment(p, "crypto", i, inv[i].total, h, TRUE, e)
  /\ inv' = [inv EXCEPT ![i].status = "paid"]
  /\ UNCHANGED <<ledger, dep>>

ReceiveCrypto(p, i, h) ==
  /\ ReceivableDue(i, h)
  /\ ledger
  /\ inv[i].journal # None
  /\ WriteReceipt(p, i, h)

-----------------------------------------------------------------------------
(* Bank deposits *)

ImportDeposit(d, a) ==
  /\ dep[d].status = "absent"
  /\ a > 0
  /\ dep' = [dep EXCEPT ![d].status = "unmatched", ![d].amount = a]
  /\ UNCHANGED <<ledger, inv, pay, entry>>

\* auto_match: one pass over the unmatched deposits; a payment is used at most once
\* in the pass, but a payment matched in an earlier pass is a candidate again.
AutoMatch ==
  \E f \in [{d \in Deposit : dep[d].status = "unmatched"} -> Payment \cup {None}] :
    /\ \A d \in DOMAIN f : f[d] # None =>
         /\ pay[f[d]].kind # "absent"
         /\ pay[f[d]].amount = dep[d].amount
         /\ \A c \in DOMAIN f : f[c] = f[d] => c = d
    /\ dep' = [d \in Deposit |->
         IF d \in DOMAIN f /\ f[d] # None
         THEN [dep[d] EXCEPT !.status = "auto_matched", !.payment = f[d]]
         ELSE dep[d]]
    /\ UNCHANGED <<ledger, inv, pay, entry>>

\* manual_match and ignore_transaction look at no status, not even "reconciled".
ManualMatch(d, p) ==
  /\ dep[d].status # "absent"
  /\ pay[p].kind # "absent"
  /\ dep' = [dep EXCEPT ![d].status = "manual_matched", ![d].payment = p]
  /\ UNCHANGED <<ledger, inv, pay, entry>>

IgnoreDeposit(d) ==
  /\ dep[d].status # "absent"
  /\ dep' = [dep EXCEPT ![d].status = "ignored"]
  /\ UNCHANGED <<ledger, inv, pay, entry>>

\* The contra branch of reconcile_transaction: the deposit settles no posted invoice.
Unreconciled(d) == dep[d].status \notin {"absent", "reconciled"}

WriteContra(d, confirmed) ==
  /\ \E e \in Entry : Post(e, "contra", None, d, dep[d].amount, confirmed)
  /\ dep' = [dep EXCEPT ![d].status = "reconciled"]
  /\ UNCHANGED <<ledger, inv, pay>>

ReconcileContra(d, confirmed) ==
  /\ Unreconciled(d)
  /\ \A i \in Invoice : ~SettlesInvoice(d, i)
  /\ WriteContra(d, confirmed)

\* _reconcile_invoice_settlement: what it checks and what it writes.
Settleable(d, i) ==
  /\ inv[i].status \in {"issued", "paid"}
  /\ ~ReceivableSettled(i)
  /\ dep[d].amount = entry[inv[i].journal].amount

WriteSettlement(d, p, i, confirmed) ==
  /\ \E e \in Entry :
       /\ Post(e, "receipt", i, d, dep[d].amount, confirmed)
       /\ pay' = [pay EXCEPT ![p].journal = e]
  /\ dep' = [dep EXCEPT ![d].status = "reconciled"]
  /\ UNCHANGED <<ledger, inv>>

ReconcileSettlement(d, i, confirmed) ==
  /\ Unreconciled(d)
  /\ SettlesInvoice(d, i)
  /\ Settleable(d, i)
  /\ WriteSettlement(d, dep[d].payment, i, confirmed)

-----------------------------------------------------------------------------
(* Journal entries and the ledger mapping *)

Deletable(e) == entry[e].kind # "free" /\ ~entry[e].confirmed

ConfirmEntry(e) ==
  /\ entry[e].kind # "free"
  /\ entry' = [entry EXCEPT ![e].confirmed = TRUE]
  /\ UNCHANGED <<ledger, inv, pay, dep>>

\* Both references to an entry are ON DELETE SET NULL; the deposit that was
\* reconciled by the entry stays reconciled.
DeleteEntry(e) ==
  /\ Deletable(e)
  /\ entry' = [entry EXCEPT ![e] = NoEntry]
  /\ inv' = [i \in Invoice |->
       IF inv[i].journal = e THEN [inv[i] EXCEPT !.journal = None] ELSE inv[i]]
  /\ pay' = [p \in Payment |->
       IF pay[p].journal = e THEN [pay[p] EXCEPT !.journal = None] ELSE pay[p]]
  /\ UNCHANGED <<ledger, dep>>

\* set_ledger_accounts only ever adds to the mapping.
ConfigureLedger ==
  /\ ledger' = TRUE
  /\ UNCHANGED <<inv, pay, dep, entry>>

-----------------------------------------------------------------------------

InvoiceNext ==
  \E i \in Invoice :
    \/ CreateInvoice(i)
    \/ \E lines \in BOOLEAN, total \in Amount : EditLines(i, lines, total)
    \/ IssueInvoice(i)
    \/ PostJournal(i)
    \/ CancelInvoice(i)
    \/ \E p \in Payment : MarkPaid(i, p)

PaymentNext ==
  \E p \in Payment :
    \/ \E kind \in PaymentKind, i \in Invoice \cup {None}, a \in Amount,
          h \in TxHash \cup {None} : RecordPayment(p, kind, i, a, h)
    \/ \E i \in Invoice :
         \/ LinkPayment(p, i)
         \/ \E kind \in PaymentKind, d \in Deposit \cup {None} :
              PipelinePayment(p, kind, i, d)
         \/ \E h \in TxHash \cup {None} : ReceiveCrypto(p, i, h)

DepositNext ==
  \/ AutoMatch
  \/ \E d \in Deposit :
       \/ \E a \in Amount : ImportDeposit(d, a)
       \/ \E p \in Payment : ManualMatch(d, p)
       \/ IgnoreDeposit(d)
       \/ \E confirmed \in BOOLEAN : ReconcileContra(d, confirmed)
       \/ \E i \in Invoice, confirmed \in BOOLEAN :
            ReconcileSettlement(d, i, confirmed)

JournalNext ==
  \/ \E e \in Entry : ConfirmEntry(e) \/ DeleteEntry(e)
  \/ ConfigureLedger

Next == InvoiceNext \/ PaymentNext \/ DepositNext \/ JournalNext

Spec == Init /\ [][Next]_vars

-----------------------------------------------------------------------------
(* Properties *)

IsEntry(e, kind, i) == entry[e].kind = kind /\ entry[e].invoice = i
Has(kind, i) == \E e \in Entry : IsEntry(e, kind, i)

\* The receivable of an invoice is debited once, credited by at most one receipt
\* (crypto receipt or bank settlement) and by at most one reversal, and never by both.
ReceivableOnce ==
  \A i \in Invoice :
    /\ \A kind \in {"issue", "reversal", "receipt"}, e, f \in Entry :
         IsEntry(e, kind, i) /\ IsEntry(f, kind, i) => e = f
    /\ ~(Has("receipt", i) /\ Has("reversal", i))

\* The receivable account agrees with the invoice's status: a draft has posted
\* nothing, a cancelled invoice leaves no open debit behind, and a receipt exists
\* only for an invoice that is still owed or paid.
BooksFollowStatus ==
  \A i \in Invoice :
    /\ inv[i].status \in {"absent", "draft"} => ~Has("issue", i)
    /\ inv[i].status = "cancelled" => (Has("issue", i) <=> Has("reversal", i))
    /\ Has("reversal", i) => inv[i].status = "cancelled"
    /\ Has("receipt", i) => Has("issue", i) /\ inv[i].status \in {"issued", "paid"}

\* Receivable, receipt and reversal are for the invoice's total, also after later edits.
PostedAmount ==
  \A e \in Entry :
    entry[e].kind \in {"issue", "receipt", "reversal"} =>
      entry[e].amount = inv[entry[e].invoice].total

\* A paid invoice has a payment linked to it that is not an unverified crypto receipt.
PaidHasEvidence ==
  \A i \in Invoice : inv[i].status = "paid" =>
    \E p \in Payment : PaysFor(p, i) /\ (pay[p].kind = "crypto" => pay[p].verified)

\* A transfer on the chain pays once.
HashPaysOnce ==
  \A p, q \in Payment : pay[p].hash = pay[q].hash /\ pay[p].hash # None => p = q

\* A deposit is booked by at most one live journal entry.
DepositBookedOnce ==
  \A e, f \in Entry :
    entry[e].deposit # None /\ entry[e].deposit = entry[f].deposit => e = f

\* The receivable as an open item: see OpenItem.  Anything else is a broken item.
Once(kind, i) == \E e \in Entry : \A f \in Entry : IsEntry(f, kind, i) <=> f = e

ItemOf(i) ==
  CASE ~Has("issue", i) /\ ~Has("receipt", i) /\ ~Has("reversal", i)  -> "none"
    [] Once("issue", i) /\ ~Has("receipt", i) /\ ~Has("reversal", i)  -> "open"
    [] Once("issue", i) /\ Once("receipt", i) /\ ~Has("reversal", i)  -> "settled"
    [] Once("issue", i) /\ ~Has("receipt", i) /\ Once("reversal", i)  -> "reversed"
    [] OTHER                                                         -> "broken"

Items == INSTANCE OpenItem WITH item <- [i \in Invoice |-> ItemOf(i)]

\* Whatever the handlers do to an invoice, its entries are those of one open item: raised
\* once, then settled once or reversed once, reopened only by deleting the receipt.
ImplementsOpenItem == Items!ItemSpec
=============================================================================
