------------------------- MODULE ReceivablesProofs -------------------------
(***************************************************************************)
(* Proofs about Receivables for any number of invoices, payments,          *)
(* deposits, entries, hashes and amounts.                                  *)
(*                                                                         *)
(* The safety properties speak of which entries exist; the handlers decide *)
(* by following references (invoice to its issue entry, payment to its     *)
(* receipt).  Books says that the two views agree, and is all that         *)
(* BooksFollowStatus and the refinement of OpenItem need.  IInv adds what  *)
(* only holds when every handler runs alone: amounts and evidence.         *)
(*                                                                         *)
(* The lemmas about Books are about the writes the handlers share, so that *)
(* ReceivableRequestsProofs can use them for handlers run step by step.    *)
(***************************************************************************)
EXTENDS Receivables, TLAPS

-----------------------------------------------------------------------------
(* The inductive invariant *)

\* An issue entry is confirmed, and the one its invoice refers to.
IssueEntries ==
  \A e \in Entry : entry[e].kind = "issue" =>
    /\ entry[e].confirmed
    /\ entry[e].invoice \in Invoice
    /\ inv[entry[e].invoice].journal = e
    /\ inv[entry[e].invoice].status \in {"issued", "paid", "cancelled"}

InvoiceRefs ==
  \A i \in Invoice : inv[i].journal # None =>
    entry[inv[i].journal].kind = "issue" /\ entry[inv[i].journal].invoice = i

\* A receipt entry belongs to a posted, uncancelled invoice and to some payment.
ReceiptEntries ==
  \A e \in Entry : entry[e].kind = "receipt" =>
    /\ entry[e].invoice \in Invoice
    /\ inv[entry[e].invoice].journal # None
    /\ inv[entry[e].invoice].status \in {"issued", "paid"}
    /\ \E p \in Payment : pay[p].journal = e

PaymentRefs ==
  \A p \in Payment : pay[p].journal # None =>
    /\ pay[p].kind # "absent"
    /\ pay[p].invoice \in Invoice
    /\ entry[pay[p].journal].kind = "receipt"
    /\ entry[pay[p].journal].invoice = pay[p].invoice

OneReceipt ==
  \A e, f \in Entry :
    /\ entry[e].kind = "receipt" /\ entry[f].kind = "receipt"
    /\ entry[e].invoice = entry[f].invoice
    => e = f

ReversalEntries ==
  \A e \in Entry : entry[e].kind = "reversal" =>
    /\ entry[e].confirmed
    /\ entry[e].invoice \in Invoice
    /\ inv[entry[e].invoice].journal # None
    /\ inv[entry[e].invoice].status = "cancelled"

OneReversal ==
  \A e, f \in Entry :
    /\ entry[e].kind = "reversal" /\ entry[f].kind = "reversal"
    /\ entry[e].invoice = entry[f].invoice
    => e = f

CancelledReversed ==
  \A i \in Invoice : inv[i].status = "cancelled" /\ inv[i].journal # None =>
    \E e \in Entry : entry[e].kind = "reversal" /\ entry[e].invoice = i

AbsentPayments ==
  \A p \in Payment : pay[p].kind = "absent" => pay[p].hash = None

Books ==
  /\ TypeOK
  /\ IssueEntries
  /\ InvoiceRefs
  /\ ReceiptEntries
  /\ PaymentRefs
  /\ OneReceipt
  /\ ReversalEntries
  /\ OneReversal
  /\ CancelledReversed
  /\ AbsentPayments
  /\ HashPaysOnce

IInv == Books /\ PostedAmount /\ PaidHasEvidence
-----------------------------------------------------------------------------
(* Types *)

LEMMA TypeInit == Init => TypeOK
<1> SUFFICES ASSUME Init PROVE TypeOK
  OBVIOUS
<1> USE AmountAssumption DEF Init
<1>1. inv \in [Invoice -> InvoiceRow]
  BY DEF InvoiceRow, InvoiceStatus, NoInvoice
<1>2. pay \in [Payment -> PaymentRow]
  BY DEF PaymentRow, PaymentKind, NoPayment
<1>3. dep \in [Deposit -> DepositRow]
  BY DEF DepositRow, MatchStatus, NoDeposit
<1>4. entry \in [Entry -> EntryRow]
  BY DEF EntryRow, EntryKind, NoEntry
<1> QED
  BY <1>1, <1>2, <1>3, <1>4 DEF TypeOK

\* create_journal_entry writes a well-typed row.
LEMMA PostType ==
  ASSUME entry \in [Entry -> EntryRow], NEW e \in Entry, NEW kind \in EntryKind,
         NEW i \in Invoice \cup {None}, NEW d \in Deposit \cup {None},
         NEW a \in Amount, NEW confirmed \in BOOLEAN,
         Post(e, kind, i, d, a, confirmed)
  PROVE  entry' \in [Entry -> EntryRow]
<1>1. [kind |-> kind, invoice |-> i, deposit |-> d, amount |-> a,
       confirmed |-> confirmed] \in EntryRow
  BY DEF EntryRow
<1> QED
  BY <1>1 DEF Post

LEMMA IssueType ==
  ASSUME TypeOK, NEW i \in Invoice, NEW status \in InvoiceStatus,
         PostInvoiceIssue(i, status), UNCHANGED <<ledger, pay, dep>>
  PROVE  TypeOK'
<1>1. ASSUME NEW e \in Entry, Post(e, "issue", i, None, inv[i].total, TRUE),
             inv' = [inv EXCEPT ![i].status = status, ![i].journal = e]
      PROVE  inv' \in [Invoice -> InvoiceRow] /\ entry' \in [Entry -> EntryRow]
  <2>1. inv[i].total \in Amount
    BY DEF TypeOK, InvoiceRow
  <2>2. entry' \in [Entry -> EntryRow]
    BY <1>1, <2>1, PostType DEF TypeOK, EntryKind
  <2> QED
    BY <1>1, <2>2 DEF TypeOK, InvoiceRow
<1>2. CASE inv' = [inv EXCEPT ![i].status = status] /\ UNCHANGED entry
  BY <1>2 DEF TypeOK, InvoiceRow
<1>3. inv' \in [Invoice -> InvoiceRow] /\ entry' \in [Entry -> EntryRow]
  BY <1>1, <1>2 DEF PostInvoiceIssue, TypeOK
<1> QED
  BY <1>3 DEF TypeOK

LEMMA LinesType ==
  ASSUME TypeOK, NEW i \in Invoice, NEW lines \in BOOLEAN, NEW total \in Amount,
         WriteLines(i, lines, total)
  PROVE  TypeOK'
BY DEF WriteLines, TypeOK, InvoiceRow

LEMMA PaidType ==
  ASSUME TypeOK, NEW i \in Invoice, inv' = [inv EXCEPT ![i].status = "paid"],
         UNCHANGED <<ledger, pay, dep, entry>>
  PROVE  TypeOK'
BY DEF TypeOK, InvoiceRow, InvoiceStatus

LEMMA CancelType ==
  ASSUME TypeOK, NEW i \in Invoice, NEW status, NEW journal \in Entry \cup {None},
         CancelFrom(i, status, journal), UNCHANGED <<ledger, pay, dep>>
  PROVE  TypeOK'
<1>1. inv' \in [Invoice -> InvoiceRow]
  BY DEF CancelFrom, TypeOK, InvoiceRow, InvoiceStatus
<1>2. ASSUME journal # None, NEW e \in Entry,
             Post(e, "reversal", i, None, entry[journal].amount, TRUE)
      PROVE  entry' \in [Entry -> EntryRow]
  <2>1. entry[journal].amount \in Amount
    BY <1>2 DEF TypeOK, EntryRow
  <2> QED
    BY <1>2, <2>1, PostType DEF TypeOK, EntryKind
<1>3. entry' \in [Entry -> EntryRow]
  BY <1>2 DEF CancelFrom, TypeOK
<1> QED
  BY <1>1, <1>3 DEF TypeOK

LEMMA LinkType ==
  ASSUME TypeOK, NEW p \in Payment, NEW i \in Invoice, WriteLink(p, i) PROVE TypeOK'
<1>1. inv' \in [Invoice -> InvoiceRow]
  BY DEF WriteLink, TypeOK, InvoiceRow, InvoiceStatus
<1>2. pay' \in [Payment -> PaymentRow]
  BY DEF WriteLink, TypeOK, PaymentRow
<1> QED
  BY <1>1, <1>2 DEF WriteLink, TypeOK

LEMMA ReceiptType ==
  ASSUME TypeOK, NEW p \in Payment, NEW i \in Invoice, NEW h \in TxHash \cup {None},
         inv[i].journal # None, WriteReceipt(p, i, h)
  PROVE  TypeOK'
<1>1. PICK e \in Entry :
        /\ Post(e, "receipt", i, None, entry[inv[i].journal].amount, TRUE)
        /\ NewPayment(p, "crypto", i, inv[i].total, h, TRUE, e)
  BY DEF WriteReceipt
<1>2. inv[i].total \in Amount /\ inv[i].journal \in Entry
  BY DEF TypeOK, InvoiceRow
<1>3. entry[inv[i].journal].amount \in Amount
  BY <1>2 DEF TypeOK, EntryRow
<1>4. entry' \in [Entry -> EntryRow]
  BY <1>1, <1>3, PostType DEF TypeOK, EntryKind
<1>5. pay' \in [Payment -> PaymentRow]
  BY <1>1, <1>2 DEF NewPayment, TypeOK, PaymentRow, PaymentKind
<1>6. inv' \in [Invoice -> InvoiceRow]
  BY DEF WriteReceipt, TypeOK, InvoiceRow, InvoiceStatus
<1> QED
  BY <1>4, <1>5, <1>6 DEF WriteReceipt, TypeOK

LEMMA ContraType ==
  ASSUME TypeOK, NEW d \in Deposit, NEW confirmed \in BOOLEAN, WriteContra(d, confirmed)
  PROVE  TypeOK'
<1>1. dep' \in [Deposit -> DepositRow] /\ dep[d].amount \in Amount
  BY DEF WriteContra, TypeOK, DepositRow, MatchStatus
<1>2. PICK e \in Entry : Post(e, "contra", None, d, dep[d].amount, confirmed)
  BY DEF WriteContra
<1>3. [kind |-> "contra", invoice |-> None, deposit |-> d,
       amount |-> dep[d].amount, confirmed |-> confirmed] \in EntryRow
  BY <1>1 DEF EntryRow, EntryKind
<1>4. entry' \in [Entry -> EntryRow]
  BY <1>2, <1>3 DEF Post, TypeOK
<1> QED
  BY <1>1, <1>4 DEF WriteContra, TypeOK

LEMMA SettlementType ==
  ASSUME TypeOK, NEW d \in Deposit, NEW p, NEW i \in Invoice, NEW confirmed \in BOOLEAN,
         WriteSettlement(d, p, i, confirmed)
  PROVE  TypeOK'
<1>1. PICK e \in Entry :
        /\ Post(e, "receipt", i, d, dep[d].amount, confirmed)
        /\ pay' = [pay EXCEPT ![p].journal = e]
  BY DEF WriteSettlement
<1>2. dep' \in [Deposit -> DepositRow] /\ dep[d].amount \in Amount
  BY DEF WriteSettlement, TypeOK, DepositRow, MatchStatus
<1>3. entry' \in [Entry -> EntryRow]
  BY <1>1, <1>2, PostType DEF TypeOK, EntryKind
<1>4. pay' \in [Payment -> PaymentRow]
  BY <1>1 DEF TypeOK, PaymentRow
<1> QED
  BY <1>2, <1>3, <1>4 DEF WriteSettlement, TypeOK

LEMMA TypeInvoice == TypeOK /\ InvoiceNext => TypeOK'
<1> SUFFICES ASSUME TypeOK, NEW i \in Invoice,
        \/ CreateInvoice(i)
        \/ \E lines \in BOOLEAN, total \in Amount : EditLines(i, lines, total)
        \/ IssueInvoice(i)
        \/ PostJournal(i)
        \/ CancelInvoice(i)
        \/ \E p \in Payment : MarkPaid(i, p)
    PROVE TypeOK'
  BY DEF InvoiceNext
<1>1. CASE CreateInvoice(i)
  BY <1>1 DEF CreateInvoice, TypeOK, InvoiceRow, InvoiceStatus
<1>2. ASSUME NEW lines \in BOOLEAN, NEW total \in Amount, EditLines(i, lines, total)
      PROVE  TypeOK'
  BY <1>2, LinesType DEF EditLines
<1>3. CASE IssueInvoice(i)
  BY <1>3, IssueType DEF IssueInvoice, InvoiceStatus
<1>4. CASE PostJournal(i)
  BY <1>4, IssueType DEF PostJournal, InvoiceStatus
<1>5. CASE CancelInvoice(i)
  <2>1. inv[i].journal \in Entry \cup {None}
    BY DEF TypeOK, InvoiceRow
  <2> QED
    BY <1>5, <2>1, CancelType DEF CancelInvoice
<1>6. ASSUME NEW p \in Payment, MarkPaid(i, p) PROVE TypeOK'
  BY <1>6, PaidType DEF MarkPaid
<1> QED
  BY <1>1, <1>2, <1>3, <1>4, <1>5, <1>6

LEMMA TypePayment == TypeOK /\ PaymentNext => TypeOK'
<1> SUFFICES ASSUME TypeOK, NEW p \in Payment,
        \/ \E kind \in PaymentKind, i \in Invoice \cup {None}, a \in Amount,
              h \in TxHash \cup {None} : RecordPayment(p, kind, i, a, h)
        \/ \E i \in Invoice :
             \/ LinkPayment(p, i)
             \/ \E kind \in PaymentKind, d \in Deposit \cup {None} :
                  PipelinePayment(p, kind, i, d)
             \/ \E h \in TxHash \cup {None} : ReceiveCrypto(p, i, h)
    PROVE TypeOK'
  BY DEF PaymentNext
<1>1. ASSUME NEW kind \in PaymentKind, NEW i \in Invoice \cup {None},
             NEW a \in Amount, NEW h \in TxHash \cup {None},
             RecordPayment(p, kind, i, a, h)
      PROVE  TypeOK'
  BY <1>1 DEF RecordPayment, NewPayment, TypeOK, PaymentRow
<1>2. ASSUME NEW i \in Invoice, LinkPayment(p, i) PROVE TypeOK'
  BY <1>2, LinkType DEF LinkPayment
<1>3. ASSUME NEW i \in Invoice, NEW kind \in PaymentKind,
             NEW d \in Deposit \cup {None}, PipelinePayment(p, kind, i, d)
      PROVE  TypeOK'
  <2>1. inv[i].total \in Amount
    BY DEF TypeOK, InvoiceRow
  <2>2. pay' \in [Payment -> PaymentRow]
    BY <1>3, <2>1 DEF PipelinePayment, NewPayment, TypeOK, PaymentRow
  <2>3. dep' \in [Deposit -> DepositRow]
    BY <1>3 DEF PipelinePayment, TypeOK, DepositRow, MatchStatus
  <2> QED
    BY <1>3, <2>2, <2>3 DEF PipelinePayment, TypeOK
<1>4. ASSUME NEW i \in Invoice, NEW h \in TxHash \cup {None}, ReceiveCrypto(p, i, h)
      PROVE  TypeOK'
  BY <1>4, ReceiptType DEF ReceiveCrypto
<1> QED
  BY <1>1, <1>2, <1>3, <1>4

LEMMA TypeDeposit == TypeOK /\ DepositNext => TypeOK'
<1> SUFFICES ASSUME TypeOK, DepositNext PROVE TypeOK'
  OBVIOUS
<1>1. CASE AutoMatch
  <2>1. PICK f \in [{d \in Deposit : dep[d].status = "unmatched"} -> Payment \cup {None}] :
          /\ dep' = [d \in Deposit |->
               IF d \in DOMAIN f /\ f[d] # None
               THEN [dep[d] EXCEPT !.status = "auto_matched", !.payment = f[d]]
               ELSE dep[d]]
          /\ UNCHANGED <<ledger, inv, pay, entry>>
    BY <1>1 DEF AutoMatch
  <2> QED
    BY <2>1 DEF TypeOK, DepositRow, MatchStatus
<1>2. ASSUME NEW d \in Deposit, NEW a \in Amount, ImportDeposit(d, a) PROVE TypeOK'
  BY <1>2 DEF ImportDeposit, TypeOK, DepositRow, MatchStatus
<1>3. ASSUME NEW d \in Deposit, NEW p \in Payment, ManualMatch(d, p) PROVE TypeOK'
  BY <1>3 DEF ManualMatch, TypeOK, DepositRow, MatchStatus
<1>4. ASSUME NEW d \in Deposit, IgnoreDeposit(d) PROVE TypeOK'
  BY <1>4 DEF IgnoreDeposit, TypeOK, DepositRow, MatchStatus
<1>5. ASSUME NEW d \in Deposit, NEW confirmed \in BOOLEAN, ReconcileContra(d, confirmed)
      PROVE  TypeOK'
  BY <1>5, ContraType DEF ReconcileContra
<1>6. ASSUME NEW d \in Deposit, NEW i \in Invoice, NEW confirmed \in BOOLEAN,
             ReconcileSettlement(d, i, confirmed)
      PROVE  TypeOK'
  BY <1>6, SettlementType DEF ReconcileSettlement
<1> QED
  BY <1>1, <1>2, <1>3, <1>4, <1>5, <1>6 DEF DepositNext

LEMMA TypeJournal == TypeOK /\ JournalNext => TypeOK'
<1> SUFFICES ASSUME TypeOK, JournalNext PROVE TypeOK'
  OBVIOUS
<1>1. ASSUME NEW e \in Entry, ConfirmEntry(e) PROVE TypeOK'
  BY <1>1 DEF ConfirmEntry, TypeOK, EntryRow
<1>2. ASSUME NEW e \in Entry, DeleteEntry(e) PROVE TypeOK'
  <2>1. NoEntry \in EntryRow
    BY AmountAssumption DEF NoEntry, EntryRow
  <2>2. entry' \in [Entry -> EntryRow]
    BY <1>2, <2>1 DEF DeleteEntry, TypeOK
  <2>3. inv' \in [Invoice -> InvoiceRow]
    BY <1>2 DEF DeleteEntry, TypeOK, InvoiceRow
  <2>4. pay' \in [Payment -> PaymentRow]
    BY <1>2 DEF DeleteEntry, TypeOK, PaymentRow
  <2> QED
    BY <1>2, <2>2, <2>3, <2>4 DEF DeleteEntry, TypeOK
<1>3. CASE ConfigureLedger
  BY <1>3 DEF ConfigureLedger, TypeOK
<1> QED
  BY <1>1, <1>2, <1>3 DEF JournalNext

LEMMA TypeStep == TypeOK /\ [Next]_vars => TypeOK'
<1>1. ASSUME TypeOK, UNCHANGED vars PROVE TypeOK'
  BY <1>1 DEF vars, TypeOK
<1> QED
  BY <1>1, TypeInvoice, TypePayment, TypeDeposit, TypeJournal DEF Next

\* Every row keeps the type of its table, whatever handlers ran.
THEOREM TypeCorrect == Spec => []TypeOK
BY TypeInit, TypeStep, PTL DEF Spec
-----------------------------------------------------------------------------
(* Books survives every write of the handlers *)

LEMMA BooksInit == Init => Books
<1> SUFFICES ASSUME Init PROVE Books
  OBVIOUS
<1>1. TypeOK
  BY TypeInit
<1>2. /\ \A i \in Invoice : inv[i].status = "absent" /\ inv[i].journal = None
      /\ \A p \in Payment : pay[p].journal = None /\ pay[p].hash = None
      /\ \A e \in Entry : entry[e].kind = "free"
  BY DEF Init, NoInvoice, NoPayment, NoEntry
<1> QED
  BY <1>1, <1>2 DEF Books, IssueEntries, InvoiceRefs, ReceiptEntries, PaymentRefs,
     OneReceipt, ReversalEntries, OneReversal, CancelledReversed, AbsentPayments,
     HashPaysOnce

\* What the deposit and ledger handlers leave alone.
LEMMA BooksUnchanged ==
  ASSUME Books, TypeOK', UNCHANGED <<inv, pay, entry>>
  PROVE  Books'
BY DEF Books, IssueEntries, InvoiceRefs, ReceiptEntries, PaymentRefs,
   OneReceipt, ReversalEntries, OneReversal, CancelledReversed, AbsentPayments,
   HashPaysOnce

\* A reference that is not NULL is a row.
LEMMA References ==
  ASSUME Books
  PROVE  /\ \A i \in Invoice : inv[i].journal # None => inv[i].journal \in Entry
         /\ \A p \in Payment : pay[p].journal # None => pay[p].journal \in Entry
<1>1. \A i \in Invoice : inv[i].journal # None => inv[i].journal \in Entry
  BY DEF Books, TypeOK, InvoiceRow
<1>2. \A p \in Payment : pay[p].journal # None => pay[p].journal \in Entry
  BY DEF Books, TypeOK, PaymentRow
<1> QED
  BY <1>1, <1>2

\* Nothing is posted for a draft.
LEMMA DraftUnposted ==
  ASSUME Books, NEW i \in Invoice, inv[i].status \in {"absent", "draft"}
  PROVE  /\ inv[i].journal = None
         /\ \A e \in Entry : entry[e].invoice = i =>
              entry[e].kind \notin {"issue", "receipt", "reversal"}
<1>1. ASSUME NEW e \in Entry, entry[e].invoice = i
      PROVE  entry[e].kind \notin {"issue", "receipt", "reversal"}
  BY <1>1 DEF Books, IssueEntries, ReceiptEntries, ReversalEntries
<1> QED
  BY <1>1, References DEF Books, InvoiceRefs

\* Handlers that rewrite one invoice and post nothing: the status stays, a draft may become
\* anything that is not cancelled, an issued invoice may become paid.
LEMMA BooksInvoiceOnly ==
  ASSUME Books, TypeOK', NEW i \in Invoice,
         \A j \in Invoice : j # i => inv'[j] = inv[j],
         inv'[i].journal = inv[i].journal,
         \/ inv'[i].status = inv[i].status
         \/ inv[i].status \in {"absent", "draft"} /\ inv'[i].status \in {"draft", "issued"}
         \/ inv[i].status = "issued" /\ inv'[i].status = "paid",
         UNCHANGED <<pay, entry>>
  PROVE  Books'
<1>1. \A j \in Invoice : inv'[j].journal = inv[j].journal
  OBVIOUS
<1>2. inv[i].status \in {"absent", "draft"} =>
        /\ inv[i].journal = None
        /\ \A e \in Entry : entry[e].invoice = i =>
              entry[e].kind \notin {"issue", "receipt", "reversal"}
  BY DraftUnposted
<1>3. IssueEntries'
  BY <1>1, <1>2 DEF Books, IssueEntries
<1>4. InvoiceRefs'
  BY <1>1 DEF Books, InvoiceRefs
<1>5. ReceiptEntries'
  BY <1>1, <1>2 DEF Books, ReceiptEntries
<1>6. PaymentRefs' /\ OneReceipt' /\ OneReversal' /\ AbsentPayments' /\ HashPaysOnce'
  BY DEF Books, PaymentRefs, OneReceipt, OneReversal, AbsentPayments, HashPaysOnce
<1>7. ReversalEntries'
  BY <1>1, <1>2 DEF Books, ReversalEntries
<1>8. CancelledReversed'
  BY <1>1 DEF Books, CancelledReversed
<1> QED
  BY <1>3, <1>4, <1>5, <1>6, <1>7, <1>8 DEF Books

LEMMA BooksCreate ==
  ASSUME Books, TypeOK', NEW i \in Invoice, CreateInvoice(i) PROVE Books'
<1>1. /\ \A j \in Invoice : j # i => inv'[j] = inv[j]
      /\ inv'[i].journal = inv[i].journal /\ inv'[i].status = "draft"
      /\ inv[i].status = "absent"
  BY DEF CreateInvoice, Books, TypeOK, InvoiceRow
<1> QED
  BY <1>1, BooksInvoiceOnly DEF CreateInvoice

\* Line items written to an invoice in any status: what a stale edit does.
LEMMA BooksLines ==
  ASSUME Books, TypeOK', NEW i \in Invoice, NEW lines \in BOOLEAN, NEW total \in Amount,
         WriteLines(i, lines, total)
  PROVE  Books'
<1>1. /\ \A j \in Invoice : j # i => inv'[j] = inv[j]
      /\ inv'[i].journal = inv[i].journal /\ inv'[i].status = inv[i].status
  BY DEF WriteLines, Books, TypeOK, InvoiceRow
<1> QED
  BY <1>1, BooksInvoiceOnly DEF WriteLines

LEMMA BooksMarkPaid ==
  ASSUME Books, TypeOK', NEW i \in Invoice, NEW p \in Payment, MarkPaid(i, p) PROVE Books'
<1>1. /\ \A j \in Invoice : j # i => inv'[j] = inv[j]
      /\ inv'[i].journal = inv[i].journal /\ inv'[i].status = "paid"
      /\ inv[i].status = "issued"
  BY DEF MarkPaid, Books, TypeOK, InvoiceRow
<1> QED
  BY <1>1, BooksInvoiceOnly DEF MarkPaid

\* What post_invoice_issue does to the invoices, with or without an entry.
LEMMA IssuedInvoice ==
  ASSUME TypeOK, NEW i \in Invoice, NEW status, PostInvoiceIssue(i, status)
  PROVE  /\ \A j \in Invoice : j # i => inv'[j] = inv[j]
         /\ inv'[i].status = status /\ inv'[i].total = inv[i].total
<1>1. CASE inv' = [inv EXCEPT ![i].status = status]
  BY <1>1 DEF TypeOK, InvoiceRow
<1>2. ASSUME NEW e \in Entry, inv' = [inv EXCEPT ![i].status = status, ![i].journal = e]
      PROVE  /\ \A j \in Invoice : j # i => inv'[j] = inv[j]
             /\ inv'[i].status = status /\ inv'[i].total = inv[i].total
  BY <1>2 DEF TypeOK, InvoiceRow
<1> QED
  BY <1>1, <1>2 DEF PostInvoiceIssue

\* post_invoice_issue from a draft or from an issued invoice not yet posted.
LEMMA BooksIssue ==
  ASSUME Books, TypeOK', NEW i \in Invoice, inv[i].status \in {"draft", "issued"},
         PostInvoiceIssue(i, "issued"), UNCHANGED pay
  PROVE  Books'
<1>1. ASSUME inv' = [inv EXCEPT ![i].status = "issued"], UNCHANGED entry
      PROVE  Books'
  <2>1. /\ \A j \in Invoice : j # i => inv'[j] = inv[j]
        /\ inv'[i].journal = inv[i].journal /\ inv'[i].status = "issued"
    BY <1>1 DEF Books, TypeOK, InvoiceRow
  <2> QED
    BY <1>1, <2>1, BooksInvoiceOnly
<1>2. ASSUME NEW e \in Entry, Post(e, "issue", i, None, inv[i].total, TRUE),
             inv' = [inv EXCEPT ![i].status = "issued", ![i].journal = e]
      PROVE  Books'
  <2>1. /\ \A j \in Invoice : j # i => inv'[j] = inv[j]
        /\ inv'[i].status = "issued" /\ inv'[i].journal = e /\ inv[i].journal = None
    BY <1>2 DEF Books, TypeOK, InvoiceRow, PostInvoiceIssue
  <2>2. /\ \A f \in Entry : f # e => entry'[f] = entry[f]
        /\ entry[e].kind = "free"
        /\ entry'[e].kind = "issue" /\ entry'[e].invoice = i /\ entry'[e].confirmed
    BY <1>2 DEF Post, Books, TypeOK
  <2>3. \A f \in Entry : entry[f].invoice = i =>
          entry[f].kind \notin {"issue", "receipt", "reversal"}
    BY <2>1, NoneAssumption DEF Books, IssueEntries, ReceiptEntries, ReversalEntries
  <2>4. IssueEntries'
    BY <2>1, <2>2, <2>3 DEF Books, IssueEntries
  <2>5. InvoiceRefs'
    BY <2>1, <2>2, References DEF Books, InvoiceRefs
  <2>6. ReceiptEntries'
    BY <2>1, <2>2, <2>3 DEF Books, ReceiptEntries
  <2>7. PaymentRefs'
    BY <2>2, References DEF Books, PaymentRefs
  <2>8. OneReceipt' /\ OneReversal'
    BY <2>2 DEF Books, OneReceipt, OneReversal
  <2>9. ReversalEntries'
    BY <2>1, <2>2, <2>3 DEF Books, ReversalEntries
  <2>10. CancelledReversed'
    BY <2>1, <2>2 DEF Books, CancelledReversed
  <2>11. AbsentPayments' /\ HashPaysOnce'
    BY DEF Books, AbsentPayments, HashPaysOnce
  <2> QED
    BY <2>4, <2>5, <2>6, <2>7, <2>8, <2>9, <2>10, <2>11 DEF Books
<1> QED
  BY <1>1, <1>2 DEF PostInvoiceIssue

\* cancel_invoice looks for linked payments: an invoice without one has no receipt.
LEMMA CancelledUnsettled ==
  ASSUME Books, NEW i \in Invoice, CancelInvoice(i)
  PROVE  \A e \in Entry : entry[e].invoice = i => entry[e].kind \notin {"receipt", "reversal"}
<1>1. inv[i].status = "issued" =>
        \A p \in Payment : pay[p].invoice # i \/ pay[p].kind = "absent"
  BY DEF CancelInvoice, LinkedPayment, PaysFor
<1>2. CASE inv[i].status = "draft"
  BY <1>2, DraftUnposted
<1>3. CASE inv[i].status = "issued"
  <2>1. ASSUME NEW e \in Entry, entry[e].invoice = i, entry[e].kind = "receipt" PROVE FALSE
    <3>1. PICK p \in Payment : pay[p].journal = e
      BY <2>1 DEF Books, ReceiptEntries
    <3> QED
      BY <1>1, <1>3, <2>1, <3>1, NoneAssumption DEF Books, PaymentRefs
  <2>2. ASSUME NEW e \in Entry, entry[e].invoice = i, entry[e].kind = "reversal" PROVE FALSE
    BY <1>3, <2>2 DEF Books, ReversalEntries
  <2> QED
    BY <2>1, <2>2
<1> QED
  BY <1>2, <1>3 DEF CancelInvoice

LEMMA BooksCancel ==
  ASSUME Books, TypeOK', NEW i \in Invoice, CancelInvoice(i) PROVE Books'
<1>1. /\ \A j \in Invoice : j # i => inv'[j] = inv[j]
      /\ inv'[i].status = "cancelled"
      /\ \A j \in Invoice : inv'[j].journal = inv[j].journal
      /\ UNCHANGED pay
  BY DEF CancelInvoice, CancelFrom, Books, TypeOK, InvoiceRow
<1>2. AbsentPayments' /\ HashPaysOnce'
  BY <1>1 DEF Books, AbsentPayments, HashPaysOnce
<1>3. \A e \in Entry : entry[e].invoice = i => entry[e].kind \notin {"receipt", "reversal"}
  BY CancelledUnsettled
<1>4. ASSUME UNCHANGED entry, ~(inv[i].status = "issued" /\ inv[i].journal # None)
      PROVE  Books'
  <2>1. inv[i].journal = None
    BY <1>4, DraftUnposted DEF CancelInvoice
  <2>2. IssueEntries' /\ ReceiptEntries' /\ ReversalEntries'
    BY <1>1, <1>3, <1>4, <2>1, NoneAssumption
       DEF Books, IssueEntries, ReceiptEntries, ReversalEntries
  <2>3. InvoiceRefs' /\ CancelledReversed'
    BY <1>1, <1>4, <2>1 DEF Books, InvoiceRefs, CancelledReversed
  <2>4. PaymentRefs' /\ OneReceipt' /\ OneReversal'
    BY <1>1, <1>4 DEF Books, PaymentRefs, OneReceipt, OneReversal
  <2> QED
    BY <1>2, <2>2, <2>3, <2>4 DEF Books
<1>5. ASSUME inv[i].status = "issued", inv[i].journal # None, NEW e \in Entry,
             Post(e, "reversal", i, None, entry[inv[i].journal].amount, TRUE)
      PROVE  Books'
  <2>1. /\ \A f \in Entry : f # e => entry'[f] = entry[f]
        /\ entry[e].kind = "free"
        /\ entry'[e].kind = "reversal" /\ entry'[e].invoice = i /\ entry'[e].confirmed
    BY <1>5 DEF Post, Books, TypeOK
  <2>2. IssueEntries'
    BY <1>1, <2>1 DEF Books, IssueEntries
  <2>3. InvoiceRefs'
    BY <1>1, <2>1, References DEF Books, InvoiceRefs
  <2>4. ReceiptEntries'
    BY <1>1, <1>3, <2>1 DEF Books, ReceiptEntries
  <2>5. PaymentRefs'
    BY <1>1, <2>1, References DEF Books, PaymentRefs
  <2>6. OneReceipt' /\ OneReversal'
    BY <1>3, <2>1 DEF Books, OneReceipt, OneReversal
  <2>7. ReversalEntries'
    BY <1>1, <1>5, <2>1 DEF Books, ReversalEntries
  <2>8. CancelledReversed'
    BY <1>1, <2>1 DEF Books, CancelledReversed
  <2> QED
    BY <1>2, <2>2, <2>3, <2>4, <2>5, <2>6, <2>7, <2>8 DEF Books
<1> QED
  BY <1>4, <1>5 DEF CancelInvoice, CancelFrom

\* A new payment without a receipt: record_payment and the pipeline.
LEMMA BooksNewPayment ==
  ASSUME Books, TypeOK', NEW p \in Payment, NEW kind, NEW i, NEW a, NEW h, NEW verified,
         NewPayment(p, kind, i, a, h, verified, None), kind # "absent",
         h # None => ~HashRecorded(h),
         UNCHANGED <<inv, entry>>
  PROVE  Books'
<1>1. /\ \A q \in Payment : q # p => pay'[q] = pay[q]
      /\ pay[p].kind = "absent"
      /\ pay'[p].kind = kind /\ pay'[p].hash = h /\ pay'[p].journal = None
  BY DEF NewPayment, Books, TypeOK
<1>2. pay[p].journal = None /\ pay[p].hash = None
  BY <1>1 DEF Books, PaymentRefs, AbsentPayments
<1>3. IssueEntries' /\ InvoiceRefs' /\ OneReceipt' /\ ReversalEntries' /\ OneReversal'
      /\ CancelledReversed'
  BY DEF Books, IssueEntries, InvoiceRefs, OneReceipt, ReversalEntries, OneReversal,
     CancelledReversed
<1>4. ReceiptEntries'
  BY <1>1, <1>2, NoneAssumption DEF Books, ReceiptEntries
<1>5. PaymentRefs'
  BY <1>1 DEF Books, PaymentRefs
<1>6. AbsentPayments'
  BY <1>1 DEF Books, AbsentPayments
<1>7. HashPaysOnce'
  BY <1>1 DEF Books, HashPaysOnce, HashRecorded, AbsentPayments
<1> QED
  BY <1>3, <1>4, <1>5, <1>6, <1>7 DEF Books

LEMMA BooksLink ==
  ASSUME Books, TypeOK', NEW p \in Payment, NEW i \in Invoice, LinkPayment(p, i)
  PROVE  Books'
<1>1. /\ \A j \in Invoice : j # i => inv'[j] = inv[j]
      /\ inv[i].status = "issued" /\ inv'[i].status = "paid"
      /\ \A j \in Invoice : inv'[j].journal = inv[j].journal
      /\ UNCHANGED entry
  BY DEF LinkPayment, WriteLink, Linkable, Books, TypeOK, InvoiceRow
<1>2. /\ \A q \in Payment : q # p => pay'[q] = pay[q]
      /\ \A q \in Payment : /\ pay'[q].kind = pay[q].kind
                            /\ pay'[q].hash = pay[q].hash
                            /\ pay'[q].journal = pay[q].journal
      /\ pay'[p].invoice = i /\ pay[p].invoice \in {None, i}
  BY DEF LinkPayment, WriteLink, Linkable, Books, TypeOK, PaymentRow
<1>3. IssueEntries' /\ ReversalEntries'
  BY <1>1 DEF Books, IssueEntries, ReversalEntries
<1>4. InvoiceRefs' /\ OneReceipt' /\ OneReversal' /\ CancelledReversed'
  BY <1>1 DEF Books, InvoiceRefs, OneReceipt, OneReversal, CancelledReversed
<1>5. ReceiptEntries'
  BY <1>1, <1>2 DEF Books, ReceiptEntries
<1>6. PaymentRefs'
  <2> SUFFICES ASSUME NEW q \in Payment, pay'[q].journal # None
      PROVE  /\ pay'[q].kind # "absent" /\ pay'[q].invoice \in Invoice
             /\ entry'[pay'[q].journal].kind = "receipt"
             /\ entry'[pay'[q].journal].invoice = pay'[q].invoice
    BY DEF PaymentRefs
  <2>1. /\ pay[q].kind # "absent" /\ pay[q].invoice \in Invoice
        /\ entry[pay[q].journal].kind = "receipt"
        /\ entry[pay[q].journal].invoice = pay[q].invoice
    BY <1>2 DEF Books, PaymentRefs
  <2>2. pay'[q].invoice = pay[q].invoice
    BY <1>2, <2>1, NoneAssumption
  <2> QED
    BY <1>1, <1>2, <2>1, <2>2
<1>7. AbsentPayments' /\ HashPaysOnce'
  BY <1>2 DEF Books, AbsentPayments, HashPaysOnce
<1> QED
  BY <1>3, <1>4, <1>5, <1>6, <1>7 DEF Books

\* receivable_settled answers whether a receipt entry exists.
LEMMA SettledMeansReceipt ==
  ASSUME Books, NEW i \in Invoice, ~ReceivableSettled(i)
  PROVE  /\ \A e \in Entry : entry[e].kind = "receipt" => entry[e].invoice # i
         /\ \A p \in Payment : pay[p].invoice = i => pay[p].journal = None
<1>1. ASSUME NEW p \in Payment, pay[p].invoice = i PROVE pay[p].journal = None
  BY <1>1 DEF Books, PaymentRefs, ReceivableSettled, PaysFor
<1>2. ASSUME NEW e \in Entry, entry[e].kind = "receipt", entry[e].invoice = i PROVE FALSE
  <2>1. PICK p \in Payment : pay[p].journal = e
    BY <1>2 DEF Books, ReceiptEntries
  <2>2. pay[p].invoice = i
    BY <1>2, <2>1, NoneAssumption DEF Books, PaymentRefs
  <2> QED
    BY <1>1, <2>1, <2>2, NoneAssumption
<1> QED
  BY <1>1, <1>2

\* A receipt entry posted for a posted invoice that had none, and referred to by one
\* payment of the invoice: what receive_crypto_payment and the bank settlement share.
LEMMA ReceiptPosted ==
  ASSUME Books, NEW i \in Invoice, NEW p \in Payment, NEW e \in Entry,
         ~ReceivableSettled(i), inv[i].journal # None,
         inv[i].status \in {"issued", "paid"}, inv'[i].status \in {"issued", "paid"},
         inv'[i].journal = inv[i].journal,
         \A j \in Invoice : j # i => inv'[j] = inv[j],
         entry[e].kind = "free",
         entry'[e].kind = "receipt", entry'[e].invoice = i,
         \A f \in Entry : f # e => entry'[f] = entry[f],
         \A q \in Payment : q # p => pay'[q] = pay[q],
         pay[p].journal = None, pay'[p].journal = e,
         pay'[p].kind # "absent", pay'[p].invoice = i
  PROVE  /\ IssueEntries' /\ InvoiceRefs' /\ ReceiptEntries' /\ PaymentRefs'
         /\ OneReceipt' /\ ReversalEntries' /\ OneReversal' /\ CancelledReversed'
<1>1. \A f \in Entry : entry[f].kind = "receipt" => entry[f].invoice # i
  BY SettledMeansReceipt
<1>2. IssueEntries'
  BY DEF Books, IssueEntries
<1>3. InvoiceRefs'
  BY References DEF Books, InvoiceRefs
<1>4. ReceiptEntries'
  <2> SUFFICES ASSUME NEW f \in Entry, entry'[f].kind = "receipt"
      PROVE  /\ entry'[f].invoice \in Invoice
             /\ inv'[entry'[f].invoice].journal # None
             /\ inv'[entry'[f].invoice].status \in {"issued", "paid"}
             /\ \E q \in Payment : pay'[q].journal = f
    BY DEF ReceiptEntries
  <2>1. CASE f = e
    BY <2>1
  <2>2. CASE f # e
    <3>1. PICK q \in Payment : pay[q].journal = f
      BY <2>2 DEF Books, ReceiptEntries
    <3>2. pay'[q].journal = f
      BY <3>1, NoneAssumption
    <3> QED
      BY <1>1, <2>2, <3>2 DEF Books, ReceiptEntries
  <2> QED
    BY <2>1, <2>2
<1>5. PaymentRefs'
  BY References DEF Books, PaymentRefs
<1>6. OneReceipt' /\ OneReversal'
  BY <1>1 DEF Books, OneReceipt, OneReversal
<1>7. ReversalEntries'
  BY DEF Books, ReversalEntries
<1>8. CancelledReversed'
  BY DEF Books, CancelledReversed
<1> QED
  BY <1>2, <1>3, <1>4, <1>5, <1>6, <1>7, <1>8

LEMMA BooksReceipt ==
  ASSUME Books, TypeOK', NEW p \in Payment, NEW i \in Invoice,
         NEW h \in TxHash \cup {None}, ReceivableDue(i, h), inv[i].journal # None,
         WriteReceipt(p, i, h)
  PROVE  Books'
<1>1. PICK e \in Entry :
        /\ Post(e, "receipt", i, None, entry[inv[i].journal].amount, TRUE)
        /\ NewPayment(p, "crypto", i, inv[i].total, h, TRUE, e)
  BY DEF WriteReceipt
<1>2. /\ \A q \in Payment : q # p => pay'[q] = pay[q]
      /\ pay[p].kind = "absent"
      /\ pay'[p].kind = "crypto" /\ pay'[p].hash = h /\ pay'[p].journal = e
      /\ pay'[p].invoice = i
  BY <1>1 DEF NewPayment, Books, TypeOK
<1>3. /\ \A f \in Entry : f # e => entry'[f] = entry[f]
      /\ entry[e].kind = "free"
      /\ entry'[e].kind = "receipt" /\ entry'[e].invoice = i
  BY <1>1 DEF Post, Books, TypeOK
<1>4. /\ \A j \in Invoice : j # i => inv'[j] = inv[j]
      /\ inv[i].status = "issued" /\ inv'[i].status = "paid"
      /\ inv'[i].journal = inv[i].journal
  BY DEF WriteReceipt, ReceivableDue, Books, TypeOK, InvoiceRow
<1>5. pay[p].journal = None
  BY <1>2 DEF Books, PaymentRefs
<1>6. /\ IssueEntries' /\ InvoiceRefs' /\ ReceiptEntries' /\ PaymentRefs'
      /\ OneReceipt' /\ ReversalEntries' /\ OneReversal' /\ CancelledReversed'
  BY <1>2, <1>3, <1>4, <1>5, ReceiptPosted DEF ReceivableDue
<1>7. AbsentPayments'
  BY <1>2 DEF Books, AbsentPayments
<1>8. HashPaysOnce'
  BY <1>2 DEF Books, HashPaysOnce, AbsentPayments, ReceivableDue, HashRecorded
<1> QED
  BY <1>6, <1>7, <1>8 DEF Books

\* The settlement is checked on the invoice; that the payment pays it and that the invoice
\* is posted may have been read earlier, and still holds.
LEMMA BooksSettlement ==
  ASSUME Books, TypeOK', NEW d \in Deposit, NEW p \in Payment, NEW i \in Invoice,
         NEW confirmed \in BOOLEAN,
         PaysFor(p, i), inv[i].journal # None, Settleable(d, i),
         WriteSettlement(d, p, i, confirmed)
  PROVE  Books'
<1>1. PICK e \in Entry :
        /\ Post(e, "receipt", i, d, dep[d].amount, confirmed)
        /\ pay' = [pay EXCEPT ![p].journal = e]
  BY DEF WriteSettlement
<1>2. /\ \A f \in Entry : f # e => entry'[f] = entry[f]
      /\ entry[e].kind = "free"
      /\ entry'[e].kind = "receipt" /\ entry'[e].invoice = i
  BY <1>1 DEF Post, Books, TypeOK
<1>3. /\ \A q \in Payment : q # p => pay'[q] = pay[q]
      /\ \A q \in Payment : /\ pay'[q].kind = pay[q].kind
                            /\ pay'[q].hash = pay[q].hash
                            /\ pay'[q].invoice = pay[q].invoice
      /\ pay'[p].journal = e
  BY <1>1 DEF Books, TypeOK, PaymentRow
<1>4. pay[p].journal = None
  BY DEF Settleable, ReceivableSettled, PaysFor
<1>5. UNCHANGED inv
  BY DEF WriteSettlement
<1>6. /\ IssueEntries' /\ InvoiceRefs' /\ ReceiptEntries' /\ PaymentRefs'
      /\ OneReceipt' /\ ReversalEntries' /\ OneReversal' /\ CancelledReversed'
  <2>1. ~ReceivableSettled(i) /\ inv[i].status \in {"issued", "paid"}
    BY DEF Settleable
  <2>2. pay'[p].kind # "absent" /\ pay'[p].invoice = i
    BY <1>3 DEF PaysFor
  <2> QED
    BY <1>2, <1>3, <1>4, <1>5, <2>1, <2>2, ReceiptPosted
<1>7. AbsentPayments' /\ HashPaysOnce'
  BY <1>3 DEF Books, AbsentPayments, HashPaysOnce
<1> QED
  BY <1>6, <1>7 DEF Books

\* The payment a deposit is matched to, when it settles an invoice.
LEMMA SettlingPayment ==
  ASSUME TypeOK, NEW d \in Deposit, NEW i \in Invoice, SettlesInvoice(d, i)
  PROVE  /\ dep[d].payment \in Payment
         /\ PaysFor(dep[d].payment, i)
         /\ inv[i].journal # None
BY DEF SettlesInvoice, TypeOK, DepositRow

LEMMA BooksContra ==
  ASSUME Books, TypeOK', NEW d \in Deposit, NEW confirmed \in BOOLEAN,
         WriteContra(d, confirmed)
  PROVE  Books'
<1>1. UNCHANGED <<inv, pay>>
  BY DEF WriteContra
<1>2. PICK e \in Entry : Post(e, "contra", None, d, dep[d].amount, confirmed)
  BY DEF WriteContra
<1>3. /\ \A f \in Entry : f # e => entry'[f] = entry[f]
      /\ entry[e].kind = "free" /\ entry'[e].kind = "contra"
  BY <1>2 DEF Post, Books, TypeOK
<1>4. IssueEntries' /\ ReceiptEntries' /\ ReversalEntries'
  BY <1>1, <1>3 DEF Books, IssueEntries, ReceiptEntries, ReversalEntries
<1>5. InvoiceRefs' /\ PaymentRefs'
  BY <1>1, <1>3, References DEF Books, InvoiceRefs, PaymentRefs
<1>6. OneReceipt' /\ OneReversal' /\ CancelledReversed'
  BY <1>1, <1>3 DEF Books, OneReceipt, OneReversal, CancelledReversed
<1>7. AbsentPayments' /\ HashPaysOnce'
  BY <1>1 DEF Books, AbsentPayments, HashPaysOnce
<1> QED
  BY <1>4, <1>5, <1>6, <1>7 DEF Books

LEMMA BooksConfirm ==
  ASSUME Books, TypeOK', NEW e \in Entry, ConfirmEntry(e) PROVE Books'
<1>1. UNCHANGED <<inv, pay>>
  BY DEF ConfirmEntry
<1>2. \A f \in Entry : /\ entry'[f].kind = entry[f].kind
                       /\ entry'[f].invoice = entry[f].invoice
                       /\ entry[f].confirmed => entry'[f].confirmed
  BY DEF ConfirmEntry, Books, TypeOK, EntryRow
<1>3. IssueEntries' /\ ReceiptEntries' /\ ReversalEntries'
  BY <1>1, <1>2 DEF Books, IssueEntries, ReceiptEntries, ReversalEntries
<1>4. InvoiceRefs' /\ PaymentRefs'
  BY <1>1, <1>2, References DEF Books, InvoiceRefs, PaymentRefs
<1>5. OneReceipt' /\ OneReversal' /\ CancelledReversed'
  BY <1>1, <1>2 DEF Books, OneReceipt, OneReversal, CancelledReversed
<1>6. AbsentPayments' /\ HashPaysOnce'
  BY <1>1 DEF Books, AbsentPayments, HashPaysOnce
<1> QED
  BY <1>3, <1>4, <1>5, <1>6 DEF Books

\* Only a receipt or a contra entry can be deleted, the others are confirmed; so an
\* invoice never loses the reference to its issue entry.
LEMMA DeletedEntry ==
  ASSUME Books, NEW e \in Entry, DeleteEntry(e)
  PROVE  /\ entry[e].kind \notin {"issue", "reversal"}
         /\ \A f \in Entry : f # e => entry'[f] = entry[f]
         /\ entry'[e].kind = "free"
         /\ UNCHANGED inv
<1>1. /\ entry[e].kind \notin {"issue", "reversal"}
      /\ \A f \in Entry : f # e => entry'[f] = entry[f]
      /\ entry'[e].kind = "free"
  BY DEF DeleteEntry, Deletable, NoEntry, Books, TypeOK, IssueEntries, ReversalEntries
<1>2. \A i \in Invoice : inv[i].journal # e
  BY <1>1, NoneAssumption DEF Books, InvoiceRefs
<1>3. inv' = [i \in Invoice |-> inv[i]]
  BY <1>2 DEF DeleteEntry
<1>4. UNCHANGED inv
  BY <1>3 DEF Books, TypeOK
<1> QED
  BY <1>1, <1>4

LEMMA BooksDelete ==
  ASSUME Books, TypeOK', NEW e \in Entry, DeleteEntry(e) PROVE Books'
<1>1. /\ entry[e].kind \notin {"issue", "reversal"}
      /\ \A f \in Entry : f # e => entry'[f] = entry[f]
      /\ entry'[e].kind = "free"
      /\ UNCHANGED inv
  BY DeletedEntry
<1>2. \A p \in Payment : /\ pay'[p].kind = pay[p].kind
                        /\ pay'[p].hash = pay[p].hash
                        /\ pay'[p].invoice = pay[p].invoice
                        /\ pay'[p].journal = IF pay[p].journal = e THEN None
                                             ELSE pay[p].journal
  BY DEF DeleteEntry, Books, TypeOK, PaymentRow
<1>3. IssueEntries' /\ ReversalEntries'
  BY <1>1 DEF Books, IssueEntries, ReversalEntries
<1>4. InvoiceRefs'
  BY <1>1, References DEF Books, InvoiceRefs
<1>5. ReceiptEntries'
  BY <1>1, <1>2 DEF Books, ReceiptEntries
<1>6. PaymentRefs'
  BY <1>1, <1>2, References DEF Books, PaymentRefs
<1>7. OneReceipt' /\ OneReversal' /\ CancelledReversed'
  BY <1>1 DEF Books, OneReceipt, OneReversal, CancelledReversed
<1>8. AbsentPayments' /\ HashPaysOnce'
  BY <1>2 DEF Books, AbsentPayments, HashPaysOnce
<1> QED
  BY <1>3, <1>4, <1>5, <1>6, <1>7, <1>8 DEF Books

LEMMA BooksStep == Books /\ [Next]_vars => Books'
<1> SUFFICES ASSUME Books, [Next]_vars PROVE Books'
  OBVIOUS
<1>1. TypeOK'
  BY TypeStep DEF Books
<1>2. CASE UNCHANGED vars
  BY <1>1, <1>2, BooksUnchanged DEF vars
<1>3. CASE InvoiceNext
  <2>1. ASSUME NEW i \in Invoice, IssueInvoice(i) PROVE Books'
    BY <1>1, <2>1, BooksIssue DEF IssueInvoice
  <2>2. ASSUME NEW i \in Invoice, PostJournal(i) PROVE Books'
    BY <1>1, <2>2, BooksIssue DEF PostJournal, Postable
  <2>3. ASSUME NEW i \in Invoice, NEW lines \in BOOLEAN, NEW total \in Amount,
               EditLines(i, lines, total)
        PROVE  Books'
    BY <1>1, <2>3, BooksLines DEF EditLines
  <2> QED
    BY <1>1, <1>3, <2>1, <2>2, <2>3, BooksCreate, BooksCancel, BooksMarkPaid
       DEF InvoiceNext
<1>4. CASE PaymentNext
  <2>1. ASSUME NEW p \in Payment, NEW kind \in PaymentKind, NEW i \in Invoice \cup {None},
               NEW a \in Amount, NEW h \in TxHash \cup {None}, RecordPayment(p, kind, i, a, h)
        PROVE  Books'
    BY <1>1, <2>1, BooksNewPayment DEF RecordPayment, PaymentKind
  <2>2. ASSUME NEW p \in Payment, NEW kind \in PaymentKind, NEW i \in Invoice,
               NEW d \in Deposit \cup {None}, PipelinePayment(p, kind, i, d)
        PROVE  Books'
    BY <1>1, <2>2, BooksNewPayment DEF PipelinePayment, PaymentKind
  <2>3. ASSUME NEW p \in Payment, NEW i \in Invoice, NEW h \in TxHash \cup {None},
               ReceiveCrypto(p, i, h)
        PROVE  Books'
    BY <1>1, <2>3, BooksReceipt DEF ReceiveCrypto
  <2> QED
    BY <1>1, <1>4, <2>1, <2>2, <2>3, BooksLink DEF PaymentNext
<1>5. CASE DepositNext
  <2>1. CASE AutoMatch
    BY <1>1, <2>1, BooksUnchanged DEF AutoMatch
  <2>2. ASSUME NEW d \in Deposit, NEW a \in Amount, ImportDeposit(d, a) PROVE Books'
    BY <1>1, <2>2, BooksUnchanged DEF ImportDeposit
  <2>3. ASSUME NEW d \in Deposit, NEW p \in Payment, ManualMatch(d, p) PROVE Books'
    BY <1>1, <2>3, BooksUnchanged DEF ManualMatch
  <2>4. ASSUME NEW d \in Deposit, IgnoreDeposit(d) PROVE Books'
    BY <1>1, <2>4, BooksUnchanged DEF IgnoreDeposit
  <2>5. ASSUME NEW d \in Deposit, NEW confirmed \in BOOLEAN, ReconcileContra(d, confirmed)
        PROVE  Books'
    BY <1>1, <2>5, BooksContra DEF ReconcileContra
  <2>6. ASSUME NEW d \in Deposit, NEW i \in Invoice, NEW confirmed \in BOOLEAN,
               ReconcileSettlement(d, i, confirmed)
        PROVE  Books'
    BY <1>1, <2>6, SettlingPayment, BooksSettlement DEF ReconcileSettlement, Books
  <2> QED
    BY <1>1, <1>5, <2>1, <2>2, <2>3, <2>4, <2>5, <2>6 DEF DepositNext
<1>6. CASE JournalNext
  <2>1. CASE ConfigureLedger
    BY <1>1, <2>1, BooksUnchanged DEF ConfigureLedger
  <2> QED
    BY <1>1, <1>6, <2>1, BooksConfirm, BooksDelete DEF JournalNext
<1> QED
  BY <1>2, <1>3, <1>4, <1>5, <1>6 DEF Next

-----------------------------------------------------------------------------
(* Amounts and evidence, when every handler runs alone *)

\* A new entry carries the total of its invoice; the entries and the totals of posted
\* invoices stay.
LEMMA AmountKept ==
  ASSUME Books, PostedAmount, NEW e \in Entry,
         \A f \in Entry : f # e => entry'[f] = entry[f],
         \A i \in Invoice : inv[i].status \notin {"absent", "draft"} =>
           inv'[i].total = inv[i].total,
         entry'[e].kind \in {"issue", "receipt", "reversal"} =>
           entry'[e].amount = inv'[entry'[e].invoice].total
  PROVE  PostedAmount'
<1>1. ASSUME NEW f \in Entry, f # e, entry[f].kind \in {"issue", "receipt", "reversal"}
      PROVE  /\ entry[f].invoice \in Invoice
             /\ inv[entry[f].invoice].status \notin {"absent", "draft"}
  BY <1>1 DEF Books, IssueEntries, ReceiptEntries, ReversalEntries
<1>2. ASSUME NEW f \in Entry, f # e, entry[f].kind \in {"issue", "receipt", "reversal"}
      PROVE  entry'[f].amount = inv'[entry'[f].invoice].total
  BY <1>1, <1>2 DEF PostedAmount
<1> QED
  BY <1>2 DEF PostedAmount

\* The same when nothing is posted or deleted.
LEMMA AmountUnchanged ==
  ASSUME Books, PostedAmount,
         \A f \in Entry : /\ entry'[f].kind = entry[f].kind
                          /\ entry'[f].invoice = entry[f].invoice
                          /\ entry'[f].amount = entry[f].amount,
         \A i \in Invoice : inv[i].status \notin {"absent", "draft"} =>
           inv'[i].total = inv[i].total
  PROVE  PostedAmount'
<1>1. ASSUME NEW f \in Entry, entry[f].kind \in {"issue", "receipt", "reversal"}
      PROVE  /\ entry[f].invoice \in Invoice
             /\ inv[entry[f].invoice].status \notin {"absent", "draft"}
  BY <1>1 DEF Books, IssueEntries, ReceiptEntries, ReversalEntries
<1>2. ASSUME NEW f \in Entry, entry[f].kind \in {"issue", "receipt", "reversal"}
      PROVE  entry'[f].amount = inv'[entry'[f].invoice].total
  BY <1>1, <1>2 DEF PostedAmount
<1> QED
  BY <1>2 DEF PostedAmount

\* The issue entry of a posted invoice is for its total.
LEMMA IssueAmount ==
  ASSUME Books, PostedAmount, NEW i \in Invoice, inv[i].journal # None
  PROVE  entry[inv[i].journal].amount = inv[i].total
BY References DEF Books, InvoiceRefs, PostedAmount

LEMMA AmountIssue ==
  ASSUME Books, PostedAmount, NEW i \in Invoice, PostInvoiceIssue(i, "issued")
  PROVE  PostedAmount'
<1>1. ASSUME NEW e \in Entry, Post(e, "issue", i, None, inv[i].total, TRUE),
             inv' = [inv EXCEPT ![i].status = "issued", ![i].journal = e]
      PROVE  PostedAmount'
  <2>1. /\ \A f \in Entry : f # e => entry'[f] = entry[f]
        /\ entry'[e].invoice = i /\ entry'[e].amount = inv[i].total
    BY <1>1 DEF Post, Books, TypeOK
  <2>2. \A j \in Invoice : inv'[j].total = inv[j].total
    BY <1>1 DEF Books, TypeOK, InvoiceRow
  <2> QED
    BY <2>1, <2>2, AmountKept
<1>2. CASE UNCHANGED entry /\ inv' = [inv EXCEPT ![i].status = "issued"]
  <2>1. \A j \in Invoice : inv'[j].total = inv[j].total
    BY <1>2 DEF Books, TypeOK, InvoiceRow
  <2> QED
    BY <1>2, <2>1, AmountUnchanged
<1> QED
  BY <1>1, <1>2 DEF PostInvoiceIssue

LEMMA AmountCancel ==
  ASSUME Books, PostedAmount, NEW i \in Invoice, CancelInvoice(i)
  PROVE  PostedAmount'
<1>1. \A j \in Invoice : inv'[j].total = inv[j].total
  BY DEF CancelInvoice, CancelFrom, Books, TypeOK, InvoiceRow
<1>2. ASSUME inv[i].journal # None, NEW e \in Entry,
             Post(e, "reversal", i, None, entry[inv[i].journal].amount, TRUE)
      PROVE  PostedAmount'
  <2>1. /\ \A f \in Entry : f # e => entry'[f] = entry[f]
        /\ entry'[e].invoice = i /\ entry'[e].amount = entry[inv[i].journal].amount
    BY <1>2 DEF Post, Books, TypeOK
  <2> QED
    BY <1>1, <1>2, <2>1, IssueAmount, AmountKept
<1>3. CASE UNCHANGED entry
  BY <1>1, <1>3, AmountUnchanged
<1> QED
  BY <1>2, <1>3 DEF CancelInvoice, CancelFrom

LEMMA AmountReceipt ==
  ASSUME Books, PostedAmount, NEW p \in Payment, NEW i \in Invoice,
         NEW h \in TxHash \cup {None}, inv[i].journal # None, WriteReceipt(p, i, h)
  PROVE  PostedAmount'
<1>1. \A j \in Invoice : inv'[j].total = inv[j].total
  BY DEF WriteReceipt, Books, TypeOK, InvoiceRow
<1>2. PICK e \in Entry : Post(e, "receipt", i, None, entry[inv[i].journal].amount, TRUE)
  BY DEF WriteReceipt
<1>3. /\ \A f \in Entry : f # e => entry'[f] = entry[f]
      /\ entry'[e].invoice = i /\ entry'[e].amount = entry[inv[i].journal].amount
  BY <1>2 DEF Post, Books, TypeOK
<1>4. entry[inv[i].journal].amount = inv[i].total
  BY IssueAmount
<1> QED
  BY <1>1, <1>3, <1>4, AmountKept

LEMMA AmountSettlement ==
  ASSUME Books, PostedAmount, NEW d \in Deposit, NEW p, NEW i \in Invoice,
         NEW confirmed \in BOOLEAN,
         inv[i].journal # None, Settleable(d, i), WriteSettlement(d, p, i, confirmed)
  PROVE  PostedAmount'
<1>1. UNCHANGED inv
  BY DEF WriteSettlement
<1>2. PICK e \in Entry : Post(e, "receipt", i, d, dep[d].amount, confirmed)
  BY DEF WriteSettlement
<1>3. /\ \A f \in Entry : f # e => entry'[f] = entry[f]
      /\ entry'[e].invoice = i /\ entry'[e].amount = dep[d].amount
  BY <1>2 DEF Post, Books, TypeOK
<1>4. dep[d].amount = inv[i].total
  BY IssueAmount DEF Settleable
<1> QED
  BY <1>1, <1>3, <1>4, AmountKept

LEMMA AmountContra ==
  ASSUME Books, PostedAmount, NEW d \in Deposit, NEW confirmed \in BOOLEAN,
         WriteContra(d, confirmed)
  PROVE  PostedAmount'
<1>1. UNCHANGED inv
  BY DEF WriteContra
<1>2. PICK e \in Entry : Post(e, "contra", None, d, dep[d].amount, confirmed)
  BY DEF WriteContra
<1>3. /\ \A f \in Entry : f # e => entry'[f] = entry[f]
      /\ entry'[e].kind = "contra"
  BY <1>2 DEF Post, Books, TypeOK
<1> QED
  BY <1>1, <1>3, AmountKept

LEMMA AmountStep == Books /\ PostedAmount /\ [Next]_vars => PostedAmount'
<1> SUFFICES ASSUME Books, PostedAmount, [Next]_vars PROVE PostedAmount'
  OBVIOUS
<1>1. ASSUME UNCHANGED <<inv, entry>> PROVE PostedAmount'
  BY <1>1, AmountUnchanged
<1>2. CASE InvoiceNext
  <2>1. ASSUME NEW i \in Invoice, CreateInvoice(i) PROVE PostedAmount'
    BY <2>1, AmountUnchanged DEF CreateInvoice, Books, TypeOK, InvoiceRow
  <2>2. ASSUME NEW i \in Invoice, NEW lines \in BOOLEAN, NEW total \in Amount,
               EditLines(i, lines, total)
        PROVE  PostedAmount'
    BY <2>2, AmountUnchanged DEF EditLines, WriteLines, Editable, Books, TypeOK, InvoiceRow
  <2>3. ASSUME NEW i \in Invoice, NEW p \in Payment, MarkPaid(i, p) PROVE PostedAmount'
    BY <2>3, AmountUnchanged DEF MarkPaid, Books, TypeOK, InvoiceRow
  <2>4. ASSUME NEW i \in Invoice, IssueInvoice(i) \/ PostJournal(i) PROVE PostedAmount'
    BY <2>4, AmountIssue DEF IssueInvoice, PostJournal
  <2> QED
    BY <1>2, <2>1, <2>2, <2>3, <2>4, AmountCancel DEF InvoiceNext
<1>3. CASE PaymentNext
  <2>1. ASSUME NEW p \in Payment, NEW i \in Invoice, LinkPayment(p, i) PROVE PostedAmount'
    BY <2>1, AmountUnchanged DEF LinkPayment, WriteLink, Books, TypeOK, InvoiceRow
  <2> QED
    BY <1>1, <1>3, <2>1, AmountReceipt
       DEF PaymentNext, RecordPayment, PipelinePayment, ReceiveCrypto
<1>4. CASE DepositNext
  <2>1. ASSUME AutoMatch \/ \E d \in Deposit :
                  \/ \E a \in Amount : ImportDeposit(d, a)
                  \/ \E p \in Payment : ManualMatch(d, p)
                  \/ IgnoreDeposit(d)
        PROVE  UNCHANGED <<inv, entry>>
    BY <2>1 DEF AutoMatch, ImportDeposit, ManualMatch, IgnoreDeposit
  <2> QED
    BY <1>1, <1>4, <2>1, AmountContra, AmountSettlement
       DEF DepositNext, ReconcileContra, ReconcileSettlement, SettlesInvoice
<1>5. CASE JournalNext
  <2>1. ASSUME NEW e \in Entry, ConfirmEntry(e) PROVE PostedAmount'
    BY <2>1, AmountUnchanged DEF ConfirmEntry, Books, TypeOK, EntryRow
  <2>2. ASSUME NEW e \in Entry, DeleteEntry(e) PROVE PostedAmount'
    BY <2>2, DeletedEntry, AmountKept
  <2> QED
    BY <1>1, <1>5, <2>1, <2>2 DEF JournalNext, ConfigureLedger
<1> QED
  BY <1>1, <1>2, <1>3, <1>4, <1>5 DEF Next, vars

\* Evidence stays evidence: a payment that pays an invoice goes on doing so, and stays
\* what it was; an invoice becomes paid only with evidence.
LEMMA EvidenceKept ==
  ASSUME PaidHasEvidence,
         \A q \in Payment : pay[q].kind # "absent" =>
           /\ pay'[q].kind = pay[q].kind
           /\ pay'[q].verified = pay[q].verified
           /\ pay[q].invoice \in Invoice => pay'[q].invoice = pay[q].invoice,
         \A i \in Invoice : inv'[i].status = "paid" /\ inv[i].status # "paid" =>
           \E q \in Payment : /\ pay'[q].kind # "absent" /\ pay'[q].invoice = i
                              /\ pay'[q].kind = "crypto" => pay'[q].verified
  PROVE  PaidHasEvidence'
BY DEF PaidHasEvidence, PaysFor

LEMMA ReceiptEvidence ==
  ASSUME TypeOK, PaidHasEvidence, NEW p \in Payment, NEW i \in Invoice, NEW h,
         WriteReceipt(p, i, h)
  PROVE  PaidHasEvidence'
<1>1. PICK e \in Entry : NewPayment(p, "crypto", i, inv[i].total, h, TRUE, e)
  BY DEF WriteReceipt
<1>2. /\ \A q \in Payment : q # p => pay'[q] = pay[q]
      /\ pay[p].kind = "absent"
      /\ pay'[p].kind = "crypto" /\ pay'[p].invoice = i /\ pay'[p].verified
  BY <1>1 DEF NewPayment, TypeOK
<1>3. \A j \in Invoice : j # i => inv'[j] = inv[j]
  BY DEF WriteReceipt, TypeOK
<1> QED
  BY <1>2, <1>3, EvidenceKept

LEMMA SettlementEvidence ==
  ASSUME TypeOK, PaidHasEvidence, NEW d, NEW p, NEW i, NEW confirmed,
         WriteSettlement(d, p, i, confirmed)
  PROVE  PaidHasEvidence'
<1>1. \A q \in Payment : /\ pay'[q].kind = pay[q].kind
                         /\ pay'[q].verified = pay[q].verified
                         /\ pay'[q].invoice = pay[q].invoice
  BY DEF WriteSettlement, TypeOK, PaymentRow
<1>2. UNCHANGED inv
  BY DEF WriteSettlement
<1> QED
  BY <1>1, <1>2, EvidenceKept

LEMMA EvidenceStep ==
  TypeOK /\ PaidHasEvidence /\ [Next]_vars => PaidHasEvidence'
<1> SUFFICES ASSUME TypeOK, PaidHasEvidence, [Next]_vars PROVE PaidHasEvidence'
  OBVIOUS
<1>1. ASSUME UNCHANGED pay,
             \A i \in Invoice : inv'[i].status = "paid" => inv[i].status = "paid"
      PROVE  PaidHasEvidence'
  BY <1>1, EvidenceKept
<1>2. CASE UNCHANGED vars
  BY <1>1, <1>2 DEF vars
<1>3. CASE InvoiceNext
  <2>1. ASSUME NEW i \in Invoice, NEW p \in Payment, MarkPaid(i, p)
        PROVE  PaidHasEvidence'
    BY <2>1, EvidenceKept DEF MarkPaid, PaysFor, VerifiedIfCrypto, TypeOK, InvoiceRow
  <2>2. ASSUME NEW i \in Invoice, IssueInvoice(i) \/ PostJournal(i) PROVE PaidHasEvidence'
    BY <1>1, <2>2 DEF IssueInvoice, PostJournal, PostInvoiceIssue, TypeOK, InvoiceRow
  <2>3. ASSUME NEW i \in Invoice, CreateInvoice(i) PROVE PaidHasEvidence'
    BY <1>1, <2>3 DEF CreateInvoice, TypeOK, InvoiceRow
  <2>4. ASSUME NEW i \in Invoice, NEW lines \in BOOLEAN, NEW total \in Amount,
               EditLines(i, lines, total)
        PROVE  PaidHasEvidence'
    BY <1>1, <2>4 DEF EditLines, WriteLines, TypeOK, InvoiceRow
  <2>5. ASSUME NEW i \in Invoice, CancelInvoice(i) PROVE PaidHasEvidence'
    BY <1>1, <2>5 DEF CancelInvoice, CancelFrom, TypeOK, InvoiceRow
  <2> QED
    BY <1>3, <2>1, <2>2, <2>3, <2>4, <2>5 DEF InvoiceNext
<1>4. CASE PaymentNext
  <2>1. ASSUME NEW p \in Payment, NEW kind, NEW i, NEW a, NEW h, NEW verified,
               NewPayment(p, kind, i, a, h, verified, None), UNCHANGED inv
        PROVE  PaidHasEvidence'
    <3>1. /\ \A q \in Payment : q # p => pay'[q] = pay[q]
          /\ pay[p].kind = "absent"
      BY <2>1 DEF NewPayment, TypeOK
    <3> QED
      BY <2>1, <3>1, EvidenceKept
  <2>2. ASSUME NEW p \in Payment, NEW i \in Invoice, LinkPayment(p, i)
        PROVE  PaidHasEvidence'
    <3>1. /\ \A q \in Payment : /\ pay'[q].kind = pay[q].kind
                                /\ pay'[q].verified = pay[q].verified
                                /\ q # p => pay'[q].invoice = pay[q].invoice
          /\ pay'[p].invoice = i /\ pay[p].invoice \in {None, i} /\ pay[p].kind # "absent"
          /\ pay[p].kind = "crypto" => pay[p].verified
      BY <2>2 DEF LinkPayment, WriteLink, Linkable, VerifiedIfCrypto, TypeOK, PaymentRow
    <3>2. \A j \in Invoice : j # i => inv'[j] = inv[j]
      BY <2>2 DEF LinkPayment, WriteLink, TypeOK
    <3> QED
      BY <3>1, <3>2, NoneAssumption, EvidenceKept
  <2>3. ASSUME NEW p \in Payment, NEW i \in Invoice, NEW h \in TxHash \cup {None},
               ReceiveCrypto(p, i, h)
        PROVE  PaidHasEvidence'
    BY <2>3, ReceiptEvidence DEF ReceiveCrypto
  <2> QED
    BY <1>4, <2>1, <2>2, <2>3 DEF PaymentNext, RecordPayment, PipelinePayment
<1>5. CASE DepositNext
  <2>1. ASSUME NEW d \in Deposit, NEW i \in Invoice, NEW confirmed \in BOOLEAN,
               ReconcileSettlement(d, i, confirmed)
        PROVE  PaidHasEvidence'
    BY <2>1, SettlementEvidence DEF ReconcileSettlement
  <2> QED
    BY <1>1, <1>5, <2>1 DEF DepositNext, AutoMatch, ImportDeposit, ManualMatch,
       IgnoreDeposit, ReconcileContra, WriteContra
<1>6. CASE JournalNext
  <2>1. ASSUME NEW e \in Entry, DeleteEntry(e) PROVE PaidHasEvidence'
    <3>1. \A q \in Payment : /\ pay'[q].kind = pay[q].kind
                             /\ pay'[q].verified = pay[q].verified
                             /\ pay'[q].invoice = pay[q].invoice
      BY <2>1 DEF DeleteEntry, TypeOK, PaymentRow
    <3>2. \A i \in Invoice : inv'[i].status = inv[i].status
      BY <2>1 DEF DeleteEntry, TypeOK, InvoiceRow
    <3> QED
      BY <3>1, <3>2, EvidenceKept
  <2> QED
    BY <1>1, <1>6, <2>1 DEF JournalNext, ConfirmEntry, ConfigureLedger
<1> QED
  BY <1>2, <1>3, <1>4, <1>5, <1>6 DEF Next

LEMMA InvInit == Init => IInv
<1> SUFFICES ASSUME Init PROVE IInv
  OBVIOUS
<1>1. /\ \A i \in Invoice : inv[i].status = "absent"
      /\ \A e \in Entry : entry[e].kind = "free"
  BY DEF Init, NoInvoice, NoEntry
<1> QED
  BY <1>1, BooksInit DEF IInv, PostedAmount, PaidHasEvidence

LEMMA InvStep == IInv /\ [Next]_vars => IInv'
BY BooksStep, AmountStep, EvidenceStep DEF IInv, Books

\* Every reachable state satisfies the inductive invariant: the entries, the payments and the
\* deposits of an invoice refer to each other and agree with its status.
THEOREM Invariance == Spec => []IInv
BY InvInit, InvStep, PTL DEF Spec

-----------------------------------------------------------------------------
(* The safety properties *)

\* An invoice has an issue entry exactly when it refers to one.
LEMMA IssuedMeansPosted ==
  ASSUME Books, NEW i \in Invoice PROVE Has("issue", i) <=> inv[i].journal # None
<1>1. Has("issue", i) => inv[i].journal # None
  BY NoneAssumption DEF Has, IsEntry, Books, IssueEntries
<1>2. inv[i].journal # None => Has("issue", i)
  BY References DEF Has, IsEntry, Books, InvoiceRefs
<1> QED
  BY <1>1, <1>2

LEMMA BooksOnce == Books => ReceivableOnce
<1> SUFFICES ASSUME Books, NEW i \in Invoice
    PROVE  /\ \A kind \in {"issue", "reversal", "receipt"}, e, f \in Entry :
                IsEntry(e, kind, i) /\ IsEntry(f, kind, i) => e = f
           /\ ~(Has("receipt", i) /\ Has("reversal", i))
  BY DEF ReceivableOnce
<1>1. \A e, f \in Entry : IsEntry(e, "issue", i) /\ IsEntry(f, "issue", i) => e = f
  BY DEF Books, IssueEntries, IsEntry
<1>2. \A e, f \in Entry : IsEntry(e, "reversal", i) /\ IsEntry(f, "reversal", i) => e = f
  BY DEF Books, OneReversal, IsEntry
<1>3. \A e, f \in Entry : IsEntry(e, "receipt", i) /\ IsEntry(f, "receipt", i) => e = f
  BY DEF Books, OneReceipt, IsEntry
<1>4. ~(Has("receipt", i) /\ Has("reversal", i))
  BY DEF Books, ReceiptEntries, ReversalEntries, Has, IsEntry
<1> QED
  BY <1>1, <1>2, <1>3, <1>4

LEMMA BooksFollow == Books => BooksFollowStatus
<1> SUFFICES ASSUME Books, NEW i \in Invoice
    PROVE  /\ inv[i].status \in {"absent", "draft"} => ~Has("issue", i)
           /\ inv[i].status = "cancelled" => (Has("issue", i) <=> Has("reversal", i))
           /\ Has("reversal", i) => inv[i].status = "cancelled"
           /\ Has("receipt", i) => Has("issue", i) /\ inv[i].status \in {"issued", "paid"}
  BY DEF BooksFollowStatus
<1>1. Has("issue", i) <=> inv[i].journal # None
  BY IssuedMeansPosted
<1>2. inv[i].status \in {"absent", "draft"} => inv[i].journal = None
  BY DraftUnposted
<1>3. Has("reversal", i) => inv[i].status = "cancelled" /\ inv[i].journal # None
  BY DEF Has, IsEntry, Books, ReversalEntries
<1>4. inv[i].status = "cancelled" /\ inv[i].journal # None => Has("reversal", i)
  BY DEF Has, IsEntry, Books, CancelledReversed
<1>5. Has("receipt", i) => inv[i].journal # None /\ inv[i].status \in {"issued", "paid"}
  BY DEF Has, IsEntry, Books, ReceiptEntries
<1> QED
  BY <1>1, <1>2, <1>3, <1>4, <1>5

\* However many invoices, payments and deposits there are and however the handlers
\* follow each other, a receivable is debited once and credited in one way at most.
THEOREM ReceivableOnceHolds == Spec => []ReceivableOnce
<1>1. IInv => ReceivableOnce
  BY BooksOnce DEF IInv
<1> QED
  BY <1>1, Invariance, PTL

\* The receivable entries always agree with the invoice's status.
THEOREM BooksFollowStatusHolds == Spec => []BooksFollowStatus
<1>1. IInv => BooksFollowStatus
  BY BooksFollow DEF IInv
<1> QED
  BY <1>1, Invariance, PTL

\* Receivable, receipt and reversal carry the invoice's total.
THEOREM PostedAmountHolds == Spec => []PostedAmount
<1>1. IInv => PostedAmount
  BY DEF IInv
<1> QED
  BY <1>1, Invariance, PTL

\* A paid invoice has a linked payment that is not an unverified crypto receipt.
THEOREM PaidHasEvidenceHolds == Spec => []PaidHasEvidence
<1>1. IInv => PaidHasEvidence
  BY DEF IInv
<1> QED
  BY <1>1, Invariance, PTL

\* A transaction hash stands on one payment only.
THEOREM HashPaysOnceHolds == Spec => []HashPaysOnce
<1>1. IInv => HashPaysOnce
  BY DEF IInv, Books
<1> QED
  BY <1>1, Invariance, PTL

-----------------------------------------------------------------------------
(* Receivables implements OpenItem *)

\* The item in terms of references instead of entries.
RefItem(i) ==
  IF inv[i].journal = None THEN "none"
  ELSE IF inv[i].status = "cancelled" THEN "reversed"
  ELSE IF Has("receipt", i) THEN "settled" ELSE "open"

LEMMA ItemByReference == Books => \A i \in Invoice : ItemOf(i) = RefItem(i)
<1> SUFFICES ASSUME Books, NEW i \in Invoice PROVE ItemOf(i) = RefItem(i)
  OBVIOUS
<1>1. BooksFollowStatus
  BY BooksFollow
<1>2. ReceivableOnce
  BY BooksOnce
<1>3. \A kind \in {"issue", "receipt", "reversal"} : Has(kind, i) => Once(kind, i)
  BY <1>2 DEF ReceivableOnce, Has, Once
<1>4. \A kind \in {"issue", "receipt", "reversal"} : Once(kind, i) => Has(kind, i)
  BY DEF Has, Once
<1>5. Has("issue", i) <=> inv[i].journal # None
  BY IssuedMeansPosted
<1>6. Has("reversal", i) => Has("issue", i)
  BY <1>1 DEF BooksFollowStatus
<1> QED
  BY <1>1, <1>3, <1>4, <1>5, <1>6 DEF BooksFollowStatus, ItemOf, RefItem

LEMMA ItemByReferencePrimed ==
  (Books => \A i \in Invoice : ItemOf(i) = RefItem(i))'
BY ItemByReference, PTL

\* One invoice's item changes: a move of OpenItem.
LEMMA ItemMove ==
  ASSUME Books, Books', NEW i \in Invoice, NEW from, NEW to,
         RefItem(i) = from, RefItem(i)' = to,
         \A j \in Invoice : j # i => RefItem(j)' = RefItem(j)
  PROVE  Items!Move(i, from, to)
<1>1. \A j \in Invoice : ItemOf(j) = RefItem(j)
  BY ItemByReference
<1>2. (\A j \in Invoice : ItemOf(j) = RefItem(j))'
  BY ItemByReferencePrimed
<1>3. [j \in Invoice |-> ItemOf(j)]' = [[j \in Invoice |-> ItemOf(j)] EXCEPT ![i] = to]
  BY <1>1, <1>2
<1> QED
  BY <1>1, <1>3 DEF Items!Move

\* No invoice's item changes: a stutter.
LEMMA ItemStutter ==
  ASSUME Books, Books', \A i \in Invoice : RefItem(i)' = RefItem(i)
  PROVE  UNCHANGED [i \in Invoice |-> ItemOf(i)]
<1>1. \A i \in Invoice : ItemOf(i) = RefItem(i)
  BY ItemByReference
<1>2. (\A i \in Invoice : ItemOf(i) = RefItem(i))'
  BY ItemByReferencePrimed
<1> QED
  BY <1>1, <1>2

\* Handlers that post and delete nothing, and cancel no posted invoice.
LEMMA ItemKept ==
  ASSUME Books, Books', UNCHANGED entry,
         \A i \in Invoice : inv'[i].journal = inv[i].journal,
         \A i \in Invoice : inv[i].journal # None =>
            (inv'[i].status = "cancelled" <=> inv[i].status = "cancelled")
  PROVE  UNCHANGED [i \in Invoice |-> ItemOf(i)]
<1>1. \A i \in Invoice : Has("receipt", i)' = Has("receipt", i)
  BY DEF Has, IsEntry
<1>2. \A i \in Invoice : RefItem(i)' = RefItem(i)
  BY <1>1 DEF RefItem
<1> QED
  BY <1>2, ItemStutter

LEMMA ItemIssue ==
  ASSUME Books, Books', NEW i \in Invoice, inv[i].status \in {"draft", "issued"},
         PostInvoiceIssue(i, "issued")
  PROVE  Items!ItemNext \/ UNCHANGED [j \in Invoice |-> ItemOf(j)]
<1>1. CASE inv' = [inv EXCEPT ![i].status = "issued"] /\ UNCHANGED entry
  BY <1>1, ItemKept DEF Books, TypeOK, InvoiceRow
<1>2. ASSUME NEW e \in Entry, Post(e, "issue", i, None, inv[i].total, TRUE),
             inv' = [inv EXCEPT ![i].status = "issued", ![i].journal = e]
      PROVE  Items!ItemNext
  <2>1. /\ \A j \in Invoice : j # i => inv'[j] = inv[j]
        /\ inv'[i].status = "issued" /\ inv'[i].journal = e /\ inv[i].journal = None
    BY <1>2 DEF Books, TypeOK, InvoiceRow, PostInvoiceIssue
  <2>2. /\ \A f \in Entry : f # e => entry'[f] = entry[f]
        /\ entry[e].kind = "free" /\ entry'[e].kind = "issue"
    BY <1>2 DEF Post, Books, TypeOK
  <2>3. \A j \in Invoice : Has("receipt", j)' <=> Has("receipt", j)
    BY <2>2 DEF Has, IsEntry
  <2>4. ~Has("receipt", i)
    BY <2>1 DEF Has, IsEntry, Books, ReceiptEntries
  <2>5. RefItem(i) = "none" /\ RefItem(i)' = "open"
    BY <2>1, <2>3, <2>4, NoneAssumption DEF RefItem
  <2>6. \A j \in Invoice : j # i => RefItem(j)' = RefItem(j)
    BY <2>1, <2>3 DEF RefItem
  <2>7. Items!Raise(i)
    BY <2>5, <2>6, ItemMove DEF Items!Raise
  <2> QED
    BY <2>7 DEF Items!ItemNext
<1> QED
  BY <1>1, <1>2 DEF PostInvoiceIssue

LEMMA ItemCancel ==
  ASSUME Books, Books', NEW i \in Invoice, CancelInvoice(i)
  PROVE  Items!ItemNext \/ UNCHANGED [j \in Invoice |-> ItemOf(j)]
<1>1. /\ \A j \in Invoice : j # i => inv'[j] = inv[j]
      /\ inv'[i].status = "cancelled" /\ inv[i].status \in {"draft", "issued"}
      /\ \A j \in Invoice : inv'[j].journal = inv[j].journal
  BY DEF CancelInvoice, CancelFrom, Books, TypeOK, InvoiceRow
<1>2. CASE UNCHANGED entry /\ ~(inv[i].status = "issued" /\ inv[i].journal # None)
  <2>1. inv[i].journal = None
    BY <1>1, <1>2, DraftUnposted
  <2> QED
    BY <1>1, <1>2, <2>1, ItemKept
<1>3. ASSUME inv[i].journal # None, NEW e \in Entry,
             Post(e, "reversal", i, None, entry[inv[i].journal].amount, TRUE)
      PROVE  Items!ItemNext
  <2>1. /\ \A f \in Entry : f # e => entry'[f] = entry[f]
        /\ entry[e].kind = "free" /\ entry'[e].kind = "reversal"
    BY <1>3 DEF Post, Books, TypeOK
  <2>2. \A j \in Invoice : Has("receipt", j)' <=> Has("receipt", j)
    BY <2>1 DEF Has, IsEntry
  <2>3. ~Has("receipt", i)'
    BY <1>1 DEF Has, IsEntry, Books, ReceiptEntries
  <2>4. RefItem(i) = "open" /\ RefItem(i)' = "reversed"
    BY <1>1, <1>3, <2>2, <2>3 DEF RefItem
  <2>5. \A j \in Invoice : j # i => RefItem(j)' = RefItem(j)
    BY <1>1, <2>2 DEF RefItem
  <2>6. Items!Reverse(i)
    BY <2>4, <2>5, ItemMove DEF Items!Reverse
  <2> QED
    BY <2>6 DEF Items!ItemNext
<1> QED
  BY <1>2, <1>3 DEF CancelInvoice, CancelFrom

LEMMA ItemReceipt ==
  ASSUME Books, Books', NEW i \in Invoice, NEW e \in Entry,
         inv[i].journal # None, inv[i].status \in {"issued", "paid"},
         ~ReceivableSettled(i),
         \A j \in Invoice : j # i => inv'[j] = inv[j],
         inv'[i].journal = inv[i].journal, inv'[i].status \in {"issued", "paid"},
         \A f \in Entry : f # e => entry'[f] = entry[f],
         entry[e].kind = "free", entry'[e].kind = "receipt", entry'[e].invoice = i
  PROVE  Items!ItemNext
<1>1. ~Has("receipt", i)
  BY SettledMeansReceipt DEF Has, IsEntry
<1>2. /\ Has("receipt", i)'
      /\ \A j \in Invoice : j # i => (Has("receipt", j)' <=> Has("receipt", j))
  BY DEF Has, IsEntry
<1>3. RefItem(i) = "open" /\ RefItem(i)' = "settled"
  BY <1>1, <1>2 DEF RefItem
<1>4. \A j \in Invoice : j # i => RefItem(j)' = RefItem(j)
  BY <1>2 DEF RefItem
<1>5. Items!Settle(i)
  BY <1>3, <1>4, ItemMove DEF Items!Settle
<1> QED
  BY <1>5 DEF Items!ItemNext

LEMMA ItemDelete ==
  ASSUME Books, Books', NEW e \in Entry, DeleteEntry(e)
  PROVE  Items!ItemNext \/ UNCHANGED [j \in Invoice |-> ItemOf(j)]
<1>1. /\ entry[e].kind \notin {"issue", "reversal"}
      /\ \A f \in Entry : f # e => entry'[f] = entry[f]
      /\ entry'[e].kind = "free"
      /\ UNCHANGED inv
  BY DeletedEntry
<1>2. CASE entry[e].kind # "receipt"
  <2>1. \A i \in Invoice : Has("receipt", i)' <=> Has("receipt", i)
    BY <1>1, <1>2 DEF Has, IsEntry
  <2>2. \A i \in Invoice : RefItem(i)' = RefItem(i)
    BY <1>1, <2>1 DEF RefItem
  <2> QED
    BY <2>2, ItemStutter
<1>3. CASE entry[e].kind = "receipt"
  <2> DEFINE i == entry[e].invoice
  <2>1. /\ i \in Invoice /\ inv[i].journal # None
        /\ inv[i].status \in {"issued", "paid"}
    BY <1>3 DEF Books, ReceiptEntries
  <2>2. Has("receipt", i)
    BY <1>3 DEF Has, IsEntry
  <2>3. \A f \in Entry : f # e /\ entry[f].kind = "receipt" => entry[f].invoice # i
    BY <1>3 DEF Books, OneReceipt
  <2>4. \A j \in Invoice : j # i => (Has("receipt", j)' <=> Has("receipt", j))
    BY <1>1 DEF Has, IsEntry
  <2>5. ~\E f \in Entry : entry'[f].kind = "receipt" /\ entry'[f].invoice = i
    BY <1>1, <2>3
  <2>6. PICK k \in Invoice : k = i
    BY <2>1
  <2> HIDE DEF i
  <2>7. Has("receipt", k) /\ ~Has("receipt", k)'
    BY <2>2, <2>5, <2>6 DEF Has, IsEntry
  <2>8. RefItem(k) = "settled" /\ RefItem(k)' = "open"
    BY <1>1, <2>1, <2>6, <2>7 DEF RefItem
  <2>9. \A j \in Invoice : j # k => RefItem(j)' = RefItem(j)
    BY <1>1, <2>4, <2>6 DEF RefItem
  <2>10. Items!Withdraw(k)
    BY <2>8, <2>9, ItemMove DEF Items!Withdraw
  <2> QED
    BY <2>10 DEF Items!ItemNext
<1> QED
  BY <1>2, <1>3

LEMMA ItemReceive ==
  ASSUME Books, Books', NEW p \in Payment, NEW i \in Invoice, NEW h \in TxHash \cup {None},
         ReceivableDue(i, h), inv[i].journal # None, WriteReceipt(p, i, h)
  PROVE  Items!ItemNext
<1>1. PICK e \in Entry : Post(e, "receipt", i, None, entry[inv[i].journal].amount, TRUE)
  BY DEF WriteReceipt
<1>2. /\ \A f \in Entry : f # e => entry'[f] = entry[f]
      /\ entry[e].kind = "free"
      /\ entry'[e].kind = "receipt" /\ entry'[e].invoice = i
  BY <1>1 DEF Post, Books, TypeOK
<1>3. /\ \A j \in Invoice : j # i => inv'[j] = inv[j]
      /\ inv'[i].journal = inv[i].journal /\ inv'[i].status = "paid"
      /\ inv[i].status = "issued" /\ ~ReceivableSettled(i)
  BY DEF WriteReceipt, ReceivableDue, Books, TypeOK, InvoiceRow
<1> QED
  BY <1>2, <1>3, ItemReceipt

LEMMA ItemSettlement ==
  ASSUME Books, Books', NEW d \in Deposit, NEW p, NEW i \in Invoice,
         NEW confirmed \in BOOLEAN,
         inv[i].journal # None, Settleable(d, i), WriteSettlement(d, p, i, confirmed)
  PROVE  Items!ItemNext
<1>1. PICK e \in Entry : Post(e, "receipt", i, d, dep[d].amount, confirmed)
  BY DEF WriteSettlement
<1>2. /\ \A f \in Entry : f # e => entry'[f] = entry[f]
      /\ entry[e].kind = "free"
      /\ entry'[e].kind = "receipt" /\ entry'[e].invoice = i
  BY <1>1 DEF Post, Books, TypeOK
<1>3. /\ UNCHANGED inv
      /\ inv[i].status \in {"issued", "paid"} /\ ~ReceivableSettled(i)
  BY DEF WriteSettlement, Settleable
<1> QED
  BY <1>2, <1>3, ItemReceipt

LEMMA ItemContra ==
  ASSUME Books, Books', NEW d \in Deposit, NEW confirmed \in BOOLEAN,
         WriteContra(d, confirmed)
  PROVE  UNCHANGED [i \in Invoice |-> ItemOf(i)]
<1>1. PICK e \in Entry : Post(e, "contra", None, d, dep[d].amount, confirmed)
  BY DEF WriteContra
<1>2. /\ \A f \in Entry : f # e => entry'[f] = entry[f]
      /\ entry[e].kind = "free" /\ entry'[e].kind = "contra"
  BY <1>1 DEF Post, Books, TypeOK
<1>3. UNCHANGED inv
  BY DEF WriteContra
<1>4. \A i \in Invoice : Has("receipt", i)' <=> Has("receipt", i)
  BY <1>2 DEF Has, IsEntry
<1>5. \A i \in Invoice : RefItem(i)' = RefItem(i)
  BY <1>3, <1>4 DEF RefItem
<1> QED
  BY <1>5, ItemStutter

LEMMA ItemLines ==
  ASSUME Books, Books', NEW i \in Invoice, NEW lines \in BOOLEAN, NEW total \in Amount,
         WriteLines(i, lines, total)
  PROVE  UNCHANGED [j \in Invoice |-> ItemOf(j)]
BY ItemKept DEF WriteLines, Books, TypeOK, InvoiceRow

\* Handlers that start or end the life of no item: a new draft, a payment mark, a link.
LEMMA ItemMarks ==
  ASSUME Books, Books', NEW i \in Invoice,
         \/ CreateInvoice(i)
         \/ \E p \in Payment : MarkPaid(i, p) \/ LinkPayment(p, i)
  PROVE  UNCHANGED [j \in Invoice |-> ItemOf(j)]
<1>1. CASE CreateInvoice(i)
  BY <1>1, ItemKept DEF CreateInvoice, Books, TypeOK, InvoiceRow
<1>2. ASSUME NEW p \in Payment, MarkPaid(i, p) PROVE UNCHANGED [j \in Invoice |-> ItemOf(j)]
  BY <1>2, ItemKept DEF MarkPaid, Books, TypeOK, InvoiceRow
<1>3. ASSUME NEW p \in Payment, LinkPayment(p, i)
      PROVE  UNCHANGED [j \in Invoice |-> ItemOf(j)]
  BY <1>3, ItemKept DEF LinkPayment, WriteLink, Linkable, Books, TypeOK, InvoiceRow
<1> QED
  BY <1>1, <1>2, <1>3

LEMMA ItemJournal ==
  ASSUME Books, Books', JournalNext
  PROVE  Items!ItemNext \/ UNCHANGED [i \in Invoice |-> ItemOf(i)]
<1>1. ASSUME NEW e \in Entry, ConfirmEntry(e) PROVE UNCHANGED [i \in Invoice |-> ItemOf(i)]
  <2>1. \A f \in Entry : entry'[f].kind = entry[f].kind /\ entry'[f].invoice = entry[f].invoice
    BY <1>1 DEF ConfirmEntry, Books, TypeOK, EntryRow
  <2>2. \A i \in Invoice : Has("receipt", i)' <=> Has("receipt", i)
    BY <2>1 DEF Has, IsEntry
  <2>3. \A i \in Invoice : RefItem(i)' = RefItem(i)
    BY <1>1, <2>2 DEF RefItem, ConfirmEntry
  <2> QED
    BY <2>3, ItemStutter
<1>2. CASE ConfigureLedger
  BY <1>2, ItemKept DEF ConfigureLedger
<1> QED
  BY <1>1, <1>2, ItemDelete DEF JournalNext

LEMMA ItemStep ==
  Books /\ Books' /\ [Next]_vars => [Items!ItemNext]_([i \in Invoice |-> ItemOf(i)])
<1> SUFFICES ASSUME Books, Books', [Next]_vars
    PROVE  Items!ItemNext \/ UNCHANGED [i \in Invoice |-> ItemOf(i)]
  OBVIOUS
<1>1. ASSUME UNCHANGED <<inv, entry>> PROVE UNCHANGED [i \in Invoice |-> ItemOf(i)]
  BY <1>1, ItemKept
<1>2. CASE InvoiceNext
  <2>1. ASSUME NEW i \in Invoice, NEW lines \in BOOLEAN, NEW total \in Amount,
               EditLines(i, lines, total)
        PROVE  UNCHANGED [j \in Invoice |-> ItemOf(j)]
    BY <2>1, ItemLines DEF EditLines
  <2>2. ASSUME NEW i \in Invoice, IssueInvoice(i) \/ PostJournal(i)
        PROVE  Items!ItemNext \/ UNCHANGED [j \in Invoice |-> ItemOf(j)]
    BY <2>2, ItemIssue DEF IssueInvoice, PostJournal, Postable
  <2> QED
    BY <1>2, <2>1, <2>2, ItemMarks, ItemCancel DEF InvoiceNext
<1>3. CASE PaymentNext
  <2>1. ASSUME NEW p \in Payment, NEW i \in Invoice, NEW h \in TxHash \cup {None},
               ReceiveCrypto(p, i, h)
        PROVE  Items!ItemNext
    BY <2>1, ItemReceive DEF ReceiveCrypto
  <2> QED
    BY <1>1, <1>3, <2>1, ItemMarks DEF PaymentNext, RecordPayment, PipelinePayment
<1>4. CASE DepositNext
  <2>1. ASSUME NEW d \in Deposit, NEW confirmed \in BOOLEAN, ReconcileContra(d, confirmed)
        PROVE  UNCHANGED [j \in Invoice |-> ItemOf(j)]
    BY <2>1, ItemContra DEF ReconcileContra
  <2>2. ASSUME NEW d \in Deposit, NEW i \in Invoice, NEW confirmed \in BOOLEAN,
               ReconcileSettlement(d, i, confirmed)
        PROVE  Items!ItemNext
    BY <2>2, ItemSettlement DEF ReconcileSettlement, SettlesInvoice
  <2> QED
    BY <1>1, <1>4, <2>1, <2>2
       DEF DepositNext, AutoMatch, ImportDeposit, ManualMatch, IgnoreDeposit
<1> QED
  BY <1>1, <1>2, <1>3, <1>4, ItemJournal DEF Next, vars

LEMMA ItemInitial == Init => Items!ItemInit
<1> SUFFICES ASSUME Init PROVE Items!ItemInit
  OBVIOUS
<1>1. \A e \in Entry : entry[e].kind = "free"
  BY DEF Init, NoEntry
<1>2. \A i \in Invoice : ~Has("issue", i) /\ ~Has("receipt", i) /\ ~Has("reversal", i)
  BY <1>1 DEF Has, IsEntry
<1>3. \A i \in Invoice : ~Once("issue", i)
  BY <1>2 DEF Once, Has
<1>4. \A i \in Invoice : ItemOf(i) = "none"
  BY <1>2, <1>3 DEF ItemOf
<1> QED
  BY <1>4 DEF Items!ItemInit

\* The books implement an open item per invoice: raised once, then settled or reversed,
\* and reversed for good.
THEOREM Refinement == Spec => ImplementsOpenItem
<1>1. Init /\ [][Next]_vars => []Books
  BY BooksInit, BooksStep, PTL
<1> QED
  BY <1>1, ItemInitial, ItemStep, PTL DEF Spec, ImplementsOpenItem, Items!ItemSpec
=============================================================================
