---------------------- MODULE ReceivableRequestsProofs ----------------------
(***************************************************************************)
(* Proofs about ReceivableRequests for any number of concurrent requests.  *)
(*                                                                         *)
(* Two things hold whichever handlers run step by step: rows keep their    *)
(* types, and an invoice has one issue entry.  Books, BooksFollowStatus    *)
(* and the refinement of OpenItem hold when the handlers run step by step  *)
(* are those of Safe; requests_cancel and requests_post show that          *)
(* cancelling and posting a loaded invoice are rightly not in Safe.        *)
(* Amounts do not survive even Safe: a line item written to a stale draft  *)
(* changes the total of an invoice another request has issued.             *)
(* What breaks, breaks by a request that commits on a row that is no       *)
(* longer what it loaded (ClosedInvoicesOverlap, RelinkedPaymentsOverlap). *)
(* Requests that do not overlap keep everything: they implement            *)
(* Receivables, whichever handlers run step by step.                       *)
(***************************************************************************)
EXTENDS ReceivableRequests, ReceivablesProofs

-----------------------------------------------------------------------------
(* Requests in progress *)

\* What a request that left the idle state carries with it.
LoadedRow ==
  [pc : {"loaded", "locked", "counted"}, op : Handlers,
   invoice : Invoice \cup {None}, payment : Payment \cup {None},
   deposit : Deposit \cup {None}, hash : TxHash \cup {None},
   status : InvoiceStatus \cup {None}, journal : Entry \cup {None}]

\* The rows a handler works on are there, and only cancel_invoice counts payments.
WellFormed(q) ==
  /\ q.op # "contra" => q.invoice \in Invoice
  /\ q.op \in {"link", "settle"} => q.payment \in Payment
  /\ q.op \in {"contra", "settle"} => q.deposit \in Deposit
  /\ q.pc = "counted" => q.op = "cancel"

RequestRow == {Idle} \cup {q \in LoadedRow : WellFormed(q)}

RowsOK ==
  /\ TypeOK
  /\ req \in [Request -> RequestRow]
  /\ lock \in [Invoice -> Request \cup {None}]

LEMMA RowsInit == RInit => RowsOK
BY TypeInit DEF RInit, RowsOK, RequestRow

\* A request that is not idle carries a loaded row.
LEMMA LoadedRequest ==
  ASSUME RowsOK, NEW r \in Request, req[r].pc # "idle"
  PROVE  req[r] \in LoadedRow /\ WellFormed(req[r])
BY DEF RowsOK, RequestRow, Idle

\* What every handler loads is well formed.
LEMMA LoadRows ==
  ASSUME RowsOK, NEW r \in Request, NEW op, NEW i \in Invoice \cup {None},
         NEW p \in Payment \cup {None}, NEW d \in Deposit \cup {None},
         NEW h \in TxHash \cup {None}, Load(r, op, i, p, d, h),
         op # "contra" => i \in Invoice,
         op \in {"link", "settle"} => p \in Payment,
         op \in {"contra", "settle"} => d \in Deposit
  PROVE  RowsOK'
<1> DEFINE q == [pc |-> "loaded", op |-> op, invoice |-> i, payment |-> p, deposit |-> d,
                 hash |-> h,
                 status |-> IF i = None THEN None ELSE inv[i].status,
                 journal |-> IF i = None THEN None ELSE inv[i].journal]
<1>1. op \in Handlers /\ req' = [req EXCEPT ![r] = q] /\ UNCHANGED <<vars, lock>>
  BY DEF Load
<1>2. i # None => inv[i].status \in InvoiceStatus /\ inv[i].journal \in Entry \cup {None}
  BY DEF RowsOK, TypeOK, InvoiceRow
<1>3. q \in LoadedRow
  BY <1>1, <1>2 DEF LoadedRow
<1>4. WellFormed(q)
  BY DEF WellFormed
<1> HIDE DEF q
<1>5. req' \in [Request -> RequestRow]
  BY <1>1, <1>3, <1>4 DEF RowsOK, RequestRow
<1> QED
  BY <1>1, <1>5 DEF RowsOK, TypeOK, vars

LEMMA BeginRows ==
  ASSUME RowsOK, NEW r \in Request, Begin(r)
  PROVE  RowsOK'
<1>1. ASSUME NEW i \in Invoice, LoadInvoice(r, i) PROVE RowsOK'
  <2>1. PICK op \in {"issue", "post_journal", "cancel", "edit"} :
          Load(r, op, i, None, None, None)
    BY <1>1 DEF LoadInvoice
  <2> QED
    BY <2>1, LoadRows
<1>2. ASSUME NEW i \in Invoice, NEW p \in Payment, LoadPayment(r, i, p) PROVE RowsOK'
  <2>1. PICK op \in {"mark_paid", "link"} : Load(r, op, i, p, None, None)
    BY <1>2 DEF LoadPayment
  <2> QED
    BY <2>1, LoadRows
<1>3. ASSUME NEW i \in Invoice, NEW h \in TxHash \cup {None}, LoadReceipt(r, i, h)
      PROVE  RowsOK'
  BY <1>3, LoadRows DEF LoadReceipt
<1>4. ASSUME NEW d \in Deposit, LoadDeposit(r, d) PROVE RowsOK'
  <2>1. ASSUME NEW i \in Invoice, SettlesInvoice(d, i),
               Load(r, "settle", i, dep[d].payment, d, None)
        PROVE  RowsOK'
    <3>1. dep[d].payment \in Payment
      BY <2>1, SettlingPayment DEF RowsOK
    <3> QED
      BY <2>1, <3>1, LoadRows
  <2>2. CASE Load(r, "contra", None, None, d, None)
    BY <2>2, LoadRows
  <2> QED
    BY <1>4, <2>1, <2>2 DEF LoadDeposit
<1> QED
  BY <1>1, <1>2, <1>3, <1>4 DEF Begin

\* Steps that change the request and its locks, and leave the tables well typed.
LEMMA EndRows ==
  ASSUME RowsOK, TypeOK', NEW r \in Request, End(r)
  PROVE  RowsOK'
<1>1. req' \in [Request -> RequestRow]
  BY DEF End, RowsOK, RequestRow
<1>2. lock' \in [Invoice -> Request \cup {None}]
  BY DEF End, RowsOK
<1> QED
  BY <1>1, <1>2 DEF RowsOK

LEMMA WaitRows ==
  ASSUME RowsOK, NEW r \in Request, Lock(r) \/ CountPayments(r)
  PROVE  RowsOK'
<1>1. req[r] \in LoadedRow /\ WellFormed(req[r])
  BY LoadedRequest DEF Lock, CountPayments
<1>2. ASSUME NEW pc \in {"locked", "counted"}, pc = "counted" => req[r].op = "cancel"
      PROVE  [req[r] EXCEPT !.pc = pc] \in RequestRow
  <2>1. [req[r] EXCEPT !.pc = pc] \in LoadedRow
    BY <1>1 DEF LoadedRow
  <2>2. WellFormed([req[r] EXCEPT !.pc = pc])
    BY <1>1, <1>2 DEF WellFormed, LoadedRow
  <2> QED
    BY <2>1, <2>2 DEF RequestRow
<1>3. CASE Lock(r)
  <2>1. req' \in [Request -> RequestRow]
    BY <1>2, <1>3 DEF Lock, RowsOK
  <2>2. lock' \in [Invoice -> Request \cup {None}]
    BY <1>3 DEF Lock, RowsOK
  <2> QED
    BY <1>3, <2>1, <2>2 DEF Lock, RowsOK, TypeOK, vars
<1>4. CASE CountPayments(r)
  <2>1. req' \in [Request -> RequestRow]
    BY <1>2, <1>4 DEF CountPayments, RowsOK
  <2> QED
    BY <1>4, <2>1 DEF CountPayments, RowsOK, TypeOK, vars
<1> QED
  BY <1>3, <1>4

LEMMA FinishLockedRows ==
  ASSUME RowsOK, NEW r \in Request, FinishLocked(r)
  PROVE  RowsOK'
<1> DEFINE q == req[r]
<1>1. q \in LoadedRow /\ WellFormed(q) /\ TypeOK
  BY LoadedRequest DEF FinishLocked, RowsOK
<1>2. q.op \in Locking => q.invoice \in Invoice
  BY <1>1 DEF WellFormed, Locking
<1>3. ASSUME q.op = "issue", FinishIssue(r) PROVE TypeOK'
  BY <1>1, <1>2, <1>3, IssueType DEF FinishIssue, Locking, InvoiceStatus
<1>4. ASSUME q.op = "post_journal", FinishPostJournal(r) PROVE TypeOK'
  <2>1. inv[q.invoice].status \in InvoiceStatus
    BY <1>1, <1>2, <1>4 DEF TypeOK, InvoiceRow, Locking
  <2> QED
    BY <1>1, <1>2, <1>4, <2>1, IssueType DEF FinishPostJournal, Locking
<1>5. ASSUME q.op = "receive", FinishReceive(r) PROVE TypeOK'
  <2>1. q.hash \in TxHash \cup {None}
    BY <1>1 DEF LoadedRow
  <2> QED
    BY <1>1, <1>2, <1>5, <2>1, ReceiptType DEF FinishReceive, Locking
<1>6. ASSUME q.op = "settle", FinishSettle(r) PROVE TypeOK'
  <2>1. q.deposit \in Deposit
    BY <1>1, <1>6 DEF WellFormed
  <2> QED
    BY <1>1, <1>2, <1>6, <2>1, SettlementType DEF FinishSettle, Locking
<1>7. TypeOK'
  BY <1>3, <1>4, <1>5, <1>6 DEF FinishLocked
<1> QED
  BY <1>7, EndRows DEF FinishLocked

LEMMA FinishUnlockedRows ==
  ASSUME RowsOK, NEW r \in Request, FinishUnlocked(r)
  PROVE  RowsOK'
<1> DEFINE q == req[r]
           i == req[r].invoice
<1>1. q \in LoadedRow /\ WellFormed(q) /\ TypeOK
  BY LoadedRequest DEF FinishUnlocked, RowsOK
<1>2. ASSUME q.pc = "counted", CancelFrom(i, q.status, q.journal),
             UNCHANGED <<ledger, pay, dep>>
      PROVE  TypeOK'
  <2>1. i \in Invoice /\ q.journal \in Entry \cup {None}
    BY <1>1, <1>2 DEF WellFormed, LoadedRow
  <2> HIDE DEF q, i
  <2> QED
    BY <1>1, <1>2, <2>1, CancelType
<1>3. ASSUME q.op = "mark_paid", inv' = [inv EXCEPT ![i].status = "paid"],
             UNCHANGED <<ledger, pay, dep, entry>>
      PROVE  TypeOK'
  <2>1. i \in Invoice
    BY <1>1, <1>3 DEF WellFormed
  <2> QED
    BY <1>1, <1>3, <2>1, PaidType
<1>4. ASSUME q.op = "link", WriteLink(q.payment, i) PROVE TypeOK'
  <2>1. i \in Invoice /\ q.payment \in Payment
    BY <1>1, <1>4 DEF WellFormed
  <2> QED
    BY <1>1, <1>4, <2>1, LinkType
<1>5. ASSUME q.op = "edit", NEW lines \in BOOLEAN, NEW total \in Amount,
             WriteLines(i, lines, total)
      PROVE  TypeOK'
  <2>1. i \in Invoice
    BY <1>1, <1>5 DEF WellFormed
  <2> QED
    BY <1>1, <1>5, <2>1, LinesType
<1>6. ASSUME q.op = "contra", NEW confirmed \in BOOLEAN, WriteContra(q.deposit, confirmed)
      PROVE  TypeOK'
  <2>1. q.deposit \in Deposit
    BY <1>1, <1>6 DEF WellFormed
  <2> QED
    BY <1>1, <1>6, <2>1, ContraType
<1>7. TypeOK'
  BY <1>2, <1>3, <1>4, <1>5, <1>6 DEF FinishUnlocked
<1> QED
  BY <1>7, EndRows DEF FinishUnlocked

\* A handler that runs whole is a step of Receivables.
LEMMA AloneIsNext == Alone => Next
<1>1. ASSUME NEW i \in Invoice, AloneOnInvoice(i) PROVE Next
  BY <1>1 DEF AloneOnInvoice, Next, InvoiceNext, PaymentNext, DepositNext
<1>2. ASSUME NEW p \in Payment, AloneOnPayment(p) PROVE Next
  BY <1>2 DEF AloneOnPayment, Next, PaymentNext
<1>3. ASSUME NEW d \in Deposit, AloneOnDeposit(d) PROVE Next
  BY <1>3 DEF AloneOnDeposit, Next, DepositNext
<1> QED
  BY <1>1, <1>2, <1>3 DEF Alone, Next, DepositNext

\* A whole handler that records a payment, or works on deposits, writes little else.
LEMMA AlonePayment ==
  ASSUME NEW p \in Payment, AloneOnPayment(p)
  PROVE  /\ UNCHANGED <<inv, entry>>
         /\ \E kind, i, a, h : NewPayment(p, kind, i, a, h, FALSE, None)
BY DEF AloneOnPayment, RecordPayment, PipelinePayment

LEMMA AloneDeposit ==
  ASSUME NEW d \in Deposit, AloneOnDeposit(d)
  PROVE  /\ UNCHANGED <<inv, pay>>
         /\ UNCHANGED entry \/ \E confirmed \in BOOLEAN : WriteContra(d, confirmed)
BY DEF AloneOnDeposit, ImportDeposit, ManualMatch, IgnoreDeposit, ReconcileContra,
       WriteContra

LEMMA AloneMatch == AutoMatch => UNCHANGED <<inv, pay, entry>>
BY DEF AutoMatch

LEMMA RowsStep == RowsOK /\ [RNext]_allVars => RowsOK'
<1> SUFFICES ASSUME RowsOK, [RNext]_allVars PROVE RowsOK'
  OBVIOUS
<1>1. CASE Alone
  <2>1. TypeOK'
    BY <1>1, AloneIsNext, TypeStep DEF RowsOK
  <2> QED
    BY <1>1, <2>1 DEF Alone, RowsOK
<1>2. ASSUME NEW r \in Request, Raise(r) \/ Abort(r) PROVE RowsOK'
  <2>1. TypeOK'
    BY <1>2 DEF Raise, Abort, RowsOK, TypeOK, vars
  <2> QED
    BY <1>2, <2>1, EndRows DEF Raise, Abort
<1>3. CASE UNCHANGED allVars
  BY <1>3 DEF allVars, vars, RowsOK, TypeOK
<1> QED
  BY <1>1, <1>2, <1>3, BeginRows, WaitRows, FinishLockedRows, FinishUnlockedRows
     DEF RNext, Step

\* However requests interleave, the rows they read, hold and write keep their types.
THEOREM RequestsTypeCorrect == RSpec => []RequestsTypeOK
<1>1. RowsOK => RequestsTypeOK
  BY DEF RowsOK, RequestsTypeOK, RequestRow, LoadedRow, Idle
<1> QED
  BY <1>1, RowsInit, RowsStep, PTL DEF RSpec
-----------------------------------------------------------------------------
(* One issue entry per invoice, whichever handlers run step by step *)

\* post_invoice_issue looks at journal_entry_id when it writes, under the lock; this is
\* what makes the reference and the entries agree, whatever the statuses are.
OneIssue ==
  \A e \in Entry : entry[e].kind = "issue" =>
    /\ entry[e].confirmed
    /\ entry[e].invoice \in Invoice
    /\ inv[entry[e].invoice].journal = e

\* Steps that leave the references of the invoices alone and post no issue entry.
LEMMA OneIssueKept ==
  ASSUME OneIssue,
         \A i \in Invoice : inv'[i].journal = inv[i].journal,
         \A e \in Entry : entry'[e].kind = "issue" =>
           /\ entry[e].kind = "issue"
           /\ entry'[e].invoice = entry[e].invoice
           /\ entry[e].confirmed => entry'[e].confirmed
  PROVE  OneIssue'
BY DEF OneIssue

LEMMA OtherPosted ==
  ASSUME TypeOK, OneIssue, \A i \in Invoice : inv'[i].journal = inv[i].journal,
         NEW e \in Entry, NEW kind \in {"reversal", "receipt", "contra"},
         NEW i, NEW d, NEW a, NEW confirmed, Post(e, kind, i, d, a, confirmed)
  PROVE  OneIssue'
<1>1. /\ \A f \in Entry : f # e => entry'[f] = entry[f]
      /\ entry'[e].kind = kind
  BY DEF Post, TypeOK
<1> QED
  BY <1>1, OneIssueKept

LEMMA IssuePosted ==
  ASSUME TypeOK, OneIssue, NEW i \in Invoice, NEW status, PostInvoiceIssue(i, status)
  PROVE  OneIssue'
<1>1. CASE inv' = [inv EXCEPT ![i].status = status] /\ UNCHANGED entry
  BY <1>1, OneIssueKept DEF TypeOK, InvoiceRow
<1>2. ASSUME NEW e \in Entry, Post(e, "issue", i, None, inv[i].total, TRUE),
             inv' = [inv EXCEPT ![i].status = status, ![i].journal = e]
      PROVE  OneIssue'
  <2>1. /\ \A f \in Entry : f # e => entry'[f] = entry[f]
        /\ entry'[e].invoice = i /\ entry'[e].confirmed
    BY <1>2 DEF Post, TypeOK
  <2>2. /\ \A j \in Invoice : j # i => inv'[j] = inv[j]
        /\ inv'[i].journal = e /\ inv[i].journal = None
    BY <1>2 DEF TypeOK, InvoiceRow, PostInvoiceIssue
  <2>3. \A f \in Entry : entry[f].kind = "issue" => entry[f].invoice # i
    BY <2>2, NoneAssumption DEF OneIssue
  <2> QED
    BY <2>1, <2>2, <2>3 DEF OneIssue
<1> QED
  BY <1>1, <1>2 DEF PostInvoiceIssue

\* An issue entry is confirmed, so delete_entry never takes the reference to one away.
LEMMA OneIssueJournal == TypeOK /\ OneIssue /\ JournalNext => OneIssue'
<1> SUFFICES ASSUME TypeOK, OneIssue, JournalNext PROVE OneIssue'
  OBVIOUS
<1>1. ASSUME NEW e \in Entry, ConfirmEntry(e) PROVE OneIssue'
  BY <1>1, OneIssueKept DEF ConfirmEntry, TypeOK, EntryRow
<1>2. ASSUME NEW e \in Entry, DeleteEntry(e) PROVE OneIssue'
  <2>1. /\ \A f \in Entry : f # e => entry'[f] = entry[f]
        /\ entry'[e].kind = "free"
        /\ \A i \in Invoice : inv[i].journal # e => inv'[i].journal = inv[i].journal
    BY <1>2 DEF DeleteEntry, NoEntry, TypeOK, InvoiceRow
  <2> QED
    BY <2>1 DEF OneIssue
<1>3. CASE ConfigureLedger
  BY <1>3, OneIssueKept DEF ConfigureLedger
<1> QED
  BY <1>1, <1>2, <1>3 DEF JournalNext

LEMMA OneIssueAlone == RowsOK /\ OneIssue /\ Alone => OneIssue'
<1> SUFFICES ASSUME TypeOK, OneIssue, Alone PROVE OneIssue'
  BY DEF RowsOK
<1>1. ASSUME NEW i \in Invoice, CancelInvoice(i) PROVE OneIssue'
  <2>1. \A j \in Invoice : inv'[j].journal = inv[j].journal
    BY <1>1 DEF CancelInvoice, CancelFrom, TypeOK, InvoiceRow
  <2> QED
    BY <1>1, <2>1, OtherPosted, OneIssueKept DEF CancelInvoice, CancelFrom
<1>2. ASSUME NEW i \in Invoice, CreateInvoice(i) \/ \E p \in Payment : MarkPaid(i, p)
      PROVE  OneIssue'
  BY <1>2, OneIssueKept DEF CreateInvoice, MarkPaid, TypeOK, InvoiceRow
<1>3. ASSUME NEW i \in Invoice, NEW lines \in BOOLEAN, NEW total \in Amount,
             EditLines(i, lines, total)
      PROVE  OneIssue'
  BY <1>3, OneIssueKept DEF EditLines, WriteLines, TypeOK, InvoiceRow
<1>4. ASSUME NEW i \in Invoice, NEW p \in Payment, LinkPayment(p, i) PROVE OneIssue'
  BY <1>4, OneIssueKept DEF LinkPayment, WriteLink, TypeOK, InvoiceRow
<1>5. ASSUME NEW i \in Invoice, IssueInvoice(i) \/ PostJournal(i) PROVE OneIssue'
  BY <1>5, IssuePosted DEF IssueInvoice, PostJournal
<1>6. ASSUME NEW i \in Invoice, NEW p \in Payment, NEW h \in TxHash \cup {None},
             ReceiveCrypto(p, i, h)
      PROVE  OneIssue'
  <2>1. \A j \in Invoice : inv'[j].journal = inv[j].journal
    BY <1>6 DEF ReceiveCrypto, WriteReceipt, TypeOK, InvoiceRow
  <2> QED
    BY <1>6, <2>1, OtherPosted DEF ReceiveCrypto, WriteReceipt
<1>7. ASSUME NEW i \in Invoice, NEW d \in Deposit, NEW confirmed \in BOOLEAN,
             ReconcileSettlement(d, i, confirmed)
      PROVE  OneIssue'
  <2>1. UNCHANGED inv
    BY <1>7 DEF ReconcileSettlement, WriteSettlement
  <2> QED
    BY <1>7, <2>1, OtherPosted DEF ReconcileSettlement, WriteSettlement
<1>8. ASSUME UNCHANGED <<inv, entry>> PROVE OneIssue'
  BY <1>8, OneIssueKept
<1>9. ASSUME NEW d \in Deposit, AloneOnDeposit(d) PROVE OneIssue'
  <2>1. UNCHANGED inv
    BY <1>9, AloneDeposit
  <2>2. ASSUME NEW confirmed \in BOOLEAN, WriteContra(d, confirmed) PROVE OneIssue'
    BY <2>1, <2>2, OtherPosted DEF WriteContra
  <2> QED
    BY <1>8, <1>9, <2>1, <2>2, AloneDeposit
<1>10. ASSUME NEW i \in Invoice, AloneOnInvoice(i) PROVE OneIssue'
  BY <1>1, <1>2, <1>3, <1>4, <1>5, <1>6, <1>7, <1>10 DEF AloneOnInvoice
<1> QED
  BY <1>8, <1>9, <1>10, AlonePayment, AloneMatch, OneIssueJournal DEF Alone

LEMMA OneIssueLocked ==
  ASSUME RowsOK, OneIssue, NEW r \in Request, FinishLocked(r) PROVE OneIssue'
<1> DEFINE i == req[r].invoice
<1>1. req[r].op \in Locking => i \in Invoice
  BY LoadedRequest DEF FinishLocked, WellFormed, Locking
<1>2. TypeOK
  BY DEF RowsOK
<1>3. ASSUME i \in Invoice, FinishIssue(r) \/ FinishPostJournal(r) PROVE OneIssue'
  BY <1>2, <1>3, IssuePosted DEF FinishIssue, FinishPostJournal
<1>4. ASSUME i \in Invoice, FinishReceive(r) PROVE OneIssue'
  <2>1. \A j \in Invoice : inv'[j].journal = inv[j].journal
    BY <1>2, <1>4 DEF FinishReceive, WriteReceipt, TypeOK, InvoiceRow
  <2> QED
    BY <1>2, <1>4, <2>1, OtherPosted DEF FinishReceive, WriteReceipt
<1>5. ASSUME FinishSettle(r) PROVE OneIssue'
  <2>1. UNCHANGED inv
    BY <1>5 DEF FinishSettle, WriteSettlement
  <2> QED
    BY <1>2, <1>5, <2>1, OtherPosted DEF FinishSettle, WriteSettlement
<1> QED
  BY <1>1, <1>3, <1>4, <1>5 DEF FinishLocked, Locking

LEMMA OneIssueUnlocked ==
  ASSUME RowsOK, OneIssue, NEW r \in Request, FinishUnlocked(r) PROVE OneIssue'
<1> DEFINE i == req[r].invoice
<1>1. TypeOK
  BY DEF RowsOK
<1>2. ASSUME NEW status, NEW journal, CancelFrom(i, status, journal) PROVE OneIssue'
  <2>1. \A j \in Invoice : inv'[j].journal = inv[j].journal
    BY <1>1, <1>2 DEF CancelFrom, TypeOK, InvoiceRow
  <2> QED
    BY <1>1, <1>2, <2>1, OtherPosted, OneIssueKept DEF CancelFrom
<1>3. ASSUME inv' = [inv EXCEPT ![i].status = "paid"], UNCHANGED entry PROVE OneIssue'
  BY <1>1, <1>3, OneIssueKept DEF TypeOK, InvoiceRow
<1>4. ASSUME NEW p, WriteLink(p, i) PROVE OneIssue'
  BY <1>3, <1>4 DEF WriteLink
<1>5. ASSUME NEW lines \in BOOLEAN, NEW total \in Amount, WriteLines(i, lines, total)
      PROVE  OneIssue'
  BY <1>1, <1>5, OneIssueKept DEF WriteLines, TypeOK, InvoiceRow
<1>6. ASSUME NEW confirmed \in BOOLEAN, WriteContra(req[r].deposit, confirmed)
      PROVE  OneIssue'
  BY <1>1, <1>6, OtherPosted DEF WriteContra
<1> QED
  BY <1>2, <1>3, <1>4, <1>5, <1>6 DEF FinishUnlocked

LEMMA OneIssueStep == RowsOK /\ OneIssue /\ [RNext]_allVars => OneIssue'
<1> SUFFICES ASSUME RowsOK, OneIssue, [RNext]_allVars PROVE OneIssue'
  OBVIOUS
<1>1. ASSUME UNCHANGED vars PROVE OneIssue'
  BY <1>1, OneIssueKept DEF vars
<1>2. ASSUME NEW r \in Request,
             Begin(r) \/ Lock(r) \/ CountPayments(r) \/ Raise(r) \/ Abort(r)
      PROVE  UNCHANGED vars
  BY <1>2 DEF Begin, LoadInvoice, LoadPayment, LoadReceipt, LoadDeposit, Load, Lock,
     CountPayments, Raise, Abort
<1> QED
  BY <1>1, <1>2, OneIssueAlone, OneIssueLocked, OneIssueUnlocked
     DEF RNext, Step, allVars

LEMMA OneIssueInit == RInit => OneIssue
BY DEF RInit, Init, NoEntry, OneIssue

\* However requests interleave, the handlers without a lock included, the receivable of
\* an invoice is debited once.
THEOREM IssuePostedOnceHolds == RSpec => []IssuePostedOnce
<1>1. OneIssue => IssuePostedOnce
  BY DEF OneIssue, IssuePostedOnce, IsEntry
<1> QED
  BY <1>1, RowsInit, RowsStep, OneIssueInit, OneIssueStep, PTL DEF RSpec
-----------------------------------------------------------------------------
(* The handlers that decide under the lock, or decide nothing about the books *)

Safe == {"issue", "receive", "settle", "edit", "contra"}

\* The one fact a settlement reads before it waits and does not read again.
SettleLoaded ==
  \A r \in Request : req[r].pc # "idle" /\ req[r].op = "settle" =>
    PaysFor(req[r].payment, req[r].invoice) /\ inv[req[r].invoice].journal # None

SafeInv == RowsOK /\ Books /\ SettleLoaded

LEMMA SafeInit == RInit => SafeInv
BY RowsInit, BooksInit DEF RInit, SafeInv, SettleLoaded, Idle

\* A request that finishes is one of Safe, on rows that are there.
LEMMA SafeLoaded ==
  ASSUME Handlers \subseteq Safe, RowsOK, NEW r \in Request, req[r].pc # "idle"
  PROVE  /\ req[r].op \in Safe /\ req[r].pc # "counted"
         /\ req[r].op # "contra" => req[r].invoice \in Invoice
         /\ req[r].op = "settle" => req[r].payment \in Payment
         /\ req[r].op \in {"contra", "settle"} => req[r].deposit \in Deposit
         /\ req[r].hash \in TxHash \cup {None}
BY LoadedRequest DEF LoadedRow, WellFormed, Safe

LEMMA SafeBooks ==
  ASSUME Handlers \subseteq Safe, SafeInv, TypeOK', NEW r \in Request,
         FinishLocked(r) \/ FinishUnlocked(r)
  PROVE  Books'
<1> DEFINE q == req[r]
<1>1. /\ q.op \in Safe /\ q.pc # "counted"
      /\ q.op # "contra" => q.invoice \in Invoice
      /\ q.op = "settle" => q.payment \in Payment
      /\ q.op \in {"contra", "settle"} => q.deposit \in Deposit
      /\ q.hash \in TxHash \cup {None}
  BY SafeLoaded DEF SafeInv, FinishLocked, FinishUnlocked
<1>2. Books
  BY DEF SafeInv
<1>3. ASSUME q.op = "issue", FinishIssue(r) PROVE Books'
  BY <1>1, <1>2, <1>3, BooksIssue DEF FinishIssue, DraftUnderLock
<1>4. ASSUME q.op = "receive", FinishReceive(r) PROVE Books'
  BY <1>1, <1>2, <1>4, BooksReceipt DEF FinishReceive, DueUnderLock
<1>5. ASSUME q.op = "settle", q.pc # "idle", FinishSettle(r) PROVE Books'
  <2>1. PaysFor(q.payment, q.invoice) /\ inv[q.invoice].journal # None
    BY <1>5 DEF SafeInv, SettleLoaded
  <2> QED
    BY <1>1, <1>2, <1>5, <2>1, BooksSettlement DEF FinishSettle, SettleableUnderLock
<1>6. ASSUME q.op = "edit", NEW lines \in BOOLEAN, NEW total \in Amount,
             WriteLines(q.invoice, lines, total)
      PROVE  Books'
  BY <1>1, <1>2, <1>6, BooksLines
<1>7. ASSUME q.op = "contra", NEW confirmed \in BOOLEAN, WriteContra(q.deposit, confirmed)
      PROVE  Books'
  BY <1>1, <1>2, <1>7, BooksContra
<1>8. CASE FinishLocked(r)
  BY <1>1, <1>3, <1>4, <1>5, <1>8 DEF FinishLocked, Safe
<1>9. CASE FinishUnlocked(r)
  BY <1>1, <1>6, <1>7, <1>9 DEF FinishUnlocked, Safe
<1> QED
  BY <1>8, <1>9

\* No handler takes a reference away that a settlement relies on: a payment goes on paying
\* the invoice it is linked to, and a posted invoice stays posted.
RefsStay ==
  /\ \A i \in Invoice : inv[i].journal # None => inv'[i].journal # None
  /\ \A p \in Payment, i \in Invoice :
       PaysFor(p, i) => pay'[p].kind # "absent" /\ pay'[p].invoice = i

LEMMA IssueStay ==
  ASSUME TypeOK, NEW i \in Invoice, NEW status, PostInvoiceIssue(i, status), UNCHANGED pay
  PROVE  RefsStay
<1>1. ASSUME NEW e \in Entry,
             inv' = [inv EXCEPT ![i].status = status, ![i].journal = e]
      PROVE  \A j \in Invoice : inv[j].journal # None => inv'[j].journal # None
  BY <1>1, NoneAssumption DEF TypeOK, InvoiceRow
<1>2. ASSUME inv' = [inv EXCEPT ![i].status = status]
      PROVE  \A j \in Invoice : inv[j].journal # None => inv'[j].journal # None
  BY <1>2 DEF TypeOK, InvoiceRow
<1> QED
  BY <1>1, <1>2 DEF PostInvoiceIssue, RefsStay, PaysFor

LEMMA PaymentStay ==
  ASSUME TypeOK, \A i \in Invoice : inv'[i].journal = inv[i].journal,
         NEW p \in Payment, NEW kind, NEW i, NEW a, NEW h, NEW v, NEW e,
         NewPayment(p, kind, i, a, h, v, e)
  PROVE  RefsStay
BY DEF NewPayment, RefsStay, PaysFor, TypeOK

LEMMA ReceiptStay ==
  ASSUME TypeOK, NEW p \in Payment, NEW i \in Invoice, NEW h, WriteReceipt(p, i, h)
  PROVE  RefsStay
<1>1. \A j \in Invoice : inv'[j].journal = inv[j].journal
  BY DEF WriteReceipt, TypeOK, InvoiceRow
<1> QED
  BY <1>1, PaymentStay DEF WriteReceipt

LEMMA SettlementStay ==
  ASSUME TypeOK, NEW d, NEW p, NEW i, NEW confirmed, WriteSettlement(d, p, i, confirmed)
  PROVE  RefsStay
<1>1. \A o \in Payment : pay'[o].kind = pay[o].kind /\ pay'[o].invoice = pay[o].invoice
  BY DEF WriteSettlement, TypeOK, PaymentRow
<1> QED
  BY <1>1 DEF WriteSettlement, RefsStay, PaysFor

LEMMA AloneStay == Books /\ Alone => RefsStay
<1> SUFFICES ASSUME Books, Alone PROVE RefsStay
  OBVIOUS
<1>0. TypeOK
  BY DEF Books
<1>1. ASSUME UNCHANGED pay, \A i \in Invoice : inv'[i].journal = inv[i].journal
      PROVE  RefsStay
  BY <1>1 DEF RefsStay, PaysFor
<1>2. ASSUME NEW i \in Invoice, AloneOnInvoice(i) PROVE RefsStay
  <2>1. CASE CreateInvoice(i) \/ \E p \in Payment : MarkPaid(i, p)
    BY <1>0, <1>1, <2>1 DEF CreateInvoice, MarkPaid, TypeOK, InvoiceRow
  <2>2. ASSUME NEW lines \in BOOLEAN, NEW total \in Amount, EditLines(i, lines, total)
        PROVE  RefsStay
    BY <1>0, <1>1, <2>2 DEF EditLines, WriteLines, TypeOK, InvoiceRow
  <2>3. CASE CancelInvoice(i)
    BY <1>0, <1>1, <2>3 DEF CancelInvoice, CancelFrom, TypeOK, InvoiceRow
  <2>4. CASE IssueInvoice(i) \/ PostJournal(i)
    BY <1>0, <2>4, IssueStay DEF IssueInvoice, PostJournal
  <2>5. ASSUME NEW p \in Payment, LinkPayment(p, i) PROVE RefsStay
    BY <1>0, <2>5, NoneAssumption
       DEF LinkPayment, WriteLink, Linkable, RefsStay, PaysFor, TypeOK, InvoiceRow, PaymentRow
  <2>6. ASSUME NEW p \in Payment, NEW h \in TxHash \cup {None}, ReceiveCrypto(p, i, h)
        PROVE  RefsStay
    BY <1>0, <2>6, ReceiptStay DEF ReceiveCrypto
  <2>7. ASSUME NEW d \in Deposit, NEW confirmed \in BOOLEAN, ReconcileSettlement(d, i, confirmed)
        PROVE  RefsStay
    BY <1>0, <2>7, SettlementStay DEF ReconcileSettlement
  <2> QED
    BY <1>2, <2>1, <2>2, <2>3, <2>4, <2>5, <2>6, <2>7 DEF AloneOnInvoice
<1>3. ASSUME NEW p \in Payment, AloneOnPayment(p) PROVE RefsStay
  BY <1>0, <1>3, AlonePayment, PaymentStay
<1>4. ASSUME NEW d \in Deposit, AloneOnDeposit(d) PROVE RefsStay
  BY <1>1, <1>4, AloneDeposit
<1>5. ASSUME NEW e \in Entry, DeleteEntry(e) PROVE RefsStay
  <2>1. UNCHANGED inv
    BY <1>5, DeletedEntry
  <2>2. \A p \in Payment : pay'[p].kind = pay[p].kind /\ pay'[p].invoice = pay[p].invoice
    BY <1>0, <1>5 DEF DeleteEntry, TypeOK, PaymentRow
  <2> QED
    BY <2>1, <2>2 DEF RefsStay, PaysFor
<1>6. ASSUME UNCHANGED <<inv, pay>> PROVE RefsStay
  BY <1>1, <1>6
<1> QED
  BY <1>2, <1>3, <1>4, <1>5, <1>6, AloneMatch
     DEF Alone, JournalNext, ConfirmEntry, ConfigureLedger

LEMMA FinishStay ==
  ASSUME Handlers \subseteq Safe, SafeInv, NEW r \in Request,
         FinishLocked(r) \/ FinishUnlocked(r)
  PROVE  RefsStay
<1> DEFINE q == req[r]
<1>1. /\ q.op \in Safe /\ q.pc # "counted"
      /\ q.op # "contra" => q.invoice \in Invoice
      /\ q.op = "settle" => q.payment \in Payment
  BY SafeLoaded DEF SafeInv, FinishLocked, FinishUnlocked
<1>2. TypeOK
  BY DEF SafeInv, Books
<1>3. ASSUME q.op = "issue", FinishIssue(r) PROVE RefsStay
  BY <1>1, <1>2, <1>3, IssueStay DEF FinishIssue
<1>4. ASSUME q.op = "receive", FinishReceive(r) PROVE RefsStay
  BY <1>1, <1>2, <1>4, ReceiptStay DEF FinishReceive
<1>5. ASSUME q.op = "settle", FinishSettle(r) PROVE RefsStay
  BY <1>2, <1>5, SettlementStay DEF FinishSettle
<1>6. ASSUME NEW lines \in BOOLEAN, NEW total \in Amount,
             WriteLines(q.invoice, lines, total)
      PROVE  RefsStay
  <2>1. \A i \in Invoice : inv'[i].journal = inv[i].journal
    BY <1>2, <1>6 DEF WriteLines, TypeOK, InvoiceRow
  <2> QED
    BY <1>6, <2>1 DEF WriteLines, RefsStay, PaysFor
<1>7. ASSUME NEW confirmed \in BOOLEAN, WriteContra(q.deposit, confirmed) PROVE RefsStay
  BY <1>7 DEF WriteContra, RefsStay, PaysFor
<1>8. CASE FinishLocked(r)
  BY <1>1, <1>3, <1>4, <1>5, <1>8 DEF FinishLocked, Safe
<1>9. CASE FinishUnlocked(r)
  BY <1>1, <1>6, <1>7, <1>9 DEF FinishUnlocked, Safe
<1> QED
  BY <1>8, <1>9

\* Steps that load nothing: a request stays, waits on with what it loaded, or ends.
LEMMA SettleKept ==
  ASSUME RowsOK, SettleLoaded, RefsStay, NEW r \in Request,
         \A o \in Request : o # r => req'[o] = req[o],
         \/ req'[r] = req[r]
         \/ req'[r] = Idle
         \/ /\ req[r].pc # "idle"
            /\ req'[r].op = req[r].op /\ req'[r].payment = req[r].payment
            /\ req'[r].invoice = req[r].invoice
  PROVE  SettleLoaded'
<1> SUFFICES ASSUME NEW o \in Request, req'[o].pc # "idle", req'[o].op = "settle"
    PROVE  /\ pay'[req'[o].payment].kind # "absent"
           /\ pay'[req'[o].payment].invoice = req'[o].invoice
           /\ inv'[req'[o].invoice].journal # None
  BY DEF SettleLoaded, PaysFor
<1>1. /\ req[o].pc # "idle" /\ req[o].op = "settle"
      /\ req'[o].payment = req[o].payment /\ req'[o].invoice = req[o].invoice
  BY DEF Idle
<1>2. req[o].payment \in Payment /\ req[o].invoice \in Invoice
  BY <1>1, LoadedRequest DEF WellFormed
<1> QED
  BY <1>1, <1>2 DEF SettleLoaded, RefsStay

LEMMA SettleBegin ==
  ASSUME RowsOK, SettleLoaded, NEW r \in Request, Begin(r)
  PROVE  SettleLoaded'
<1>1. UNCHANGED vars /\ \A o \in Request : o # r => req'[o] = req[o]
  BY DEF Begin, LoadInvoice, LoadPayment, LoadReceipt, LoadDeposit, Load, RowsOK
<1>2. ASSUME NEW op, NEW i, NEW p, NEW d, NEW h, Load(r, op, i, p, d, h),
             op = "settle" => PaysFor(p, i) /\ inv[i].journal # None
      PROVE  SettleLoaded'
  <2>1. req'[r].op = op /\ req'[r].payment = p /\ req'[r].invoice = i
    BY <1>2 DEF Load, RowsOK
  <2> QED
    BY <1>1, <1>2, <2>1 DEF SettleLoaded, PaysFor, vars
<1>3. ASSUME NEW i \in Invoice, LoadInvoice(r, i) PROVE SettleLoaded'
  <2>1. PICK op \in {"issue", "post_journal", "cancel", "edit"} :
          Load(r, op, i, None, None, None)
    BY <1>3 DEF LoadInvoice
  <2> QED
    BY <1>2, <2>1
<1>4. ASSUME NEW i \in Invoice, NEW p \in Payment, LoadPayment(r, i, p) PROVE SettleLoaded'
  <2>1. PICK op \in {"mark_paid", "link"} : Load(r, op, i, p, None, None)
    BY <1>4 DEF LoadPayment
  <2> QED
    BY <1>2, <2>1
<1>5. ASSUME NEW i \in Invoice, NEW h \in TxHash \cup {None}, LoadReceipt(r, i, h)
      PROVE  SettleLoaded'
  BY <1>2, <1>5 DEF LoadReceipt
<1>6. ASSUME NEW d \in Deposit, LoadDeposit(r, d) PROVE SettleLoaded'
  BY <1>2, <1>6 DEF LoadDeposit, SettlesInvoice
<1> QED
  BY <1>3, <1>4, <1>5, <1>6 DEF Begin

\* SafeInv is inductive when only the handlers of Safe run step by step.
LEMMA SafeStep ==
  ASSUME Handlers \subseteq Safe, SafeInv, [RNext]_allVars
  PROVE  SafeInv'
<1>1. RowsOK'
  BY RowsStep DEF SafeInv
<1>2. TypeOK'
  BY <1>1 DEF RowsOK
<1>3. Books /\ RowsOK /\ SettleLoaded
  BY DEF SafeInv
<1>4. UNCHANGED vars => Books' /\ RefsStay
  BY <1>2, <1>3, BooksUnchanged DEF vars, RefsStay, PaysFor
<1>5. CASE Alone
  <2>1. Books'
    BY <1>3, <1>5, AloneIsNext, BooksStep
  <2>2. RefsStay
    BY <1>3, <1>5, AloneStay
  <2>3. \A r \in Request : SettleLoaded'
    BY <1>3, <1>5, <2>2, SettleKept DEF Alone
  <2>4. Request = {} => SettleLoaded'
    BY DEF SettleLoaded
  <2> QED
    BY <1>1, <2>1, <2>3, <2>4 DEF SafeInv
<1>6. ASSUME NEW r \in Request, Begin(r) PROVE SafeInv'
  <2>1. UNCHANGED vars
    BY <1>6 DEF Begin, LoadInvoice, LoadPayment, LoadReceipt, LoadDeposit, Load
  <2> QED
    BY <1>1, <1>3, <1>4, <1>6, <2>1, SettleBegin DEF SafeInv
<1>7. ASSUME NEW r \in Request, Lock(r) \/ CountPayments(r) PROVE SafeInv'
  <2>1. /\ \A o \in Request : o # r => req'[o] = req[o]
        /\ req[r].pc # "idle"
        /\ req'[r].op = req[r].op /\ req'[r].payment = req[r].payment
        /\ req'[r].invoice = req[r].invoice
        /\ UNCHANGED vars
    <3>1. req[r] \in LoadedRow
      BY <1>3, <1>7, LoadedRequest DEF Lock, CountPayments
    <3> QED
      BY <1>3, <1>7, <3>1 DEF Lock, CountPayments, RowsOK, LoadedRow
  <2> QED
    BY <1>1, <1>3, <1>4, <2>1, SettleKept DEF SafeInv
<1>8. ASSUME NEW r \in Request, End(r), RefsStay, Books' PROVE SafeInv'
  <2>1. req'[r] = Idle /\ \A o \in Request : o # r => req'[o] = req[o]
    BY <1>3, <1>8 DEF End, RowsOK
  <2> QED
    BY <1>1, <1>3, <1>8, <2>1, SettleKept DEF SafeInv
<1>9. ASSUME NEW r \in Request, FinishLocked(r) \/ FinishUnlocked(r) PROVE SafeInv'
  BY <1>2, <1>8, <1>9, SafeBooks, FinishStay DEF FinishLocked, FinishUnlocked
<1>10. ASSUME NEW r \in Request, Raise(r) \/ Abort(r) PROVE SafeInv'
  BY <1>4, <1>8, <1>10 DEF Raise, Abort
<1>11. CASE UNCHANGED allVars
  BY <1>1, <1>3, <1>4, <1>11 DEF allVars, vars, SafeInv, SettleLoaded, PaysFor
<1> QED
  BY <1>5, <1>6, <1>7, <1>9, <1>10, <1>11 DEF RNext, Step

\* The books of an invoice follow its status under any interleaving of issuing, receiving,
\* settling, editing and booking a deposit to revenue.
THEOREM RequestsBooksFollowStatus ==
  ASSUME Handlers \subseteq Safe PROVE RSpec => []BooksFollowStatus
<1>1. SafeInv => BooksFollowStatus
  BY BooksFollow DEF SafeInv
<1> QED
  BY <1>1, SafeInit, SafeStep, PTL DEF RSpec

\* A transaction hash pays once, although the first look for it is taken before the call to
\* the chain.
THEOREM RequestsHashPaysOnce ==
  ASSUME Handlers \subseteq Safe PROVE RSpec => []HashPaysOnce
<1>1. SafeInv => HashPaysOnce
  BY DEF SafeInv, Books
<1> QED
  BY <1>1, SafeInit, SafeStep, PTL DEF RSpec

-----------------------------------------------------------------------------
(* A cancellation is final *)

LEMMA CancelledStaysStep ==
  ASSUME Handlers \subseteq Safe, SafeInv, RNext, NEW i \in Invoice,
         inv[i].status = "cancelled"
  PROVE  inv'[i].status = "cancelled"
<1>1. TypeOK
  BY DEF SafeInv, Books
<1>2. CASE UNCHANGED inv
  BY <1>2
<1>3. ASSUME NEW j \in Invoice, NEW status, inv[j].status # "cancelled",
             inv' = [inv EXCEPT ![j].status = status]
      PROVE  inv'[i].status = "cancelled"
  BY <1>1, <1>3 DEF TypeOK
<1>4. ASSUME NEW j \in Invoice, NEW lines \in BOOLEAN, NEW total \in Amount,
             WriteLines(j, lines, total)
      PROVE  inv'[i].status = "cancelled"
  BY <1>1, <1>4 DEF WriteLines, TypeOK, InvoiceRow
<1>5. CASE Alone
  <2>1. ASSUME NEW j \in Invoice, CancelInvoice(j) PROVE inv'[i].status = "cancelled"
    BY <1>3, <2>1 DEF CancelInvoice, CancelFrom
  <2>2. ASSUME NEW j \in Invoice,
               CreateInvoice(j) \/ \E p \in Payment : MarkPaid(j, p) \/ LinkPayment(p, j)
        PROVE  inv'[i].status = "cancelled"
    BY <1>3, <2>2 DEF CreateInvoice, MarkPaid, LinkPayment, WriteLink, Linkable
  <2>3. ASSUME NEW e \in Entry, DeleteEntry(e) PROVE inv'[i].status = "cancelled"
    BY <1>2, <2>3, DeletedEntry DEF SafeInv
  <2>4. ASSUME NEW j \in Invoice, IssueInvoice(j) \/ PostJournal(j)
        PROVE  inv'[i].status = "cancelled"
    BY <1>1, <2>4, IssuedInvoice DEF IssueInvoice, PostJournal, Postable
  <2>5. ASSUME NEW j \in Invoice, NEW p, NEW h, ReceiveCrypto(p, j, h)
        PROVE  inv'[i].status = "cancelled"
    BY <1>3, <2>5 DEF ReceiveCrypto, ReceivableDue, WriteReceipt
  <2>6. ASSUME NEW j \in Invoice, AloneOnInvoice(j) PROVE inv'[i].status = "cancelled"
    BY <1>2, <1>4, <2>1, <2>2, <2>4, <2>5, <2>6
       DEF AloneOnInvoice, EditLines, ReconcileSettlement, WriteSettlement
  <2> QED
    BY <1>2, <1>5, <2>3, <2>6, AlonePayment, AloneDeposit, AloneMatch
       DEF Alone, JournalNext, ConfirmEntry, ConfigureLedger
<1>6. ASSUME NEW r \in Request, FinishLocked(r) \/ FinishUnlocked(r)
      PROVE  inv'[i].status = "cancelled"
  <2> DEFINE q == req[r]
  <2>1. /\ q.op \in Safe /\ q.pc # "counted"
        /\ q.op # "contra" => q.invoice \in Invoice
    BY <1>6, SafeLoaded DEF SafeInv, FinishLocked, FinishUnlocked
  <2>2. ASSUME q.op = "issue", FinishIssue(r) PROVE inv'[i].status = "cancelled"
    <3>1. q.invoice \in Invoice /\ inv[q.invoice].status = "draft"
      BY <2>1, <2>2 DEF FinishIssue, DraftUnderLock
    <3>2. \A j \in Invoice : j # q.invoice => inv'[j] = inv[j]
      BY <1>1, <2>2 DEF FinishIssue, PostInvoiceIssue, TypeOK
    <3> QED
      BY <3>1, <3>2
  <2>3. ASSUME q.op = "receive", FinishReceive(r) PROVE inv'[i].status = "cancelled"
    <3>1. inv[q.invoice].status = "issued"
      BY <2>3 DEF FinishReceive, DueUnderLock, ReceivableDue
    <3> QED
      BY <1>3, <2>1, <2>3, <3>1 DEF FinishReceive, WriteReceipt
  <2>4. ASSUME FinishSettle(r) PROVE UNCHANGED inv
    BY <2>4 DEF FinishSettle, WriteSettlement
  <2>5. CASE FinishLocked(r)
    BY <1>2, <2>1, <2>2, <2>3, <2>4, <2>5 DEF FinishLocked, Safe
  <2>6. CASE FinishUnlocked(r)
    BY <1>2, <1>4, <2>1, <2>6 DEF FinishUnlocked, Safe, WriteContra
  <2> QED
    BY <1>6, <2>5, <2>6
<1>7. ASSUME NEW r \in Request,
             Begin(r) \/ Lock(r) \/ CountPayments(r) \/ Raise(r) \/ Abort(r)
      PROVE  UNCHANGED inv
  BY <1>7 DEF Begin, LoadInvoice, LoadPayment, LoadReceipt, LoadDeposit, Load, Lock,
     CountPayments, Raise, Abort, vars
<1> QED
  BY <1>2, <1>5, <1>6, <1>7 DEF RNext, Step

\* A request that loaded an invoice before it was cancelled does not revive it.
THEOREM RequestsCancelledStays ==
  ASSUME Handlers \subseteq Safe PROVE RSpec => CancelledStays
<1>1. SafeInv /\ [RNext]_allVars =>
        [\A i \in Invoice : inv[i].status = "cancelled" =>
           inv'[i].status = "cancelled"]_allVars
  BY CancelledStaysStep
<1> QED
  BY <1>1, SafeInit, SafeStep, PTL DEF RSpec, CancelledStays

-----------------------------------------------------------------------------
(* Evidence and amounts *)

LEMMA RequestsEvidenceStep ==
  ASSUME Handlers \subseteq Safe, SafeInv, PaidHasEvidence, [RNext]_allVars
  PROVE  PaidHasEvidence'
<1>1. TypeOK
  BY DEF SafeInv, Books
<1>2. ASSUME UNCHANGED pay,
             \A i \in Invoice : inv'[i].status = "paid" => inv[i].status = "paid"
      PROVE  PaidHasEvidence'
  BY <1>2, EvidenceKept
<1>3. CASE Alone
  BY <1>1, <1>3, AloneIsNext, EvidenceStep
<1>4. CASE UNCHANGED vars
  BY <1>1, <1>4, EvidenceStep
<1>5. ASSUME NEW r \in Request, FinishLocked(r) \/ FinishUnlocked(r)
      PROVE  PaidHasEvidence'
  <2> DEFINE q == req[r]
  <2>1. /\ q.op \in Safe /\ q.pc # "counted"
        /\ q.op # "contra" => q.invoice \in Invoice
        /\ q.hash \in TxHash \cup {None}
    BY <1>5, SafeLoaded DEF SafeInv, FinishLocked, FinishUnlocked
  <2>2. ASSUME q.op = "issue", FinishIssue(r) PROVE PaidHasEvidence'
    <3>1. UNCHANGED pay
      BY <2>2 DEF FinishIssue
    <3> QED
      BY <1>1, <1>2, <2>1, <2>2, <3>1, IssuedInvoice DEF FinishIssue
  <2>3. ASSUME q.op = "receive", FinishReceive(r) PROVE PaidHasEvidence'
    BY <1>1, <2>1, <2>3, ReceiptEvidence DEF FinishReceive
  <2>4. ASSUME FinishSettle(r) PROVE PaidHasEvidence'
    BY <1>1, <2>4, SettlementEvidence DEF FinishSettle
  <2>5. ASSUME NEW lines \in BOOLEAN, NEW total \in Amount,
               WriteLines(q.invoice, lines, total)
        PROVE  PaidHasEvidence'
    BY <1>1, <1>2, <2>5 DEF WriteLines, TypeOK, InvoiceRow
  <2>6. ASSUME NEW confirmed \in BOOLEAN, WriteContra(q.deposit, confirmed)
        PROVE  PaidHasEvidence'
    BY <1>2, <2>6 DEF WriteContra
  <2>7. CASE FinishLocked(r)
    BY <2>1, <2>2, <2>3, <2>4, <2>7 DEF FinishLocked, Safe
  <2>8. CASE FinishUnlocked(r)
    BY <2>1, <2>5, <2>6, <2>8 DEF FinishUnlocked, Safe
  <2> QED
    BY <1>5, <2>7, <2>8
<1>6. ASSUME NEW r \in Request,
             Begin(r) \/ Lock(r) \/ CountPayments(r) \/ Raise(r) \/ Abort(r)
      PROVE  UNCHANGED vars
  BY <1>6 DEF Begin, LoadInvoice, LoadPayment, LoadReceipt, LoadDeposit, Load, Lock,
     CountPayments, Raise, Abort
<1> QED
  BY <1>3, <1>4, <1>5, <1>6 DEF RNext, Step, allVars

\* An invoice is paid by a payment that is linked to it and is not an unverified crypto
\* receipt, also when the receipt waited for the chain.
THEOREM RequestsPaidHasEvidence ==
  ASSUME Handlers \subseteq Safe PROVE RSpec => []PaidHasEvidence
<1>1. RInit => PaidHasEvidence
  BY InvInit DEF RInit, IInv
<1> QED
  BY <1>1, SafeInit, SafeStep, RequestsEvidenceStep, PTL DEF RSpec

LEMMA RequestsAmountStep ==
  ASSUME Handlers \subseteq Safe \ {"edit"}, SafeInv, PostedAmount, [RNext]_allVars
  PROVE  PostedAmount'
<1>1. Books
  BY DEF SafeInv
<1>2. CASE Alone \/ UNCHANGED vars
  BY <1>1, <1>2, AloneIsNext, AmountStep
<1>3. ASSUME NEW r \in Request, FinishLocked(r) \/ FinishUnlocked(r)
      PROVE  PostedAmount'
  <2> DEFINE q == req[r]
  <2>1. /\ q.op \in Safe \ {"edit"} /\ q.pc # "counted"
        /\ q.op # "contra" => q.invoice \in Invoice
        /\ q.op \in {"contra", "settle"} => q.deposit \in Deposit
        /\ q.hash \in TxHash \cup {None}
    <3>1. req[r].pc # "idle" /\ RowsOK /\ Handlers \subseteq Safe
      BY <1>3 DEF SafeInv, FinishLocked, FinishUnlocked
    <3>2. q.op \in Handlers
      BY <3>1, LoadedRequest DEF LoadedRow
    <3> QED
      BY <3>1, <3>2, SafeLoaded
  <2>2. ASSUME q.op = "issue", FinishIssue(r) PROVE PostedAmount'
    BY <1>1, <2>1, <2>2, AmountIssue DEF FinishIssue
  <2>3. ASSUME q.op = "receive", FinishReceive(r) PROVE PostedAmount'
    BY <1>1, <2>1, <2>3, AmountReceipt DEF FinishReceive
  <2>4. ASSUME q.op = "settle", q.pc # "idle", FinishSettle(r) PROVE PostedAmount'
    <3>1. inv[q.invoice].journal # None
      BY <2>4 DEF SafeInv, SettleLoaded
    <3> QED
      BY <1>1, <2>1, <2>4, <3>1, AmountSettlement DEF FinishSettle, SettleableUnderLock
  <2>5. ASSUME q.op = "contra", NEW confirmed \in BOOLEAN,
               WriteContra(q.deposit, confirmed)
        PROVE  PostedAmount'
    BY <1>1, <2>1, <2>5, AmountContra
  <2>6. CASE FinishLocked(r)
    BY <2>1, <2>2, <2>3, <2>4, <2>6 DEF FinishLocked, Safe
  <2>7. CASE FinishUnlocked(r)
    BY <2>1, <2>5, <2>7 DEF FinishUnlocked, Safe
  <2> QED
    BY <1>3, <2>6, <2>7
<1>4. ASSUME NEW r \in Request,
             Begin(r) \/ Lock(r) \/ CountPayments(r) \/ Raise(r) \/ Abort(r)
      PROVE  UNCHANGED vars
  BY <1>4 DEF Begin, LoadInvoice, LoadPayment, LoadReceipt, LoadDeposit, Load, Lock,
     CountPayments, Raise, Abort
<1> QED
  BY <1>2, <1>3, <1>4 DEF RNext, Step, allVars

\* The entries carry the invoice's total under any interleaving, as long as line items are
\* not edited on a stale draft: editing is the one handler that breaks the amounts.
THEOREM RequestsPostedAmount ==
  ASSUME Handlers \subseteq Safe \ {"edit"} PROVE RSpec => []PostedAmount
<1>1. RInit => PostedAmount
  BY InvInit DEF RInit, IInv
<1>2. Handlers \subseteq Safe
  OBVIOUS
<1> QED
  BY <1>1, <1>2, SafeInit, SafeStep, RequestsAmountStep, PTL DEF RSpec

-----------------------------------------------------------------------------
(* The interleaved handlers implement OpenItem *)

LEMMA RequestsItemStep ==
  ASSUME Handlers \subseteq Safe, SafeInv, Books', [RNext]_allVars
  PROVE  Items!ItemNext \/ UNCHANGED [i \in Invoice |-> ItemOf(i)]
<1>1. Books
  BY DEF SafeInv
<1>2. CASE UNCHANGED vars
  BY <1>1, <1>2, ItemStep
<1>3. CASE Alone
  BY <1>1, <1>3, AloneIsNext, ItemStep
<1>4. ASSUME NEW r \in Request, FinishLocked(r) \/ FinishUnlocked(r)
      PROVE  Items!ItemNext \/ UNCHANGED [i \in Invoice |-> ItemOf(i)]
  <2> DEFINE q == req[r]
  <2>1. /\ q.op \in Safe /\ q.pc # "counted"
        /\ q.op # "contra" => q.invoice \in Invoice
        /\ q.op \in {"contra", "settle"} => q.deposit \in Deposit
        /\ q.hash \in TxHash \cup {None}
    BY <1>4, SafeLoaded DEF SafeInv, FinishLocked, FinishUnlocked
  <2>2. ASSUME q.op = "issue", FinishIssue(r)
        PROVE  Items!ItemNext \/ UNCHANGED [i \in Invoice |-> ItemOf(i)]
    BY <1>1, <2>1, <2>2, ItemIssue DEF FinishIssue, DraftUnderLock
  <2>3. ASSUME q.op = "receive", FinishReceive(r) PROVE Items!ItemNext
    BY <1>1, <2>1, <2>3, ItemReceive DEF FinishReceive, DueUnderLock
  <2>4. ASSUME q.op = "settle", q.pc # "idle", FinishSettle(r) PROVE Items!ItemNext
    <3>1. inv[q.invoice].journal # None
      BY <2>4 DEF SafeInv, SettleLoaded
    <3> QED
      BY <1>1, <2>1, <2>4, <3>1, ItemSettlement DEF FinishSettle, SettleableUnderLock
  <2>5. ASSUME q.op = "edit", NEW lines \in BOOLEAN, NEW total \in Amount,
               WriteLines(q.invoice, lines, total)
        PROVE  UNCHANGED [i \in Invoice |-> ItemOf(i)]
    BY <1>1, <2>1, <2>5, ItemLines
  <2>6. ASSUME q.op = "contra", NEW confirmed \in BOOLEAN,
               WriteContra(q.deposit, confirmed)
        PROVE  UNCHANGED [i \in Invoice |-> ItemOf(i)]
    BY <1>1, <2>1, <2>6, ItemContra
  <2>7. CASE FinishLocked(r)
    BY <2>1, <2>2, <2>3, <2>4, <2>7 DEF FinishLocked, Safe
  <2>8. CASE FinishUnlocked(r)
    BY <2>1, <2>5, <2>6, <2>8 DEF FinishUnlocked, Safe
  <2> QED
    BY <1>4, <2>7, <2>8
<1>5. ASSUME NEW r \in Request,
             Begin(r) \/ Lock(r) \/ CountPayments(r) \/ Raise(r) \/ Abort(r)
      PROVE  UNCHANGED vars
  BY <1>5 DEF Begin, LoadInvoice, LoadPayment, LoadReceipt, LoadDeposit, Load, Lock,
     CountPayments, Raise, Abort
<1> QED
  BY <1>2, <1>3, <1>4, <1>5 DEF RNext, Step, allVars

\* Each receivable is one open item, whatever the interleaving of the handlers of Safe: the
\* row lock and the checks made again under it are enough.
THEOREM RequestsRefinement ==
  ASSUME Handlers \subseteq Safe PROVE RSpec => ImplementsOpenItem
<1>1. SafeInv /\ SafeInv' /\ [RNext]_allVars =>
        [Items!ItemNext]_([i \in Invoice |-> ItemOf(i)])
  BY RequestsItemStep DEF SafeInv
<1>2. RInit => Items!ItemInit
  BY ItemInitial DEF RInit
<1> QED
  BY <1>1, <1>2, SafeInit, SafeStep, PTL DEF RSpec, ImplementsOpenItem, Items!ItemSpec

-----------------------------------------------------------------------------
(* Requests that do not overlap: the split handlers implement those of Receivables.  All of
   them, those without a lock too: what a request checked when it loaded is the guard of its
   handler, and still holds when it writes. *)

\* No request starts while another is in progress.
Serial ==
  [][Alone \/ (\E r \in Request : Begin(r)) => \A q \in Request : req[q].pc = "idle"]_allVars

\* What a request in progress, loaded as q, has found.
Decided(q) ==
  LET i == q.invoice
      p == q.payment
      d == q.deposit IN
  /\ q.op = "issue" => inv[i].status = "draft" /\ inv[i].lines
  /\ q.op = "post_journal" => Postable(i)
  /\ q.op = "cancel" =>
       /\ inv[i].status \in {"draft", "issued"}
       /\ q.status = inv[i].status /\ q.journal = inv[i].journal
       /\ q.pc = "counted" /\ q.status = "issued" => ~LinkedPayment(i)
  /\ q.op = "edit" => Editable(i)
  /\ q.op = "mark_paid" =>
       p \in Payment /\ inv[i].status = "issued" /\ PaysFor(p, i) /\ VerifiedIfCrypto(p)
  /\ q.op = "link" => Linkable(p, i)
  /\ q.op = "receive" => ReceivableDue(i, q.hash)
  /\ q.op = "settle" => Unreconciled(d) /\ SettlesInvoice(d, i) /\ p = dep[d].payment
  /\ q.op = "contra" => Unreconciled(d) /\ \A j \in Invoice : ~SettlesInvoice(d, j)

SerialInv ==
  /\ RowsOK
  /\ \A r \in Request : req[r].pc # "idle" =>
       Decided(req[r]) /\ \A q \in Request \ {r} : req[q].pc = "idle"

LEMMA SerialInit == RInit => SerialInv
BY RowsInit DEF RInit, SerialInv, Idle

LEMMA DecidedKept == ASSUME NEW q, Decided(q), UNCHANGED vars PROVE Decided(q)'
<1>1. inv' = inv /\ pay' = pay /\ dep' = dep /\ ledger' = ledger /\ entry' = entry
  BY DEF vars
<1>2. /\ \A i : (Postable(i)' <=> Postable(i)) /\ (LinkedPayment(i)' <=> LinkedPayment(i))
      /\ \A i, p : (PaysFor(p, i)' <=> PaysFor(p, i)) /\ (Linkable(p, i)' <=> Linkable(p, i))
      /\ \A p : VerifiedIfCrypto(p)' <=> VerifiedIfCrypto(p)
      /\ \A i, h : ReceivableDue(i, h)' <=> ReceivableDue(i, h)
      /\ \A d, i : SettlesInvoice(d, i)' <=> SettlesInvoice(d, i)
      /\ \A d : Unreconciled(d)' <=> Unreconciled(d)
      /\ \A i : Editable(i)' <=> Editable(i)
  BY <1>1 DEF Postable, ReconciledDeposit, LinkedPayment, PaysFor, Linkable, VerifiedIfCrypto,
     ReceivableDue, ReceivableSettled, HashRecorded, SettlesInvoice, Unreconciled, Editable
<1> QED
  BY <1>1, <1>2 DEF Decided

\* The only request in progress, with what it has found, or none any more.
LEMMA SerialStored ==
  ASSUME RowsOK', NEW r \in Request, NEW v, req'[r] = v,
         \A q \in Request \ {r} : req'[q].pc = "idle",
         v.pc # "idle" => Decided(v)'
  PROVE  SerialInv'
BY DEF SerialInv, Decided

LEMMA SerialBegin ==
  ASSUME SerialInv, NEW r \in Request, Begin(r), \A q \in Request : req[q].pc = "idle"
  PROVE  SerialInv'
<1>0. RowsOK'
  BY BeginRows DEF SerialInv
<1>1. ASSUME NEW op, NEW i, NEW p, NEW d, NEW h, Load(r, op, i, p, d, h),
             Decided([pc |-> "loaded", op |-> op, invoice |-> i, payment |-> p, deposit |-> d,
                      hash |-> h,
                      status |-> IF i = None THEN None ELSE inv[i].status,
                      journal |-> IF i = None THEN None ELSE inv[i].journal])
      PROVE  SerialInv'
  <2>1. PICK v : v = [pc |-> "loaded", op |-> op, invoice |-> i, payment |-> p, deposit |-> d,
                      hash |-> h,
                      status |-> IF i = None THEN None ELSE inv[i].status,
                      journal |-> IF i = None THEN None ELSE inv[i].journal]
    OBVIOUS
  <2>2. req' = [req EXCEPT ![r] = v] /\ UNCHANGED vars
    BY <1>1, <2>1 DEF Load
  <2>3. Decided(v)'
    BY <1>1, <2>1, <2>2, DecidedKept
  <2>4. req'[r] = v /\ \A q \in Request \ {r} : req'[q].pc = "idle"
    BY <2>2 DEF SerialInv, RowsOK
  <2> QED
    BY <1>0, <2>3, <2>4, SerialStored
<1>2. ASSUME NEW i \in Invoice, LoadInvoice(r, i) PROVE SerialInv'
  <2>1. i # None
    BY NoneAssumption
  <2>2. CASE inv[i].status = "draft" /\ inv[i].lines /\ Load(r, "issue", i, None, None, None)
    BY <1>1, <2>2 DEF Decided
  <2>3. CASE Postable(i) /\ Load(r, "post_journal", i, None, None, None)
    BY <1>1, <2>3 DEF Decided
  <2>4. CASE inv[i].status \in {"draft", "issued"} /\ Load(r, "cancel", i, None, None, None)
    BY <1>1, <2>1, <2>4 DEF Decided
  <2>5. CASE Editable(i) /\ Load(r, "edit", i, None, None, None)
    BY <1>1, <2>5 DEF Decided
  <2> QED
    BY <1>2, <2>2, <2>3, <2>4, <2>5 DEF LoadInvoice
<1>3. ASSUME NEW i \in Invoice, NEW p \in Payment, LoadPayment(r, i, p) PROVE SerialInv'
  <2>1. CASE /\ inv[i].status = "issued" /\ PaysFor(p, i) /\ VerifiedIfCrypto(p)
             /\ Load(r, "mark_paid", i, p, None, None)
    BY <1>1, <2>1 DEF Decided
  <2>2. CASE Linkable(p, i) /\ Load(r, "link", i, p, None, None)
    BY <1>1, <2>2 DEF Decided
  <2> QED
    BY <1>3, <2>1, <2>2 DEF LoadPayment
<1>4. ASSUME NEW i \in Invoice, NEW h \in TxHash \cup {None}, LoadReceipt(r, i, h)
      PROVE  SerialInv'
  BY <1>1, <1>4 DEF LoadReceipt, Decided
<1>5. ASSUME NEW d \in Deposit, LoadDeposit(r, d) PROVE SerialInv'
  <2>1. ASSUME NEW i \in Invoice, Unreconciled(d), SettlesInvoice(d, i),
               Load(r, "settle", i, dep[d].payment, d, None)
        PROVE  SerialInv'
    <3>1. PICK p : p = dep[d].payment
      OBVIOUS
    <3> QED
      BY <1>1, <2>1, <3>1 DEF Decided
  <2>2. CASE /\ Unreconciled(d) /\ \A i \in Invoice : ~SettlesInvoice(d, i)
             /\ Load(r, "contra", None, None, d, None)
    BY <1>1, <2>2 DEF Decided
  <2> QED
    BY <1>5, <2>1, <2>2 DEF LoadDeposit
<1> QED
  BY <1>2, <1>3, <1>4, <1>5 DEF Begin

LEMMA SerialWait ==
  ASSUME SerialInv, NEW r \in Request, Lock(r) \/ CountPayments(r)
  PROVE  UNCHANGED vars /\ SerialInv'
<1>1. req[r] \in LoadedRow /\ Decided(req[r]) /\ \A q \in Request \ {r} : req[q].pc = "idle"
  BY LoadedRequest DEF Lock, CountPayments, SerialInv
<1>2. UNCHANGED vars
  BY DEF Lock, CountPayments
<1>3. ASSUME NEW pc, pc \in {"locked", "counted"}, req' = [req EXCEPT ![r].pc = pc],
             pc = "counted" /\ req[r].status = "issued" => ~LinkedPayment(req[r].invoice)
      PROVE  SerialInv'
  <2>1. PICK v : v = [req[r] EXCEPT !.pc = pc]
    OBVIOUS
  <2>2. req'[r] = v /\ \A q \in Request \ {r} : req'[q].pc = "idle"
    BY <1>1, <1>3, <2>1 DEF SerialInv, RowsOK
  <2>3. /\ v.op = req[r].op /\ v.invoice = req[r].invoice /\ v.payment = req[r].payment
        /\ v.deposit = req[r].deposit /\ v.hash = req[r].hash
        /\ v.status = req[r].status /\ v.journal = req[r].journal /\ v.pc = pc
    BY <1>1, <2>1 DEF LoadedRow
  <2>4. Decided(v)
    BY <1>1, <1>3, <2>3 DEF Decided
  <2> QED
    BY <1>2, <2>2, <2>4, DecidedKept, WaitRows, SerialStored DEF SerialInv
<1>4. CASE Lock(r)
  BY <1>3, <1>4 DEF Lock
<1>5. CASE CountPayments(r)
  BY <1>3, <1>5 DEF CountPayments
<1> QED
  BY <1>2, <1>4, <1>5

LEMMA SerialEnd ==
  ASSUME SerialInv, NEW r \in Request, req[r].pc # "idle", End(r), RowsOK'
  PROVE  SerialInv'
<1>1. req'[r] = Idle /\ \A q \in Request \ {r} : req'[q].pc = "idle"
  BY DEF End, SerialInv, RowsOK
<1> QED
  BY <1>1, SerialStored DEF Idle

\* The end of a request is the step of its handler in Receivables.
LEMMA SerialFinish ==
  ASSUME SerialInv, NEW r \in Request, FinishLocked(r) \/ FinishUnlocked(r)
  PROVE  Next
<1> DEFINE q == req[r]
           i == req[r].invoice
           p == req[r].payment
           d == req[r].deposit
<1>1. q \in LoadedRow /\ WellFormed(q) /\ Decided(q)
  BY LoadedRequest DEF FinishLocked, FinishUnlocked, SerialInv
<1>2. /\ q.op # "contra" => i \in Invoice
      /\ q.op \in {"mark_paid", "link", "settle"} => p \in Payment
      /\ q.op \in {"contra", "settle"} => d \in Deposit
      /\ q.hash \in TxHash \cup {None}
  BY <1>1 DEF WellFormed, LoadedRow, Decided
<1>3. ASSUME q.op = "issue", FinishIssue(r) PROVE IssueInvoice(i)
  BY <1>1, <1>3 DEF FinishIssue, Decided, IssueInvoice
<1>4. ASSUME q.op = "post_journal", FinishPostJournal(r) PROVE PostJournal(i)
  BY <1>1, <1>4 DEF FinishPostJournal, Decided, Postable, PostJournal
<1>5. ASSUME q.op = "receive", FinishReceive(r)
      PROVE  \E o \in Payment : ReceiveCrypto(o, i, q.hash)
  BY <1>1, <1>5 DEF FinishReceive, Decided, ReceiveCrypto
<1>6. ASSUME q.op = "settle", FinishSettle(r)
      PROVE  \E confirmed \in BOOLEAN : ReconcileSettlement(d, i, confirmed)
  BY <1>1, <1>6 DEF FinishSettle, SettleableUnderLock, Decided, ReconcileSettlement
<1>7. CASE FinishLocked(r)
  BY <1>2, <1>3, <1>4, <1>5, <1>6, <1>7
     DEF FinishLocked, Next, InvoiceNext, PaymentNext, DepositNext
<1>8. ASSUME q.pc = "counted", CancelFrom(i, q.status, q.journal), UNCHANGED <<ledger, pay, dep>>
      PROVE  i \in Invoice /\ CancelInvoice(i)
  BY <1>1, <1>2, <1>8 DEF WellFormed, Decided, CancelInvoice
<1>9. ASSUME q.op = "mark_paid", inv' = [inv EXCEPT ![i].status = "paid"],
             UNCHANGED <<ledger, pay, dep, entry>>
      PROVE  MarkPaid(i, p)
  BY <1>1, <1>9 DEF Decided, MarkPaid
<1>10. ASSUME q.op = "link", WriteLink(p, i) PROVE LinkPayment(p, i)
  BY <1>1, <1>10 DEF Decided, LinkPayment
<1>11. ASSUME q.op = "edit", NEW lines \in BOOLEAN, NEW total \in Amount,
              WriteLines(i, lines, total)
       PROVE  EditLines(i, lines, total)
  BY <1>1, <1>11 DEF Decided, EditLines
<1>12. ASSUME q.op = "contra", NEW confirmed \in BOOLEAN, WriteContra(d, confirmed)
       PROVE  ReconcileContra(d, confirmed)
  BY <1>1, <1>12 DEF Decided, ReconcileContra
<1>13. CASE FinishUnlocked(r)
  BY <1>2, <1>8, <1>9, <1>10, <1>11, <1>12, <1>13
     DEF FinishUnlocked, Next, InvoiceNext, PaymentNext, DepositNext
<1> QED
  BY <1>7, <1>13

LEMMA SerialStep ==
  /\ SerialInv /\ [RNext]_allVars
  /\ [Alone \/ (\E r \in Request : Begin(r)) => \A q \in Request : req[q].pc = "idle"]_allVars
  => [Next]_vars /\ SerialInv'
<1> SUFFICES ASSUME SerialInv, [RNext]_allVars,
                    [Alone \/ (\E r \in Request : Begin(r)) =>
                       \A q \in Request : req[q].pc = "idle"]_allVars
             PROVE  [Next]_vars /\ SerialInv'
  OBVIOUS
<1>0. RowsOK'
  BY RowsStep DEF SerialInv
<1>1. CASE UNCHANGED allVars
  <2>1. UNCHANGED vars /\ UNCHANGED req
    BY <1>1 DEF allVars
  <2>2. ASSUME NEW r \in Request, req[r].pc # "idle" PROVE SerialInv'
    <3>1. PICK v : v = req[r]
      OBVIOUS
    <3>2. Decided(v)'
      BY <2>1, <2>2, <3>1, DecidedKept DEF SerialInv
    <3> QED
      BY <1>0, <2>1, <2>2, <3>1, <3>2, SerialStored DEF SerialInv
  <2>3. (\A r \in Request : req[r].pc = "idle") => SerialInv'
    BY <1>0, <2>1 DEF SerialInv
  <2> QED
    BY <2>1, <2>2, <2>3
<1>2. CASE ~UNCHANGED allVars /\ Alone
  <2>1. \A q \in Request : req'[q].pc = "idle"
    BY <1>2 DEF Alone
  <2> QED
    BY <1>0, <1>2, <2>1, AloneIsNext DEF SerialInv
<1>3. ASSUME NEW r \in Request, ~UNCHANGED allVars, Begin(r) PROVE UNCHANGED vars /\ SerialInv'
  <2>1. \A q \in Request : req[q].pc = "idle"
    BY <1>3
  <2>2. UNCHANGED vars
    BY <1>3 DEF Begin, LoadInvoice, LoadPayment, LoadReceipt, LoadDeposit, Load
  <2> QED
    BY <1>3, <2>1, <2>2, SerialBegin
<1>4. ASSUME NEW r \in Request, Lock(r) \/ CountPayments(r) PROVE UNCHANGED vars /\ SerialInv'
  BY <1>4, SerialWait
<1>5. ASSUME NEW r \in Request, FinishLocked(r) \/ FinishUnlocked(r) PROVE Next /\ SerialInv'
  <2>1. req[r].pc # "idle" /\ End(r)
    <3>1. CASE FinishLocked(r)
      BY <3>1 DEF FinishLocked
    <3>2. CASE FinishUnlocked(r)
      BY <3>2 DEF FinishUnlocked
    <3> QED
      BY <1>5, <3>1, <3>2
  <2> QED
    BY <1>0, <1>5, <2>1, SerialFinish, SerialEnd
<1>6. ASSUME NEW r \in Request, Raise(r) \/ Abort(r) PROVE UNCHANGED vars /\ SerialInv'
  BY <1>0, <1>6, SerialEnd DEF Raise, Abort
<1> QED
  BY <1>1, <1>2, <1>3, <1>4, <1>5, <1>6 DEF RNext, Step

\* Whichever handlers run step by step: when no request starts while another is in progress,
\* each of them is one step of Receivables, and all that is proved of Receivables holds.
THEOREM SerialRequestsAreReceivables == RSpec /\ Serial => Spec
<1>1. RInit => Init
  BY DEF RInit
<1> QED
  BY <1>1, SerialInit, SerialStep, PTL DEF RSpec, Serial, Spec

-----------------------------------------------------------------------------
(* What the handlers without a lock can break, whichever run step by step *)

\* A request that commits on an invoice whose status is no longer the one it loaded.
CommitsLate(i) ==
  \E r \in Request :
    /\ req[r].pc # "idle" /\ req'[r].pc = "idle"
    /\ req[r].invoice = i /\ req[r].status # inv[i].status

\* An invoice leaves paid or cancelled, changes its lines or total once it is issued, or is
\* posted without being issued, only by a request that commits late.
ClosedNeedsOverlap ==
  [][\A i \in Invoice :
       \/ inv[i].status \in {"paid", "cancelled"} /\ inv'[i].status # inv[i].status
       \/ /\ inv[i].status \notin {"absent", "draft"}
          /\ <<inv'[i].lines, inv'[i].total>> # <<inv[i].lines, inv[i].total>>
       \/ /\ inv[i].journal = None /\ inv'[i].journal # None
          /\ inv'[i].status # "issued"
       => CommitsLate(i)]_allVars

\* A payment keeps what it is.  Its link to an invoice changes only when a link request for
\* another invoice commits; that request loaded the payment when it was not linked elsewhere
\* (Linkable), so it was linked since.
RelinkNeedsOverlap ==
  [][\A p \in Payment : pay[p].kind # "absent" =>
       /\ pay'[p].kind = pay[p].kind /\ pay'[p].amount = pay[p].amount
       /\ pay'[p].hash = pay[p].hash /\ pay'[p].verified = pay[p].verified
       /\ pay[p].invoice # None /\ pay'[p].invoice # pay[p].invoice =>
            \E r \in Request :
              /\ req[r].pc = "loaded" /\ req'[r].pc = "idle" /\ req[r].op = "link"
              /\ req[r].payment = p /\ req[r].invoice = pay'[p].invoice]_allVars

\* The status that each kind of request loaded.
LoadedStatus(q) ==
  /\ q.op \in {"post_journal", "mark_paid", "link"} => q.status = "issued"
  /\ q.op = "cancel" => q.status \in {"draft", "issued"}
  /\ q.op = "edit" => q.status = "draft"

StatusInv == RowsOK /\ \A r \in Request : req[r].pc # "idle" => LoadedStatus(req[r])

LEMMA StatusInit == RInit => StatusInv
BY RowsInit DEF RInit, StatusInv, Idle

LEMMA StatusStep == StatusInv /\ [RNext]_allVars => StatusInv'
<1> SUFFICES ASSUME StatusInv, [RNext]_allVars PROVE StatusInv'
  OBVIOUS
<1>0. RowsOK'
  BY RowsStep DEF StatusInv
<1>1. ASSUME UNCHANGED req PROVE StatusInv'
  BY <1>0, <1>1 DEF StatusInv, LoadedStatus
<1>2. ASSUME NEW r \in Request, NEW v, req' = [req EXCEPT ![r] = v],
             v.pc # "idle" => LoadedStatus(v)
      PROVE  StatusInv'
  <2>1. req'[r] = v /\ \A q \in Request \ {r} : req'[q] = req[q]
    BY <1>2 DEF StatusInv, RowsOK
  <2> QED
    BY <1>0, <1>2, <2>1 DEF StatusInv, LoadedStatus
<1>3. ASSUME NEW r \in Request, End(r) PROVE StatusInv'
  BY <1>2, <1>3 DEF End, Idle
<1>4. ASSUME NEW r \in Request, Lock(r) \/ CountPayments(r) PROVE StatusInv'
  <2>1. req[r] \in LoadedRow /\ LoadedStatus(req[r])
    BY <1>4, LoadedRequest DEF Lock, CountPayments, StatusInv
  <2>2. PICK v : v \in {[req[r] EXCEPT !.pc = "locked"], [req[r] EXCEPT !.pc = "counted"]}
                 /\ req' = [req EXCEPT ![r] = v]
    BY <1>4 DEF Lock, CountPayments
  <2>3. LoadedStatus(v)
    BY <2>1, <2>2 DEF LoadedRow, LoadedStatus
  <2> QED
    BY <1>2, <2>2, <2>3
<1>5. ASSUME NEW r \in Request, NEW op, NEW i \in Invoice, NEW p, NEW d, NEW h,
             Load(r, op, i, p, d, h),
             op \in {"post_journal", "mark_paid", "link"} => inv[i].status = "issued",
             op = "cancel" => inv[i].status \in {"draft", "issued"},
             op = "edit" => inv[i].status = "draft"
      PROVE  StatusInv'
  <2>1. i # None
    BY NoneAssumption
  <2> QED
    BY <1>2, <1>5, <2>1 DEF Load, LoadedStatus
<1>6. ASSUME NEW r \in Request, Begin(r) PROVE StatusInv'
  <2>1. ASSUME NEW i \in Invoice, LoadInvoice(r, i) PROVE StatusInv'
    BY <1>5, <2>1 DEF LoadInvoice, Postable, Editable
  <2>2. ASSUME NEW i \in Invoice, NEW p \in Payment, LoadPayment(r, i, p) PROVE StatusInv'
    BY <1>5, <2>2 DEF LoadPayment, Linkable
  <2>3. ASSUME NEW i \in Invoice, NEW h \in TxHash \cup {None}, LoadReceipt(r, i, h)
        PROVE  StatusInv'
    BY <1>5, <2>3 DEF LoadReceipt
  <2>4. ASSUME NEW d \in Deposit, LoadDeposit(r, d) PROVE StatusInv'
    <3>1. ASSUME NEW i \in Invoice, Load(r, "settle", i, dep[d].payment, d, None)
          PROVE  StatusInv'
      BY <1>5, <3>1
    <3>2. ASSUME Load(r, "contra", None, None, d, None) PROVE StatusInv'
      BY <1>2, <3>2 DEF Load, LoadedStatus
    <3> QED
      BY <2>4, <3>1, <3>2 DEF LoadDeposit
  <2> QED
    BY <1>6, <2>1, <2>2, <2>3, <2>4 DEF Begin
<1> QED
  BY <1>1, <1>3, <1>4, <1>6
     DEF RNext, Step, Alone, FinishLocked, FinishUnlocked, Raise, Abort, allVars

LEMMA ClosedStep ==
  ASSUME StatusInv, [RNext]_allVars, NEW i \in Invoice
  PROVE  \/ inv[i].status \in {"paid", "cancelled"} /\ inv'[i].status # inv[i].status
         \/ /\ inv[i].status \notin {"absent", "draft"}
            /\ <<inv'[i].lines, inv'[i].total>> # <<inv[i].lines, inv[i].total>>
         \/ /\ inv[i].journal = None /\ inv'[i].journal # None
            /\ inv'[i].status # "issued"
         => CommitsLate(i)
<1> DEFINE Kept == inv'[i] = inv[i]
           \* What a handler may do to the invoice that decides on its present status.
           Open == /\ inv[i].status \in {"paid", "cancelled"} => inv'[i].status = inv[i].status
                   /\ inv[i].status \notin {"absent", "draft"} =>
                        inv'[i].lines = inv[i].lines /\ inv'[i].total = inv[i].total
                   /\ inv[i].journal = None /\ inv'[i].journal # None =>
                        inv'[i].status = "issued"
<1> SUFFICES Open \/ CommitsLate(i)
  OBVIOUS
<1>0. inv \in [Invoice -> InvoiceRow]
  BY DEF StatusInv, RowsOK, TypeOK
<1>1. ASSUME Kept PROVE Open
  BY <1>1
<1>2. ASSUME NEW s, PostInvoiceIssue(i, s)
      PROVE  inv'[i].status = s /\ inv'[i].lines = inv[i].lines /\ inv'[i].total = inv[i].total
  <2>1. CASE inv' = [inv EXCEPT ![i].status = s]
    BY <1>0, <2>1 DEF InvoiceRow
  <2>2. ASSUME NEW e, inv' = [inv EXCEPT ![i].status = s, ![i].journal = e]
        PROVE  inv'[i].status = s /\ inv'[i].lines = inv[i].lines /\ inv'[i].total = inv[i].total
    BY <1>0, <2>2 DEF InvoiceRow
  <2> QED
    BY <1>2, <2>1, <2>2 DEF PostInvoiceIssue
<1>3. CASE UNCHANGED allVars
  BY <1>1, <1>3 DEF allVars, vars
<1>4. CASE Alone
  <2>1. ASSUME NEW j \in Invoice, AloneOnInvoice(j) PROVE Open
    <3>1. CASE CreateInvoice(j)
      BY <1>0, <3>1 DEF CreateInvoice, InvoiceRow
    <3>2. ASSUME NEW lines, NEW total, EditLines(j, lines, total) PROVE Open
      BY <1>0, <3>2 DEF EditLines, Editable, WriteLines, InvoiceRow
    <3>3. CASE CancelInvoice(j)
      BY <1>0, <3>3 DEF CancelInvoice, CancelFrom, InvoiceRow
    <3>4. ASSUME NEW p, MarkPaid(j, p) \/ LinkPayment(p, j) PROVE Open
      BY <1>0, <3>4 DEF MarkPaid, LinkPayment, Linkable, WriteLink, InvoiceRow
    <3>5. CASE IssueInvoice(j) \/ PostJournal(j)
      <4>1. CASE j = i
        BY <1>2, <3>5, <4>1 DEF IssueInvoice, PostJournal, Postable
      <4>2. CASE j # i
        BY <1>0, <1>1, <3>5, <4>2 DEF IssueInvoice, PostJournal, PostInvoiceIssue
      <4> QED
        BY <4>1, <4>2
    <3>6. ASSUME NEW p, NEW h, ReceiveCrypto(p, j, h) PROVE Open
      BY <1>0, <3>6 DEF ReceiveCrypto, ReceivableDue, WriteReceipt, InvoiceRow
    <3>7. ASSUME NEW d, NEW c, ReconcileSettlement(d, j, c) PROVE Open
      BY <1>1, <3>7 DEF ReconcileSettlement, WriteSettlement
    <3> QED
      BY <2>1, <3>1, <3>2, <3>3, <3>4, <3>5, <3>6, <3>7 DEF AloneOnInvoice
  <2>2. ASSUME JournalNext PROVE Open
    BY <1>0, <2>2 DEF JournalNext, ConfirmEntry, DeleteEntry, ConfigureLedger, InvoiceRow
  <2>3. CASE UNCHANGED inv
    BY <1>1, <2>3
  <2> QED
    BY <1>4, <2>1, <2>2, <2>3, AlonePayment, AloneDeposit, AloneMatch DEF Alone
<1>5. ASSUME NEW r \in Request, Begin(r) \/ Lock(r) \/ CountPayments(r) \/ Raise(r) \/ Abort(r)
      PROVE  Open
  BY <1>1, <1>5 DEF Begin, LoadInvoice, LoadPayment, LoadReceipt, LoadDeposit, Load, Lock,
     CountPayments, Raise, Abort, vars
<1>6. ASSUME NEW r \in Request, FinishLocked(r) \/ FinishUnlocked(r), req[r].invoice # i
      PROVE  Open
  BY <1>0, <1>1, <1>6 DEF FinishLocked, FinishUnlocked, FinishIssue, FinishPostJournal,
     FinishReceive, FinishSettle, PostInvoiceIssue, WriteReceipt, WriteSettlement, CancelFrom,
     WriteLink, WriteLines, WriteContra
<1>7. ASSUME NEW r \in Request, FinishLocked(r) \/ FinishUnlocked(r), req[r].invoice = i
      PROVE  Open \/ CommitsLate(i)
  <2>1. /\ req[r].pc # "idle" /\ LoadedStatus(req[r]) /\ req'[r] = Idle
        /\ WellFormed(req[r]) /\ req[r] \in LoadedRow
    BY <1>7, LoadedRequest DEF FinishLocked, FinishUnlocked, End, StatusInv, RowsOK
  <2>2. CASE req[r].status # inv[i].status
    BY <1>7, <2>1, <2>2 DEF CommitsLate, Idle
  <2>3. CASE req[r].status = inv[i].status /\ FinishLocked(r)
    <3>1. ASSUME FinishIssue(r) PROVE Open
      BY <1>7, <1>2, <3>1 DEF FinishIssue, DraftUnderLock
    <3>2. ASSUME FinishPostJournal(r), req[r].op = "post_journal" PROVE Open
      BY <1>7, <1>2, <2>1, <2>3, <3>2 DEF FinishPostJournal, LoadedStatus
    <3>3. ASSUME FinishReceive(r) PROVE Open
      BY <1>0, <1>7, <3>3 DEF FinishReceive, DueUnderLock, ReceivableDue, WriteReceipt, InvoiceRow
    <3>4. ASSUME FinishSettle(r) PROVE Open
      BY <1>1, <3>4 DEF FinishSettle, WriteSettlement
    <3> QED
      BY <2>3, <3>1, <3>2, <3>3, <3>4 DEF FinishLocked
  <2>4. CASE req[r].status = inv[i].status /\ FinishUnlocked(r)
    <3>1. ASSUME req[r].op = "cancel", CancelFrom(i, req[r].status, req[r].journal) PROVE Open
      BY <1>0, <2>1, <2>4, <3>1 DEF CancelFrom, LoadedStatus, InvoiceRow
    <3>2. ASSUME req[r].op = "mark_paid", inv' = [inv EXCEPT ![i].status = "paid"] PROVE Open
      BY <1>0, <2>1, <2>4, <3>2 DEF LoadedStatus, InvoiceRow
    <3>3. ASSUME req[r].op = "link", WriteLink(req[r].payment, i) PROVE Open
      BY <1>0, <2>1, <2>4, <3>3 DEF WriteLink, LoadedStatus, InvoiceRow
    <3>4. ASSUME req[r].op = "edit", NEW lines, NEW total, WriteLines(i, lines, total) PROVE Open
      BY <1>0, <2>1, <2>4, <3>4 DEF WriteLines, LoadedStatus, InvoiceRow
    <3>5. ASSUME NEW d, NEW c, WriteContra(d, c) PROVE Open
      BY <1>1, <3>5 DEF WriteContra
    <3> QED
      BY <1>7, <2>1, <2>4, <3>1, <3>2, <3>3, <3>4, <3>5 DEF FinishUnlocked, WellFormed
  <2> QED
    BY <1>7, <2>2, <2>3, <2>4
<1> QED
  BY <1>3, <1>4, <1>5, <1>6, <1>7 DEF RNext, Step

\* Whichever handlers run step by step, those without a lock too: the status of a paid or
\* cancelled invoice, the lines of an issued one and the entry of one that is not issued are
\* touched only by a request that commits on a status it no longer finds.
THEOREM ClosedInvoicesOverlap == RSpec => ClosedNeedsOverlap
<1>1. StatusInv /\ [RNext]_allVars =>
      [\A i \in Invoice :
         \/ inv[i].status \in {"paid", "cancelled"} /\ inv'[i].status # inv[i].status
         \/ /\ inv[i].status \notin {"absent", "draft"}
            /\ <<inv'[i].lines, inv'[i].total>> # <<inv[i].lines, inv[i].total>>
         \/ /\ inv[i].journal = None /\ inv'[i].journal # None
            /\ inv'[i].status # "issued"
         => CommitsLate(i)]_allVars
  BY ClosedStep
<1> QED
  BY <1>1, StatusInit, StatusStep, PTL DEF RSpec, ClosedNeedsOverlap

LEMMA RelinkStep ==
  ASSUME RowsOK, [RNext]_allVars, NEW p \in Payment, pay[p].kind # "absent"
  PROVE  /\ pay'[p].kind = pay[p].kind /\ pay'[p].amount = pay[p].amount
         /\ pay'[p].hash = pay[p].hash /\ pay'[p].verified = pay[p].verified
         /\ pay[p].invoice # None /\ pay'[p].invoice # pay[p].invoice =>
              \E r \in Request :
                /\ req[r].pc = "loaded" /\ req'[r].pc = "idle" /\ req[r].op = "link"
                /\ req[r].payment = p /\ req[r].invoice = pay'[p].invoice
<1> DEFINE Same == /\ pay'[p].kind = pay[p].kind /\ pay'[p].amount = pay[p].amount
                   /\ pay'[p].hash = pay[p].hash /\ pay'[p].verified = pay[p].verified
           Linked == pay[p].invoice # None => pay'[p].invoice = pay[p].invoice
           Relinks(r) == /\ req[r].pc = "loaded" /\ req'[r].pc = "idle" /\ req[r].op = "link"
                         /\ req[r].payment = p /\ req[r].invoice = pay'[p].invoice
<1> SUFFICES Same /\ (Linked \/ \E r \in Request : Relinks(r))
  OBVIOUS
<1>0. pay \in [Payment -> PaymentRow]
  BY DEF RowsOK, TypeOK
<1>1. ASSUME UNCHANGED pay PROVE Same /\ Linked
  BY <1>1
<1>2. ASSUME NEW o, NEW kind, NEW i, NEW a, NEW h, NEW v, NEW e, NewPayment(o, kind, i, a, h, v, e)
      PROVE  Same /\ Linked
  BY <1>0, <1>2 DEF NewPayment
<1>3. CASE Alone
  <2>1. ASSUME NEW i \in Invoice, NEW o \in Payment, LinkPayment(o, i) PROVE Same /\ Linked
    BY <1>0, <2>1 DEF LinkPayment, Linkable, WriteLink, PaymentRow
  <2>2. ASSUME JournalNext PROVE Same /\ Linked
    BY <1>0, <2>2 DEF JournalNext, ConfirmEntry, DeleteEntry, ConfigureLedger, PaymentRow
  <2>3. ASSUME NEW i \in Invoice, NEW o \in Payment, NEW h, ReceiveCrypto(o, i, h)
        PROVE  Same /\ Linked
    BY <1>2, <2>3 DEF ReceiveCrypto, WriteReceipt
  <2>4. ASSUME NEW i \in Invoice, NEW d, NEW c, ReconcileSettlement(d, i, c)
        PROVE  Same /\ Linked
    BY <1>0, <2>4 DEF ReconcileSettlement, WriteSettlement, PaymentRow
  <2>5. ASSUME NEW i \in Invoice, AloneOnInvoice(i) PROVE Same /\ Linked
    BY <1>1, <2>1, <2>3, <2>4, <2>5 DEF AloneOnInvoice, CreateInvoice, EditLines, WriteLines,
       CancelInvoice, MarkPaid, IssueInvoice, PostJournal
  <2>6. ASSUME NEW o \in Payment, AloneOnPayment(o) PROVE Same /\ Linked
    BY <1>2, <2>6, AlonePayment
  <2> QED
    BY <1>1, <1>3, <2>2, <2>5, <2>6, AloneDeposit, AloneMatch DEF Alone
<1>4. ASSUME NEW r \in Request, Begin(r) \/ Lock(r) \/ CountPayments(r) \/ Raise(r) \/ Abort(r)
      PROVE  Same /\ Linked
  BY <1>1, <1>4 DEF Begin, LoadInvoice, LoadPayment, LoadReceipt, LoadDeposit, Load, Lock,
     CountPayments, Raise, Abort, vars
<1>5. ASSUME NEW r \in Request, FinishLocked(r) PROVE Same /\ Linked
  <2>1. ASSUME FinishReceive(r) PROVE Same /\ Linked
    BY <1>2, <2>1 DEF FinishReceive, WriteReceipt
  <2>2. ASSUME FinishSettle(r) PROVE Same /\ Linked
    BY <1>0, <2>2 DEF FinishSettle, WriteSettlement, PaymentRow
  <2> QED
    BY <1>1, <1>5, <2>1, <2>2 DEF FinishLocked, FinishIssue, FinishPostJournal
<1>6. ASSUME NEW r \in Request, FinishUnlocked(r) PROVE Same /\ (Linked \/ Relinks(r))
  <2>1. ASSUME req[r].pc = "loaded", req[r].op = "link", WriteLink(req[r].payment, req[r].invoice)
        PROVE  Same /\ (Linked \/ Relinks(r))
    <3>1. req'[r] = Idle
      BY <1>6 DEF FinishUnlocked, End, RowsOK
    <3> QED
      BY <1>0, <2>1, <3>1 DEF WriteLink, PaymentRow, Idle
  <2> QED
    BY <1>1, <1>6, <2>1 DEF FinishUnlocked, WriteLines, WriteContra
<1>7. CASE UNCHANGED allVars
  BY <1>1, <1>7 DEF allVars, vars
<1> QED
  BY <1>3, <1>4, <1>5, <1>6, <1>7 DEF RNext, Step

\* No handler takes a payment from its invoice but link_payment, and this one only by a request
\* that loaded the payment before another linked it.  Its kind, amount, hash and verification
\* stay as they were recorded.
THEOREM RelinkedPaymentsOverlap == RSpec => RelinkNeedsOverlap
<1>1. RowsOK /\ [RNext]_allVars =>
      [\A p \in Payment : pay[p].kind # "absent" =>
         /\ pay'[p].kind = pay[p].kind /\ pay'[p].amount = pay[p].amount
         /\ pay'[p].hash = pay[p].hash /\ pay'[p].verified = pay[p].verified
         /\ pay[p].invoice # None /\ pay'[p].invoice # pay[p].invoice =>
              \E r \in Request :
                /\ req[r].pc = "loaded" /\ req'[r].pc = "idle" /\ req[r].op = "link"
                /\ req[r].payment = p /\ req[r].invoice = pay'[p].invoice]_allVars
  BY RelinkStep
<1> QED
  BY <1>1, RowsInit, RowsStep, PTL DEF RSpec, RelinkNeedsOverlap
=============================================================================
