------------------------- MODULE ReceivableRequests -------------------------
(***************************************************************************)
(* The handlers of Receivables run by concurrent requests.                 *)
(*                                                                         *)
(* A request is one database session: one READ COMMITTED transaction with  *)
(* autoflush off.  It decides on rows it loaded without a lock, may wait   *)
(* (for the chain's RPC node, an FX rate, the PDF store, a row lock) and   *)
(* writes what it decided when it flushes and commits.  lock_invoice is    *)
(* the one SELECT ... FOR UPDATE among these handlers; every UPDATE of an  *)
(* invoice waits for the row's lock too.  Reads after the last wait, the   *)
(* flush and the commit are one step (Finish): nobody sees what lies       *)
(* between.                                                                *)
(*                                                                         *)
(* Handlers names the handlers split into steps in an instance.  Every     *)
(* handler may also run whole between the steps of others (Alone).         *)
(***************************************************************************)
EXTENDS Receivables

CONSTANTS Request,     \* requests in progress at the same time
          Handlers     \* the handlers that run step by step

Locking == {"issue", "post_journal", "receive", "settle"}
Unlocked == {"cancel", "mark_paid", "link", "edit", "contra"}

ASSUME HandlersAssumption == Handlers \subseteq Locking \cup Unlocked

VARIABLES
  req,      \* what each request is doing, and what it has loaded
  lock      \* the request holding an invoice's row lock, or None

allVars == <<vars, req, lock>>

Idle == [pc |-> "idle"]

RequestsTypeOK ==
  /\ TypeOK
  /\ \A r \in Request : req[r].pc \in {"idle", "loaded", "locked", "counted"}
  /\ lock \in [Invoice -> Request \cup {None}]

RInit == Init /\ req = [r \in Request |-> Idle] /\ lock = [i \in Invoice |-> None]

-----------------------------------------------------------------------------
(* Loading: the checks a handler makes before it waits *)

Load(r, op, i, p, d, h) ==
  /\ req[r].pc = "idle"
  /\ op \in Handlers
  /\ req' = [req EXCEPT ![r] =
       [pc |-> "loaded", op |-> op, invoice |-> i, payment |-> p, deposit |-> d,
        hash |-> h,
        status |-> IF i = None THEN None ELSE inv[i].status,
        journal |-> IF i = None THEN None ELSE inv[i].journal]]
  /\ UNCHANGED <<vars, lock>>

LoadInvoice(r, i) ==
  \/ /\ inv[i].status = "draft" /\ inv[i].lines
     /\ Load(r, "issue", i, None, None, None)
  \/ /\ Postable(i) /\ Load(r, "post_journal", i, None, None, None)
  \/ /\ inv[i].status \in {"draft", "issued"} /\ Load(r, "cancel", i, None, None, None)
  \/ /\ Editable(i) /\ Load(r, "edit", i, None, None, None)

LoadPayment(r, i, p) ==
  \/ /\ inv[i].status = "issued" /\ PaysFor(p, i) /\ VerifiedIfCrypto(p)
     /\ Load(r, "mark_paid", i, p, None, None)
  \/ /\ Linkable(p, i) /\ Load(r, "link", i, p, None, None)

\* The first precheck of receive_crypto_payment, before the RPC call.
LoadReceipt(r, i, h) ==
  ReceivableDue(i, h) /\ Load(r, "receive", i, None, None, h)

LoadDeposit(r, d) ==
  /\ Unreconciled(d)
  /\ \/ \E i \in Invoice :
          SettlesInvoice(d, i) /\ Load(r, "settle", i, dep[d].payment, d, None)
     \/ /\ \A i \in Invoice : ~SettlesInvoice(d, i)
        /\ Load(r, "contra", None, None, d, None)

Begin(r) ==
  \/ \E i \in Invoice :
       \/ LoadInvoice(r, i)
       \/ \E p \in Payment : LoadPayment(r, i, p)
       \/ \E h \in TxHash \cup {None} : LoadReceipt(r, i, h)
  \/ \E d \in Deposit : LoadDeposit(r, d)

-----------------------------------------------------------------------------
(* Waiting *)

\* lock_invoice.  The wait for an earlier holder is the wait to take this step.
Lock(r) ==
  /\ req[r].pc = "loaded" /\ req[r].op \in Locking
  /\ lock[req[r].invoice] = None
  /\ lock' = [lock EXCEPT ![req[r].invoice] = r]
  /\ req' = [req EXCEPT ![r].pc = "locked"]
  /\ UNCHANGED vars

\* cancel_invoice counts the payments of an invoice it loaded as issued.
CountPayments(r) ==
  /\ req[r].pc = "loaded" /\ req[r].op = "cancel"
  /\ req[r].status = "issued" => ~LinkedPayment(req[r].invoice)
  /\ req' = [req EXCEPT ![r].pc = "counted"]
  /\ UNCHANGED <<vars, lock>>

\* Mutant: a request ends and its transaction stays open.
EndLocked(r) ==
  /\ req' = [req EXCEPT ![r] = Idle]
  /\ UNCHANGED lock

\* Commit or rollback: the row lock goes with the transaction.
End(r) ==
  /\ req' = [req EXCEPT ![r] = Idle]
  /\ lock' = [i \in Invoice |-> IF lock[i] = r THEN None ELSE lock[i]]

-----------------------------------------------------------------------------
(* Finishing *)

\* Mutant: receive_crypto_payment trusts the check it made before the RPC call.
DueAtLoad(r) == TRUE

\* The precheck repeated under the lock.
DueUnderLock(r) == ReceivableDue(req[r].invoice, req[r].hash)

\* Mutant: the transition of the invoice as it was loaded.
DraftAtLoad(r) == req[r].status = "draft"

\* The transition is taken on the invoice that lock_invoice refreshed.
DraftUnderLock(r) == inv[req[r].invoice].status = "draft"

\* Mutant: the settlement looks only at the payment it loaded.
SettleableByPayment(r) ==
  /\ inv[req[r].invoice].status \in {"issued", "paid"}
  /\ pay[req[r].payment].journal = None
  /\ dep[req[r].deposit].amount = entry[inv[req[r].invoice].journal].amount

SettleableUnderLock(r) == Settleable(req[r].deposit, req[r].invoice)

FinishIssue(r) ==
  /\ DraftUnderLock(r)
  /\ PostInvoiceIssue(req[r].invoice, "issued")
  /\ UNCHANGED <<ledger, pay, dep>>

\* Only journal_entry_id is looked at again, not the status.
FinishPostJournal(r) ==
  LET i == req[r].invoice IN
  /\ inv[i].total > 0 /\ ledger
  /\ PostInvoiceIssue(i, inv[i].status)
  /\ UNCHANGED <<ledger, pay, dep>>

FinishReceive(r) ==
  LET i == req[r].invoice IN
  /\ DueUnderLock(r)
  /\ ledger /\ inv[i].journal # None
  /\ \E p \in Payment : WriteReceipt(p, i, req[r].hash)

FinishSettle(r) ==
  /\ SettleableUnderLock(r)
  /\ \E confirmed \in BOOLEAN :
       WriteSettlement(req[r].deposit, req[r].payment, req[r].invoice, confirmed)

FinishLocked(r) ==
  /\ req[r].pc = "locked"
  /\ \/ req[r].op = "issue" /\ FinishIssue(r)
     \/ req[r].op = "post_journal" /\ FinishPostJournal(r)
     \/ req[r].op = "receive" /\ FinishReceive(r)
     \/ req[r].op = "settle" /\ FinishSettle(r)
  /\ End(r)

\* These handlers write what they decided on the rows they loaded; only the UPDATE of
\* the invoice waits for its lock.
FinishUnlocked(r) ==
  LET i == req[r].invoice IN
  /\ \/ /\ req[r].pc = "counted" /\ lock[i] = None
        /\ CancelFrom(i, req[r].status, req[r].journal)
        /\ UNCHANGED <<ledger, pay, dep>>
     \/ /\ req[r].pc = "loaded"
        /\ \/ /\ req[r].op = "mark_paid" /\ lock[i] = None
              /\ inv' = [inv EXCEPT ![i].status = "paid"]
              /\ UNCHANGED <<ledger, pay, dep, entry>>
           \/ req[r].op = "link" /\ lock[i] = None /\ WriteLink(req[r].payment, i)
           \/ /\ req[r].op = "edit" /\ lock[i] = None
              /\ \E lines \in BOOLEAN, total \in Amount : WriteLines(i, lines, total)
           \/ /\ req[r].op = "contra"
              /\ \E confirmed \in BOOLEAN : WriteContra(req[r].deposit, confirmed)
  /\ End(r)

\* A check or a call under the lock fails: the handler raises, get_db rolls back.
Raise(r) ==
  /\ req[r].pc = "locked"
  /\ End(r)
  /\ UNCHANGED vars

\* Before the lock: a check fails, the RPC call fails, the client or the server goes away.
Abort(r) ==
  /\ req[r].pc \in {"loaded", "counted"}
  /\ End(r)
  /\ UNCHANGED vars

-----------------------------------------------------------------------------
(* Handlers that run whole: every handler of Receivables, as one step *)

\* Those that lock an invoice or update it wait for its row lock.
AloneOnInvoice(i) ==
  \/ CreateInvoice(i)
  \/ \E lines \in BOOLEAN, total \in Amount : EditLines(i, lines, total)
  \/ IssueInvoice(i)
  \/ PostJournal(i)
  \/ CancelInvoice(i)
  \/ \E p \in Payment :
       \/ MarkPaid(i, p)
       \/ LinkPayment(p, i)
       \/ \E h \in TxHash \cup {None} : ReceiveCrypto(p, i, h)
  \/ \E d \in Deposit, confirmed \in BOOLEAN : ReconcileSettlement(d, i, confirmed)

AloneOnPayment(p) ==
  \E kind \in PaymentKind :
    \/ \E i \in Invoice \cup {None}, a \in Amount, h \in TxHash \cup {None} :
         RecordPayment(p, kind, i, a, h)
    \/ \E i \in Invoice, d \in Deposit \cup {None} : PipelinePayment(p, kind, i, d)

AloneOnDeposit(d) ==
  \/ \E a \in Amount : ImportDeposit(d, a)
  \/ \E p \in Payment : ManualMatch(d, p)
  \/ IgnoreDeposit(d)
  \/ \E confirmed \in BOOLEAN : ReconcileContra(d, confirmed)

Alone ==
  /\ \/ \E i \in Invoice : lock[i] = None /\ AloneOnInvoice(i)
     \/ \E p \in Payment : AloneOnPayment(p)
     \/ \E d \in Deposit : AloneOnDeposit(d)
     \/ AutoMatch
     \/ JournalNext
  /\ UNCHANGED <<req, lock>>

Step(r) ==
  Begin(r) \/ Lock(r) \/ CountPayments(r) \/ FinishLocked(r) \/ FinishUnlocked(r)
    \/ Raise(r) \/ Abort(r)

RNext == Alone \/ \E r \in Request : Step(r)

RSpec == RInit /\ [][RNext]_allVars

\* The event loop runs every task; PostgreSQL queues the waiters for a row lock.  Nothing
\* makes a client start a request.
Fairness ==
  \A r \in Request : SF_allVars(Lock(r)) /\ WF_allVars(FinishLocked(r) \/ Raise(r))

FairSpec == RSpec /\ Fairness

-----------------------------------------------------------------------------
(* Properties; ImplementsOpenItem and BooksFollowStatus of Receivables are the main ones *)

\* However requests interleave, the handlers without a lock included, an invoice's
\* receivable is debited once.
IssuePostedOnce ==
  \A e, f \in Entry, i \in Invoice :
    IsEntry(e, "issue", i) /\ IsEntry(f, "issue", i) => e = f

\* A cancellation is final: a request that loaded the invoice before it does not revive it.
CancelledStays ==
  [][\A i \in Invoice : inv[i].status = "cancelled" => inv'[i].status = "cancelled"]_allVars

\* A request waiting for an invoice's row lock, or holding it, comes to an end, whatever
\* the requests before it do.
LockingRequestsEnd ==
  \A r \in Request :
    (req[r].pc # "idle" /\ req[r].op \in Locking) ~> (req[r].pc = "idle")

\* The invoice state machine: a cancelled invoice was a draft or issued, never paid.
CancelFollowsStateMachine ==
  [][\A i \in Invoice :
       inv'[i].status = "cancelled" /\ inv[i].status # "cancelled"
         => inv[i].status \in {"draft", "issued"}]_allVars

\* The rule of post_invoice_journal: only issued invoices are posted.
OnlyIssuedPosted ==
  [][\A i \in Invoice : inv[i].journal = None /\ inv'[i].journal # None
       => inv'[i].status = "issued"]_allVars
=============================================================================
