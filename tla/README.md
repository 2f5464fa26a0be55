# TLA+ verification of BufferLine/backoffice

This directory holds a TLA+ model of the backoffice server (`src/backend/app`), TLC configurations
that check it on small instances, and TLAPS proofs of the results that matter most for instances of
every size. The receivables of the accrual ledger and payroll, where a mistake costs money, are
modelled in the most detail; around them are the bank sync, and the handlers that work on rows
without a lock: loans, tasks, expenses and export packs, commitments, the monthly run, FX
conversions, webhooks, line items and payslips.

- [The system](#the-system): components, state, operations, interactions
- [The modules](#the-modules): what models what
- [What the runs show](#what-the-runs-show), [bounds](#bounds), [fairness](#fairness)
- [What is proved](#what-is-proved)
- [Where code and documents disagree](#where-code-and-documents-disagree)
- [What is not modelled](#what-is-not-modelled), [plan](#plan)

## The system

A FastAPI application over PostgreSQL through asynchronous SQLAlchemy. Every request gets one
session from `get_db` (`database.py:22-42`) and that session is one READ COMMITTED transaction:
committed when the handler returns, rolled back when it raises. `autoflush` is off, so a handler
reads what others have committed, decides, and its own writes reach the database at its explicit
flushes. The server is a single event loop (or several processes); requests interleave at every
`await`. Only `lock_invoice` (`ledger.py:349-362`) takes a row lock with `SELECT ... FOR UPDATE`;
everything else relies on unique indexes, or on nothing.

| Component | State | Operations | Hard behaviour | What makes it correct |
|---|---|---|---|---|
| Invoices (`services/invoice.py`) | status, line items, total, `journal_entry_id` | create, edit lines, issue, mark paid, cancel, post journal, regenerate PDF | status read without a lock and used after awaits; issue and post under a row lock | one receivable per invoice, in step with the status |
| Accrual ledger (`services/ledger.py`) | account mapping, journal entries through `journal.py` | post issue, reverse, receive crypto payment | RPC call between two prechecks; FX gain and loss | debit once; credit once, by a receipt or by a reversal |
| Payments (`services/payment.py`) | payments, reference numbers, `tx_hash` | record, link, create from an entity, create and match | retries, number series over two tables, link check on one column | a payment settles one thing; a hash pays once |
| Bank reconciliation (`services/bank_reconciliation.py`) | bank transactions, match status | import, auto match, manual match, ignore, reconcile | transactions re-matched after reconciliation; settlement of a receivable against a bank deposit | a deposit is booked once; a settlement closes the open receivable |
| Journal (`services/journal.py`) | entries and lines, confirmed flag | create, confirm, delete | deletion of unconfirmed entries that others refer to | entries balance; nothing refers to a deleted entry |
| Payroll (`services/payroll.py`) | runs, deductions, document numbers, payslip file | create, update, review, finalize, mark paid, delete, regenerate | `MAX + 1` numbers; no locks; deletion | a payslip is final; a run is paid by one payment of its net salary |
| Payment allocation and loans (`payment_allocation.py`, `loan.py`) | allocations, loan status | allocate, deallocate, repay, write off | sum read, compared and extended without a lock | a payment is not allocated beyond its amount; a loan with a letter of discharge stays ended |
| FX conversion (`fx_conversion.py`) | conversions, landing deposit | record | landing deposit shared with bank reconciliation | a landing is booked once; the entry balances at the rates stored |
| Integrations, scheduler (`integration.py`, `scheduler.py`) | sync state: cursor, failure counter; stored transactions | sync transactions, sync balances | failure between pages, failure limit, two triggers (job and API) | no transaction lost or stored twice; a sync ends |
| Webhooks (`webhook.py`) | integration events | process | redelivery, concurrent delivery, handler failure | no event is handled twice |
| Recurring commitments, transactions (`recurring_commitment.py`, `transaction.py`) | commitments, cash-flow transactions | generate a month, confirm, cancel, update | two generations of one month; stale status | a month is generated completely, and once unless two overlap |
| Automation (`automation.py`) | next date of the recurring invoice rules | daily, weekly, monthly run | one failing rule among many; a rollback inside the loop; the same month twice | a rule is billed once a month |
| Tasks (`task.py`) | templates, instances | generate, complete, skip, archive, update | every look at the list generates and marks overdue | a settled task stays settled |
| Exports (`export.py`) | packs with version and status | validate, generate | failure while generating; concurrent versions; documents that change meanwhile | a stored pack is final and holds what was validated |
| Expenses (`expense.py`) | status, amount | create, update, confirm, reimburse | stale status | a confirmed expense keeps its amount and is reimbursed once |
| Authentication and setup | users, roles | sign in, set up | - | not part of this project |
| On-chain verification (`onchain.py`) | none (an RPC client) | verify a transfer | slow, fails | modelled as a wait with an outcome |
| Jurisdiction rules (`jurisdiction/`) | none | prorate, deductions, tax | rounding at boundaries | between nothing and the full salary; net plus deductions is gross |
| Files, PDF, parsers, formatters, audit, changelog, accounts, CLI, web client | rows and files | I/O and data | - | - |

Components meet in four ways: calls inside one transaction (an invoice posts to the journal, a bank
reconciliation settles an invoice); shared rows (a payment is read by invoices, payroll, bank
reconciliation and loans); shared number series (payslips and payments); and the row lock of an
invoice. There is no message queue; the scheduler runs the same service functions as the API.

`PROJECT.json` lists under `hazards` the places in this code where an interleaving, a retry, a
failure or an order of calls could break one of these properties, each at its line.

## The modules

| Module | Extends | Models |
|---|---|---|
| `OpenItem` | - | the abstract promise of the ledger: a receivable is raised once, then settled or reversed; a settlement may be withdrawn, a reversal not |
| `Receivables` | Naturals | invoices, payments, deposits and journal entries; every handler that touches them is one action: a request that runs alone |
| `ReceivableRequests` | `Receivables` | the same handlers run by concurrent requests, split at their waits, with the row lock |
| `ReceivablesProofs` | `Receivables`, TLAPS | the proofs about `Receivables` |
| `Payroll` | Naturals | payroll runs, the payments that pay them, the payslip number series; one action per handler |
| `PayrollRequests` | `Payroll` | the handlers that take a number, pay or delete a run, or record or link a payment, run by concurrent requests |
| `PayrollProofs` | `PayrollRequests`, TLAPS | the proofs about `Payroll` and `PayrollRequests` |
| `BankSync` | Integers, Sequences, FiniteSets | the sync of bank transactions: pages, cursor, failure counter, two triggers, crashes, deadlocks |
| `Requests` | Naturals | what the following modules share: requests, what a flush writes, rounding |
| `Loans` | `Requests` | payment allocations, loans, their letters |
| `Tasks` | `Requests` | task templates and instances |
| `Exports` | `Requests` | expenses and the documents of a month, export packs |
| `Commitments` | `Requests` | recurring commitments, the transactions generated from them |
| `Monthly` | `Requests` | recurring invoices and invoice numbers |
| `Landings` | `Requests` | what books a bank deposit: an FX conversion or a reconciliation |
| `Webhooks` | `Requests` | deliveries of webhook events |
| `LineItems` | `Requests` | line items of a draft, GST, totals |
| `Payslips` | `Requests` | days worked, proration, deductions, net salary of a run |
| `LedgerLines` | `Requests` | the lines of the ledger's entries in three currencies, the trial balance |
| `ReceivableRequestsProofs` | `ReceivableRequests`, `ReceivablesProofs` | the proofs about interleaved requests |
| `BankSyncProofs` | `BankSync`, TLAPS | the proofs about the sync |
| `Sums` | FiniteSetsExt, TLAPS | the laws of sums over finite sets, for the proofs that need them |
| `LoansProofs`, `LedgerLinesProofs` | their module, `Sums` | the proofs about it |
| `OfficeProofs` | `MCOffice`, `LoansProofs`, `LedgerLinesProofs` | the proofs about the other eight modules on `Requests`, a section for each, and about the ten side by side |
| `MCOffice` | the ten modules above, TLC | one of them at a time, chosen at the start by `part` |
| other `MC...` | the module, TLC | symmetry sets for the runs |

### Receivables

`inv`, `pay`, `dep` and `entry` are the tables `invoices`, `payments`, `bank_transactions` (deposits
only) and `journal_entries`, each a function from row identities to a record; a row that is not
there has status `"absent"` (a journal entry that is not there is `"free"`). `ledger` says whether
the accounts of the accrual ledger are mapped, for until they are (`ledger.py:86-88, 131-135`) an
invoice is issued without an entry.

A journal entry is reduced to what it does to the receivable of an invoice: `issue` debits it,
`receipt` (a crypto receipt or a bank settlement) and `reversal` credit it, `contra` books a deposit
straight to another account. Its amount is the receivable's amount in the invoice's currency.

An action is a handler with everything it calls: `IssueInvoice` includes the posting of the
receivable, `CancelInvoice` the reversing entry, `ReconcileSettlement` the receipt entry, the
payment's reference to it and the deposit's status (the invoice is marked paid by a handler of its
own). Guards are the checks and early returns in the code. Draft edits become `EditLines`, which
sets the lines and the recalculated total. `DeleteEntry` removes an entry and, as the foreign keys'
`ON DELETE SET NULL` do, the references to it.

### ReceivableRequests

A request has loaded rows and made its first checks (`Load...`), has taken the invoice's row lock
(`Lock`), or has read what it needs after that (`CountPayments`), and then finishes: it flushes,
commits and releases (`FinishLocked`, `FinishUnlocked`), or raises and is rolled back (`Raise`,
`Abort`). What a request loaded stays what it was (`req[r].status`, `req[r].journal`); what is
refreshed under the lock is read from the tables. Reads after the last wait, the flush and the
commit are one step, because nobody sees what lies between them. `Handlers` chooses which handlers
an instance splits. Between the steps every handler of `Receivables` may run whole (`Alone`), those
that are split included: a request that does not overlap any other.

### Payroll and PayrollRequests

A run is named by its employee and month, which are unique (`models/payroll.py:42`); after a delete
the pair may be used again. Dates, proration and deductions come down to a net salary, chosen freely
whenever the code recalculates it. Number 0 is a NULL, or a reference outside the payslip series.
`NextNumber` is `generate_reference_number`: one more than the maximum over both tables. A payment's
link to a run survives the deletion of the run (there is no foreign key), which `Other` stands for.
In `PayrollRequests` a request loads a run, a payment or the run's number, allocates a number
(`Allocate`), and writes (`Finish`); between them it waits for the payslip to be rendered and stored.
Split are finalize, delete, mark paid, `record_payment`, `create_payment_from_entity` and
`link_payment`.

### BankSync

`run_sync` is started by the scheduler (`scheduler.py:66-87`) and through the API
(`api/integrations.py:140-165`), each in one transaction over all accounts linked to the provider. A
run has started (`Start`), picked an account and loaded or inserted its state (`Pick`,
`InsertState`), fetched a page (`Fetch`), stored it with ON CONFLICT DO NOTHING (`StorePage`),
flushed cursor and date (`FlushPage`; only a flush that sets a column, `Flushed`, writes and takes
the row), and so on to `Commit`. What it inserted and what it wrote to
the sync state stays in its record until then; a second writer of the same row or key waits
(`RowFree`, `KeyFree`), and PostgreSQL breaks a cycle of two waiters (`Deadlocked`). The provider
answers, or fails (`ProviderFails`: the failure is caught, counted and, unless the session is
broken, committed), and the server may stop at any time (`Crash`). The provider lists its
transactions oldest first, one to a page, from the time asked for; `PageAsked` is the code's choice
between cursor and date, which differs between the two providers (`Aspire`). The sync of balances
keeps no cursor and is left out.

### Handlers without a lock

The modules that extend `Requests` have the same form. Committed rows are variables, and a request
is a record of what it has read (`loanReq`, `taskReq`, ...); loading, each read after a wait that
matters, and the commit are steps, and between them anything may happen. What `Flushed` says matters
everywhere: SQLAlchemy writes the columns that differ from the row as it was loaded, so a status
loaded as repaid is not written again, and another request's change of another column survives.
`Abort...` is every failure: the session is rolled back.

- **Loans.** `allocate_payment` sums (`SumAllocations`), compares, and inserts (`FinishAllocate`);
  `update_loan`, `mark_repaid` and the two letters load the row, count what was repaid, and write.
  `Repaid` is `_get_loan_repayment_entries`: allocations, and linked payments without an allocation
  to the same loan.
- **Tasks.** A generation reads templates and instances, inserts the missing instances and marks
  late ones overdue; the list views start one (`api/tasks.py:99-137`). Months and two dates in each
  stand for the calendar.
- **Exports.** A pack is validated, numbered, inserted, gathered by queries of its own, and stored.
  The documents it counts (issued and paid invoices, expenses, payments with or without proof,
  payroll runs) go on changing: an invoice issued is paid or cancelled, a run is deleted or reviewed
  again.
- **Commitments.** A generation reads the active commitments, looks each one's transaction up, and
  inserts those it found missing at its commit; transactions are confirmed, cancelled and updated on
  the row loaded.
- **Monthly.** A run reads the due rules, takes a number for each, inserts the invoice and moves the
  rule on. The number is unique: by hand, a collision is rolled back and retried; in the run, the
  rollback expires every rule, the handler of the error reads one and raises, and the whole run
  fails (`AbortMonthly`).
- **Landings.** `record_fx_conversion`, `reconcile_transaction`, the matches and
  `ignore_transaction`, on the status of one deposit, with the unique index on a conversion's
  deposit.
- **Webhooks.** Look, insert under the unique constraint, handle, commit the status.
- **LineItems.** Each edit of a draft ends in `recalculate_totals`: it sums the items the request
  sees, with GST inclusive or exclusive, each line rounded at its own rate. The totals are set as
  floats, and a float need not equal the Decimal loaded for the same amount: `FlushTotals` may write
  a total that did not change.
- **Payslips.** Creation clamps the dates to the month and an update does not; `Prorated`, `Levy`
  and `Deductions` are Singapore's rules, in cents, with their rounding.
- **LedgerLines.** No overlap here: the entries of requests that run alone, with amounts, currencies
  and rates. `IssueLines`, `ReceiptLines`, `Reversed`, `Difference` and `CarryingRate` are the
  ledger's functions; a rate has `RateScale` quanta to 1, and amount times rate counts quanta of a
  cent, so that every rounding of the code is exact arithmetic here. `TrialBalances` is the
  `is_balanced` of `get_trial_balance`, widened by what the rounded rate of a large conversion leaves
  (`BeyondCent`).

## What the runs show

| Run | States | Shows |
|---|---|---|
| `receivables` | 1 075 878 | `TypeOK`, `PostedAmount`, `PaidHasEvidence` of requests that run whole |
| `requests_locked` | 381 494 | issue, crypto receipt, settlement and the edits of a draft interleaved at their unlocked reads and the row lock, everything else running in between: `BooksFollowStatus`, `HashPaysOnce`, the refinement of `OpenItem`, and `CancelledStays` |
| `requests_all` | 637 527 | issue, posting, cancel, mark paid, link and the contra booking split: the receivable is still debited once (`IssuePostedOnce`), and every request that waits for or holds an invoice's lock ends (`LockingRequestsEnd`); the other properties fail there, see the findings |
| `payroll` | 190 161 | `PayrollTypeOK`, `PaidByItsPayment`, `NumbersNeverCollide`, `PayslipFinal` |
| `bank_sync` | 60 866 | one state for each account (`OneStatePerAccount`), the date a sync asks from leaves no gap (`SinceCoversStored`: when a run moves it, the account's transactions up to then are stored, but for those born after the last page was listed and those skipped by a page number that was saved under another date), every sync ends (`SyncEnds`), and the failure counter stops at its limit (in `SyncTypeOK`) |
| `office` | 781 361 | the ten modules on `Requests`: see below |
| `receivables_rebooked`, `requests_cancel`, `requests_post`, `payroll_reuse`, `payroll_collide`, `bank_sync_first` | - | counterexamples: [below](#where-code-and-documents-disagree) |

The properties of `office` are of three kinds.

- What no interleaving breaks: a loan with a letter of discharge is never active again
  (`DischargedNotActive`); no deposit is the landing of two conversions (`LandedOnce`); no event is
  handled twice (`HandledOnce`); a stored pack is final, and holds what the validation counted but for
  payroll runs that were deleted or reviewed anew and invoices that were cancelled in between
  (`PackImmutable`, `PackMatchesCheck`); a committed generation left no commitment out
  (`GenerationCovers`); net pay and deductions are not negative, and together no more than the salary
  (`PayBounded`); what was repaid on a loan falls only with an allocation that is deleted or
  replaces a link (`RepaidFallsOnly`).
- What only an overlap breaks. These handlers decide on what they loaded, and the hazards say what
  an overlap can do. The properties `...NeedsOverlap` say that nothing else does it: when a payment
  is allocated beyond its amount, a settled task is open again, a commitment has two transactions in
  a month, a rule is billed twice, a total misses an item, there is, in that very step, a request
  that commits on a row or a sum that is no longer what it loaded. They fail at once when a guard is
  missing (the mutants), and they tell what a lock would have to cover.
- The books, in `LedgerLines`: the trial balance is within the code's tolerance, but for what
  conversions beyond 20,000 units leave in it (`TrialBalances`), and the receivable accounts hold the
  open invoices and nothing else (`ReceivablesAreOpenItems`), whatever rates, roundings and currencies
  of receipt, and though the mapping changes between issue and receipt.

Each property of a passing run can fail: `PROJECT.json` names, for each, a variant of one definition
(kept beside it, commented "Mutant") that stands for a plausible bug and makes TLC report the
property violated. `ImplementsOpenItem`, for instance, fails in `requests_locked` if a settlement
looks only at its own payment (`SettleableByPayment`), `BooksFollowStatus` if the crypto receipt
trusts the check it made before the RPC call (`DueAtLoad`).

### Bounds

- `receivables`: one invoice, two payments, one deposit, three journal entries, one hash, amounts 0
  to 2. Properties speak of one invoice and of two entries or payments; invoices share nothing but
  payments, and a payment has one link. Three entries are an issue, a receipt and a contra (or a
  reversal); the third also stands for the second receipt or second reversal that must not happen.
  Amounts 0 to 2 give an empty invoice, an exact payment and an overpayment.
- `requests_*`: the same with amounts 0 and 1 and two requests, the smallest number that races;
  payments, deposits and hashes are left out where the handlers of the run do not need them. In
  `requests_locked` the constraint `Bounded` lets requests overlap only while deposits are
  unmatched, matched by hand or settled and payments are linked, with a hash if they are crypto,
  unless they are verified; rows in another state
  are met by handlers that run alone, and by overlapping requests in the theorems, which have no
  bound.
- `payroll`: two runs and three payments, numbers up to 3: a run's number, its payment's, and a
  third that collides or does not. Two amounts tell an exact payment from another. Handlers stop at
  `MaxNumber` and when all payment rows are used, so the instance may run full: deadlock is not an
  error there.
- `bank_sync`: the accountless state and one account, both triggers, two transactions (a page that
  is not the last), one failure to the limit. `bank_sync_first` is the same for Aspire.
- `office`: `part` chooses one module at the start and the others stay in their initial states. They
  share no row that more than one of them changes, so their product would only multiply the states.
  Two requests; one loan, expense, employee, commitment, deposit; two allocations, transactions,
  rules, events, items; two versions, months, files, task rows; amounts 1 and 2. The salary of 95
  cents gives a proration and a levy that round; three sheets are the deduction records of the
  creation and of two updates. An item has one of two rates, none or the GST. In `LedgerLines` one
  invoice, rates 2/4 and 3/4, amounts 5 and 13, of which the second is beyond what stands for 20,000
  units there (2 * `RateScale`), so that its conversion leaves more than a cent; three entries (an
  issue, its receipt or reversal, a conversion; or three conversions). The constraint `Bounded`
  stops after the first stale totals, stale payslip, over-allocation, second unfinished task
  instance or duplicate transaction, after the last letter or pack; it keeps expenses as they are
  once there is a pack, and lets export requests overlap only while no invoice is issued (an invoice
  is cancelled under one export at a time): the step to such a state is checked, and what follows
  would only repeat it with wrong data. Larger instances were checked apart, also without the
  constraint: `Payslips` (1 555 873 states), `Loans` (569 469), `Exports` (11 604 048), `Tasks`
  (133 278), `LineItems` (4 528 431), `Commitments` (113 595), `Landings` with two deposits (176 952), `LedgerLines` with two
  invoices (117 452).
- The proofs have no bounds.

Symmetry over identities is used in safety runs only; `requests_all` and `bank_sync` have none.

### Fairness

`LockingRequestsEnd` assumes: weak fairness of a locked request's end (`FinishLocked` or `Raise`),
because the event loop runs every ready task and an awaited FX quote or upload returns or fails;
strong fairness of `Lock`, because a waiter that is not yet holding the row is queued by PostgreSQL
and is served after a bounded number of predecessors, and because a call made before the lock
returns or fails in the end. Nothing makes a client start a request, and `Abort` may happen at any
time. The property would fail without the release of the lock at commit (mutant `EndLocked`).

`SyncEnds` assumes strong fairness of each run's own steps (`Work(r)`): the event loop runs the
task, a call to the provider returns or times out, PostgreSQL grants a lock that is free and ends a
deadlock. Strong, because the other run may take and release the row in between. Nothing makes a run
start, the bank have a transaction or the server crash. That a page is asked for with the cursor of
the last is what makes it true (mutant `PageWithoutSince`), and what `bank_sync_first` lacks.

## What is proved

Nothing below has bounds: each theorem is for every set of rows, every amount and number, and any
number of requests. The constants are assumed to be what their module's `ASSUME`s say, which TLC
evaluates on every run: NULL is none of the rows, amounts are natural numbers, bounds are at least 1,
the sets that are summed over are finite. Each inductive invariant was checked by TLC before it was
proved, and is proved handler by handler with a lemma for each.

### Receivables

`ReceivablesProofs`: `TypeCorrect`, `ReceivableOnceHolds`, `BooksFollowStatusHolds`,
`PostedAmountHolds`, `PaidHasEvidenceHolds`, `HashPaysOnceHolds`, and `Refinement`:
`Spec => ImplementsOpenItem`.

The safety properties are about which entries exist; the handlers decide by following references (an
invoice's `journal_entry_id`, a payment's). So none of them is inductive, and the invariant `IInv`
says that the two views agree: an issue entry is the one its invoice refers to, a receipt entry
belongs to exactly one payment of an invoice that is posted and not cancelled, a reversal to a
cancelled one, and only receipt and contra entries may be unconfirmed. The last part is what makes
deletion harmless: an issue or a reversal cannot be deleted because it is confirmed, and a deleted
receipt reopens the item. `InvStep` has one lemma per handler (`InvCreate`, `InvPostIssue`,
`InvCancel`, `InvLink`, `InvReceiveCrypto`, `InvSettlement`, `InvDelete`, ...); what several
handlers do is a lemma of its own (`ReceiptPosted`, `InvNewPayment`). The refinement is proved by
`ItemByReference`, which under `IInv` reads the state of an item off the references, and then
handler by handler as a move of `OpenItem` or a stutter (`ItemIssue`, `ItemCancel`, `ItemReceipt`,
`ItemDelete`, `ItemKept`).

### Interleaved requests on receivables

`ReceivableRequestsProofs`, about `RSpec`, where the handlers named by `Handlers` run step by step
among any number of requests and all other handlers run whole between the steps:

- whatever `Handlers` is: `RequestsTypeCorrect`, and `IssuePostedOnceHolds` (one issue entry for an
  invoice, although `post_invoice_journal` and `cancel_invoice` decide on stale reads);
- if `Handlers` is part of `Safe`, which is issue, crypto receipt, settlement, the edits of a draft
  and the contra booking: `RequestsBooksFollowStatus`, `RequestsHashPaysOnce`,
  `RequestsCancelledStays`, `RequestsPaidHasEvidence`, and `RequestsRefinement`, that is
  `RSpec => ImplementsOpenItem`;
- if it is part of `Safe` without the edits: `RequestsPostedAmount`;

- whatever `Handlers` is, the handlers that decide on stale reads included: `ClosedInvoicesOverlap`,
  `RelinkedPaymentsOverlap` and `SerialRequestsAreReceivables`, [below](#what-an-overlap-takes).

`Safe` is what the code protects by the row lock, by a second look under it, or by writing only
columns that nobody else's decision rests on. The other handlers are not in it for a reason: the
runs `requests_cancel` and `requests_post` break the books with cancel and post, and `mark_paid` and
`link_payment` set a status on a stale check as well. The edits are in `Safe` for the books but not
for the amounts: a line item added to a draft that another request has issued since changes its
total and not its entry. The invariant `SafeInv` adds to that of `ReceivablesProofs` the one fact
that a request of these reads before it waits and does not read again (`SettleLoaded`): the payment
of a settlement pays for its invoice, which is posted. The steps that finish are then the whole
handlers of `ReceivablesProofs`, whose lemmas are used again.

#### What an overlap takes

Outside `Safe` the books can break. Two theorems bound how, and a third says that nothing else is
needed but an overlap:

- `ClosedInvoicesOverlap`: the status of a paid or cancelled invoice, the lines and the total of an
  issued one, and the entry of one that is not issued change only when a request commits on a status
  that is not the one it loaded. The invariant is `StatusInv`: what status each kind of request has
  loaded. It covers the two findings on cancel and post.
- `RelinkedPaymentsOverlap`: a payment keeps what was recorded of it, and leaves its invoice only by
  a link request for another one, which loaded it before it was linked (`payment.py:256`). TLC
  checked both with two invoices and two requests (606 887 states), and finds the relink when the
  exception is dropped.
- `SerialRequestsAreReceivables`: if no request, and no handler that runs whole, starts while another
  request is in progress (`Serial`, a condition on the behaviour and not part of the model), `RSpec`
  implements `Spec` of `Receivables`. Every theorem of the section before then holds of the split
  handlers, and the splitting is shown to add nothing but overlap. `SerialInv` says that what a
  request found when it loaded (`Decided`) is still so; each `Finish` is then its whole handler. TLC
  checked it with all nine handlers split (778 660 states).

### Payroll

`PayrollTypeCorrect`, `PaidByItsPaymentHolds`, `NumbersNeverCollideHolds` and the action property
`PayslipFinalHolds`, assuming that NULL and `Other` are neither runs nor payments. Here the
conjunction of type, `PaidByItsPayment` and `NumbersNeverCollide` is inductive (`PInv`); the key
lemma is `NextIsFresh`: the next number of the series is that of no run and of no payment.

Of `PayrollRequests`, where the two runs show violations, it is proved what remains true, for any
number of requests in any interleaving:

- `PayslipsStaySound`: a run has a number exactly while it is finalized or paid; a paid run was paid
  by a live payment of its net salary; no two runs and no two payments share a number. What an
  overlap can still do is what the findings show: one number for a run and a payment of another, one
  payment for two runs.
- `IssuedChangesOverlap`: the net of an issued payslip stays until its run is deleted; its number, or
  anything of a paid run, changes only by a request that writes a run which has left the statuses
  its handler accepts (`Outdated`).
- `OneAtATimeIsPayroll`: where `Request` has at most one element, `PRSpec` implements `PayrollSpec`,
  so that the four theorems above hold of the split handlers.

The invariant (`PRInv`) says what a request in progress can still rely on (`Pending`): a status only
advances unless the run is deleted, and a deletion fails the requests that still have to update the
run; a payment does not change once it is live; the net is not edited after finalization. TLC checked
`PRInv` and `IssuedStays` with two runs, payments and requests (17 319 022 states), the refinement
with one request (470 217).

### Bank sync

`BankSyncProofs`, for any accounts, any number of runs at a time and either provider:
`SyncTypeCorrect` (with it, the failure counter stops at its limit), `OneStatePerAccountHolds`, and
`SinceCoversStoredHolds`. The second rests on `Exclusive`: of the runs that hold an uncommitted write
of an account's row there is one, and a run that inserts it found none and none was committed since.
The third rests on `Counted`, which says what a page number stands for: the pages before it are
full, and the account's transactions on them are stored or among the run's own inserts, if the number
was counted from the date the run asks from. `cursorSince`, a history variable, is the date a saved
page number was counted from; it is never after the saved date, through commits, failures midway and
crashes, and where it is that date the pages before the number are stored. The attempt at this proof
also showed a flaw of the model, since corrected: a flush that changes no column writes nothing and
takes no row lock.

### Handlers without a lock

- `LoansProofs`: `DischargedStaysEnded` and `SettledTermsOverlap`, from what each request found when
  it loaded (`LoInv`: a letter's row was repaid, an updated one active; no handler makes a loan
  active again). `OverAllocationOverlaps` and `RepaidFallsByDeletion` are about sums: a commit that
  finds the allocations it summed adds no more than what was left, and what a handler does to the
  rows behind `Repaid` is to add, to replace a link by an allocation, or to delete one.
- `OfficeProofs`, by sections, each with the type of its module:
  - landings: `NoDepositLandsTwice`, `SecondBookingOverlaps`; no landing or reconciliation in
    progress has read "reconciled";
  - webhooks: `EventHandledOnce`; the row of an event is held by one delivery, and by none once it
    is stored;
  - tasks: `SettledReopensByOverlapOnly` and `SecondOpenOverlaps`; what a generation marks late was
    pending when it was read, and it inserts nothing for a template it saw open;
  - monthly run: `SecondBillOverlaps`; a run takes a rule off those it has left when it bills it,
    and so bills it once (`MInv`);
  - commitments: `DuplicatesOverlap`, `GenerationCoversMonth`, `SettledTxOverlaps`, and the type;
    `CInv` says what the lookups leave behind: each commitment read is still to be looked at, due
    for a transaction, or has one that was found;
  - exports: `StoredPackIsFinal`, `PackHoldsWhatWasChecked`, `ConfirmedEditOverlaps`; `EInv` says
    that a version in the making belongs to one request and no stored pack, that what the validation
    counted stays done, and that an expense is edited on a row that was a draft;
  - line items: `StaleTotalsOverlap`; the totals a request carries are those of the items it saw
    with its own change, so that they are right unless others changed the items or the bill since;
  - payslips: `PayBoundedHolds` and `StaleSlipOverlaps`. `PInv` bounds gross, deductions
    and net each by the salary alone, with their roundings, so that the bounds survive a row that
    mixes the amounts of two updates.

The types are not by definition either. A generation of tasks writes the rows it read, so `TaTyped`
says that they are of its month and there when they are marked late; an expense that is being edited
is there (`ExTyped`); and the totals of a draft are numbers because it has finitely many items, whose
sum `Sums` describes (`LiTyped`). TLC checked `TaTyped` on four months and two requests (8 837 000
states).

`OfficeIsEachComponent` joins the sections: a behaviour of `OfficeSpec`, where a step is one of some
module and the others stutter, is a behaviour of every module's own specification, whatever `part`
is. So each theorem above holds of `OfficeSpec`, and `OfficeTypeCorrect` is the type invariant that
the run `office` checks.

### The ledger's lines

`LedgerLinesProofs`: `LedgerLinesTyped`, `TrialBalancesHold`, `ReceivablesAreOpenItemsHold`, for
finitely many invoices, any amounts and any rates, in three currencies. Both properties are sums
over the whole journal and cannot be followed step by step: a receipt is balanced because of the
issue entry it clears. The invariant (`BInv`) says what the journal consists of: every entry is one
that its handler could have made (`Coherent`), an invoice has one issue entry and one that clears
it, and only conversions repeat. The sums are then split by invoice (`TotalFibers`). A group is
nothing, an issue entry, or an issue entry and what clears it; of the second the receivable accounts
carry the invoice, of the third nothing; every entry is within half a cent of balance, and a
conversion within the cent that the tolerance of `get_trial_balance` allows it, or within half a
quantum of its rounded rate for each cent of foreign currency, whichever is more.

### Sums

`MapThenSumSet` of the community modules is a recursive fold in the order of `CHOOSE`. That it has
the laws of a sum (`TotalAdd` for one more element, independence of the order, monotone, additive
over disjoint sets and fibres, linear) is proved in `Sums` by a least counterexample among the
subsets of a finite set, which needs no induction theorem with an operator as its parameter: a sum
is that of a function, and a lemma at each place of use shows that a given `MapThenSumSet` is one.

### Only model-checked

Liveness, `LockingRequestsEnd` and `SyncEnds`: the prover does not handle `ENABLED`, on which
fairness rests. Every other property of a passing run is stated by a theorem.

## Where code and documents disagree

1. **A reconciled deposit can be booked twice** (`receivables_rebooked`).
   `bank_reconciliation.py:350` refuses a transaction that is already reconciled, but
   `ignore_transaction` (285) and `manual_match` overwrite the status `reconciled` and leave the
   entry; the next reconcile books it again.
2. **Cancel overwrites a paid invoice** (`requests_cancel`). `docs/architecture.md:205` allows
   cancelling drafts and issued invoices. `cancel_invoice` takes no lock: what it loaded as a draft
   may have been issued and paid when its UPDATE comes, and it becomes cancelled. With the ledger
   mapped, the issue and the receipt entry stay in the books; the shortest trace has no
   mapping and no entry.
3. **Posting a cancelled invoice** (`requests_post`). `post_invoice_journal` checks for an issued
   invoice before the lock and not again, unlike `issue_invoice` and `receive_crypto_payment`.
4. **One payment pays two payroll runs** (`payroll_reuse`). `mark_paid` does what its comment says,
   "Prevent payment reuse", by looking at the other runs; it does not link the payment, and
   `link_payment` looks only at that link.
5. **Two numbers that never collide do** (`payroll_collide`). Each table has its own unique index,
   so a finalize and a payment for no run that overlap can both take the same payslip number.

6. **The first sync of an Aspire account with two pages never ends** (`bank_sync_first`). The
   docstring of `_next_page` (`aspire.py:103-104`) says that it guards against looping "the sync
   orchestrator forever". But `sync_transactions` drops the cursor when there is no `since`
   (253-257), and `since` is set only after the last page: page 1 is fetched, stored and followed by
   its own repetition.

One more has no run of its own, because a property that holds says how large it is:

7. **Entries of several currencies need not balance within a cent.** The comment at
   `journal.py:182-183` derives the tolerance of the trial balance from "validated to balance in SGD
   within 0.01 each". A conversion is validated with its exact rate (`fx_conversion.py:68, 71`) and
   stored with six decimals of it (`models/journal.py:61`): beyond 20,000 units of foreign currency
   the stored entry may be off by more, and the trial balance of correct entries reports a
   difference. `TrialBalances` adds what that rounding can leave, `BeyondCent`, to the tolerance of
   the code, and would fail without it.

The runs `requests_all` and `requests_locked` show the other side: where the code takes the row lock
and looks again, no interleaving breaks the books.

## What is not modelled

In the modelled components: withdrawals, fees and entries typed in against the receivable account;
dates of entries, so that a rate is not tied to a day; the retry after an `IntegrityError` in the
payment handlers and idempotency keys; links of payments to other kinds of entity than invoices,
runs and loans, also under the same id, which `payment.py:256` does not tell apart (ids are random
UUIDs); references typed in by a caller in the format of the payslip series; a change of the company's
GST rate while a draft is open; notes and one-off items of the task list; PDFs and files; the audit
log and changelog, rows added in the same transaction as the operation. A payslip number beyond 9999
(text order of the maximum) is a hazard without a model.

Met while modelling, and not stated as properties because the code, its tests or its documents want
it so or say nothing:

- a webhook event whose handling failed is answered 200 and stored as failed; a redelivery is a
  duplicate (`webhook.py:59-65`);
- an account is skipped for good after five failures in a row (`integration.py:124-132`); nothing in
  the job resets the counter;
- the sync state of no account has no effective unique key (NULL), so two runs may both insert it;
- a number collision in the monthly run fails the whole run, rules done earlier included; a month
  that is not run leaves its rules at that month, which no later run selects;
- the follow-up task of the daily run has a creator that no user row matches, so its insert fails;
- `invoices_draft` of the month's validation is always 0: a draft has no issue date;
- a wallet that sold more than it held can come to carry a negative rate (`ledger.py:291`).

The components marked `not_modelled` in `PROJECT.json` are I/O and data without state of their own
(file storage, PDF rendering, statement parsers, export formatters, command line and web client),
rows that are only added (accounts, audit log), or outside the business rules (authentication).

## Plan

Done: `Receivables` with `OpenItem`; `ReceivableRequests`; `Payroll`, `PayrollRequests`; `BankSync`;
the ten modules on `Requests`; the proofs above.

| Next | Module | Aim |
|---|---|---|
| 1 | `Payroll` | the idempotency key and the retry of `record_payment`, with `Payslips` for the net salary |
| 2 | `Monthly` | the payroll drafts of the run |
| 3 | `Receivables` | withdrawals and the payment of expenses by bank |

Runs that share an instance are merged as modules join, so that each still answers a question of its
own.
