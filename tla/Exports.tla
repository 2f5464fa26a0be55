------------------------------- MODULE Exports -------------------------------
(***************************************************************************)
(* The documents of one month and its export packs: invoices, expenses from *)
(* draft to reimbursed, payments with and without a proof file, payroll     *)
(* runs, and the packs made of them, on request or by the monthly           *)
(* automation.  A pack is made in one transaction over several awaits: the  *)
(* month is validated, a version number taken, the row inserted, the        *)
(* documents read again, the ZIP uploaded, and only then everything is      *)
(* committed.                                                               *)
(*                                                                         *)
(* An invoice gets its issue date, and so its month, when it is issued with *)
(* its PDF: none is a draft of the month or without its document.           *)
(***************************************************************************)
EXTENDS Requests, Naturals, FiniteSets, FiniteSetsExt

CONSTANTS
  Expense,
  Employee,     \* one payroll run each
  MaxVersion    \* bound on the packs

ASSUME VersionAssumption == MaxVersion \in Nat \ {0}
ASSUME DocumentsAssumption ==
  /\ Expense \cap Payment = {} /\ Expense \cap Employee = {} /\ Payment \cap Employee = {}
  /\ Invoice \cap (Expense \cup Payment \cup Employee) = {}

VARIABLES
  invoice,    \* invoices, absent until they have an issue date
  expense,    \* expenses
  proof,      \* payments: absent, without or with a proof file
  payslip,    \* payroll runs
  packs,      \* export_packs, committed
  expReq      \* requests in progress

exportVars == <<invoice, expense, proof, payslip, packs, expReq>>

-----------------------------------------------------------------------------
(* Rows *)

NoExpense == [status |-> "absent", amount |-> 0]
ExpenseRow == [status : {"draft", "confirmed", "reimbursed"}, amount : Amount] \cup {NoExpense}

Document == Invoice \cup Expense \cup Payment \cup Employee
Version == 1 .. MaxVersion

\* holds: the documents in the CSVs.
PackRow == [status : {"complete", "failed"}, holds : SUBSET Document]
NoPack == [status |-> "absent", holds |-> {}]

Versions == {v \in Version : packs[v] # NoPack}

\* What counts as done for the month.
Done(d) ==
  \/ d \in Invoice /\ invoice[d] \in {"issued", "paid"}
  \/ d \in Expense /\ expense[d].status \in {"confirmed", "reimbursed"}
  \/ d \in Payment /\ proof[d] # "absent"
  \/ d \in Employee /\ payslip[d] = "finalized"

DoneDocuments == {d \in Document : Done(d)}

Cancelled == {i \in Invoice : invoice[i] = "cancelled"}

\* The documents without their evidence.
Bare == {p \in Payment : proof[p] = "without"}

\* validate_month's is_complete.
Complete ==
  /\ \A e \in Expense : expense[e].status # "draft"
  /\ \A m \in Employee : payslip[m] # "draft"
  /\ Bare = {}

-----------------------------------------------------------------------------
(* Requests *)

Editing == [op : {"update", "confirm", "reimburse"}, expense : Expense, row : ExpenseRow]

\* complete: what the validation said, without which run_monthly makes no pack; checked: the
\* documents that it counted.
Exporting ==
  [op : {"validated"}, complete : BOOLEAN, checked : SUBSET Document]
    \cup [op : {"numbered", "inserted"}, complete : BOOLEAN, checked : SUBSET Document,
          version : Version]
    \cup [op : {"gathered"}, complete : BOOLEAN, version : Version, holds : SUBSET Document]

ExportsTypeOK ==
  /\ invoice \in [Invoice -> {"absent", "issued", "paid", "cancelled"}]
  /\ expense \in [Expense -> ExpenseRow]
  /\ proof \in [Payment -> {"absent", "without", "with"}]
  /\ payslip \in [Employee -> {"absent", "draft", "finalized"}]
  /\ packs \in [Version -> PackRow \cup {NoPack}]
  /\ expReq \in [Request -> {Idle} \cup Editing \cup Exporting]

ExportsInit ==
  /\ invoice = [i \in Invoice |-> "absent"]
  /\ expense = [e \in Expense |-> NoExpense]
  /\ proof = [p \in Payment |-> "absent"]
  /\ payslip = [m \in Employee |-> "absent"]
  /\ packs = [v \in Version |-> NoPack]
  /\ expReq = [r \in Request |-> Idle]

EndExport(r) == expReq' = [expReq EXCEPT ![r] = Idle]

Documents == <<invoice, expense, proof, payslip>>

-----------------------------------------------------------------------------
(* A pack *)

\* A month that is not complete needs a request that forces the pack.
Validate(r) ==
  /\ expReq[r] = Idle
  /\ expReq' = [expReq EXCEPT ![r] =
       [op |-> "validated", complete |-> Complete, checked |-> DoneDocuments]]
  /\ UNCHANGED <<Documents, packs>>

NextVersion == IF Versions = {} THEN 1 ELSE Max(Versions) + 1

TakeVersion(r) ==
  /\ expReq[r].op = "validated"
  /\ NextVersion \in Version
  /\ expReq' = [expReq EXCEPT ![r] =
       [op |-> "numbered", complete |-> expReq[r].complete, checked |-> expReq[r].checked,
        version |-> NextVersion]]
  /\ UNCHANGED <<Documents, packs>>

HoldsVersion(s, v) == expReq[s].op \in {"inserted", "gathered"} /\ expReq[s].version = v

\* Mutant: without uq_export_packs_month_version.
InsertAnyPack(r) ==
  /\ expReq[r].op = "numbered"
  /\ expReq' = [expReq EXCEPT ![r].op = "inserted"]
  /\ UNCHANGED <<Documents, packs>>

\* The insert waits for another one of the version, and raises (see AbortExport) when that
\* one is committed.
InsertPack(r) ==
  /\ expReq[r].op = "numbered"
  /\ expReq[r].version \notin Versions
  /\ \A s \in Request \ {r} : ~HoldsVersion(s, expReq[r].version)
  /\ expReq' = [expReq EXCEPT ![r].op = "inserted"]
  /\ UNCHANGED <<Documents, packs>>

\* Mutant: reimbursed expenses are left out of the pack.
GatheredConfirmed ==
  {d \in DoneDocuments : d \in Expense => expense[d].status = "confirmed"}

\* Read again, by the conditions of the validation.
Gathered == DoneDocuments

Gather(r) ==
  /\ expReq[r].op = "inserted"
  /\ expReq' = [expReq EXCEPT ![r] =
       [op |-> "gathered", complete |-> expReq[r].complete, version |-> expReq[r].version,
        holds |-> Gathered]]
  /\ UNCHANGED <<Documents, packs>>

FinishExport(r) ==
  /\ expReq[r].op = "gathered"
  /\ packs' = [packs EXCEPT ![expReq[r].version] =
       [status |-> "complete", holds |-> expReq[r].holds]]
  /\ EndExport(r)
  /\ UNCHANGED Documents

\* The ZIP or its upload fails in run_monthly, which reports it and commits the failed row.
FailExport(r) ==
  /\ expReq[r].op = "gathered" /\ expReq[r].complete
  /\ packs' = [packs EXCEPT ![expReq[r].version] = [NoPack EXCEPT !.status = "failed"]]
  /\ EndExport(r)
  /\ UNCHANGED Documents

\* Everywhere else a failure ends the request, and with it the row of the pack.
AbortExport(r) ==
  /\ expReq[r] # Idle
  /\ EndExport(r)
  /\ UNCHANGED <<Documents, packs>>

-----------------------------------------------------------------------------
(* Documents *)

CreateExpense(e) ==
  /\ expense[e] = NoExpense
  /\ \E a \in Amount : expense' = [expense EXCEPT ![e] = [status |-> "draft", amount |-> a]]
  /\ UNCHANGED <<invoice, proof, payslip, packs, expReq>>

\* Mutant: a confirmed expense can be updated.
AllowedUntilReimbursed(op, status) ==
  CASE op = "update" -> status \in {"draft", "confirmed"}
    [] op = "confirm" -> status = "draft"
    [] op = "reimburse" -> status = "confirmed"

Allowed(op, status) == status = IF op = "reimburse" THEN "confirmed" ELSE "draft"

\* A reimbursement also needs a reimbursable expense and a payment, any payment.
LoadExpense(r) ==
  /\ expReq[r] = Idle
  /\ \E op \in {"update", "confirm", "reimburse"}, e \in Expense :
       /\ Allowed(op, expense[e].status)
       /\ op = "reimburse" => \E p \in Payment : proof[p] # "absent"
       /\ expReq' = [expReq EXCEPT ![r] = [op |-> op, expense |-> e, row |-> expense[e]]]
  /\ UNCHANGED <<Documents, packs>>

FinishExpense(r) ==
  /\ expReq[r].op \in {"update", "confirm", "reimburse"}
  /\ LET e == expReq[r].expense IN
     \/ expReq[r].op = "update" /\ \E a \in Amount : expense' = [expense EXCEPT ![e].amount = a]
     \/ expReq[r].op = "confirm" /\ expense' = [expense EXCEPT ![e].status = "confirmed"]
     \/ expReq[r].op = "reimburse" /\ expense' = [expense EXCEPT ![e].status = "reimbursed"]
  /\ EndExport(r)
  /\ UNCHANGED <<invoice, proof, payslip, packs>>

\* A payment is recorded, with its document as proof when it is made from a payroll run.
RecordPayment(p) ==
  /\ proof[p] = "absent"
  /\ \E w \in {"without", "with"} : proof' = [proof EXCEPT ![p] = w]
  /\ UNCHANGED <<invoice, expense, payslip, packs, expReq>>

AttachProof(p) ==
  /\ proof[p] # "absent"
  /\ proof' = [proof EXCEPT ![p] = "with"]
  /\ UNCHANGED <<invoice, expense, payslip, packs, expReq>>

\* A payroll run as the month sees it: by hand or by run_monthly drafted, finalized with its
\* payslip, reviewed by a request that loaded the draft, deleted.
PayrollRun(m) ==
  /\ \/ payslip[m] = "absent" /\ payslip' = [payslip EXCEPT ![m] = "draft"]
     \/ payslip[m] = "draft" /\ payslip' = [payslip EXCEPT ![m] = "finalized"]
     \/ payslip[m] = "finalized" /\ payslip' = [payslip EXCEPT ![m] = "draft"]
     \/ payslip[m] # "absent" /\ payslip' = [payslip EXCEPT ![m] = "absent"]
  /\ UNCHANGED <<invoice, expense, proof, packs, expReq>>

\* An invoice as the month sees it: issued, and from then on paid or cancelled, whatever else
\* has become of it (see ReceivableRequests).
IssuedInvoice(i) ==
  /\ \/ invoice[i] = "absent" /\ invoice' = [invoice EXCEPT ![i] = "issued"]
     \/ invoice[i] # "absent" /\ \E s \in {"paid", "cancelled"} :
                                  invoice' = [invoice EXCEPT ![i] = s]
  /\ UNCHANGED <<expense, proof, payslip, packs, expReq>>

ExportsNext ==
  \/ \E r \in Request :
       Validate(r) \/ TakeVersion(r) \/ InsertPack(r) \/ Gather(r) \/ FinishExport(r)
         \/ FailExport(r) \/ AbortExport(r) \/ LoadExpense(r) \/ FinishExpense(r)
  \/ \E e \in Expense : CreateExpense(e)
  \/ \E p \in Payment : RecordPayment(p) \/ AttachProof(p)
  \/ \E m \in Employee : PayrollRun(m)
  \/ \E i \in Invoice : IssuedInvoice(i)

ExportsSpec == ExportsInit /\ [][ExportsNext]_exportVars

-----------------------------------------------------------------------------
(* Properties *)

\* "Export packs are immutable once generated": no later pack, however requests overlap,
\* takes the version of one that is stored.
PackImmutable == [][\A v \in Versions : packs'[v] = packs[v]]_exportVars

\* What the validation counted goes into the pack, however the documents change while the
\* pack is made: all that can be missing is a payroll run, deleted or reviewed anew, and an
\* invoice cancelled since, which the summary stored with the pack still counts.
PackMatchesCheck ==
  [][\A r \in Request :
       expReq[r].op = "inserted" /\ expReq'[r].op = "gathered"
       => expReq[r].checked \ Employee \subseteq expReq'[r].holds \cup Cancelled]_exportVars

\* A confirmed expense keeps its amount and a reimbursed one its status, so that it is not
\* reimbursed again, except for a request that loaded it before it was confirmed.
ConfirmedNeedsOverlap ==
  [][expense' # expense => \A e \in Expense :
       \/ expense[e].status \in {"confirmed", "reimbursed"}
            /\ expense'[e].amount # expense[e].amount
       \/ expense[e].status = "reimbursed" /\ expense'[e].status # "reimbursed"
       => \E r \in Request :
            /\ expReq[r].op \in {"update", "confirm", "reimburse"} /\ expReq[r].expense = e
            /\ expReq[r].row # expense[e] /\ expReq'[r] = Idle]_exportVars
=============================================================================
