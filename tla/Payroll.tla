------------------------------- MODULE Payroll -------------------------------
(***************************************************************************)
(* Payroll runs, the payments that pay them, and the payslip numbers the   *)
(* two tables share (BL-PS-<year>-<n>).  Every handler of the API is one   *)
(* action: the meaning of a request that runs alone.  PayrollRequests      *)
(* splits the handlers at their waits.                                     *)
(*                                                                         *)
(* A run is identified by its employee and month, which are unique among   *)
(* the live rows; after a delete the pair may be used again.  Days,        *)
(* proration and deductions come down to the net salary, the payslip file  *)
(* is left out, and the series is that of one year.                        *)
(***************************************************************************)
EXTENDS Naturals

CONSTANTS
  Run,           \* (employee, month) pairs
  Payment,       \* rows of payments
  Amount,        \* net salaries and payment amounts
  None,          \* SQL NULL
  Other,         \* a related entity that is no live run: an invoice, a deleted run, ...
  MaxNumber      \* bound on the payslip series

ASSUME LinkAssumption ==
  None \notin Run \cup Payment /\ Other \notin Run /\ None # Other
ASSUME MaxNumberAssumption == MaxNumber \in Nat

VARIABLES
  run,      \* payroll runs
  pay       \* payments

payrollVars == <<run, pay>>

-----------------------------------------------------------------------------
(* Rows; number 0 is NULL, or a reference outside the payslip series *)

RunStatus == {"absent", "draft", "reviewed", "finalized", "paid"}
RunRow ==
  [status : RunStatus, net : Amount \cup {0}, number : 0 .. MaxNumber,
   payment : Payment \cup {None}]

PayRow ==
  [live : BOOLEAN, run : Run \cup {None, Other}, amount : Amount \cup {0},
   number : 0 .. MaxNumber]

NoRun == [status |-> "absent", net |-> 0, number |-> 0, payment |-> None]
NoPay == [live |-> FALSE, run |-> None, amount |-> 0, number |-> 0]

PayrollTypeOK == run \in [Run -> RunRow] /\ pay \in [Payment -> PayRow]

PayrollInit == run = [r \in Run |-> NoRun] /\ pay = [p \in Payment |-> NoPay]

-----------------------------------------------------------------------------
(* The payslip series *)

RunNumbers == {run[r].number : r \in Run} \ {0}
PaymentNumbers == {pay[p].number : p \in Payment} \ {0}

\* MAX + 1 over the numbers of a set: 1 when there is none.
Follows(n, used) ==
  n \in 1 .. MaxNumber /\ (\A m \in used : m < n) /\ (n = 1 \/ n - 1 \in used)

\* Mutant: only the payments are searched.
NextPaymentNumber(n) == Follows(n, PaymentNumbers)

\* generate_reference_number for a payroll run: the maximum over both tables.
NextNumber(n) == Follows(n, RunNumbers \cup PaymentNumbers)

-----------------------------------------------------------------------------
(* Payroll handlers *)

CreateRun(r, net) ==
  /\ run[r].status = "absent"
  /\ run' = [run EXCEPT ![r].status = "draft", ![r].net = net]
  /\ UNCHANGED pay

\* Mutant: a run can be changed until it is paid.
EditableUnpaid(r) == run[r].status \in {"draft", "reviewed", "finalized"}

EditableRun(r) == run[r].status = "draft"

\* Mutant: the net salary is adjusted instead of recalculated.
AddToNet(r, net) ==
  /\ EditableRun(r)
  /\ run' = [run EXCEPT ![r].net = @ + net]
  /\ UNCHANGED pay

UpdateRun(r, net) ==
  /\ EditableRun(r)
  /\ run' = [run EXCEPT ![r].net = net]
  /\ UNCHANGED pay

ReviewRun(r) ==
  /\ run[r].status = "draft"
  /\ run' = [run EXCEPT ![r].status = "reviewed"]
  /\ UNCHANGED pay

\* The number is assigned on the first finalize only.
WriteFinal(r, n) ==
  /\ run' = [run EXCEPT ![r].status = "finalized",
                        ![r].number = IF @ = 0 THEN n ELSE @]
  /\ UNCHANGED pay

FinalizeRun(r) ==
  /\ run[r].status = "reviewed"
  /\ \E n \in 1 .. MaxNumber : NextNumber(n) /\ WriteFinal(r, n)

\* Mutant: the amount is not compared.
AnyAmountPays(p, r) == TRUE

\* The payment's amount must be the run's net salary, exactly.
PaysNet(p, r) == pay[p].amount = run[r].net

WritePaid(r, p) == run' = [run EXCEPT ![r].status = "paid", ![r].payment = p]

\* mark_paid compares with the payments of the other runs, and not with what the
\* payment itself is linked to.
MarkRunPaid(r, p) ==
  /\ pay[p].live
  /\ \A s \in Run \ {r} : run[s].payment # p
  /\ PaysNet(p, r)
  /\ run[r].status = "finalized"
  /\ WritePaid(r, p)
  /\ UNCHANGED pay

DeletableRun(r) == run[r].status \notin {"absent", "paid"}

\* payments.related_entity_id is no foreign key: it keeps the id of the deleted row.
WriteDelete(r) ==
  /\ run' = [run EXCEPT ![r] = NoRun]
  /\ pay' = [p \in Payment |->
       IF pay[p].run = r THEN [pay[p] EXCEPT !.run = Other] ELSE pay[p]]

DeleteRun(r) == DeletableRun(r) /\ WriteDelete(r)

-----------------------------------------------------------------------------
(* Payment handlers *)

NumberFree(n) == n # 0 => n \notin PaymentNumbers

\* The unique index on payments.reference_number refuses a second use of a number.
InsertPayment(p, r, a, n) ==
  /\ ~pay[p].live
  /\ NumberFree(n)
  /\ pay' = [pay EXCEPT ![p] = [live |-> TRUE, run |-> r, amount |-> a, number |-> n]]
  /\ UNCHANGED run

\* The reference record_payment gives the payment: the caller's own or that of another
\* series, the run's payslip number, or the next of the series.  A caller's own reference
\* that imitates the payslip series is left out.
Reference(r, n) ==
  \/ n = 0
  \/ r \in Run /\ run[r].number # 0 /\ n = run[r].number
  \/ (r \in Run => run[r].number = 0) /\ NextNumber(n)

RecordPayment(p, r, a) ==
  /\ r \in Run => run[r].status # "absent"
  /\ \E n \in 0 .. MaxNumber : Reference(r, n) /\ InsertPayment(p, r, a, n)

\* create_payment_from_entity for a payroll run.
PayRun(p, r) ==
  /\ run[r].status = "finalized"
  /\ InsertPayment(p, r, run[r].net, run[r].number)

LinkRun(p, r) ==
  /\ pay[p].live
  /\ pay[p].run \in {None, r}
  /\ run[r].status = "finalized"
  /\ PaysNet(p, r)
  /\ WritePaid(r, p)
  /\ pay' = [pay EXCEPT ![p].run = r]

LinkElsewhere(p) ==
  /\ pay[p].live /\ pay[p].run = None
  /\ pay' = [pay EXCEPT ![p].run = Other]
  /\ UNCHANGED run

-----------------------------------------------------------------------------

RunNext ==
  \E r \in Run :
    \/ \E net \in Amount : CreateRun(r, net) \/ UpdateRun(r, net)
    \/ ReviewRun(r)
    \/ FinalizeRun(r)
    \/ \E p \in Payment : MarkRunPaid(r, p)
    \/ DeleteRun(r)

PayNext ==
  \E p \in Payment :
    \/ \E r \in Run \cup {None, Other}, a \in Amount : RecordPayment(p, r, a)
    \/ \E r \in Run : PayRun(p, r) \/ LinkRun(p, r)
    \/ LinkElsewhere(p)

PayrollNext == RunNext \/ PayNext

PayrollSpec == PayrollInit /\ [][PayrollNext]_payrollVars

-----------------------------------------------------------------------------
(* Properties *)

\* A run that is paid, and only such a run, has a payment; it is a live payment of the
\* run's net salary.  A run has a payslip number from its finalization on.
PaidByItsPayment ==
  \A r \in Run :
    /\ run[r].payment # None <=> run[r].status = "paid"
    /\ run[r].number # 0 <=> run[r].status \in {"finalized", "paid"}
    /\ run[r].payment # None =>
         pay[run[r].payment].live /\ pay[run[r].payment].amount = run[r].net

\* A payslip number is that of one run, and of a payment only if the payment is for that
\* run: the two tables share one series without collisions.
NumbersNeverCollide ==
  /\ \A r, s \in Run : run[r].number = run[s].number /\ run[r].number # 0 => r = s
  /\ \A r \in Run, p \in Payment :
       run[r].number = pay[p].number /\ run[r].number # 0 => pay[p].run = r

\* A payslip that was issued keeps its number and its amount as long as the run exists, and a
\* paid run stays as it is.
PayslipFinal ==
  [][\A r \in Run :
       /\ run[r].status = "finalized" =>
            \/ run'[r] = NoRun
            \/ run'[r].number = run[r].number /\ run'[r].net = run[r].net
       /\ run[r].status = "paid" => run'[r] = run[r]]_payrollVars

\* The comment of mark_paid, "Prevent payment reuse": a payment pays one run.
PaymentPaysOneRun ==
  \A r, s \in Run : run[r].payment = run[s].payment /\ run[r].payment # None => r = s
=============================================================================
