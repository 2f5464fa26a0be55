------------------------------ MODULE Payslips ------------------------------
(***************************************************************************)
(* What a payroll run pays: the days worked in the month, the salary        *)
(* prorated by them, the deductions, the net.  Creating a run clamps its    *)
(* dates to the month; updating one does not, recalculates everything, and  *)
(* replaces the deduction records.  An update decides on the row it loaded. *)
(*                                                                         *)
(* One run.  Amounts are cents.  Day 0 stands for the days before the month *)
(* and DaysInMonth + 1 for those after it.  Numbers and payments, and who   *)
(* may delete a run, are in Payroll.                                       *)
(***************************************************************************)
EXTENDS Requests, FiniteSetsExt

CONSTANTS
  Salary,        \* monthly salaries
  DaysInMonth,
  Sheet          \* sets of deduction records: those one request inserts

ASSUME SalaryAssumption == Salary \subseteq Nat /\ DaysInMonth \in Nat \ {0}

VARIABLES
  slip,          \* the payroll run
  sheets,        \* its deduction records
  slipReq        \* updates in progress

slipVars == <<slip, sheets, slipReq>>

-----------------------------------------------------------------------------
(* The jurisdiction's rules *)

WorkPass == {"citizen", "EP"}   \* EP stands for every pass without CPF

\* Mutant: the salary is prorated however many days there are.
ProratedUncapped(salary, days) == HalfUp(salary * days, DaysInMonth)

\* By calendar days; as many days as the month has pay the whole salary.
Prorated(salary, days) ==
  IF days >= DaysInMonth THEN salary ELSE HalfUp(salary * days, DaysInMonth)

\* Skills Development Levy: 0.25% of the wages from 800 to 4500, and flat beyond them.
Levy(gross) ==
  CASE gross = 0 -> 0
    [] gross > 0 /\ gross < 80000 -> 200
    [] gross >= 80000 /\ gross <= 450000 -> HalfUp(gross, 400)
    [] gross > 450000 -> 1125

Deductions(gross, pass) ==
  {[kind |-> "sdl", amount |-> Levy(gross), employer |-> TRUE]}
    \cup IF pass = "citizen"
         THEN {[kind |-> "cpf_employee", amount |-> HalfUp(gross, 5), employer |-> FALSE],
               [kind |-> "cpf_employer", amount |-> HalfUp(gross * 17, 100), employer |-> TRUE]}
         ELSE {}

Deducted(gross, pass) ==
  MapThenSumSet(LAMBDA d : d.amount, {d \in Deductions(gross, pass) : ~d.employer})

-----------------------------------------------------------------------------
(* The run *)

Date == 0 .. DaysInMonth + 1
Days(start, end) == IF end < start THEN 0 ELSE end - start + 1

NoSlip == [status |-> "absent", pass |-> "EP", salary |-> 0, start |-> 1, end |-> 0,
           days |-> 0, gross |-> 0, deducted |-> 0, net |-> 0]

\* reviewed stands for finalized and paid too: no longer draft.
SlipRow ==
  [status : {"absent", "draft", "reviewed"}, pass : WorkPass, salary : Salary \cup {0},
   start : Date, end : Date, days : 0 .. DaysInMonth + 2,
   gross : Nat, deducted : Nat, net : Nat]

Calculated(row, start, end) ==
  LET days == Days(start, end)
      gross == Prorated(row.salary, days)
      deducted == Deducted(gross, row.pass)
  IN [row EXCEPT !.start = start, !.end = end, !.days = days, !.gross = gross,
                 !.deducted = deducted, !.net = gross - deducted]

Updating == [op : {"update"}, row : SlipRow, sheets : SUBSET Sheet]

PayslipsTypeOK ==
  /\ slip \in SlipRow
  /\ sheets \in SUBSET Sheet
  /\ slipReq \in [Request -> {Idle} \cup Updating]

PayslipsInit ==
  /\ slip = NoSlip
  /\ sheets = {}
  /\ slipReq = [r \in Request |-> Idle]

EndUpdate(r) == slipReq' = [slipReq EXCEPT ![r] = Idle]

Least(a, b) == IF a < b THEN a ELSE b
Greatest(a, b) == IF a < b THEN b ELSE a

\* The dates asked for, or those of the employee, clamped to the month.
CreateSlip(s) ==
  /\ slip.status = "absent"
  /\ \E salary \in Salary, pass \in WorkPass, start \in Date, end \in Date :
       slip' = Calculated([NoSlip EXCEPT !.status = "draft", !.pass = pass, !.salary = salary],
                          Greatest(start, 1), Least(end, DaysInMonth))
  /\ sheets' = {s}
  /\ UNCHANGED slipReq

\* Mutant: any run may be updated.
MayUpdateAny(status) == status # "absent"

MayUpdate(status) == status = "draft"

LoadSlip(r) ==
  /\ slipReq[r] = Idle /\ MayUpdate(slip.status)
  /\ slipReq' = [slipReq EXCEPT ![r] = [op |-> "update", row |-> slip, sheets |-> sheets]]
  /\ UNCHANGED <<slip, sheets>>

\* The records loaded are deleted, if they are still there.
FinishUpdateSlip(r, s) ==
  /\ slipReq[r].op = "update" /\ s \notin sheets \cup slipReq[r].sheets
  /\ \E start \in Date, end \in Date :
       slip' = Flushed(slipReq[r].row, Calculated(slipReq[r].row, start, end), slip)
  /\ sheets' = (sheets \ slipReq[r].sheets) \cup {s}
  /\ EndUpdate(r)

ReviewSlip ==
  /\ slip.status = "draft"
  /\ slip' = [slip EXCEPT !.status = "reviewed"]
  /\ UNCHANGED <<sheets, slipReq>>

\* What an update does to a row that is gone raises: see AbortUpdate.
DeleteSlip ==
  /\ slip.status # "absent"
  /\ slip' = NoSlip /\ sheets' = {}
  /\ slipReq' = [r \in Request |-> Idle]

AbortUpdate(r) ==
  /\ slipReq[r] # Idle
  /\ EndUpdate(r)
  /\ UNCHANGED <<slip, sheets>>

PayslipsNext ==
  \/ \E s \in Sheet : CreateSlip(s)
  \/ \E r \in Request :
       LoadSlip(r) \/ AbortUpdate(r) \/ \E s \in Sheet : FinishUpdateSlip(r, s)
  \/ ReviewSlip \/ DeleteSlip

PayslipsSpec == PayslipsInit /\ [][PayslipsNext]_slipVars

-----------------------------------------------------------------------------
(* Properties *)

\* A run never pays a negative amount nor more than the monthly salary, net and employee's
\* deductions together, whatever dates it is updated to and however updates overlap.
PayBounded ==
  /\ slip.net >= 0 /\ slip.deducted >= 0
  /\ slip.net + slip.deducted <= slip.salary

SlipSound ==
  /\ slip.days = Cardinality({d \in Date : slip.start <= d /\ d <= slip.end})
  /\ slip.gross = Prorated(slip.salary, slip.days)
  /\ slip.net = slip.gross - slip.deducted
  /\ Cardinality(sheets) <= 1

\* The amounts of a run stop following from its dates, or get a second set of deductions, and
\* a run that is no longer draft changes, only through an update that decided on the row of
\* before another request.
StaleSlipNeedsOverlap ==
  [][/\ <<slip, sheets>>' # <<slip, sheets>>
     /\ \/ SlipSound /\ ~SlipSound'
        \/ slip.status = "reviewed" /\ slip' \notin {slip, NoSlip}
     => \E r \in Request :
          /\ slipReq[r].op = "update" /\ slipReq'[r] = Idle
          /\ slipReq[r].row # slip \/ slipReq[r].sheets # sheets]_slipVars
=============================================================================
