-------------------------------- MODULE Loans --------------------------------
(***************************************************************************)
(* Loans, the allocations of payments to documents, and the letters a loan *)
(* gets.  A request loads a row, counts what was repaid, and writes; the    *)
(* row it loaded first stays the one it decides on.                         *)
(*                                                                         *)
(* Amounts are small integers of one currency.  A letter is its file id:    *)
(* what it prints (terms, interest, repayments, balance) is left out, and   *)
(* so is the statement of account: its file replaces the last one, and      *)
(* nothing reads it.  The company's settings are taken as complete.         *)
(***************************************************************************)
EXTENDS Requests, Naturals, FiniteSetsExt

CONSTANTS
  Loan,
  Allocation,   \* rows of payment_allocations
  Other,        \* a document that is no loan: an invoice, an expense, a payroll run
  MaxFiles      \* bound on the files printed

ASSUME DocAssumption == None \notin Loan /\ Other \notin Loan /\ None # Other
ASSUME AmountAssumption == Amount \subseteq Nat \ {0}
ASSUME MaxFilesAssumption == MaxFiles \in Nat
ASSUME RowsAssumption == IsFiniteSet(Payment) /\ IsFiniteSet(Allocation)

VARIABLES
  loan,     \* loans
  pay,      \* payments
  alloc,    \* payment allocations
  files,    \* the number of letters printed so far
  loanReq   \* requests in progress: what each has read

loanVars == <<loan, pay, alloc, files, loanReq>>

-----------------------------------------------------------------------------
(* Rows; file number 0 is NULL *)

Doc == Loan \cup {Other}
LoanStatus == {"absent", "active", "repaid", "written_off"}
FileId == 0 .. MaxFiles

LoanRow ==
  [status : LoanStatus, principal : Amount \cup {0},
   agreement : FileId, discharge : FileId]
PayRow == [amount : Amount \cup {0}, link : Doc \cup {None}]
AllocRow == [payment : Payment, doc : Doc, amount : Amount]
ASSUME NullAssumption == None \notin AllocRow

NoLoan == [status |-> "absent", principal |-> 0,
           agreement |-> 0, discharge |-> 0]
NoPay == [amount |-> 0, link |-> None]

Allocations == {a \in Allocation : alloc[a] # None}
AllocationsOf(p) == {a \in Allocations : alloc[a].payment = p}
AllocationsTo(d) == {a \in Allocations : alloc[a].doc = d}
AllocatedBy(rows) == MapThenSumSet(LAMBDA a : alloc[a].amount, rows)

Allocated(p) == AllocatedBy(AllocationsOf(p))

\* Payments recorded for the loan directly; one that also has an allocation to this very
\* loan counts by the allocation only.
LinkedOnly(l) ==
  {p \in Payment : pay[p].link = l /\ \A a \in AllocationsTo(l) : alloc[a].payment # p}

\* Mutant: an allocation to any document takes a linked payment out of the count.
RepaidIfUnallocated(l) ==
  AllocatedBy(AllocationsTo(l))
    + MapThenSumSet(LAMBDA p : pay[p].amount, {p \in LinkedOnly(l) : AllocationsOf(p) = {}})

Repaid(l) ==
  AllocatedBy(AllocationsTo(l)) + MapThenSumSet(LAMBDA p : pay[p].amount, LinkedOnly(l))

-----------------------------------------------------------------------------
(* Requests *)

Deciding == {"update", "mark_repaid", "agreement", "discharge"}

LoadedLoan == [op : Deciding, loan : Loan, row : LoanRow, counted : BOOLEAN]
SummedPayment == [op : {"allocate"}, payment : Payment, allocated : Nat]

LoansTypeOK ==
  /\ loan \in [Loan -> LoanRow]
  /\ pay \in [Payment -> PayRow]
  /\ alloc \in [Allocation -> AllocRow \cup {None}]
  /\ files \in FileId
  /\ loanReq \in [Request -> {Idle} \cup LoadedLoan \cup SummedPayment]

LoansInit ==
  /\ loan = [l \in Loan |-> NoLoan]
  /\ pay = [p \in Payment |-> NoPay]
  /\ alloc = [a \in Allocation |-> None]
  /\ files = 0
  /\ loanReq = [r \in Request |-> Idle]

EndLoan(r) == loanReq' = [loanReq EXCEPT ![r] = Idle]

\* update_loan and the letters raise on what the loaded row says; mark_repaid does not look
\* at the status.
\* Mutant: a discharge letter only needs the balance.
LoanAllowsAnyStatus(op, row) ==
  /\ row.status # "absent"
  /\ op = "update" => row.status = "active"
  /\ op = "agreement" => row.agreement = 0
  /\ op = "discharge" => row.discharge = 0

\* Mutant: a repaid loan can still be updated.
LoanAllowsRepaid(op, row) ==
  /\ row.status # "absent"
  /\ op = "update" => row.status # "written_off"
  /\ op = "agreement" => row.agreement = 0
  /\ op = "discharge" => row.status = "repaid" /\ row.discharge = 0

LoanAllows(op, row) ==
  /\ row.status # "absent"
  /\ op = "update" => row.status = "active"
  /\ op = "agreement" => row.agreement = 0
  /\ op = "discharge" => row.status = "repaid" /\ row.discharge = 0

LoadLoan(r) ==
  /\ loanReq[r] = Idle
  /\ \E op \in Deciding, l \in Loan :
       /\ LoanAllows(op, loan[l])
       /\ loanReq' = [loanReq EXCEPT ![r] =
            [op |-> op, loan |-> l, row |-> loan[l], counted |-> FALSE]]
  /\ UNCHANGED <<loan, pay, alloc, files>>

\* get_loan_balance, with the principal of the row loaded before: nothing may be outstanding.
CountRepaid(r) ==
  /\ loanReq[r].op \in {"mark_repaid", "discharge"} /\ ~loanReq[r].counted
  /\ Repaid(loanReq[r].loan) = loanReq[r].row.principal
  /\ loanReq' = [loanReq EXCEPT ![r].counted = TRUE]
  /\ UNCHANGED <<loan, pay, alloc, files>>

\* Mutant: the principal is raised instead of replaced.
FinishRaise(r) ==
  /\ loanReq[r].op = "update"
  /\ \E a \in Amount : loan' = [loan EXCEPT ![loanReq[r].loan].principal = @ + a]
  /\ EndLoan(r)
  /\ UNCHANGED <<pay, alloc, files>>

FinishUpdate(r) ==
  /\ loanReq[r].op = "update"
  /\ \E a \in Amount : loan' = [loan EXCEPT ![loanReq[r].loan].principal = a]
  /\ EndLoan(r)
  /\ UNCHANGED <<pay, alloc, files>>

\* A row loaded as repaid is not written again: its status does not change.
FinishMarkRepaid(r) ==
  /\ loanReq[r].op = "mark_repaid" /\ loanReq[r].counted
  /\ loan' = IF loanReq[r].row.status = "repaid" THEN loan
             ELSE [loan EXCEPT ![loanReq[r].loan].status = "repaid"]
  /\ EndLoan(r)
  /\ UNCHANGED <<pay, alloc, files>>

\* Every letter is a new file, and the loan points to the latest of its kind.
WriteLetter(r) ==
  /\ files < MaxFiles
  /\ files' = files + 1
  /\ loan' = [loan EXCEPT ![loanReq[r].loan][loanReq[r].op] = files + 1]

FinishLetter(r) ==
  /\ \/ loanReq[r].op = "agreement"
     \/ loanReq[r].op = "discharge" /\ loanReq[r].counted
  /\ WriteLetter(r)
  /\ EndLoan(r)
  /\ UNCHANGED <<pay, alloc>>

-----------------------------------------------------------------------------
(* Allocations *)

SumAllocations(r) ==
  /\ loanReq[r] = Idle
  /\ \E p \in Payment :
       /\ pay[p].amount # 0
       /\ loanReq' = [loanReq EXCEPT ![r] =
            [op |-> "allocate", payment |-> p, allocated |-> Allocated(p)]]
  /\ UNCHANGED <<loan, pay, alloc, files>>

\* The new rows of one request, each to a document that exists.
NewAllocations(p, rows) ==
  [rows -> {[payment |-> p, doc |-> d, amount |-> n] :
              d \in {l \in Doc : l \in Loan => loan[l].status # "absent"}, n \in Amount}]

\* Mutant: each amount is compared by itself.
EachFits(p, allocated, new) ==
  \A a \in DOMAIN new : allocated + new[a].amount <= pay[p].amount

\* The new amounts together must fit into what the payment had left when it was summed.
Fits(p, allocated, new) ==
  allocated + MapThenSumSet(LAMBDA a : new[a].amount, DOMAIN new) <= pay[p].amount

FinishAllocate(r) ==
  /\ loanReq[r].op = "allocate"
  /\ \E rows \in SUBSET (Allocation \ Allocations) :
       /\ rows # {}
       /\ \E new \in NewAllocations(loanReq[r].payment, rows) :
            /\ Fits(loanReq[r].payment, loanReq[r].allocated, new)
            /\ alloc' = [a \in Allocation |-> IF a \in rows THEN new[a] ELSE alloc[a]]
  /\ EndLoan(r)
  /\ UNCHANGED <<loan, pay, files>>

Deallocate(a) ==
  /\ alloc[a] # None
  /\ alloc' = [alloc EXCEPT ![a] = None]
  /\ UNCHANGED <<loan, pay, files, loanReq>>

-----------------------------------------------------------------------------
(* Handlers that read nothing they depend on *)

CreateLoan(l) ==
  /\ loan[l].status = "absent"
  /\ \E a \in Amount :
       loan' = [loan EXCEPT ![l] =
         [status |-> "active", principal |-> a, agreement |-> 0, discharge |-> 0]]
  /\ UNCHANGED <<pay, alloc, files, loanReq>>

WriteOff(l) ==
  /\ loan[l].status # "absent"
  /\ loan' = [loan EXCEPT ![l].status = "written_off"]
  /\ UNCHANGED <<pay, alloc, files, loanReq>>

\* A payment is recorded for a document or for none, and may be linked to one later.
RecordLoanPayment(p) ==
  /\ pay[p].amount = 0
  /\ \E a \in Amount, d \in Doc \cup {None} :
       pay' = [pay EXCEPT ![p] = [amount |-> a, link |-> d]]
  /\ UNCHANGED <<loan, alloc, files, loanReq>>

LinkPayment(p) ==
  /\ pay[p].amount # 0 /\ pay[p].link = None
  /\ \E d \in Doc : pay' = [pay EXCEPT ![p].link = d]
  /\ UNCHANGED <<loan, alloc, files, loanReq>>

\* A check fails, the PDF or the upload fails, the client goes away: get_db rolls back.
AbortLoan(r) ==
  /\ loanReq[r] # Idle
  /\ EndLoan(r)
  /\ UNCHANGED <<loan, pay, alloc, files>>

-----------------------------------------------------------------------------

FinishLoan(r) ==
  FinishUpdate(r) \/ FinishMarkRepaid(r) \/ FinishLetter(r) \/ FinishAllocate(r)

LoanStep(r) == LoadLoan(r) \/ CountRepaid(r) \/ SumAllocations(r) \/ FinishLoan(r) \/ AbortLoan(r)

LoansNext ==
  \/ \E r \in Request : LoanStep(r)
  \/ \E l \in Loan : CreateLoan(l) \/ WriteOff(l)
  \/ \E p \in Payment : RecordLoanPayment(p) \/ LinkPayment(p)
  \/ \E a \in Allocation : Deallocate(a)

LoansSpec == LoansInit /\ [][LoansNext]_loanVars

-----------------------------------------------------------------------------
(* Properties *)

OverAllocated(p) == Allocated(p) > pay[p].amount

\* A payment becomes allocated beyond its amount only by a request that summed its
\* allocations before another request's were committed.
OverAllocationNeedsOverlap ==
  [][alloc' # alloc => \A p \in Payment :
       OverAllocated(p)' /\ ~OverAllocated(p) =>
         \E r \in Request :
           /\ loanReq[r].op = "allocate" /\ loanReq[r].payment = p
           /\ loanReq[r].allocated # Allocated(p)]_loanVars

\* A loan with a discharge letter is never active again, however requests overlap: its terms
\* cannot be edited by a request that reads the row after the letter.
DischargedNotActive ==
  \A l \in Loan : loan[l].discharge # 0 => loan[l].status \in {"repaid", "written_off"}

\* The letter's "Immutable once generated", and the principal of a loan no longer active:
\* they change only by a request that decided on a row another request has changed since.
SettledTermsNeedOverlap ==
  [][loan' # loan => \A l \in Loan :
       \/ loan[l].agreement # 0 /\ loan'[l].agreement # loan[l].agreement
       \/ loan[l].discharge # 0 /\ loan'[l].discharge # loan[l].discharge
       \/ loan[l].status \in {"repaid", "written_off"}
            /\ loan'[l].principal # loan[l].principal
       => \E r \in Request :
            /\ loanReq[r].op \in Deciding /\ loanReq[r].loan = l
            /\ loanReq[r].row # loan[l] /\ loanReq'[r] = Idle]_loanVars

\* What was repaid on a loan falls only when an allocation is deleted, or when a payment
\* linked to the loan gets its first allocation to it, which then counts instead.
RepaidFallsOnly ==
  [][alloc' # alloc \/ pay' # pay => \A l \in Loan :
       Repaid(l)' < Repaid(l) =>
         \/ \E a \in AllocationsTo(l) : alloc'[a] = None
         \/ \E p \in LinkedOnly(l), a \in Allocation \ Allocations :
              alloc'[a] # None /\ alloc'[a].payment = p /\ alloc'[a].doc = l]_loanVars
=============================================================================
