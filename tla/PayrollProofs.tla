---------------------------- MODULE PayrollProofs ----------------------------
(***************************************************************************)
(* Proofs about payroll for any number of runs and payments.  The type     *)
(* invariant and the two state properties of Payroll are inductive         *)
(* together: that a number is shared only by a run and its payment rests   *)
(* on which runs have a number at all, and that on the payments never      *)
(* changing once live.                                                     *)
(*                                                                         *)
(* Of PayrollRequests, for any number of requests in any interleaving:     *)
(* what an overlap cannot break, and what it takes to change an issued     *)
(* payslip.  With one request at a time it implements Payroll.             *)
(***************************************************************************)
EXTENDS PayrollRequests, TLAPS

PInv == PayrollTypeOK /\ PaidByItsPayment /\ NumbersNeverCollide

LEMMA PayrollInitial == PayrollInit => PInv
BY LinkAssumption, MaxNumberAssumption
   DEF PayrollInit, PInv, PayrollTypeOK, PaidByItsPayment, NumbersNeverCollide,
       NoRun, NoPay, RunRow, PayRow, RunStatus

-----------------------------------------------------------------------------
(* Numbers and inserts *)

\* The next number of the series is that of no run and no payment.
LEMMA NextIsFresh ==
  ASSUME PayrollTypeOK, NEW n \in 1 .. MaxNumber, NextNumber(n)
  PROVE  /\ n \in 0 .. MaxNumber /\ n # 0
         /\ \A r \in Run : run[r].number # n
         /\ \A p \in Payment : pay[p].number # n
<1>1. n \in Nat /\ n # 0 /\ n \in 0 .. MaxNumber
  BY MaxNumberAssumption
<1>2. \A m \in RunNumbers \cup PaymentNumbers : m < n
  BY DEF NextNumber, Follows
<1>3. \A r \in Run : run[r].number # n
  <2> SUFFICES ASSUME NEW r \in Run, run[r].number = n PROVE FALSE
    OBVIOUS
  <2>1. n \in RunNumbers
    BY <1>1 DEF RunNumbers
  <2> QED
    BY <1>1, <1>2, <2>1
<1>4. \A p \in Payment : pay[p].number # n
  <2> SUFFICES ASSUME NEW p \in Payment, pay[p].number = n PROVE FALSE
    OBVIOUS
  <2>1. n \in PaymentNumbers
    BY <1>1 DEF PaymentNumbers
  <2> QED
    BY <1>1, <1>2, <2>1
<1> QED
  BY <1>1, <1>3, <1>4

\* A new payment keeps the invariant if the run it shares its number with is its own.
LEMMA InsertKeeps ==
  ASSUME PInv, NEW p \in Payment, NEW r \in Run \cup {None, Other},
         NEW a \in Amount \cup {0}, NEW n \in 0 .. MaxNumber,
         n # 0 => \A s \in Run : run[s].number = n => s = r,
         InsertPayment(p, r, a, n)
  PROVE  PInv'
<1>1. /\ UNCHANGED run
      /\ ~pay[p].live
      /\ pay' = [pay EXCEPT ![p] = [live |-> TRUE, run |-> r, amount |-> a, number |-> n]]
  BY DEF InsertPayment
<1>2. PayrollTypeOK'
  BY <1>1 DEF PInv, PayrollTypeOK, PayRow
<1>3. \A s \in Run : run[s].payment # p
  BY <1>1, LinkAssumption DEF PInv, PaidByItsPayment
<1>4. PaidByItsPayment'
  BY <1>1, <1>3 DEF PInv, PaidByItsPayment, PayrollTypeOK, RunRow
<1>5. NumbersNeverCollide'
  BY <1>1 DEF PInv, NumbersNeverCollide, PayrollTypeOK
<1> QED
  BY <1>2, <1>4, <1>5 DEF PInv

\* Paying a finalized run with a live payment of its net salary.
LEMMA PaidKeeps ==
  ASSUME PInv, NEW p \in Payment, NEW r \in Run, pay[p].live, PaysNet(p, r),
         run[r].status = "finalized", WritePaid(r, p),
         \/ UNCHANGED pay
         \/ pay[p].run \in {None, r} /\ pay' = [pay EXCEPT ![p].run = r]
  PROVE  PInv'
<1>1. run' = [run EXCEPT ![r].status = "paid", ![r].payment = p]
  BY DEF WritePaid
<1>2. PayrollTypeOK'
  <2>1. run' \in [Run -> RunRow]
    <3>1. run \in [Run -> RunRow]
      BY DEF PInv, PayrollTypeOK
    <3>2. [run[r] EXCEPT !.status = "paid", !.payment = p] \in RunRow
      BY <3>1 DEF RunRow, RunStatus
    <3>3. run' = [run EXCEPT ![r] = [run[r] EXCEPT !.status = "paid", !.payment = p]]
      BY <1>1, <3>1 DEF RunRow
    <3> QED
      BY <3>1, <3>2, <3>3
  <2>2. pay' \in [Payment -> PayRow]
    BY DEF PInv, PayrollTypeOK, PayRow
  <2> QED
    BY <2>1, <2>2 DEF PayrollTypeOK
<1>3. /\ \A s \in Run : run'[s].number = run[s].number /\ run'[s].net = run[s].net
      /\ \A s \in Run \ {r} : run'[s] = run[s]
      /\ run'[r].status = "paid" /\ run'[r].payment = p
  BY <1>1 DEF PInv, PayrollTypeOK, RunRow
<1>4. /\ \A q \in Payment : /\ pay'[q].live = pay[q].live
                            /\ pay'[q].amount = pay[q].amount
                            /\ pay'[q].number = pay[q].number
      /\ \A q \in Payment \ {p} : pay'[q] = pay[q]
      /\ pay'[p].run = pay[p].run \/ (pay[p].run \in {None, r} /\ pay'[p].run = r)
  BY DEF PInv, PayrollTypeOK, PayRow
<1>5. PaidByItsPayment'
  <2> SUFFICES ASSUME NEW s \in Run
               PROVE  /\ run'[s].payment # None <=> run'[s].status = "paid"
                      /\ run'[s].number # 0 <=> run'[s].status \in {"finalized", "paid"}
                      /\ run'[s].payment # None =>
                           /\ pay'[run'[s].payment].live
                           /\ pay'[run'[s].payment].amount = run'[s].net
    BY DEF PaidByItsPayment
  <2>1. CASE s = r
    BY <2>1, <1>3, <1>4, LinkAssumption DEF PInv, PaidByItsPayment, PaysNet
  <2>2. CASE s # r
    <3>1. run[s].payment \in Payment \cup {None}
      BY DEF PInv, PayrollTypeOK, RunRow
    <3> QED
      BY <2>2, <3>1, <1>3, <1>4 DEF PInv, PaidByItsPayment
  <2> QED
    BY <2>1, <2>2
<1>6. NumbersNeverCollide'
  <2>1. \A s \in Run, q \in Payment :
          run[s].number = pay[q].number /\ run[s].number # 0 => pay[q].run = s
    BY DEF PInv, NumbersNeverCollide
  <2>2. \A s \in Run, q \in Payment :
          run'[s].number = pay'[q].number /\ run'[s].number # 0 => pay'[q].run = s
    BY <2>1, <1>3, <1>4, LinkAssumption
  <2> QED
    BY <2>2, <1>3 DEF PInv, NumbersNeverCollide
<1> QED
  BY <1>2, <1>5, <1>6 DEF PInv

-----------------------------------------------------------------------------
(* Every step keeps the invariant *)

LEMMA RunSteps == PInv /\ RunNext => PInv'
<1> SUFFICES ASSUME PInv, NEW r \in Run,
                    \/ \E net \in Amount : CreateRun(r, net) \/ UpdateRun(r, net)
                    \/ ReviewRun(r)
                    \/ FinalizeRun(r)
                    \/ \E p \in Payment : MarkRunPaid(r, p)
                    \/ DeleteRun(r)
             PROVE  PInv'
  BY DEF RunNext
<1> USE LinkAssumption, MaxNumberAssumption
<1>1. ASSUME NEW net \in Amount, CreateRun(r, net) PROVE PInv'
  <2>1. PayrollTypeOK'
    BY <1>1 DEF CreateRun, PInv, PayrollTypeOK, RunRow, RunStatus
  <2>2. /\ UNCHANGED pay
        /\ \A s \in Run : /\ run'[s].number = run[s].number
                          /\ run'[s].payment = run[s].payment
                          /\ s # r => run'[s] = run[s]
        /\ run[r].status = "absent" /\ run'[r].status = "draft"
    BY <1>1 DEF CreateRun, PInv, PayrollTypeOK, RunRow
  <2>3. PaidByItsPayment'
    BY <2>2 DEF PInv, PaidByItsPayment
  <2>4. NumbersNeverCollide'
    BY <2>2 DEF PInv, NumbersNeverCollide
  <2> QED
    BY <2>1, <2>3, <2>4 DEF PInv
<1>2. ASSUME NEW net \in Amount, UpdateRun(r, net) PROVE PInv'
  BY <1>2 DEF UpdateRun, EditableRun, PInv, PayrollTypeOK, PaidByItsPayment,
              NumbersNeverCollide, RunRow, RunStatus
<1>3. CASE ReviewRun(r)
  BY <1>3 DEF ReviewRun, PInv, PayrollTypeOK, PaidByItsPayment, NumbersNeverCollide,
              RunRow, RunStatus
<1>4. CASE FinalizeRun(r)
  <2>1. PICK n \in 1 .. MaxNumber : NextNumber(n) /\ WriteFinal(r, n)
    BY <1>4 DEF FinalizeRun
  <2>2. /\ n \in 0 .. MaxNumber /\ n # 0
        /\ \A s \in Run : run[s].number # n
        /\ \A p \in Payment : pay[p].number # n
    BY <2>1, NextIsFresh DEF PInv
  <2>3. run[r].number = 0 /\ run[r].payment = None
    BY <1>4 DEF FinalizeRun, PInv, PaidByItsPayment
  <2>4. /\ run' = [run EXCEPT ![r].status = "finalized", ![r].number = n]
        /\ UNCHANGED pay
    BY <2>1, <2>3 DEF WriteFinal, PInv, PayrollTypeOK, RunRow
  <2>5. PayrollTypeOK'
    BY <2>2, <2>4 DEF PInv, PayrollTypeOK, RunRow, RunStatus
  <2>6. PaidByItsPayment'
    BY <2>2, <2>3, <2>4 DEF PInv, PayrollTypeOK, PaidByItsPayment, RunRow
  <2>7. NumbersNeverCollide'
    BY <2>2, <2>4 DEF PInv, PayrollTypeOK, NumbersNeverCollide, RunRow
  <2> QED
    BY <2>5, <2>6, <2>7 DEF PInv
<1>5. ASSUME NEW p \in Payment, MarkRunPaid(r, p) PROVE PInv'
  BY <1>5, PaidKeeps DEF MarkRunPaid
<1>6. CASE DeleteRun(r)
  <2>1. /\ run' = [run EXCEPT ![r] = NoRun]
        /\ pay' = [p \in Payment |->
             IF pay[p].run = r THEN [pay[p] EXCEPT !.run = Other] ELSE pay[p]]
    BY <1>6 DEF DeleteRun, WriteDelete
  <2>2. PayrollTypeOK'
    BY <2>1 DEF PInv, PayrollTypeOK, RunRow, RunStatus, PayRow, NoRun
  <2>3. /\ run'[r] = NoRun
        /\ \A s \in Run \ {r} : run'[s] = run[s]
    BY <2>1 DEF PInv, PayrollTypeOK
  <2>4. \A p \in Payment : /\ pay'[p].live = pay[p].live
                           /\ pay'[p].amount = pay[p].amount
                           /\ pay'[p].number = pay[p].number
                           /\ pay[p].run # r => pay'[p].run = pay[p].run
    BY <2>1 DEF PInv, PayrollTypeOK, PayRow
  <2>5. PaidByItsPayment'
    <3>1. \A s \in Run : run[s].payment \in Payment \cup {None}
      BY DEF PInv, PayrollTypeOK, RunRow
    <3> QED
      BY <2>3, <2>4, <3>1 DEF PInv, PaidByItsPayment, NoRun
  <2>6. NumbersNeverCollide'
    BY <2>3, <2>4 DEF PInv, NumbersNeverCollide, NoRun
  <2> QED
    BY <2>2, <2>5, <2>6 DEF PInv
<1> QED
  BY <1>1, <1>2, <1>3, <1>4, <1>5, <1>6

LEMMA PaySteps == PInv /\ PayNext => PInv'
<1> SUFFICES ASSUME PInv, NEW p \in Payment,
                    \/ \E r \in Run \cup {None, Other}, a \in Amount : RecordPayment(p, r, a)
                    \/ \E r \in Run : PayRun(p, r) \/ LinkRun(p, r)
                    \/ LinkElsewhere(p)
             PROVE  PInv'
  BY DEF PayNext
<1>1. ASSUME NEW r \in Run \cup {None, Other}, NEW a \in Amount, RecordPayment(p, r, a)
      PROVE  PInv'
  <2>1. PICK n \in 0 .. MaxNumber : Reference(r, n) /\ InsertPayment(p, r, a, n)
    BY <1>1 DEF RecordPayment
  <2>2. n # 0 => \A s \in Run : run[s].number = n => s = r
    <3>1. CASE r \in Run /\ run[r].number # 0 /\ n = run[r].number
      BY <3>1 DEF PInv, NumbersNeverCollide
    <3>2. CASE NextNumber(n) /\ n # 0
      <4>1. n \in 1 .. MaxNumber
        BY <3>2 DEF NextNumber, Follows
      <4> QED
        BY <3>2, <4>1, NextIsFresh DEF PInv
    <3> QED
      BY <2>1, <3>1, <3>2 DEF Reference
  <2> QED
    BY <2>1, <2>2, InsertKeeps
<1>2. ASSUME NEW r \in Run, PayRun(p, r) PROVE PInv'
  <2>1. run[r].net \in Amount \cup {0} /\ run[r].number \in 0 .. MaxNumber
    BY DEF PInv, PayrollTypeOK, RunRow
  <2>2. run[r].number # 0 => \A s \in Run : run[s].number = run[r].number => s = r
    BY DEF PInv, NumbersNeverCollide
  <2> QED
    BY <1>2, <2>1, <2>2, InsertKeeps DEF PayRun
<1>3. ASSUME NEW r \in Run, LinkRun(p, r) PROVE PInv'
  BY <1>3, PaidKeeps DEF LinkRun
<1>4. CASE LinkElsewhere(p)
  <2>1. /\ UNCHANGED run /\ pay[p].run = None
        /\ pay' = [pay EXCEPT ![p].run = Other]
    BY <1>4 DEF LinkElsewhere
  <2>2. PayrollTypeOK'
    BY <2>1 DEF PInv, PayrollTypeOK, PayRow
  <2>3. \A q \in Payment : /\ pay'[q].live = pay[q].live
                           /\ pay'[q].amount = pay[q].amount
                           /\ pay'[q].number = pay[q].number
                           /\ q # p => pay'[q] = pay[q]
    BY <2>1 DEF PInv, PayrollTypeOK, PayRow
  <2>4. PaidByItsPayment'
    <3>1. \A s \in Run : run[s].payment \in Payment \cup {None}
      BY DEF PInv, PayrollTypeOK, RunRow
    <3> QED
      BY <2>1, <2>3, <3>1 DEF PInv, PaidByItsPayment
  <2>5. NumbersNeverCollide'
    BY <2>1, <2>3, LinkAssumption DEF PInv, NumbersNeverCollide
  <2> QED
    BY <2>2, <2>4, <2>5 DEF PInv
<1> QED
  BY <1>1, <1>2, <1>3, <1>4

LEMMA PayrollStep == PInv /\ [PayrollNext]_payrollVars => PInv'
<1>1. PInv /\ UNCHANGED payrollVars => PInv'
  BY DEF payrollVars, PInv, PayrollTypeOK, PaidByItsPayment, NumbersNeverCollide
<1> QED
  BY <1>1, RunSteps, PaySteps DEF PayrollNext

\* The inductive invariant of the payroll handlers.
THEOREM PayrollInvariance == PayrollSpec => []PInv
BY PayrollInitial, PayrollStep, PTL DEF PayrollSpec

\* Every reachable state of runs and payments is well typed.
THEOREM PayrollTypeCorrect == PayrollSpec => []PayrollTypeOK
<1>1. PInv => PayrollTypeOK
  BY DEF PInv
<1> QED
  BY <1>1, PayrollInvariance, PTL

\* A paid run, and no other, has a payment, of its net salary; numbers come with finalization.
THEOREM PaidByItsPaymentHolds == PayrollSpec => []PaidByItsPayment
<1>1. PInv => PaidByItsPayment
  BY DEF PInv
<1> QED
  BY <1>1, PayrollInvariance, PTL

\* One series over two tables: a run shares its payslip number only with its own payment.
THEOREM NumbersNeverCollideHolds == PayrollSpec => []NumbersNeverCollide
<1>1. PInv => NumbersNeverCollide
  BY DEF PInv
<1> QED
  BY <1>1, PayrollInvariance, PTL

-----------------------------------------------------------------------------
(* What a step may not do *)

\* The action of PayslipFinal.
FinalKept ==
  \A r \in Run :
    /\ run[r].status = "finalized" =>
         \/ run'[r] = NoRun
         \/ run'[r].number = run[r].number /\ run'[r].net = run[r].net
    /\ run[r].status = "paid" => run'[r] = run[r]

LEMMA FinalStep == PInv /\ [PayrollNext]_payrollVars => FinalKept
<1> SUFFICES ASSUME PInv, [PayrollNext]_payrollVars PROVE FinalKept
  OBVIOUS
<1>1. run \in [Run -> RunRow]
  BY DEF PInv, PayrollTypeOK
<1>2. CASE UNCHANGED run
  BY <1>2 DEF FinalKept
<1>3. ASSUME NEW r \in Run, NEW p \in Payment, run[r].status = "finalized", WritePaid(r, p)
      PROVE  FinalKept
  BY <1>1, <1>3 DEF WritePaid, FinalKept, RunRow
<1>4. ASSUME NEW r \in Run, NEW net \in Amount, CreateRun(r, net) \/ UpdateRun(r, net)
      PROVE  FinalKept
  BY <1>1, <1>4 DEF CreateRun, UpdateRun, EditableRun, FinalKept, RunRow
<1>5. ASSUME NEW r \in Run, ReviewRun(r) \/ FinalizeRun(r) PROVE FinalKept
  BY <1>1, <1>5 DEF ReviewRun, FinalizeRun, WriteFinal, FinalKept, RunRow
<1>6. ASSUME NEW r \in Run, DeleteRun(r) PROVE FinalKept
  BY <1>1, <1>6 DEF DeleteRun, DeletableRun, WriteDelete, FinalKept
<1>7. CASE RunNext
  BY <1>3, <1>4, <1>5, <1>6, <1>7 DEF RunNext, MarkRunPaid
<1>8. CASE PayNext
  BY <1>2, <1>3, <1>8 DEF PayNext, RecordPayment, InsertPayment, PayRun, LinkRun, LinkElsewhere
<1> QED
  BY <1>2, <1>7, <1>8 DEF PayrollNext, payrollVars

\* An issued payslip keeps its number and amount, and a paid run stays as it is.
THEOREM PayslipFinalHolds == PayrollSpec => PayslipFinal
<1>1. PInv /\ [PayrollNext]_payrollVars => [FinalKept]_payrollVars
  BY FinalStep
<1>2. PayrollInit /\ [][PayrollNext]_payrollVars => []PInv
  BY PayrollInitial, PayrollStep, PTL
<1>3. PayrollSpec => [][FinalKept]_payrollVars
  BY <1>1, <1>2, PTL DEF PayrollSpec
<1> QED
  BY <1>3 DEF PayslipFinal, FinalKept

-----------------------------------------------------------------------------
(* Payroll handlers run by concurrent requests.  Whatever they overlap in, the two numbers of
   a table differ, and a run that was paid was paid by a live payment of its net salary.  The
   invariant says what a request in progress still has of the rows it loaded: a run that was
   reviewed is not edited any more, and a live payment keeps its amount. *)

RequestRow ==
  [pc : {"loaded", "allocated"}, op : {"finalize", "delete", "mark_paid", "record", "link"},
   run : Run \cup {None, Other}, payment : Payment \cup {None}, amount : Amount \cup {0},
   number : 0 .. MaxNumber]

RequestsTyped == PayrollTypeOK /\ req \in [Request -> {Idle} \cup RequestRow]

Closed == {"reviewed", "finalized", "paid"}
Issued(r) == run[r].status \in {"finalized", "paid"}

\* A payslip number comes with finalization; what a run was paid with is live and of its net.
PayslipsSound ==
  \A r \in Run :
    /\ run[r].number # 0 <=> Issued(r)
    /\ run[r].status = "paid" => run[r].payment # None
    /\ run[r].payment # None =>
         Issued(r) /\ pay[run[r].payment].live /\ pay[run[r].payment].amount = run[r].net

\* What the two unique indexes promise.
NumbersUnique ==
  /\ \A r, s \in Run : run[r].number = run[s].number /\ run[r].number # 0 => r = s
  /\ \A p, o \in Payment : pay[p].number = pay[o].number /\ pay[p].number # 0 => p = o

\* What a request in progress, loaded as req, has of the rows by now.
Pending(row) ==
  LET r == row.run
      p == row.payment IN
  /\ row.op = "finalize" => r \in Run /\ run[r].status \in Closed
  /\ row.op = "delete" => r \in Run /\ run[r].status # "absent"
  /\ row.op = "mark_paid" =>
       r \in Run /\ Issued(r) /\ p \in Payment /\ pay[p].live /\ PaysNet(p, r)
  /\ row.op = "link" =>
       /\ r \in Run \cup {Other} /\ p \in Payment /\ pay[p].live
       /\ r \in Run => Issued(r) /\ PaysNet(p, r)
  /\ row.op = "record" => p \in Payment /\ (r \in Run => run[r].status # "absent")

PRInv ==
  /\ RequestsTyped /\ PayslipsSound /\ NumbersUnique
  /\ \A q \in Request : req[q] # Idle => Pending(req[q])

LEMMA RequestsInitial == PRInit => PRInv
BY LinkAssumption, MaxNumberAssumption
   DEF PRInit, PayrollInit, PRInv, RequestsTyped, PayrollTypeOK, PayslipsSound, NumbersUnique,
       Issued, NoRun, NoPay, RunRow, PayRow, RunStatus

-----------------------------------------------------------------------------
(* What a step leaves of the rows *)

\* No way back from a status, short of deletion, and no edit of the net once issued.
Advances(r) ==
  /\ run[r].status # "absent" => run'[r].status # "absent"
  /\ run[r].status \in Closed => run'[r].status \in Closed
  /\ Issued(r) => run'[r].status \in {"finalized", "paid"} /\ run'[r].net = run[r].net

PaymentsKept == \A p \in Payment : pay[p].live => pay'[p].live /\ pay'[p].amount = pay[p].amount

LEMMA PendingKept ==
  ASSUME NEW row \in RequestRow, Pending(row), PaymentsKept,
         \A r \in Run : row.run = r => Advances(r)
  PROVE  Pending(row)'
BY DEF Pending, PaymentsKept, Advances, Issued, PaysNet

LEMMA RequestFields ==
  ASSUME RequestsTyped, NEW q \in Request, req[q].pc # "idle"
  PROVE  req[q] \in RequestRow /\ req[q] # Idle
BY DEF RequestsTyped, Idle

\* A step that ends a request or replaces what it holds, the others going on.
LEMMA RequestReplaced ==
  ASSUME PRInv, NEW q \in Request, NEW v \in {Idle} \cup RequestRow,
         req' = [req EXCEPT ![q] = v], v # Idle => Pending(v)',
         PayrollTypeOK', PayslipsSound', NumbersUnique', PaymentsKept,
         \A r \in Run : Advances(r)
  PROVE  PRInv'
<1>1. req'[q] = v /\ \A x \in Request \ {q} : req'[x] = req[x]
  BY DEF PRInv, RequestsTyped
<1>2. req' \in [Request -> {Idle} \cup RequestRow]
  BY DEF PRInv, RequestsTyped
<1>3. ASSUME NEW x \in Request \ {q}, req[x] # Idle PROVE Pending(req[x])'
  <2>1. req[x] \in RequestRow /\ Pending(req[x])
    BY <1>3 DEF PRInv, RequestsTyped
  <2> QED
    BY <1>1, <2>1 DEF Pending, PaymentsKept, Advances, Issued, PaysNet
<1> QED
  BY <1>1, <1>2, <1>3 DEF PRInv, RequestsTyped

\* A step that leaves a row as it was, and one that leaves them all.
LEMMA RowKept == ASSUME NEW r \in Run, run'[r] = run[r] PROVE Advances(r)
BY DEF Advances, Issued

LEMMA RowsKept ==
  ASSUME PRInv, UNCHANGED payrollVars
  PROVE  /\ PayrollTypeOK' /\ PayslipsSound' /\ NumbersUnique' /\ PaymentsKept
         /\ \A r \in Run : Advances(r)
BY RowKept
   DEF payrollVars, PRInv, RequestsTyped, PayrollTypeOK, PayslipsSound, NumbersUnique, Issued,
       PaymentsKept

\* A run before its finalization has no number and no payment, so that its edits keep both.
LEMMA EditKept ==
  ASSUME PayrollTypeOK, NEW r \in Run, AloneRun(r)
  PROVE  /\ UNCHANGED pay /\ run' \in [Run -> RunRow]
         /\ \A s \in Run \ {r} : run'[s] = run[s]
         /\ run[r].status \in {"absent", "draft"} /\ run'[r].status \in {"draft", "reviewed"}
         /\ run'[r].number = run[r].number /\ run'[r].payment = run[r].payment
<1>1. run \in [Run -> RunRow]
  BY DEF PayrollTypeOK
<1>2. PICK net \in Amount : CreateRun(r, net) \/ UpdateRun(r, net) \/ ReviewRun(r)
  BY DEF AloneRun
<1>3. CASE CreateRun(r, net)
  BY <1>1, <1>3 DEF CreateRun, RunRow, RunStatus
<1>4. CASE UpdateRun(r, net)
  BY <1>1, <1>4 DEF UpdateRun, EditableRun, RunRow, RunStatus
<1>5. CASE ReviewRun(r)
  BY <1>1, <1>5 DEF ReviewRun, RunRow, RunStatus
<1> QED
  BY <1>2, <1>3, <1>4, <1>5

-----------------------------------------------------------------------------
(* Every step keeps the invariant *)

LEMMA EditStep == ASSUME PRInv, NEW r \in Run, AloneRun(r), UNCHANGED req PROVE PRInv'
<1>1. /\ UNCHANGED pay /\ run' \in [Run -> RunRow]
      /\ \A s \in Run \ {r} : run'[s] = run[s]
      /\ run[r].status \in {"absent", "draft"} /\ run'[r].status \in {"draft", "reviewed"}
      /\ run'[r].number = run[r].number /\ run'[r].payment = run[r].payment
  BY EditKept DEF PRInv, RequestsTyped
<1>2. PayrollTypeOK' /\ PaymentsKept
  BY <1>1 DEF PRInv, RequestsTyped, PayrollTypeOK, PaymentsKept
<1>3. PayslipsSound'
  <2>1. run[r].number = 0 /\ run[r].payment = None
    BY <1>1 DEF PRInv, PayslipsSound, Issued
  <2> QED
    BY <1>1, <2>1 DEF PRInv, PayslipsSound, Issued
<1>4. NumbersUnique'
  BY <1>1 DEF PRInv, NumbersUnique
<1>5. \A s \in Run : Advances(s)
  <2>1. Advances(r)
    BY <1>1 DEF Advances, Issued, Closed
  <2> QED
    BY <1>1, <2>1, RowKept
<1>6. ASSUME NEW q \in Request, req[q] # Idle PROVE Pending(req[q])'
  BY <1>2, <1>5, <1>6 DEF PRInv, RequestsTyped, Pending, PaymentsKept, Advances, Issued, PaysNet
<1> QED
  BY <1>2, <1>3, <1>4, <1>6 DEF PRInv, RequestsTyped

\* What a request takes up.
LEMMA LoadStep ==
  ASSUME PRInv, NEW q \in Request,
         NEW op \in {"finalize", "delete", "mark_paid", "record", "link"},
         NEW r \in Run \cup {None, Other}, NEW p \in Payment \cup {None},
         NEW a \in Amount \cup {0}, NEW n \in 0 .. MaxNumber,
         Load(q, op, r, p, a, n),
         Pending([pc |-> "loaded", op |-> op, run |-> r, payment |-> p, amount |-> a,
                  number |-> n])
  PROVE  PRInv'
<1> DEFINE v == [pc |-> "loaded", op |-> op, run |-> r, payment |-> p, amount |-> a, number |-> n]
<1>1. v \in RequestRow
  BY DEF RequestRow
<1>2. req' = [req EXCEPT ![q] = v] /\ UNCHANGED payrollVars
  BY DEF Load
<1>3. Pending(v)'
  BY <1>2 DEF Pending, payrollVars, Issued, PaysNet
<1> HIDE DEF v
<1> QED
  BY <1>1, <1>2, <1>3, RowsKept, RequestReplaced

LEMMA LoadRunStep == ASSUME PRInv, NEW q \in Request, NEW r \in Run, LoadRun(q, r) PROVE PRInv'
<1>1. run[r].number \in 0 .. MaxNumber /\ 0 \in 0 .. MaxNumber /\ run[r].status \in RunStatus
  BY MaxNumberAssumption DEF PRInv, RequestsTyped, PayrollTypeOK, RunRow
<1>2. CASE run[r].status = "reviewed" /\ Load(q, "finalize", r, None, 0, run[r].number)
  BY <1>1, <1>2, LoadStep DEF Pending, Closed
<1>3. CASE DeletableRun(r) /\ Load(q, "delete", r, None, 0, 0)
  BY <1>1, <1>3, LoadStep DEF Pending, DeletableRun
<1>4. ASSUME NEW p \in Payment, pay[p].live, PaysNet(p, r), run[r].status = "finalized",
             Load(q, "mark_paid", r, p, 0, 0)
      PROVE  PRInv'
  BY <1>1, <1>4, LoadStep DEF Pending, Issued
<1> QED
  BY <1>2, <1>3, <1>4 DEF LoadRun

LEMMA LoadPaymentStep ==
  ASSUME PRInv, NEW q \in Request, NEW p \in Payment, LoadPayment(q, p) PROVE PRInv'
<1>1. \A r \in Run : run[r].number \in 0 .. MaxNumber /\ run[r].net \in Amount \cup {0}
  BY DEF PRInv, RequestsTyped, PayrollTypeOK, RunRow
<1>2. PICK r \in Run \cup {None, Other}, a \in Amount \cup {0} :
        /\ r \in Run => run[r].status # "absent"
        /\ Load(q, "record", r, p, a, IF r \in Run THEN run[r].number ELSE 0)
  <2>1. CASE \E r \in Run \cup {None, Other}, a \in Amount :
               /\ r \in Run => run[r].status # "absent"
               /\ Load(q, "record", r, p, a, IF r \in Run THEN run[r].number ELSE 0)
    BY <2>1
  <2>2. ASSUME NEW r \in Run, run[r].status = "finalized",
               Load(q, "record", r, p, run[r].net, run[r].number)
        PROVE  Load(q, "record", r, p, run[r].net, IF r \in Run THEN run[r].number ELSE 0)
    BY <2>2
  <2> QED
    BY <1>1, <2>1, <2>2 DEF LoadPayment
<1>3. (IF r \in Run THEN run[r].number ELSE 0) \in 0 .. MaxNumber
  BY <1>1, MaxNumberAssumption
<1> QED
  BY <1>2, <1>3, LoadStep DEF Pending

LEMMA LoadLinkStep ==
  ASSUME PRInv, NEW q \in Request, NEW p \in Payment, LoadLink(q, p) PROVE PRInv'
<1>1. 0 \in 0 .. MaxNumber
  BY MaxNumberAssumption
<1>2. CASE pay[p].live /\ Load(q, "link", Other, p, 0, 0)
  BY <1>1, <1>2, LoadStep, LinkAssumption DEF Pending
<1>3. ASSUME NEW r \in Run, NEW op \in {"link", "mark_paid"}, pay[p].live,
             run[r].status = "finalized", PaysNet(p, r), Load(q, op, r, p, 0, 0)
      PROVE  PRInv'
  BY <1>1, <1>3, LoadStep DEF Pending, Issued
<1> QED
  BY <1>2, <1>3 DEF LoadLink

LEMMA AllocateStep == ASSUME PRInv, NEW q \in Request, Allocate(q) PROVE PRInv'
<1>1. PICK n \in 1 .. MaxNumber : req' = [req EXCEPT ![q].pc = "allocated", ![q].number = n]
  BY DEF Allocate
<1>2. UNCHANGED payrollVars /\ req[q] \in RequestRow /\ Pending(req[q])
  BY RequestFields DEF Allocate, PRInv
<1>3. n \in 0 .. MaxNumber
  BY MaxNumberAssumption
<1>4. PICK v \in RequestRow :
        /\ v = [req[q] EXCEPT !.pc = "allocated", !.number = n]
        /\ v.op = req[q].op /\ v.run = req[q].run /\ v.payment = req[q].payment
  <2>1. [req[q] EXCEPT !.pc = "allocated", !.number = n] \in RequestRow
    BY <1>2, <1>3 DEF RequestRow
  <2> QED
    BY <1>2, <2>1 DEF RequestRow
<1>5. req' = [req EXCEPT ![q] = v]
  BY <1>1, <1>4
<1>6. Pending(v)'
  BY <1>2, <1>4 DEF Pending, payrollVars, Issued, PaysNet
<1> QED
  BY <1>2, <1>5, <1>6, RowsKept, RequestReplaced

\* What the handlers write of a run that is still there.
LEMMA FinalWritten ==
  ASSUME PRInv, NEW q \in Request, req[q].pc \in {"loaded", "allocated"}, FinishFinalize(q)
  PROVE  \E r \in Run, n \in 1 .. MaxNumber :
           /\ r = req[q].run /\ run[r].status \in Closed /\ \A s \in Run \ {r} : run[s].number # n
           /\ UNCHANGED pay /\ run' \in [Run -> RunRow]
           /\ run'[r].status = "finalized" /\ run'[r].number = n
           /\ run'[r].net = run[r].net /\ run'[r].payment = run[r].payment
           /\ \A s \in Run \ {r} : run'[s] = run[s]
<1>1. PICK r \in Run : r = req[q].run /\ run[r].status \in Closed
  BY RequestFields DEF FinishFinalize, PRInv, Pending
<1>2. PICK n \in 1 .. MaxNumber : n = req[q].number /\ \A s \in Run \ {r} : run[s].number # n
  BY <1>1, RequestFields, MaxNumberAssumption DEF FinishFinalize, PRInv, RequestRow
<1>3. n \in 0 .. MaxNumber
  BY MaxNumberAssumption
<1>4. /\ UNCHANGED pay
      /\ run' = [run EXCEPT ![r] = [run[r] EXCEPT !.status = "finalized", !.number = n]]
  BY <1>1, <1>2 DEF FinishFinalize
<1>5. /\ run \in [Run -> RunRow]
      /\ [run[r] EXCEPT !.status = "finalized", !.number = n] \in RunRow
  BY <1>3 DEF PRInv, RequestsTyped, PayrollTypeOK, RunRow, RunStatus
<1>6. /\ run' \in [Run -> RunRow] /\ run'[r].status = "finalized" /\ run'[r].number = n
      /\ run'[r].net = run[r].net /\ run'[r].payment = run[r].payment
      /\ \A s \in Run \ {r} : run'[s] = run[s]
  BY <1>4, <1>5 DEF RunRow
<1> QED
  BY <1>1, <1>2, <1>4, <1>6

LEMMA PaidWritten ==
  ASSUME PRInv, NEW q \in Request, req[q].pc \in {"loaded", "allocated"},
         req[q].op \in {"mark_paid", "link"}, req[q].run # Other,
         WritePaid(req[q].run, req[q].payment)
  PROVE  \E r \in Run, p \in Payment :
           /\ r = req[q].run /\ p = req[q].payment /\ Issued(r) /\ pay[p].live /\ PaysNet(p, r)
           /\ run' \in [Run -> RunRow] /\ run'[r].status = "paid" /\ run'[r].payment = p
           /\ run'[r].net = run[r].net /\ run'[r].number = run[r].number
           /\ \A s \in Run \ {r} : run'[s] = run[s]
<1>1. PICK r \in Run, p \in Payment :
        /\ r = req[q].run /\ p = req[q].payment
        /\ Issued(r) /\ pay[p].live /\ PaysNet(p, r)
  BY RequestFields DEF PRInv, Pending
<1>2. run' = [run EXCEPT ![r] = [run[r] EXCEPT !.status = "paid", !.payment = p]]
  BY <1>1 DEF WritePaid
<1>3. run \in [Run -> RunRow] /\ [run[r] EXCEPT !.status = "paid", !.payment = p] \in RunRow
  BY DEF PRInv, RequestsTyped, PayrollTypeOK, RunRow, RunStatus
<1>4. /\ run' \in [Run -> RunRow] /\ run'[r].status = "paid" /\ run'[r].payment = p
      /\ run'[r].net = run[r].net /\ run'[r].number = run[r].number
      /\ \A s \in Run \ {r} : run'[s] = run[s]
  BY <1>2, <1>3 DEF RunRow
<1> QED
  BY <1>1, <1>4

LEMMA FinalizeStep ==
  ASSUME PRInv, NEW q \in Request, req[q].pc \in {"loaded", "allocated"}, FinishFinalize(q),
         req' = [req EXCEPT ![q] = Idle]
  PROVE  PRInv'
<1>1. PICK r \in Run, n \in 1 .. MaxNumber :
        /\ r = req[q].run /\ run[r].status \in Closed /\ \A s \in Run \ {r} : run[s].number # n
        /\ UNCHANGED pay /\ run' \in [Run -> RunRow]
        /\ run'[r].status = "finalized" /\ run'[r].number = n
        /\ run'[r].net = run[r].net /\ run'[r].payment = run[r].payment
        /\ \A s \in Run \ {r} : run'[s] = run[s]
  BY FinalWritten
<1>2. PayrollTypeOK' /\ PaymentsKept /\ n # 0
  BY <1>1, MaxNumberAssumption DEF PRInv, RequestsTyped, PayrollTypeOK, PaymentsKept
<1>3. PayslipsSound'
  BY <1>1, <1>2 DEF PRInv, PayslipsSound, Issued
<1>4. NumbersUnique'
  BY <1>1 DEF PRInv, NumbersUnique
<1>5. \A s \in Run : Advances(s)
  BY <1>1, RowKept DEF Advances, Closed
<1> QED
  BY <1>2, <1>3, <1>4, <1>5, RequestReplaced

LEMMA RecordStep ==
  ASSUME PRInv, NEW q \in Request, req[q].pc \in {"loaded", "allocated"}, FinishRecord(q),
         req' = [req EXCEPT ![q] = Idle]
  PROVE  PRInv'
<1> DEFINE n == req[q].number
           row == [live |-> TRUE, run |-> req[q].run, amount |-> req[q].amount, number |-> n]
<1>1. PICK p \in Payment : p = req[q].payment
  BY RequestFields DEF FinishRecord, PRInv, Pending
<1>2. row \in PayRow
  BY RequestFields DEF FinishRecord, PRInv, RequestRow, PayRow
<1>3. ~pay[p].live /\ NumberFree(n) /\ pay' = [pay EXCEPT ![p] = row] /\ UNCHANGED run
  BY <1>1 DEF FinishRecord, InsertPayment
<1>4. row.live = TRUE /\ row.number = n
  OBVIOUS
<1> HIDE DEF row, n
<1>5. /\ PayrollTypeOK' /\ PaymentsKept
      /\ pay'[p] = row /\ \A o \in Payment \ {p} : pay'[o] = pay[o]
  BY <1>2, <1>3 DEF PRInv, RequestsTyped, PayrollTypeOK, PaymentsKept
<1>6. PayslipsSound'
  <2>1. \A r \in Run : run[r].payment # None => run[r].payment \in Payment \ {p}
    BY <1>3 DEF PRInv, PayslipsSound, RequestsTyped, PayrollTypeOK, RunRow
  <2> QED
    BY <1>3, <1>5, <2>1 DEF PRInv, PayslipsSound, Issued
<1>7. NumbersUnique'
  <2>1. n # 0 => \A o \in Payment : pay[o].number # n
    BY <1>3 DEF NumberFree, PaymentNumbers
  <2> QED
    BY <1>3, <1>4, <1>5, <2>1 DEF PRInv, NumbersUnique
<1>8. \A s \in Run : Advances(s)
  BY <1>3, RowKept
<1> QED
  BY <1>5, <1>6, <1>7, <1>8, RequestReplaced

\* A payment may be linked while its run is paid, and stays the same otherwise.
LEMMA PaidStep ==
  ASSUME PRInv, NEW q \in Request, req[q].pc \in {"loaded", "allocated"},
         req[q].op \in {"mark_paid", "link"}, req[q].run # Other,
         WritePaid(req[q].run, req[q].payment),
         pay' \in [Payment -> PayRow],
         \A o \in Payment : /\ pay'[o].live = pay[o].live /\ pay'[o].amount = pay[o].amount
                            /\ pay'[o].number = pay[o].number,
         req' = [req EXCEPT ![q] = Idle]
  PROVE  PRInv'
<1>1. PICK r \in Run, p \in Payment :
        /\ Issued(r) /\ pay[p].live /\ PaysNet(p, r)
        /\ run' \in [Run -> RunRow] /\ run'[r].status = "paid" /\ run'[r].payment = p
        /\ run'[r].net = run[r].net /\ run'[r].number = run[r].number
        /\ \A s \in Run \ {r} : run'[s] = run[s]
  BY PaidWritten
<1>2. PayrollTypeOK' /\ PaymentsKept
  BY <1>1 DEF PRInv, RequestsTyped, PayrollTypeOK, PaymentsKept
<1>3. PayslipsSound'
  <2>1. \A s \in Run : run[s].payment \in Payment \cup {None}
    BY DEF PRInv, RequestsTyped, PayrollTypeOK, RunRow
  <2> QED
    BY <1>1, <2>1, LinkAssumption DEF PRInv, PayslipsSound, Issued, PaysNet
<1>4. NumbersUnique'
  BY <1>1 DEF PRInv, NumbersUnique
<1>5. \A s \in Run : Advances(s)
  BY <1>1, RowKept DEF Advances, Closed, Issued
<1> QED
  BY <1>2, <1>3, <1>4, <1>5, RequestReplaced

LEMMA LinkStep ==
  ASSUME PRInv, NEW q \in Request, req[q].pc \in {"loaded", "allocated"}, FinishLink(q),
         req' = [req EXCEPT ![q] = Idle]
  PROVE  PRInv'
<1>1. req[q].run \in Run \cup {None, Other}
  <2>1. req[q] \in RequestRow
    BY RequestFields DEF PRInv
  <2> QED
    BY <2>1 DEF RequestRow
<1>2. /\ pay' \in [Payment -> PayRow]
      /\ \A o \in Payment : /\ pay'[o].live = pay[o].live /\ pay'[o].amount = pay[o].amount
                            /\ pay'[o].number = pay[o].number
  BY <1>1 DEF FinishLink, PRInv, RequestsTyped, PayrollTypeOK, PayRow
<1>3. CASE UNCHANGED run
  <2>1. PayrollTypeOK' /\ PaymentsKept /\ \A r \in Run : Advances(r)
    BY <1>2, <1>3, RowKept DEF PRInv, RequestsTyped, PayrollTypeOK, PaymentsKept
  <2>2. \A r \in Run : run[r].payment \in Payment \cup {None}
    BY DEF PRInv, RequestsTyped, PayrollTypeOK, RunRow
  <2>3. PayslipsSound' /\ NumbersUnique'
    BY <1>2, <1>3, <2>2 DEF PRInv, PayslipsSound, NumbersUnique, Issued
  <2> QED
    BY <2>1, <2>3, RequestReplaced
<1> QED
  BY <1>2, <1>3, PaidStep DEF FinishLink

\* The run is gone, also for the requests that are to write it; a payment that is to be
\* recorded for it goes on.
LEMMA DeleteStep == ASSUME PRInv, NEW q \in Request, FinishDelete(q) PROVE PRInv'
<1>1. PICK r \in Run : r = req[q].run
  BY RequestFields DEF FinishDelete, PRInv, Pending
<1>2. /\ run' = [run EXCEPT ![r] = NoRun]
      /\ pay' = [p \in Payment |->
           IF pay[p].run = r THEN [pay[p] EXCEPT !.run = Other] ELSE pay[p]]
  BY <1>1 DEF FinishDelete, WriteDelete
<1>3. /\ run'[r] = NoRun /\ \A s \in Run \ {r} : run'[s] = run[s]
      /\ run' \in [Run -> RunRow]
  BY <1>2, MaxNumberAssumption
     DEF PRInv, RequestsTyped, PayrollTypeOK, NoRun, RunRow, RunStatus
<1>4. /\ pay' \in [Payment -> PayRow]
      /\ \A p \in Payment : /\ pay'[p].live = pay[p].live /\ pay'[p].amount = pay[p].amount
                            /\ pay'[p].number = pay[p].number
  BY <1>2 DEF PRInv, RequestsTyped, PayrollTypeOK, PayRow
<1>5. PayrollTypeOK' /\ PaymentsKept
  BY <1>3, <1>4 DEF PayrollTypeOK, PaymentsKept
<1>6. PayslipsSound'
  <2>1. \A s \in Run : run[s].payment # None => run[s].payment \in Payment
    BY DEF PRInv, RequestsTyped, PayrollTypeOK, RunRow
  <2> QED
    BY <1>3, <1>4, <2>1 DEF PRInv, PayslipsSound, Issued, NoRun
<1>7. NumbersUnique'
  BY <1>3, <1>4 DEF PRInv, NumbersUnique, NoRun
<1>8. ASSUME NEW x \in Request
      PROVE  /\ req'[x] \in {Idle} \cup RequestRow
             /\ req'[x] # Idle => Pending(req[x])'
  <2>1. \A s \in Run \ {r} : Advances(s)
    BY <1>3, RowKept
  <2>2. req[x] \in {Idle} \cup RequestRow /\ (req[x] # Idle => Pending(req[x]))
    BY DEF PRInv, RequestsTyped
  <2>3. CASE ~RefersTo(x, r)
    <3>1. req'[x] = req[x]
      BY <1>1, <2>3 DEF FinishDelete
    <3>2. req[x] # Idle => req[x].run # r
      BY <2>2, <2>3 DEF RefersTo, RequestRow
    <3> QED
      BY <1>5, <2>1, <2>2, <3>1, <3>2
         DEF Pending, PaymentsKept, Advances, Issued, PaysNet, RequestRow
  <2>4. CASE RefersTo(x, r) /\ req[x].op # "record"
    <3>1. req'[x] = Idle
      BY <1>1, <2>4 DEF FinishDelete
    <3> QED
      BY <3>1
  <2>5. CASE RefersTo(x, r) /\ req[x].op = "record"
    <3>1. req'[x] = [req[x] EXCEPT !.run = Other] /\ req[x] \in RequestRow /\ Pending(req[x])
      BY <1>1, <2>2, <2>5 DEF FinishDelete, RefersTo, Idle
    <3>2. /\ req'[x] \in RequestRow /\ req'[x].op = "record" /\ req'[x].run = Other
          /\ req'[x].payment = req[x].payment
      BY <2>5, <3>1 DEF RequestRow
    <3> QED
      BY <2>5, <3>1, <3>2, LinkAssumption DEF Pending
  <2> QED
    BY <2>3, <2>4, <2>5
<1>9. req' \in [Request -> {Idle} \cup RequestRow]
  BY <1>8 DEF FinishDelete
<1> QED
  BY <1>5, <1>6, <1>7, <1>8, <1>9 DEF PRInv, RequestsTyped

LEMMA RequestsStep == PRInv /\ [PRNext]_requestVars => PRInv'
<1> SUFFICES ASSUME PRInv, [PRNext]_requestVars PROVE PRInv'
  OBVIOUS
<1>1. ASSUME NEW r \in Run, AloneRun(r), UNCHANGED req PROVE PRInv'
  BY <1>1, EditStep
<1>2. ASSUME NEW q \in Request, NEW r \in Run, LoadRun(q, r) PROVE PRInv'
  BY <1>2, LoadRunStep
<1>3. ASSUME NEW q \in Request, NEW p \in Payment, LoadPayment(q, p) \/ LoadLink(q, p)
      PROVE  PRInv'
  BY <1>3, LoadPaymentStep, LoadLinkStep
<1>4. ASSUME NEW q \in Request, Allocate(q) PROVE PRInv'
  BY <1>4, AllocateStep
<1>5. ASSUME NEW q \in Request, Finish(q) PROVE PRInv'
  <2>1. ASSUME req[q].op = "mark_paid", WritePaid(req[q].run, req[q].payment), UNCHANGED pay,
               req[q].pc \in {"loaded", "allocated"}, req' = [req EXCEPT ![q] = Idle]
        PROVE  PRInv'
    <3>1. req[q].run # Other
      BY <2>1, RequestFields, LinkAssumption DEF PRInv, Pending
    <3> QED
      BY <2>1, <3>1, PaidStep DEF PRInv, RequestsTyped, PayrollTypeOK
  <2> QED
    BY <1>5, <2>1, FinalizeStep, RecordStep, LinkStep DEF Finish
<1>6. ASSUME NEW q \in Request, FinishDelete(q) PROVE PRInv'
  BY <1>6, DeleteStep
<1>7. ASSUME NEW q \in Request, Rollback(q) PROVE PRInv'
  BY <1>7, RowsKept, RequestReplaced DEF Rollback
<1>8. CASE UNCHANGED requestVars
  BY <1>8 DEF requestVars, payrollVars, PRInv, RequestsTyped, PayrollTypeOK, PayslipsSound,
              NumbersUnique, Pending, Issued, PaysNet
<1> QED
  BY <1>1, <1>2, <1>3, <1>4, <1>5, <1>6, <1>7, <1>8 DEF PRNext

LEMMA RequestsInvariant == PRSpec => []PRInv
BY RequestsInitial, RequestsStep, PTL DEF PRSpec

\* Whatever the requests overlap in: a run that was paid has a live payment of its net salary,
\* a payslip number comes with finalization only, and no two runs and no two payments have the
\* same one.
THEOREM PayslipsStaySound == PRSpec => [](PayrollTypeOK /\ PayslipsSound /\ NumbersUnique)
<1>1. PRInv => PayrollTypeOK /\ PayslipsSound /\ NumbersUnique
  BY DEF PRInv, RequestsTyped
<1> QED
  BY <1>1, RequestsInvariant, PTL

-----------------------------------------------------------------------------
(* What changes an issued payslip *)

\* The statuses in which the handlers accept a run.
Accepted(op) ==
  CASE op = "finalize" -> {"reviewed"}
    [] op \in {"mark_paid", "link"} -> {"finalized"}
    [] op = "delete" -> {"draft", "reviewed", "finalized"}

\* A request that writes a run which has left the statuses its handler checked.
Outdated(q, r) ==
  /\ req[q].pc # "idle" /\ req[q].run = r
  /\ req[q].op \in {"finalize", "mark_paid", "link", "delete"}
  /\ run[r].status \notin Accepted(req[q].op)
  /\ req'[q] = Idle

IssuedStays ==
  \A r \in Run :
    Issued(r) =>
      /\ run'[r] = NoRun \/ run'[r].net = run[r].net
      /\ \/ run[r].status = "finalized"
              /\ (run'[r] = NoRun \/ run'[r].number = run[r].number)
         \/ run'[r] = run[r]
         \/ \E q \in Request : Outdated(q, r)

LEMMA IssuedStep == PRInv /\ [PRNext]_requestVars => [IssuedStays]_requestVars
<1> SUFFICES ASSUME PRInv, PRNext, NEW r \in Run, Issued(r)
             PROVE  /\ run'[r] = NoRun \/ run'[r].net = run[r].net
                    /\ \/ run[r].status = "finalized"
                            /\ (run'[r] = NoRun \/ run'[r].number = run[r].number)
                       \/ run'[r] = run[r]
                       \/ \E q \in Request : Outdated(q, r)
  BY DEF IssuedStays
<1>0. \A q \in Request : req' = [req EXCEPT ![q] = Idle] => req'[q] = Idle
  BY DEF PRInv, RequestsTyped
<1>1. CASE run'[r] = run[r]
  BY <1>1
<1>2. ASSUME NEW s \in Run, AloneRun(s) PROVE run'[r] = run[r]
  BY <1>2, EditKept DEF PRInv, RequestsTyped, Issued
<1>3. ASSUME NEW q \in Request, Finish(q), FinishFinalize(q), run'[r] # run[r]
      PROVE  run'[r].net = run[r].net /\ Outdated(q, r)
  <2>1. req[q].pc \in {"loaded", "allocated"} /\ req'[q] = Idle /\ req[q].op = "finalize"
    BY <1>0, <1>3 DEF Finish, FinishFinalize
  <2>2. r = req[q].run /\ run'[r].net = run[r].net
    BY <1>3, <2>1, FinalWritten
  <2> QED
    BY <2>1, <2>2 DEF Outdated, Accepted, Issued
<1>4. ASSUME NEW q \in Request, Finish(q), req[q].op \in {"mark_paid", "link"},
             req[q].run # Other, WritePaid(req[q].run, req[q].payment), run'[r] # run[r]
      PROVE  /\ run'[r].net = run[r].net /\ run'[r].number = run[r].number
             /\ run[r].status = "finalized" \/ Outdated(q, r)
  <2>1. req[q].pc \in {"loaded", "allocated"} /\ req'[q] = Idle
    BY <1>0, <1>4 DEF Finish
  <2>2. r = req[q].run /\ run'[r].net = run[r].net /\ run'[r].number = run[r].number
    BY <1>4, <2>1, PaidWritten
  <2> QED
    BY <1>4, <2>1, <2>2 DEF Outdated, Accepted, Issued
<1>5. ASSUME NEW q \in Request, FinishDelete(q), run'[r] # run[r]
      PROVE  run'[r] = NoRun /\ (run[r].status = "finalized" \/ Outdated(q, r))
  <2>1. req[q].run = r /\ run'[r] = NoRun
    BY <1>5 DEF FinishDelete, WriteDelete, PRInv, RequestsTyped, PayrollTypeOK
  <2>2. req[q].pc # "idle" /\ req[q].op = "delete" /\ req'[q] = Idle
    BY <1>5 DEF FinishDelete, RefersTo
  <2> QED
    BY <2>1, <2>2 DEF Outdated, Accepted, Issued
<1>6. ASSUME NEW q \in Request, FinishRecord(q) PROVE run'[r] = run[r]
  BY <1>6 DEF FinishRecord, InsertPayment
<1>7. ASSUME UNCHANGED payrollVars PROVE run'[r] = run[r]
  BY <1>7 DEF payrollVars
<1>8. ASSUME NEW q \in Request, Finish(q), run'[r] # run[r]
      PROVE  /\ run'[r].net = run[r].net
             /\ \/ run[r].status = "finalized" /\ run'[r].number = run[r].number
                \/ Outdated(q, r)
  <2>1. CASE FinishFinalize(q)
    BY <1>3, <1>8, <2>1
  <2>2. CASE FinishRecord(q)
    BY <1>6, <1>8, <2>2
  <2>3. CASE FinishLink(q)
    BY <1>4, <1>8, <2>3 DEF FinishLink
  <2>4. CASE req[q].op = "mark_paid" /\ WritePaid(req[q].run, req[q].payment) /\ UNCHANGED pay
    <3>1. req[q] \in RequestRow /\ Pending(req[q])
      BY <1>8, RequestFields DEF Finish, PRInv
    <3>2. req[q].run # Other
      BY <2>4, <3>1, LinkAssumption DEF Pending
    <3> QED
      BY <1>4, <1>8, <2>4, <3>2
  <2> QED
    BY <1>8, <2>1, <2>2, <2>3, <2>4 DEF Finish
<1>9. CASE run'[r] # run[r]
  <2>1. ASSUME NEW q \in Request,
               \/ \E s \in Run : LoadRun(q, s)
               \/ \E p \in Payment : LoadPayment(q, p) \/ LoadLink(q, p)
               \/ Allocate(q) \/ Rollback(q)
        PROVE  FALSE
    BY <1>7, <1>9, <2>1 DEF LoadRun, LoadPayment, LoadLink, Load, Allocate, Rollback
  <2> QED
    BY <1>2, <1>5, <1>8, <1>9, <2>1 DEF PRNext
<1> QED
  BY <1>1, <1>9

\* Whatever the requests overlap in, an issued payslip keeps its net salary until its run is
\* deleted.  Its number, or anything of a paid run, changes only by a request that writes the
\* run after another one has taken it out of the statuses in which the handler accepts it.
THEOREM IssuedChangesOverlap == PRSpec => [][IssuedStays]_requestVars
BY RequestsInvariant, IssuedStep, PTL DEF PRSpec

-----------------------------------------------------------------------------
(* One request at a time: the split handlers implement those of Payroll.  What a request
   decided on when it loaded and allocated still holds when it writes, because the handlers
   without a wait leave reviewed runs, numbers and payments alone. *)

\* A payment that is created for a run, of its net salary and under its number.
PaysRun(row) ==
  /\ row.run \in Run /\ run[row.run].status = "finalized"
  /\ row.amount = run[row.run].net /\ row.number = run[row.run].number

\* The guard of the action that a request in progress, loaded as row, is going to be.
Ready(row) ==
  LET r == row.run
      p == row.payment
      n == row.number IN
  /\ row.op = "finalize" =>
       r \in Run /\ run[r].status = "reviewed" /\ (n # 0 => NextNumber(n))
  /\ row.op = "delete" => r \in Run /\ DeletableRun(r)
  /\ row.op = "mark_paid" =>
       /\ r \in Run /\ p \in Payment /\ run[r].status = "finalized"
       /\ pay[p].live /\ PaysNet(p, r)
       /\ pay[p].run = r \/ \A s \in Run \ {r} : run[s].payment # p
  /\ row.op = "link" =>
       /\ p \in Payment /\ pay[p].live /\ pay[p].run = None /\ r \in Run \cup {Other}
       /\ r \in Run => run[r].status = "finalized" /\ PaysNet(p, r)
  /\ row.op = "record" =>
       /\ p \in Payment
       /\ row.amount \in Amount \/ PaysRun(row)
       /\ r \in Run => run[r].status # "absent"
       /\ Reference(r, n)
       /\ row.pc = "loaded" => n = IF r \in Run THEN run[r].number ELSE 0

AInv ==
  /\ PInv /\ req \in [Request -> {Idle} \cup RequestRow]
  /\ \A q \in Request : req[q] # Idle => Ready(req[q])

LEMMA AloneInitial == PRInit => AInv
BY PayrollInitial DEF PRInit, AInv

\* A number stays the next one of the series while no number is written.
LEMMA SeriesKept ==
  ASSUME UNCHANGED pay, \A s \in Run : run'[s].number = run[s].number
  PROVE  \A n : NextNumber(n)' <=> NextNumber(n)
<1>1. RunNumbers' = RunNumbers /\ PaymentNumbers' = PaymentNumbers
  BY DEF RunNumbers, PaymentNumbers
<1> QED
  BY <1>1 DEF NextNumber, Follows

LEMMA ReadyKept ==
  ASSUME NEW row \in RequestRow, Ready(row), UNCHANGED pay,
         \A s \in Run :
           /\ run'[s].number = run[s].number /\ run'[s].payment = run[s].payment
           /\ \/ run'[s] = run[s]
              \/ run[s].status \in {"absent", "draft"} /\ run'[s].status \in {"draft", "reviewed"}
  PROVE  Ready(row)'
<1>1. \A n : NextNumber(n)' <=> NextNumber(n)
  BY SeriesKept
<1>2. Reference(row.run, row.number) => Reference(row.run, row.number)'
  BY <1>1 DEF Reference
<1> QED
  BY <1>1, <1>2 DEF Ready, PaysRun, DeletableRun, PaysNet

\* The only request takes up work, or goes on with it.
LEMMA AloneTakes ==
  ASSUME AInv, \A x, y \in Request : x = y, NEW q \in Request, NEW v \in {Idle} \cup RequestRow,
         req' = [req EXCEPT ![q] = v], UNCHANGED payrollVars, v # Idle => Ready(v)
  PROVE  AInv'
<1>1. PInv'
  BY PayrollStep DEF AInv
<1>2. req'[q] = v /\ req' \in [Request -> {Idle} \cup RequestRow] /\ \A x \in Request : x = q
  BY DEF AInv
<1>3. v # Idle => Ready(v)'
  <2>1. UNCHANGED <<run, pay>>
    BY DEF payrollVars
  <2>2. v # Idle => v \in RequestRow
    OBVIOUS
  <2> QED
    BY <2>1, <2>2, ReadyKept
<1> QED
  BY <1>1, <1>2, <1>3 DEF AInv

\* The only request ends, having done what its action in Payroll does.
LEMMA AloneEnds ==
  ASSUME AInv, \A x, y \in Request : x = y, NEW q \in Request, PayrollNext,
         req'[q] = Idle, req' = [x \in Request |-> req'[x]]
  PROVE  AInv'
<1>1. PInv'
  BY PayrollStep DEF AInv
<1> QED
  BY <1>1 DEF AInv

LEMMA AloneLoads ==
  ASSUME AInv, \A x, y \in Request : x = y, NEW q \in Request,
         \/ \E r \in Run : LoadRun(q, r)
         \/ \E p \in Payment : LoadPayment(q, p) \/ LoadLink(q, p)
  PROVE  AInv'
<1>0. run \in [Run -> RunRow] /\ 0 \in 0 .. MaxNumber
  BY MaxNumberAssumption DEF AInv, PInv, PayrollTypeOK
<1>1. ASSUME NEW op \in {"finalize", "delete", "mark_paid", "record", "link"},
             NEW r \in Run \cup {None, Other}, NEW p \in Payment \cup {None},
             NEW a \in Amount \cup {0}, NEW n \in 0 .. MaxNumber, Load(q, op, r, p, a, n),
             Ready([pc |-> "loaded", op |-> op, run |-> r, payment |-> p, amount |-> a,
                    number |-> n])
      PROVE  AInv'
  <2> DEFINE v == [pc |-> "loaded", op |-> op, run |-> r, payment |-> p, amount |-> a, number |-> n]
  <2>1. v \in RequestRow
    BY DEF RequestRow
  <2>2. req' = [req EXCEPT ![q] = v] /\ UNCHANGED payrollVars
    BY <1>1 DEF Load
  <2> HIDE DEF v
  <2> QED
    BY <1>1, <2>1, <2>2, AloneTakes DEF v
<1>2. ASSUME NEW r \in Run, LoadRun(q, r) PROVE AInv'
  <2>1. run[r].number \in 0 .. MaxNumber
    BY <1>0 DEF RunRow
  <2>2. run[r].status = "reviewed" => run[r].number = 0
    BY DEF AInv, PInv, PaidByItsPayment
  <2>3. CASE run[r].status = "reviewed" /\ Load(q, "finalize", r, None, 0, run[r].number)
    BY <1>1, <2>1, <2>2, <2>3 DEF Ready
  <2>4. CASE DeletableRun(r) /\ Load(q, "delete", r, None, 0, 0)
    BY <1>0, <1>1, <2>4 DEF Ready
  <2>5. ASSUME NEW p \in Payment, pay[p].live, PaysNet(p, r), run[r].status = "finalized",
               \A s \in Run \ {r} : run[s].payment # p, Load(q, "mark_paid", r, p, 0, 0)
        PROVE  AInv'
    BY <1>0, <1>1, <2>5 DEF Ready
  <2> QED
    BY <1>2, <2>3, <2>4, <2>5 DEF LoadRun
<1>3. ASSUME NEW p \in Payment, LoadPayment(q, p) PROVE AInv'
  <2>1. CASE \E r \in Run \cup {None, Other}, a \in Amount :
               /\ r \in Run => run[r].status # "absent"
               /\ Load(q, "record", r, p, a, IF r \in Run THEN run[r].number ELSE 0)
    <3>1. PICK r \in Run \cup {None, Other}, a \in Amount :
            /\ r \in Run => run[r].status # "absent"
            /\ Load(q, "record", r, p, a, IF r \in Run THEN run[r].number ELSE 0)
      BY <2>1
    <3>2. (IF r \in Run THEN run[r].number ELSE 0) \in 0 .. MaxNumber
      BY <1>0 DEF RunRow
    <3>3. Reference(r, IF r \in Run THEN run[r].number ELSE 0)
      BY DEF Reference
    <3> QED
      BY <1>1, <3>1, <3>2, <3>3 DEF Ready
  <2>2. ASSUME NEW r \in Run, run[r].status = "finalized",
               Load(q, "record", r, p, run[r].net, run[r].number)
        PROVE  AInv'
    <3>1. run[r].net \in Amount \cup {0} /\ run[r].number \in 0 .. MaxNumber
      BY <1>0 DEF RunRow
    <3>2. Reference(r, run[r].number)
      BY DEF Reference
    <3> QED
      BY <1>1, <2>2, <3>1, <3>2 DEF Ready, PaysRun
  <2> QED
    BY <1>3, <2>1, <2>2 DEF LoadPayment
<1>4. ASSUME NEW p \in Payment, LoadLink(q, p) PROVE AInv'
  <2>1. CASE pay[p].live /\ pay[p].run = None /\ Load(q, "link", Other, p, 0, 0)
    BY <1>0, <1>1, <2>1, LinkAssumption DEF Ready
  <2>2. ASSUME NEW r \in Run, pay[p].live, run[r].status = "finalized", PaysNet(p, r),
               pay[p].run = None, Load(q, "link", r, p, 0, 0)
        PROVE  AInv'
    BY <1>0, <1>1, <2>2 DEF Ready
  <2>3. ASSUME NEW r \in Run, pay[p].live, run[r].status = "finalized", PaysNet(p, r),
               pay[p].run = r, Load(q, "mark_paid", r, p, 0, 0)
        PROVE  AInv'
    BY <1>0, <1>1, <2>3 DEF Ready
  <2> QED
    BY <1>4, <2>1, <2>2, <2>3 DEF LoadLink
<1> QED
  BY <1>2, <1>3, <1>4

LEMMA AloneAllocates ==
  ASSUME AInv, \A x, y \in Request : x = y, NEW q \in Request, Allocate(q)
  PROVE  AInv'
<1>1. PICK n \in 1 .. MaxNumber :
        NextNumber(n) /\ req' = [req EXCEPT ![q].pc = "allocated", ![q].number = n]
  BY DEF Allocate
<1>2. /\ UNCHANGED payrollVars /\ req[q] \in RequestRow /\ Ready(req[q])
      /\ req[q].pc = "loaded" /\ req[q].op \in {"finalize", "record"} /\ req[q].number = 0
  BY DEF Allocate, AInv, Idle
<1>3. n \in 0 .. MaxNumber /\ n # 0
  BY MaxNumberAssumption
<1>4. PICK v \in RequestRow :
        /\ v = [req[q] EXCEPT !.pc = "allocated", !.number = n]
        /\ v.pc = "allocated" /\ v.number = n /\ v.op = req[q].op /\ v.run = req[q].run
        /\ v.payment = req[q].payment /\ v.amount = req[q].amount
  <2>1. [req[q] EXCEPT !.pc = "allocated", !.number = n] \in RequestRow
    BY <1>2, <1>3 DEF RequestRow
  <2> QED
    BY <1>2, <2>1 DEF RequestRow
<1>5. ~PaysRun(req[q])
  BY <1>2 DEF PaysRun, AInv, PInv, PaidByItsPayment
<1>6. Ready(v)
  BY <1>1, <1>2, <1>3, <1>4, <1>5 DEF Ready, Reference
<1> QED
  BY <1>1, <1>2, <1>4, <1>6, AloneTakes

LEMMA AloneFinishes ==
  ASSUME AInv, NEW q \in Request, Finish(q) \/ FinishDelete(q)
  PROVE  PayrollNext
<1>0. run \in [Run -> RunRow]
  BY DEF AInv, PInv, PayrollTypeOK
<1>1. req[q] \in RequestRow /\ Ready(req[q])
  BY DEF Finish, FinishDelete, AInv, Idle
<1>2. CASE FinishFinalize(q)
  <2>1. PICK r \in Run, n \in 1 .. MaxNumber :
          r = req[q].run /\ n = req[q].number /\ run[r].status = "reviewed" /\ NextNumber(n)
    BY <1>1, <1>2 DEF FinishFinalize, Ready, NextNumber, Follows
  <2>2. run[r].number = 0
    BY <2>1 DEF AInv, PInv, PaidByItsPayment
  <2>3. WriteFinal(r, n)
    BY <1>0, <1>2, <2>1, <2>2 DEF FinishFinalize, WriteFinal, RunRow
  <2> QED
    BY <2>1, <2>3 DEF FinalizeRun, RunNext, PayrollNext
<1>3. CASE FinishRecord(q)
  <2>1. /\ req[q].payment \in Payment /\ req[q].run \in Run \cup {None, Other}
        /\ req[q].number \in 0 .. MaxNumber
        /\ req[q].run \in Run => run[req[q].run].status # "absent"
        /\ Reference(req[q].run, req[q].number)
        /\ req[q].amount \in Amount \/ PaysRun(req[q])
    BY <1>1, <1>3 DEF FinishRecord, Ready, RequestRow
  <2>2. CASE req[q].amount \in Amount
    <3>1. RecordPayment(req[q].payment, req[q].run, req[q].amount)
      BY <1>3, <2>1 DEF FinishRecord, RecordPayment
    <3> QED
      BY <2>1, <2>2, <3>1 DEF PayNext, PayrollNext
  <2>3. CASE PaysRun(req[q])
    <3>1. PayRun(req[q].payment, req[q].run)
      BY <1>3, <2>3 DEF FinishRecord, PaysRun, PayRun
    <3> QED
      BY <2>1, <2>3, <3>1 DEF PaysRun, PayNext, PayrollNext
  <2> QED
    BY <2>1, <2>2, <2>3
<1>4. CASE req[q].op = "mark_paid" /\ WritePaid(req[q].run, req[q].payment) /\ UNCHANGED pay
  <2>1. PICK r \in Run, p \in Payment :
          /\ r = req[q].run /\ p = req[q].payment /\ run[r].status = "finalized"
          /\ pay[p].live /\ PaysNet(p, r)
          /\ pay[p].run = r \/ \A s \in Run \ {r} : run[s].payment # p
    BY <1>1, <1>4 DEF Ready
  <2>2. CASE \A s \in Run \ {r} : run[s].payment # p
    <3>1. MarkRunPaid(r, p)
      BY <1>4, <2>1, <2>2 DEF MarkRunPaid
    <3> QED
      BY <3>1 DEF RunNext, PayrollNext
  <2>3. CASE pay[p].run = r
    <3>1. pay \in [Payment -> PayRow]
      BY DEF AInv, PInv, PayrollTypeOK
    <3>2. [pay[p] EXCEPT !.run = r] = pay[p]
      BY <2>3, <3>1 DEF PayRow
    <3>3. [pay EXCEPT ![p] = [pay[p] EXCEPT !.run = r]] = pay
      BY <3>1, <3>2
    <3>4. LinkRun(p, r)
      BY <1>4, <2>1, <2>3, <3>3 DEF LinkRun
    <3> QED
      BY <3>4 DEF PayNext, PayrollNext
  <2> QED
    BY <2>1, <2>2, <2>3
<1>5. CASE FinishLink(q)
  <2>1. PICK r \in Run \cup {Other}, p \in Payment :
          /\ r = req[q].run /\ p = req[q].payment /\ pay[p].live /\ pay[p].run = None
          /\ r \in Run => run[r].status = "finalized" /\ PaysNet(p, r)
          /\ pay' = [pay EXCEPT ![p].run = r]
    BY <1>1, <1>5 DEF FinishLink, Ready
  <2>2. CASE r = Other
    <3>1. LinkElsewhere(p)
      BY <1>5, <2>1, <2>2 DEF FinishLink, LinkElsewhere
    <3> QED
      BY <3>1 DEF PayNext, PayrollNext
  <2>3. CASE r \in Run
    <3>1. LinkRun(p, r)
      BY <1>5, <2>1, <2>3, LinkAssumption DEF FinishLink, LinkRun
    <3> QED
      BY <2>3, <3>1 DEF PayNext, PayrollNext
  <2> QED
    BY <2>2, <2>3
<1>6. CASE FinishDelete(q)
  <2>1. PICK r \in Run : r = req[q].run /\ DeletableRun(r)
    BY <1>1, <1>6 DEF FinishDelete, Ready
  <2>2. DeleteRun(r)
    BY <1>6, <2>1 DEF FinishDelete, DeleteRun
  <2> QED
    BY <2>2 DEF RunNext, PayrollNext
<1> QED
  BY <1>2, <1>3, <1>4, <1>5, <1>6 DEF Finish

LEMMA AloneStep ==
  ASSUME \A x, y \in Request : x = y
  PROVE  AInv /\ [PRNext]_requestVars => [PayrollNext]_payrollVars /\ AInv'
<1> SUFFICES ASSUME AInv, [PRNext]_requestVars PROVE [PayrollNext]_payrollVars /\ AInv'
  OBVIOUS
<1>1. ASSUME NEW r \in Run, AloneRun(r), UNCHANGED req PROVE PayrollNext /\ AInv'
  <2>1. PayrollNext
    BY <1>1 DEF AloneRun, RunNext, PayrollNext
  <2>2. PInv'
    BY <2>1, PayrollStep DEF AInv
  <2>3. /\ UNCHANGED pay
        /\ \A s \in Run :
             /\ run'[s].number = run[s].number /\ run'[s].payment = run[s].payment
             /\ \/ run'[s] = run[s]
                \/ run[s].status \in {"absent", "draft"} /\ run'[s].status \in {"draft", "reviewed"}
    BY <1>1, EditKept DEF AInv, PInv
  <2>4. ASSUME NEW q \in Request, req[q] # Idle PROVE Ready(req[q])'
    <3>1. PICK row \in RequestRow : row = req[q] /\ Ready(row)
      BY <2>4 DEF AInv
    <3>2. Ready(row)'
      BY <2>3, <3>1, ReadyKept
    <3>3. row = req'[q]
      BY <1>1, <3>1
    <3> QED
      BY <3>2, <3>3 DEF Ready
  <2> QED
    BY <1>1, <2>1, <2>2, <2>4 DEF AInv
<1>2. ASSUME NEW q \in Request,
             \/ \E r \in Run : LoadRun(q, r)
             \/ \E p \in Payment : LoadPayment(q, p) \/ LoadLink(q, p)
      PROVE  UNCHANGED payrollVars /\ AInv'
  BY <1>2, AloneLoads DEF LoadRun, LoadPayment, LoadLink, Load
<1>3. ASSUME NEW q \in Request, Allocate(q) PROVE UNCHANGED payrollVars /\ AInv'
  BY <1>3, AloneAllocates DEF Allocate
<1>4. ASSUME NEW q \in Request, Finish(q) \/ FinishDelete(q) PROVE PayrollNext /\ AInv'
  <2>1. PayrollNext
    BY <1>4, AloneFinishes
  <2>2. req'[q] = Idle /\ req' = [x \in Request |-> req'[x]]
    <3>1. CASE Finish(q)
      BY <3>1 DEF Finish, AInv
    <3>2. CASE FinishDelete(q)
      <4>1. req[q].op # "record" /\ RefersTo(q, req[q].run)
        BY <3>2 DEF FinishDelete, RefersTo
      <4> QED
        BY <3>2, <4>1 DEF FinishDelete
    <3> QED
      BY <1>4, <3>1, <3>2
  <2> QED
    BY <2>1, <2>2, AloneEnds
<1>5. ASSUME NEW q \in Request, Rollback(q) PROVE UNCHANGED payrollVars /\ AInv'
  BY <1>5, AloneTakes DEF Rollback
<1>6. CASE UNCHANGED requestVars
  <2>1. UNCHANGED payrollVars /\ UNCHANGED req
    BY <1>6 DEF requestVars
  <2>2. PInv'
    BY <2>1, PayrollStep DEF AInv
  <2>3. ASSUME NEW q \in Request, req[q] # Idle PROVE Ready(req[q])'
    <3>1. PICK row \in RequestRow : row = req[q] /\ Ready(row)
      BY <2>3 DEF AInv
    <3>2. Ready(row)' /\ row = req'[q]
      BY <2>1, <3>1, ReadyKept DEF payrollVars
    <3> QED
      BY <3>2 DEF Ready
  <2> QED
    BY <2>1, <2>2, <2>3 DEF AInv
<1> QED
  BY <1>1, <1>2, <1>3, <1>4, <1>5, <1>6 DEF PRNext

\* A request that runs alone does what its handler does in Payroll: with one request at a time
\* the split handlers implement the whole ones, and keep all that is proved of them.
THEOREM OneAtATimeIsPayroll ==
  ASSUME \A x, y \in Request : x = y
  PROVE  PRSpec => PayrollSpec
<1>1. AInv /\ [PRNext]_requestVars => [PayrollNext]_payrollVars /\ AInv'
  BY AloneStep
<1>2. PRInit => PayrollInit
  BY DEF PRInit
<1> QED
  BY <1>1, <1>2, AloneInitial, PTL DEF PRSpec, PayrollSpec
=============================================================================
