--------------------------- MODULE PayrollRequests ---------------------------
(***************************************************************************)
(* Payroll handlers run by concurrent requests.  Nothing here takes a row  *)
(* lock: a request checks the rows it loaded, reads the next payslip       *)
(* number, waits (for the payslip file to be stored), and writes.  The     *)
(* unique index of each table, and a row that is gone, are all that can    *)
(* still stop it.  Split are the handlers that take or lose a number, and  *)
(* those that pay a run or link a payment; references of the caller's own  *)
(* are left out.                                                           *)
(***************************************************************************)
EXTENDS Payroll

CONSTANT Request      \* requests in progress at the same time

VARIABLE req          \* what each request is doing, and what it has read

requestVars == <<payrollVars, req>>

Idle == [pc |-> "idle"]

PRInit == PayrollInit /\ req = [q \in Request |-> Idle]

Load(q, op, r, p, a, number) ==
  /\ req[q].pc = "idle"
  /\ req' = [req EXCEPT ![q] = [pc |-> "loaded", op |-> op, run |-> r, payment |-> p,
                                amount |-> a, number |-> number]]
  /\ UNCHANGED payrollVars

LoadRun(q, r) ==
  \/ run[r].status = "reviewed" /\ Load(q, "finalize", r, None, 0, run[r].number)
  \/ DeletableRun(r) /\ Load(q, "delete", r, None, 0, 0)
  \/ \E p \in Payment :
       /\ pay[p].live /\ PaysNet(p, r) /\ run[r].status = "finalized"
       /\ \A s \in Run \ {r} : run[s].payment # p
       /\ Load(q, "mark_paid", r, p, 0, 0)

\* record_payment, and create_payment_from_entity for a run.
LoadPayment(q, p) ==
  /\ ~pay[p].live
  /\ \/ \E r \in Run \cup {None, Other}, a \in Amount :
          /\ r \in Run => run[r].status # "absent"
          /\ Load(q, "record", r, p, a, IF r \in Run THEN run[r].number ELSE 0)
     \/ \E r \in Run :
          /\ run[r].status = "finalized"
          /\ Load(q, "record", r, p, run[r].net, run[r].number)

\* link_payment.  For a payment that is already linked to the run it writes the run only, as
\* mark_paid does.
LoadLink(q, p) ==
  /\ pay[p].live
  /\ \/ pay[p].run = None /\ Load(q, "link", Other, p, 0, 0)
     \/ \E r \in Run :
          /\ run[r].status = "finalized" /\ PaysNet(p, r)
          /\ \/ pay[p].run = None /\ Load(q, "link", r, p, 0, 0)
             \/ pay[p].run = r /\ Load(q, "mark_paid", r, p, 0, 0)

\* A finalization or a payment that found no number of the run takes the next one.
Allocate(q) ==
  /\ req[q].pc = "loaded" /\ req[q].op \in {"finalize", "record"} /\ req[q].number = 0
  /\ \E n \in 1 .. MaxNumber :
       NextNumber(n) /\ req' = [req EXCEPT ![q].pc = "allocated", ![q].number = n]
  /\ UNCHANGED payrollVars

\* The unique index on payroll_runs.document_number.
FinishFinalize(q) ==
  LET r == req[q].run IN
  /\ req[q].op = "finalize" /\ req[q].number # 0
  /\ \A s \in Run \ {r} : run[s].number # req[q].number
  /\ run' = [run EXCEPT ![r].status = "finalized", ![r].number = req[q].number]
  /\ UNCHANGED pay

FinishRecord(q) ==
  /\ req[q].op = "record"
  /\ InsertPayment(req[q].payment, req[q].run, req[q].amount, req[q].number)

FinishLink(q) ==
  /\ req[q].op = "link"
  /\ \/ req[q].run = Other /\ UNCHANGED run
     \/ req[q].run # Other /\ WritePaid(req[q].run, req[q].payment)
  /\ pay' = [pay EXCEPT ![req[q].payment].run = req[q].run]

Finish(q) ==
  /\ req[q].pc \in {"loaded", "allocated"}
  /\ \/ FinishFinalize(q)
     \/ FinishRecord(q)
     \/ FinishLink(q)
     \/ req[q].op = "mark_paid" /\ WritePaid(req[q].run, req[q].payment) /\ UNCHANGED pay
  /\ req' = [req EXCEPT ![q] = Idle]

RefersTo(x, r) == req[x].pc # "idle" /\ req[x].run = r

\* Whoever loaded the deleted row fails at its UPDATE; a payment only refers to the row.
FinishDelete(q) ==
  LET r == req[q].run
      Fails(x) == RefersTo(x, r) /\ req[x].op # "record" IN
  /\ req[q].pc = "loaded" /\ req[q].op = "delete"
  /\ WriteDelete(r)
  /\ req' = [x \in Request |->
       IF Fails(x) THEN Idle
       ELSE IF RefersTo(x, r) THEN [req[x] EXCEPT !.run = Other] ELSE req[x]]

Rollback(q) ==
  /\ req[q].pc # "idle"
  /\ req' = [req EXCEPT ![q] = Idle]
  /\ UNCHANGED payrollVars

\* The handlers without a wait.
AloneRun(r) == \E net \in Amount : CreateRun(r, net) \/ UpdateRun(r, net) \/ ReviewRun(r)

PRNext ==
  \/ (\E r \in Run : AloneRun(r)) /\ UNCHANGED req
  \/ \E q \in Request :
       \/ \E r \in Run : LoadRun(q, r)
       \/ \E p \in Payment : LoadPayment(q, p) \/ LoadLink(q, p)
       \/ Allocate(q) \/ Finish(q) \/ FinishDelete(q) \/ Rollback(q)

PRSpec == PRInit /\ [][PRNext]_requestVars
=============================================================================
