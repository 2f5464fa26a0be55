------------------------------- MODULE Monthly -------------------------------
(***************************************************************************)
(* Recurring invoices and invoice numbers.  A monthly run reads the rules   *)
(* due in its month, makes an invoice for each and moves the rule on by one *)
(* month, all in one transaction; an invoice may also be created by hand.   *)
(* Nothing but the unique constraint on the number orders two requests.     *)
(*                                                                         *)
(* The payroll drafts, the pack and the tasks of a run are in Payroll,      *)
(* Exports and Tasks.  Numbers are those of one year.                       *)
(***************************************************************************)
EXTENDS Requests, Naturals, FiniteSetsExt

CONSTANTS
  Rule,
  LastMonth,     \* bound on the months run
  MaxNumber      \* bound on the invoices

ASSUME NoRuleAssumption == None \notin Rule
ASSUME MonthlyBoundsAssumption == LastMonth \in Nat /\ MaxNumber \in Nat \ {0}

VARIABLES
  nextIssue,     \* month of a rule's next_issue_date, 0 for no rule
  invoices,      \* invoices, committed: the rule and the month they were made for
  monthReq       \* requests in progress

monthlyVars == <<nextIssue, invoices, monthReq>>

-----------------------------------------------------------------------------
(* Rows *)

RunMonth == 1 .. LastMonth
Number == 1 .. MaxNumber

Billing == [rule : Rule, month : RunMonth]
ByHand == [rule |-> None, month |-> 0]

Taken == {n \in Number : invoices[n] # None}
BillingsOf(q) == {n \in Taken : invoices[n].rule = q}

-----------------------------------------------------------------------------
(* Requests *)

\* left: rules read and still to bill; number: taken from the maximum, not yet inserted;
\* made: inserted, not committed.
Running == [op : {"run"}, month : RunMonth, left : SUBSET Rule, number : 0 .. MaxNumber,
            made : SUBSET (Rule \X Number)]
Creating == [op : {"create"}, tries : 1 .. 3, number : 0 .. MaxNumber, inserted : BOOLEAN]

MonthlyTypeOK ==
  /\ nextIssue \in [Rule -> 0 .. LastMonth + 1]
  /\ invoices \in [Number -> Billing \cup {ByHand, None}]
  /\ monthReq \in [Request -> {Idle} \cup Running \cup Creating]

MonthlyInit ==
  /\ nextIssue = [q \in Rule |-> 0]
  /\ invoices = [n \in Number |-> None]
  /\ monthReq = [r \in Request |-> Idle]

EndMonthly(r) == monthReq' = [monthReq EXCEPT ![r] = Idle]

Inserted(r) ==
  CASE monthReq[r].op = "run" -> {pair[2] : pair \in monthReq[r].made}
    [] monthReq[r].op = "create" -> IF monthReq[r].inserted THEN {monthReq[r].number} ELSE {}
    [] monthReq[r].op = "idle" -> {}

\* _next_invoice_number sees the committed invoices and the request's own.
NextNumber(r) == Max(Taken \cup Inserted(r) \cup {0}) + 1

\* uq_invoices_invoice_number: an insert waits for the one of another request in progress,
\* and raises once that one is committed.
Free(r, n) ==
  /\ n # 0 /\ n \notin Taken
  /\ \A s \in Request \ {r} : n \notin Inserted(s)

AbortMonthly(r) ==
  /\ monthReq[r] # Idle
  /\ EndMonthly(r)
  /\ UNCHANGED <<nextIssue, invoices>>

-----------------------------------------------------------------------------
(* A monthly run *)

ReadRules(r) ==
  /\ monthReq[r] = Idle
  /\ \E m \in RunMonth :
       monthReq' = [monthReq EXCEPT ![r] =
         [op |-> "run", month |-> m, left |-> {q \in Rule : nextIssue[q] = m},
          number |-> 0, made |-> {}]]
  /\ UNCHANGED <<nextIssue, invoices>>

TakeNumber(r) ==
  /\ monthReq[r].op = "run" /\ monthReq[r].left # {} /\ monthReq[r].number = 0
  /\ NextNumber(r) \in Number
  /\ monthReq' = [monthReq EXCEPT ![r].number = NextNumber(r)]
  /\ UNCHANGED <<nextIssue, invoices>>

\* A number that was taken ends the run: the rollback of create_invoice expires the rules,
\* and the handler of the error reads one (see AbortMonthly).
BillRule(r) ==
  /\ monthReq[r].op = "run"
  /\ Free(r, monthReq[r].number)
  /\ \E q \in monthReq[r].left :
       monthReq' = [monthReq EXCEPT ![r].left = @ \ {q}, ![r].number = 0,
                      ![r].made = @ \cup {<<q, monthReq[r].number>>}]
  /\ UNCHANGED <<nextIssue, invoices>>

\* Mutant: the rules stay where they are.
MonthOfRun(month) == month

\* The month after the run's, whatever the frequency.
MovedOn(month) == month + 1

FinishRun(r) ==
  /\ monthReq[r].op = "run" /\ monthReq[r].left = {}
  /\ invoices' = [n \in Number |->
       IF \E pair \in monthReq[r].made : pair[2] = n
       THEN [rule |-> CHOOSE q \in Rule : <<q, n>> \in monthReq[r].made,
             month |-> monthReq[r].month]
       ELSE invoices[n]]
  /\ nextIssue' = [q \in Rule |->
       IF \E pair \in monthReq[r].made : pair[1] = q THEN MovedOn(monthReq[r].month)
       ELSE nextIssue[q]]
  /\ EndMonthly(r)

-----------------------------------------------------------------------------
(* Invoices by hand, and rules *)

BeginCreate(r) ==
  /\ monthReq[r] = Idle
  /\ NextNumber(r) \in Number
  /\ monthReq' = [monthReq EXCEPT ![r] =
       [op |-> "create", tries |-> 1, number |-> NextNumber(r), inserted |-> FALSE]]
  /\ UNCHANGED <<nextIssue, invoices>>

InsertByHand(r) ==
  /\ monthReq[r].op = "create" /\ ~monthReq[r].inserted
  /\ Free(r, monthReq[r].number)
  /\ monthReq' = [monthReq EXCEPT ![r].inserted = TRUE]
  /\ UNCHANGED <<nextIssue, invoices>>

\* Here the retry works: the request has nothing else in its session.
RetryCreate(r) ==
  /\ monthReq[r].op = "create" /\ ~monthReq[r].inserted /\ monthReq[r].tries < 3
  /\ monthReq[r].number \in Taken /\ NextNumber(r) \in Number
  /\ monthReq' = [monthReq EXCEPT ![r].tries = @ + 1, ![r].number = NextNumber(r)]
  /\ UNCHANGED <<nextIssue, invoices>>

FinishCreate(r) ==
  /\ monthReq[r].op = "create" /\ monthReq[r].inserted
  /\ invoices' = [invoices EXCEPT ![monthReq[r].number] = ByHand]
  /\ EndMonthly(r)
  /\ UNCHANGED nextIssue

\* No code makes a rule: it is put into the table by SQL.
CreateRule(q) ==
  /\ nextIssue[q] = 0
  /\ \E m \in RunMonth : nextIssue' = [nextIssue EXCEPT ![q] = m]
  /\ UNCHANGED <<invoices, monthReq>>

MonthlyNext ==
  \/ \E r \in Request :
       ReadRules(r) \/ TakeNumber(r) \/ BillRule(r) \/ FinishRun(r) \/ AbortMonthly(r)
         \/ BeginCreate(r) \/ InsertByHand(r) \/ RetryCreate(r) \/ FinishCreate(r)
  \/ \E q \in Rule : CreateRule(q)

MonthlySpec == MonthlyInit /\ [][MonthlyNext]_monthlyVars

-----------------------------------------------------------------------------
(* Properties *)

\* A rule is billed once for a month, and only for months before its next issue date.
BilledOnce(q) ==
  /\ \A n \in BillingsOf(q) : invoices[n].month < nextIssue[q]
  /\ \A n, k \in BillingsOf(q) : invoices[n].month = invoices[k].month => n = k

\* A client gets a rule's invoice for a month twice, or the rule falls back to a month it was
\* billed for, only by a run that read the rule before another run moved it on.
SecondBillNeedsOverlap ==
  [][nextIssue' # nextIssue \/ invoices' # invoices => \A q \in Rule :
       BilledOnce(q) /\ ~BilledOnce(q)' =>
         \E r \in Request :
           /\ monthReq[r].op = "run" /\ monthReq'[r] = Idle
           /\ nextIssue[q] # monthReq[r].month
           /\ \E n \in Number : <<q, n>> \in monthReq[r].made]_monthlyVars
=============================================================================
