------------------------------ MODULE MCOffice ------------------------------
(* Small instances of the handlers without a lock for TLC, one module at a    *)
(* time: `part` picks it at the start.  The modules share no row that more    *)
(* than one of them changes, so together they would only multiply the states. *)
EXTENDS Loans, Tasks, Exports, Commitments, Monthly,
  Landings, Webhooks, LineItems, Payslips, LedgerLines, TLC

VARIABLE part

OfficeInit ==
  /\ part \in {"loans", "tasks", "exports", "commitments", "monthly",
              "landings", "webhooks", "items", "payslips", "books"}
  /\ LoansInit /\ TasksInit /\ ExportsInit /\ CommitmentsInit /\ MonthlyInit
  /\ LandingsInit /\ WebhooksInit /\ LineItemsInit /\ PayslipsInit /\ LedgerLinesInit

OfficeNext ==
  \/ /\ part = "loans"
     /\ UNCHANGED <<part, taskVars, exportVars, commitmentVars, monthlyVars,
                    landingVars, webhookVars, itemVars, slipVars, bookVars>>
     /\ LoansNext
  \/ /\ part = "tasks"
     /\ UNCHANGED <<part, loanVars, exportVars, commitmentVars, monthlyVars,
                    landingVars, webhookVars, itemVars, slipVars, bookVars>>
     /\ TasksNext
  \/ /\ part = "exports"
     /\ UNCHANGED <<part, loanVars, taskVars, commitmentVars, monthlyVars,
                    landingVars, webhookVars, itemVars, slipVars, bookVars>>
     /\ ExportsNext
  \/ /\ part = "commitments"
     /\ UNCHANGED <<part, loanVars, taskVars, exportVars, monthlyVars,
                    landingVars, webhookVars, itemVars, slipVars, bookVars>>
     /\ CommitmentsNext
  \/ /\ part = "monthly"
     /\ UNCHANGED <<part, loanVars, taskVars, exportVars, commitmentVars,
                    landingVars, webhookVars, itemVars, slipVars, bookVars>>
     /\ MonthlyNext
  \/ /\ part = "landings"
     /\ UNCHANGED <<part, loanVars, taskVars, exportVars, commitmentVars,
                    monthlyVars, webhookVars, itemVars, slipVars, bookVars>>
     /\ LandingsNext
  \/ /\ part = "webhooks"
     /\ UNCHANGED <<part, loanVars, taskVars, exportVars, commitmentVars,
                    monthlyVars, landingVars, itemVars, slipVars, bookVars>>
     /\ WebhooksNext
  \/ /\ part = "items"
     /\ UNCHANGED <<part, loanVars, taskVars, exportVars, commitmentVars,
                    monthlyVars, landingVars, webhookVars, slipVars, bookVars>>
     /\ LineItemsNext
  \/ /\ part = "payslips"
     /\ UNCHANGED <<part, loanVars, taskVars, exportVars, commitmentVars,
                    monthlyVars, landingVars, webhookVars, itemVars, bookVars>>
     /\ PayslipsNext
  \/ /\ part = "books"
     /\ UNCHANGED <<part, loanVars, taskVars, exportVars, commitmentVars,
                    monthlyVars, landingVars, webhookVars, itemVars, slipVars>>
     /\ LedgerLinesNext

OfficeSpec ==
  OfficeInit /\ [][OfficeNext]_<<part, loanVars, taskVars, exportVars, commitmentVars,
                                monthlyVars, landingVars, webhookVars, itemVars, slipVars,
                                bookVars>>

\* The type invariant of the part, and so of the modules: the other parts are in their
\* initial states.
OfficeTypeOK ==
  /\ part = "loans" => LoansTypeOK
  /\ part = "tasks" => TasksTypeOK
  /\ part = "exports" => ExportsTypeOK
  /\ part = "commitments" => CommitmentsTypeOK
  /\ part = "monthly" => MonthlyTypeOK
  /\ part = "landings" => LandingsTypeOK
  /\ part = "webhooks" => WebhooksTypeOK
  /\ part = "items" => LineItemsTypeOK
  /\ part = "payslips" => PayslipsTypeOK
  /\ part = "books" => LedgerLinesTypeOK

\* Bound: nothing follows the first stale totals, stale payslip, over-allocated payment, second
\* unfinished instance or duplicate transaction, nor the last letter or pack; no request edits an
\* expense once there is a pack, and requests overlap only while no invoice is issued.
Bounded ==
  /\ part = "items" => TotalsMatch
  /\ part = "payslips" => SlipSound
  /\ part = "loans" => files # MaxFiles /\ \A p \in Payment : ~OverAllocated(p)
  /\ part = "exports" =>
       /\ Versions # Version
       /\ Versions = {} \/ \A r \in Request : expReq[r].op \notin {"update", "confirm", "reimburse"}
       /\ (\A i \in Invoice : invoice[i] = "absent")
            \/ \E r \in Request : \A s \in Request \ {r} : expReq[s] = Idle
  /\ part = "tasks" => \A t \in Template : Cardinality(OpenInstances(t)) <= 1
  /\ part = "commitments" => \A c \in Commitment, m \in Month : Cardinality(Of(c, m)) <= 1

Symmetry == Permutations(Request)
=============================================================================
