----------------------------- MODULE Commitments -----------------------------
(***************************************************************************)
(* Recurring commitments and the cash-flow transactions generated for them, *)
(* in the months of one year.  A generation reads the active commitments,   *)
(* and then, one after the other, whether each has a transaction in the     *)
(* month; what it inserts is committed at its end.                         *)
(*                                                                         *)
(* A date is its month.  Amounts and the other fields of a transaction are  *)
(* left out: the month stands for all that a PATCH may change.  A           *)
(* transaction of no commitment would be decided on in the same way.        *)
(***************************************************************************)
EXTENDS Requests, Naturals, FiniteSets

CONSTANTS
  Commitment,
  Tx,            \* rows of transactions
  Month,         \* the months looked at
  NextDueMonth   \* month of next_due_date, 0 for NULL

ASSUME MonthsAssumption == Month \subseteq 1 .. 12 /\ NextDueMonth \in 0 .. 12

VARIABLES
  commitment,    \* recurring_commitments
  tx,            \* transactions
  comReq         \* requests in progress

commitmentVars == <<commitment, tx, comReq>>

-----------------------------------------------------------------------------
(* Rows *)

\* bare: active, without an account.
CommitmentRow ==
  [state : {"absent", "inactive", "bare", "active"},
   frequency : {"monthly", "quarterly", "yearly"}]
NoCommitment == [state |-> "absent", frequency |-> "monthly"]

TxRow == [status : {"pending", "confirmed", "cancelled"}, month : Month, of : Commitment]

ASSUME NoneIsNoRow == None \notin TxRow

Stored == {t \in Tx : tx[t] # None}

\* The transactions of a commitment in a month, of any status.
Of(c, m) == {t \in Stored : tx[t].of = c /\ tx[t].month = m}

\* _applies_to_month
Applies(frequency, m) ==
  \/ frequency = "monthly"
  \/ frequency = "quarterly" /\ m % 3 = 1
  \/ frequency = "yearly" /\ m = IF NextDueMonth = 0 THEN 1 ELSE NextDueMonth

-----------------------------------------------------------------------------
(* Requests *)

\* read: commitments with an account, read as active; left: those to look at yet, and those
\* without an account; due: those to get a transaction; found: transactions looked up.
Generating == [op : {"generate"}, month : Month, read : SUBSET Commitment,
               left : SUBSET Commitment, due : SUBSET Commitment, found : SUBSET Tx]
TxDecision == [op : {"confirm", "cancel", "update"}, tx : Tx, row : TxRow]

CommitmentsTypeOK ==
  /\ commitment \in [Commitment -> CommitmentRow]
  /\ tx \in [Tx -> TxRow \cup {None}]
  /\ comReq \in [Request -> {Idle} \cup Generating \cup TxDecision]

CommitmentsInit ==
  /\ commitment = [c \in Commitment |-> NoCommitment]
  /\ tx = [t \in Tx |-> None]
  /\ comReq = [r \in Request |-> Idle]

EndCommitment(r) == comReq' = [comReq EXCEPT ![r] = Idle]

-----------------------------------------------------------------------------
(* generate_pending_transactions *)

ReadCommitments(r) ==
  /\ comReq[r] = Idle
  /\ \E m \in Month :
       LET active == {c \in Commitment : /\ commitment[c].state \in {"bare", "active"}
                                         /\ Applies(commitment[c].frequency, m)}
       IN comReq' = [comReq EXCEPT ![r] =
            [op |-> "generate", month |-> m,
             read |-> {c \in active : commitment[c].state = "active"},
             left |-> active, due |-> {}, found |-> {}]]
  /\ UNCHANGED <<commitment, tx>>

\* Mutant: transactions that were cancelled do not count.
LacksLiveTx(c, m) == \A t \in Of(c, m) : tx[t].status = "cancelled"

\* Mutant: the transactions of the year count.
LacksInYear(c, m) == \A n \in Month : Of(c, n) = {}

Lacks(c, m) == Of(c, m) = {}

\* Two transactions of the month make the lookup raise: see AbortCommitment.
LookUp(r) ==
  /\ comReq[r].op = "generate"
  /\ \E c \in comReq[r].left :
       /\ Cardinality(Of(c, comReq[r].month)) <= 1
       /\ comReq' = [comReq EXCEPT ![r] =
            [op |-> "generate", month |-> comReq[r].month, read |-> comReq[r].read,
             left |-> comReq[r].left \ {c},
             due |-> comReq[r].due \cup {d \in comReq[r].read \cap {c} : Lacks(c, comReq[r].month)},
             found |-> comReq[r].found \cup Of(c, comReq[r].month)]]
  /\ UNCHANGED <<commitment, tx>>

\* The day is clamped to the last one of the month.
DatedIn(m) == m

FinishGeneration(r) ==
  /\ comReq[r].op = "generate" /\ comReq[r].left = {}
  /\ \E rows \in [comReq[r].due -> Tx \ Stored] :
       /\ \A c, d \in comReq[r].due : rows[c] = rows[d] => c = d
       /\ tx' = [t \in Tx |->
            IF \E c \in comReq[r].due : rows[c] = t
            THEN [status |-> "pending", month |-> DatedIn(comReq[r].month),
                  of |-> CHOOSE c \in comReq[r].due : rows[c] = t]
            ELSE tx[t]]
  /\ EndCommitment(r)
  /\ UNCHANGED commitment

AbortCommitment(r) ==
  /\ comReq[r] # Idle
  /\ EndCommitment(r)
  /\ UNCHANGED <<commitment, tx>>

-----------------------------------------------------------------------------
(* Transactions *)

\* A transaction is created with any status.
CreateTransaction(t) ==
  /\ tx[t] = None
  /\ \E row \in TxRow :
       /\ commitment[row.of].state # "absent"
       /\ tx' = [tx EXCEPT ![t] = row]
  /\ UNCHANGED <<commitment, comReq>>

\* Mutant: a confirmed transaction can be cancelled.
MayUnlessCancelled(op, status) ==
  IF op = "cancel" THEN status \in {"pending", "confirmed"} ELSE status = "pending"

\* Confirming a confirmed transaction and cancelling a cancelled one change nothing.
May(op, status) == op \in {"confirm", "cancel", "update"} /\ status = "pending"

LoadTransaction(r) ==
  /\ comReq[r] = Idle
  /\ \E op \in {"confirm", "cancel", "update"}, t \in Stored :
       /\ May(op, tx[t].status)
       /\ comReq' = [comReq EXCEPT ![r] = [op |-> op, tx |-> t, row |-> tx[t]]]
  /\ UNCHANGED <<commitment, tx>>

FinishTransaction(r) ==
  /\ comReq[r].op \in {"confirm", "cancel", "update"}
  /\ LET t == comReq[r].tx IN
     \/ comReq[r].op = "confirm" /\ tx' = [tx EXCEPT ![t].status = "confirmed"]
     \/ comReq[r].op = "cancel" /\ tx' = [tx EXCEPT ![t].status = "cancelled"]
     \/ comReq[r].op = "update" /\ \E m \in Month : tx' = [tx EXCEPT ![t].month = m]
  /\ EndCommitment(r)
  /\ UNCHANGED commitment

-----------------------------------------------------------------------------
(* Commitments *)

CreateCommitment(c) ==
  /\ commitment[c].state = "absent"
  /\ \E row \in CommitmentRow :
       row.state # "absent" /\ commitment' = [commitment EXCEPT ![c] = row]
  /\ UNCHANGED <<tx, comReq>>

UpdateCommitment(c) ==
  /\ commitment[c].state # "absent"
  /\ \E row \in CommitmentRow :
       row.state # "absent" /\ commitment' = [commitment EXCEPT ![c] = row]
  /\ UNCHANGED <<tx, comReq>>

DeactivateCommitment(c) ==
  /\ commitment[c].state # "absent"
  /\ commitment' = [commitment EXCEPT ![c].state = "inactive"]
  /\ UNCHANGED <<tx, comReq>>

CommitmentsNext ==
  \/ \E r \in Request :
       ReadCommitments(r) \/ LookUp(r) \/ FinishGeneration(r) \/ AbortCommitment(r)
         \/ LoadTransaction(r) \/ FinishTransaction(r)
  \/ \E t \in Tx : CreateTransaction(t)
  \/ \E c \in Commitment :
       CreateCommitment(c) \/ UpdateCommitment(c) \/ DeactivateCommitment(c)

CommitmentsSpec == CommitmentsInit /\ [][CommitmentsNext]_commitmentVars

-----------------------------------------------------------------------------
(* Properties *)

\* The step that may be the commit of a generation.
GenerationEnds(r) ==
  /\ comReq[r].op = "generate" /\ comReq[r].left = {} /\ comReq'[r] = Idle
  /\ tx' # tx \/ comReq[r].due = {}

\* "Skips if a transaction already exists": a generation gives a commitment a second
\* transaction of the month only when the others were committed after it had looked.
DuplicateNeedsOverlap ==
  [][\A r \in Request :
       GenerationEnds(r) =>
         \A m \in {comReq[r].month}, c \in Commitment :
           Of(c, m) # {} /\ Of(c, m)' # Of(c, m) =>
             Of(c, m) \cap comReq[r].found = {}]_commitmentVars

\* Once a generation is committed, each commitment it read as active has a transaction in
\* the month, unless the one found was moved to another month meanwhile.
GenerationCovers ==
  [][\A r \in Request :
       GenerationEnds(r) =>
         \A m \in {comReq[r].month}, c \in comReq[r].read :
           \/ Of(c, m)' # {}
           \/ \E t \in comReq[r].found : tx[t].of = c /\ tx[t].month # m]_commitmentVars

\* A confirmed or cancelled transaction keeps its status and its date, except for a request
\* that loaded it before.
SettledTxNeedsOverlap ==
  [][tx' # tx => \A t \in Stored :
       tx[t].status # "pending" /\ tx'[t] # tx[t] =>
         \E r \in Request :
           /\ comReq[r].op \in {"confirm", "cancel", "update"} /\ comReq[r].tx = t
           /\ comReq[r].row # tx[t] /\ comReq'[r] = Idle]_commitmentVars
=============================================================================
