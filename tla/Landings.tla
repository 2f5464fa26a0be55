------------------------------ MODULE Landings ------------------------------
(***************************************************************************)
(* What books a bank deposit: the FX conversion that landed as it, or a     *)
(* reconciliation against a contra account.  Both look at its match_status  *)
(* and post a journal entry; matching and ignoring overwrite the status,    *)
(* and none of them locks the row.                                         *)
(*                                                                         *)
(* Left out: conversions that land as no deposit, the amounts, currencies   *)
(* and accounts (taken as fitting), the payment a deposit is matched to.    *)
(* The settlement of an invoice by a deposit is in ReceivableRequests.      *)
(***************************************************************************)
EXTENDS Requests, Naturals

CONSTANTS
  Deposit,
  MaxContra    \* bound on the contra entries of one deposit

ASSUME MaxContraAssumption == MaxContra \in Nat

VARIABLES
  deposit,     \* match_status of the bank transactions
  landed,      \* the number of FX conversions with this bank_transaction_id
  contra,      \* the number of journal entries of its reconciliations
  landReq      \* requests in progress: what each has read

landingVars == <<deposit, landed, contra, landReq>>

-----------------------------------------------------------------------------

MatchStatus == {"unmatched", "auto_matched", "manual_matched", "ignored", "reconciled"}

\* What a request makes of the deposit it loads.
Outcomes == [land |-> "reconciled", reconcile |-> "reconciled",
             match |-> "manual_matched", ignore |-> "ignored"]

Loaded == [op : DOMAIN Outcomes, deposit : Deposit, status : MatchStatus]
Matching == [op : {"auto_match"}, unmatched : SUBSET Deposit]

LandingsTypeOK ==
  /\ deposit \in [Deposit -> MatchStatus \cup {"absent"}]
  /\ landed \in [Deposit -> Nat]
  /\ contra \in [Deposit -> 0 .. MaxContra]
  /\ landReq \in [Request -> {Idle} \cup Loaded \cup Matching]

LandingsInit ==
  /\ deposit = [d \in Deposit |-> "absent"]
  /\ landed = [d \in Deposit |-> 0]
  /\ contra = [d \in Deposit |-> 0]
  /\ landReq = [r \in Request |-> Idle]

EndLanding(r) == landReq' = [landReq EXCEPT ![r] = Idle]

\* import_statement, or a sync: a deposit that is not stored yet.
ImportDeposit(d) ==
  /\ deposit[d] = "absent"
  /\ deposit' = [deposit EXCEPT ![d] = "unmatched"]
  /\ UNCHANGED <<landed, contra, landReq>>

\* Mutant: the check of a reconciled deposit is dropped.
MayAlways(op, status) == status # "absent"

\* manual_match and ignore_transaction look at no status.
MayLoad(op, status) ==
  /\ status # "absent"
  /\ op \in {"land", "reconcile"} => status # "reconciled"

LoadDeposit(r) ==
  /\ landReq[r] = Idle
  /\ \E op \in DOMAIN Outcomes, d \in Deposit :
       /\ MayLoad(op, deposit[d])
       /\ landReq' = [landReq EXCEPT ![r] = [op |-> op, deposit |-> d, status |-> deposit[d]]]
  /\ UNCHANGED <<deposit, landed, contra>>

\* A status equal to the one loaded is not written.
WriteStatus(r) ==
  deposit' = IF landReq[r].status = Outcomes[landReq[r].op] THEN deposit
             ELSE [deposit EXCEPT ![landReq[r].deposit] = Outcomes[landReq[r].op]]

\* Mutant: no unique index on fx_conversions.bank_transaction_id.
UnlandedAlways(d) == TRUE

\* uq_fx_conversions_bank_transaction_id_not_null: the insert waits for that of another
\* request in progress, and raises once that one is committed.
Unlanded(d) == landed[d] = 0

FinishLand(r) ==
  /\ landReq[r].op = "land"
  /\ Unlanded(landReq[r].deposit)
  /\ landed' = [landed EXCEPT ![landReq[r].deposit] = @ + 1]
  /\ WriteStatus(r)
  /\ EndLanding(r)
  /\ UNCHANGED contra

FinishReconcile(r) ==
  /\ landReq[r].op = "reconcile"
  /\ contra[landReq[r].deposit] < MaxContra
  /\ contra' = [contra EXCEPT ![landReq[r].deposit] = @ + 1]
  /\ WriteStatus(r)
  /\ EndLanding(r)
  /\ UNCHANGED landed

FinishMatch(r) ==
  /\ landReq[r].op \in {"match", "ignore"}
  /\ WriteStatus(r)
  /\ EndLanding(r)
  /\ UNCHANGED <<landed, contra>>

Unmatched == {d \in Deposit : deposit[d] = "unmatched"}

\* auto_match; recording a payment looks for one deposit in the same way.
BeginAutoMatch(r) ==
  /\ landReq[r] = Idle
  /\ landReq' = [landReq EXCEPT ![r] = [op |-> "auto_match", unmatched |-> Unmatched]]
  /\ UNCHANGED <<deposit, landed, contra>>

\* Some of the deposits read have a payment that fits well enough.
FinishAutoMatch(r) ==
  /\ landReq[r].op = "auto_match"
  /\ \E matched \in SUBSET landReq[r].unmatched :
       deposit' = [d \in Deposit |-> IF d \in matched THEN "auto_matched" ELSE deposit[d]]
  /\ EndLanding(r)
  /\ UNCHANGED <<landed, contra>>

\* A check or the unique index raises, the client goes away: get_db rolls back.
AbortLanding(r) ==
  /\ landReq[r] # Idle
  /\ EndLanding(r)
  /\ UNCHANGED <<deposit, landed, contra>>

LandingsNext ==
  \/ \E d \in Deposit : ImportDeposit(d)
  \/ \E r \in Request :
       \/ LoadDeposit(r) \/ BeginAutoMatch(r) \/ AbortLanding(r)
       \/ FinishLand(r) \/ FinishReconcile(r) \/ FinishMatch(r) \/ FinishAutoMatch(r)

LandingsSpec == LandingsInit /\ [][LandingsNext]_landingVars

-----------------------------------------------------------------------------
(* Properties *)

\* However recordings, reconciliations and matches overlap, and even when a landing was
\* ignored or matched again, no second conversion lands as the same deposit.
LandedOnce == \A d \in Deposit : landed[d] <= 1

Booked(d) == landed[d] + contra[d] > 0

\* A deposit already booked is booked again only when its status no longer says so, or by a
\* request that had read a status from before the booking.
SecondBookingNeedsOverlap ==
  [][\A d \in Deposit :
       Booked(d) /\ landed'[d] + contra'[d] > landed[d] + contra[d] =>
         \/ deposit[d] # "reconciled"
         \/ \E r \in Request :
              /\ landReq[r].op \in {"land", "reconcile"} /\ landReq[r].deposit = d
              /\ landReq[r].status # "reconciled" /\ landReq'[r] = Idle]_landingVars
=============================================================================
