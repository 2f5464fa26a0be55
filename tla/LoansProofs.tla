---------------------------- MODULE LoansProofs ----------------------------
(***************************************************************************)
(* Proofs about Loans for any loans, payments, allocations and requests.    *)
(* Those about the letters and terms rest on what each request found when   *)
(* it loaded its row, and on the one thing no handler does: to make a loan  *)
(* active that is not, so that one loaded as repaid for a discharge letter  *)
(* is still repaid or written off when the letter is stored.  Those about   *)
(* amounts rest on the laws of sums over the rows that a step leaves, adds  *)
(* or removes.                                                              *)
(***************************************************************************)
EXTENDS Loans, Sums

LoansAreRows ==
  /\ loan = [l \in Loan |-> loan[l]]
  /\ \A l \in Loan :
       loan[l] = [status |-> loan[l].status, principal |-> loan[l].principal,
                  agreement |-> loan[l].agreement, discharge |-> loan[l].discharge]

Ended == {"repaid", "written_off"}

\* What a request that loaded a loan decided on.
Decided(r) ==
  loanReq[r].op \in Deciding =>
    /\ loanReq[r] = [op |-> loanReq[r].op, loan |-> loanReq[r].loan,
                     row |-> loanReq[r].row, counted |-> loanReq[r].counted]
    /\ loanReq[r].loan \in Loan
    /\ LoanAllows(loanReq[r].op, loanReq[r].row)
    /\ loanReq[r].op = "discharge" => loan[loanReq[r].loan].status \in Ended
    /\ loan[loanReq[r].loan].status # "absent"

\* A loan not stored yet has no agreement.
AbsentIsBlank == \A l \in Loan : loan[l].status = "absent" => loan[l].agreement = 0

LoInv ==
  /\ LoansAreRows
  /\ files \in Nat
  /\ loanReq = [r \in Request |-> loanReq[r]]
  /\ DischargedNotActive /\ AbsentIsBlank
  /\ \A r \in Request : Decided(r)

LEMMA LoansInitial == LoansInit => LoInv
BY DEF LoansInit, LoInv, LoansAreRows, DischargedNotActive, AbsentIsBlank, Decided, Deciding, NoLoan,
       Idle

-----------------------------------------------------------------------------

\* No loan becomes active again, and none is deleted.
EndedStays ==
  \A l \in Loan :
    /\ loan[l].status \in Ended => loan'[l].status \in Ended
    /\ loan[l].status # "absent" => loan'[l].status # "absent"

LEMMA RequestKept ==
  ASSUME LoInv, EndedStays, NEW r \in Request, loanReq'[r] = loanReq[r]
  PROVE  Decided(r)'
BY DEF LoInv, EndedStays, Decided

\* A request replaced by one that decides on nothing: it ends, or sums allocations.
LEMMA RequestReplaced ==
  ASSUME LoInv, EndedStays, NEW r \in Request, NEW v, v.op \notin Deciding,
         loanReq' = [loanReq EXCEPT ![r] = v]
  PROVE  loanReq' = [s \in Request |-> loanReq'[s]] /\ \A s \in Request : Decided(s)'
<1>1. loanReq'[r] = v /\ \A s \in Request \ {r} : loanReq'[s] = loanReq[s]
  BY DEF LoInv
<1>2. Decided(r)'
  BY <1>1 DEF Decided
<1> QED
  BY <1>1, <1>2, RequestKept DEF LoInv

LEMMA LoanEnded ==
  ASSUME LoInv, EndedStays, NEW r \in Request, EndLoan(r)
  PROVE  loanReq' = [s \in Request |-> loanReq'[s]] /\ \A s \in Request : Decided(s)'
<1>1. Idle.op \notin Deciding
  BY DEF Idle, Deciding
<1> QED
  BY <1>1, RequestReplaced DEF EndLoan

LEMMA LoansKept ==
  ASSUME LoInv, loan' = loan
  PROVE  LoansAreRows' /\ DischargedNotActive' /\ AbsentIsBlank' /\ EndedStays
BY DEF LoInv, LoansAreRows, DischargedNotActive, AbsentIsBlank, EndedStays

-----------------------------------------------------------------------------
(* One column of one loan, written by EXCEPT *)

\* A loan replaced by a row of four columns.
LEMMA RowStored ==
  ASSUME LoInv, NEW l \in Loan, NEW row, loan' = [loan EXCEPT ![l] = row],
         row = [status |-> row.status, principal |-> row.principal,
                agreement |-> row.agreement, discharge |-> row.discharge]
  PROVE  LoansAreRows' /\ loan'[l] = row /\ \A k \in Loan \ {l} : loan'[k] = loan[k]
BY DEF LoInv, LoansAreRows

LEMMA StatusWritten ==
  ASSUME LoInv, NEW l \in Loan, NEW v, loan' = [loan EXCEPT ![l].status = v]
  PROVE  /\ LoansAreRows' /\ loan'[l].status = v
         /\ loan'[l].principal = loan[l].principal
         /\ loan'[l].agreement = loan[l].agreement /\ loan'[l].discharge = loan[l].discharge
         /\ \A k \in Loan \ {l} : loan'[k] = loan[k]
<1> DEFINE old == [status |-> loan[l].status, principal |-> loan[l].principal,
                  agreement |-> loan[l].agreement, discharge |-> loan[l].discharge]
           new == [status |-> v, principal |-> loan[l].principal,
                  agreement |-> loan[l].agreement, discharge |-> loan[l].discharge]
<1>1. loan' = [loan EXCEPT ![l] = [loan[l] EXCEPT !.status = v]]
  OBVIOUS
<1>2. [old EXCEPT !.status = v] = new
  OBVIOUS
<1>3. loan[l] = old
  BY DEF LoInv, LoansAreRows
<1>4. /\ new.status = v /\ new.principal = loan[l].principal
      /\ new.agreement = loan[l].agreement /\ new.discharge = loan[l].discharge
      /\ new = [status |-> new.status, principal |-> new.principal,
                agreement |-> new.agreement, discharge |-> new.discharge]
  OBVIOUS
<1> HIDE DEF old, new
<1>5. loan' = [loan EXCEPT ![l] = new]
  BY <1>1, <1>2, <1>3, Zenon
<1> QED
  BY <1>4, <1>5, RowStored

LEMMA PrincipalWritten ==
  ASSUME LoInv, NEW l \in Loan, NEW v, loan' = [loan EXCEPT ![l].principal = v]
  PROVE  /\ LoansAreRows' /\ loan'[l].principal = v
         /\ loan'[l].status = loan[l].status
         /\ loan'[l].agreement = loan[l].agreement /\ loan'[l].discharge = loan[l].discharge
         /\ \A k \in Loan \ {l} : loan'[k] = loan[k]
<1> DEFINE old == [status |-> loan[l].status, principal |-> loan[l].principal,
                  agreement |-> loan[l].agreement, discharge |-> loan[l].discharge]
           new == [status |-> loan[l].status, principal |-> v,
                  agreement |-> loan[l].agreement, discharge |-> loan[l].discharge]
<1>1. loan' = [loan EXCEPT ![l] = [loan[l] EXCEPT !.principal = v]]
  OBVIOUS
<1>2. [old EXCEPT !.principal = v] = new
  OBVIOUS
<1>3. loan[l] = old
  BY DEF LoInv, LoansAreRows
<1>4. /\ new.principal = v /\ new.status = loan[l].status
      /\ new.agreement = loan[l].agreement /\ new.discharge = loan[l].discharge
      /\ new = [status |-> new.status, principal |-> new.principal,
                agreement |-> new.agreement, discharge |-> new.discharge]
  OBVIOUS
<1> HIDE DEF old, new
<1>5. loan' = [loan EXCEPT ![l] = new]
  BY <1>1, <1>2, <1>3, Zenon
<1> QED
  BY <1>4, <1>5, RowStored

LEMMA AgreementWritten ==
  ASSUME LoInv, NEW l \in Loan, NEW v, loan' = [loan EXCEPT ![l]["agreement"] = v]
  PROVE  /\ LoansAreRows' /\ loan'[l].agreement = v
         /\ loan'[l].status = loan[l].status
         /\ loan'[l].principal = loan[l].principal /\ loan'[l].discharge = loan[l].discharge
         /\ \A k \in Loan \ {l} : loan'[k] = loan[k]
<1> DEFINE old == [status |-> loan[l].status, principal |-> loan[l].principal,
                  agreement |-> loan[l].agreement, discharge |-> loan[l].discharge]
           new == [status |-> loan[l].status, principal |-> loan[l].principal,
                  agreement |-> v, discharge |-> loan[l].discharge]
<1>1. loan' = [loan EXCEPT ![l] = [loan[l] EXCEPT !["agreement"] = v]]
  OBVIOUS
<1>2. [old EXCEPT !["agreement"] = v] = new
  OBVIOUS
<1>3. loan[l] = old
  BY DEF LoInv, LoansAreRows
<1>4. /\ new.agreement = v /\ new.status = loan[l].status
      /\ new.principal = loan[l].principal /\ new.discharge = loan[l].discharge
      /\ new = [status |-> new.status, principal |-> new.principal,
                agreement |-> new.agreement, discharge |-> new.discharge]
  OBVIOUS
<1> HIDE DEF old, new
<1>5. loan' = [loan EXCEPT ![l] = new]
  BY <1>1, <1>2, <1>3, Zenon
<1> QED
  BY <1>4, <1>5, RowStored

LEMMA DischargeWritten ==
  ASSUME LoInv, NEW l \in Loan, NEW v, loan' = [loan EXCEPT ![l]["discharge"] = v]
  PROVE  /\ LoansAreRows' /\ loan'[l].discharge = v
         /\ loan'[l].status = loan[l].status
         /\ loan'[l].principal = loan[l].principal /\ loan'[l].agreement = loan[l].agreement
         /\ \A k \in Loan \ {l} : loan'[k] = loan[k]
<1> DEFINE old == [status |-> loan[l].status, principal |-> loan[l].principal,
                  agreement |-> loan[l].agreement, discharge |-> loan[l].discharge]
           new == [status |-> loan[l].status, principal |-> loan[l].principal,
                  agreement |-> loan[l].agreement, discharge |-> v]
<1>1. loan' = [loan EXCEPT ![l] = [loan[l] EXCEPT !["discharge"] = v]]
  OBVIOUS
<1>2. [old EXCEPT !["discharge"] = v] = new
  OBVIOUS
<1>3. loan[l] = old
  BY DEF LoInv, LoansAreRows
<1>4. /\ new.discharge = v /\ new.status = loan[l].status
      /\ new.principal = loan[l].principal /\ new.agreement = loan[l].agreement
      /\ new = [status |-> new.status, principal |-> new.principal,
                agreement |-> new.agreement, discharge |-> new.discharge]
  OBVIOUS
<1> HIDE DEF old, new
<1>5. loan' = [loan EXCEPT ![l] = new]
  BY <1>1, <1>2, <1>3, Zenon
<1> QED
  BY <1>4, <1>5, RowStored

-----------------------------------------------------------------------------
(* The commits of the requests that decide on a loan *)

LEMMA UpdateFinished ==
  ASSUME LoInv, NEW r \in Request, FinishUpdate(r)
  PROVE  /\ LoansAreRows' /\ loanReq[r].loan \in Loan /\ loanReq[r].row.status = "active"
         /\ \A l \in Loan :
              /\ loan'[l].status = loan[l].status
              /\ loan'[l].agreement = loan[l].agreement /\ loan'[l].discharge = loan[l].discharge
              /\ loan'[l] # loan[l] => l = loanReq[r].loan
<1>1. loanReq[r].loan \in Loan /\ loanReq[r].row.status = "active"
  BY DEF FinishUpdate, LoInv, Decided, Deciding, LoanAllows
<1>2. PICK a : loan' = [loan EXCEPT ![loanReq[r].loan].principal = a]
  BY DEF FinishUpdate
<1> QED
  BY <1>1, <1>2, PrincipalWritten

LEMMA RepaidMarked ==
  ASSUME LoInv, NEW r \in Request, FinishMarkRepaid(r)
  PROVE  /\ LoansAreRows' /\ loanReq[r].loan \in Loan
         /\ \A l \in Loan :
              /\ loan'[l].status = loan[l].status \/ loan'[l].status = "repaid"
              /\ loan'[l].agreement = loan[l].agreement /\ loan'[l].discharge = loan[l].discharge
              /\ loan'[l].principal = loan[l].principal
<1>1. loanReq[r].loan \in Loan
  BY DEF FinishMarkRepaid, LoInv, Decided, Deciding
<1>2. CASE loan' = loan
  BY <1>1, <1>2, LoansKept
<1>3. CASE loan' = [loan EXCEPT ![loanReq[r].loan].status = "repaid"]
  BY <1>1, <1>3, StatusWritten
<1> QED
  BY <1>2, <1>3 DEF FinishMarkRepaid

\* A discharge letter is stored for a loan that has ended.
LEMMA LetterFinished ==
  ASSUME LoInv, NEW r \in Request, FinishLetter(r)
  PROVE  /\ LoansAreRows' /\ loanReq[r].loan \in Loan /\ loanReq[r].op \in Deciding
         /\ LoanAllows(loanReq[r].op, loanReq[r].row)
         /\ files' \in Nat
         /\ \A l \in Loan :
              /\ loan'[l].status = loan[l].status /\ loan'[l].principal = loan[l].principal
              /\ loan'[l].agreement # loan[l].agreement =>
                   l = loanReq[r].loan /\ loanReq[r].op = "agreement" /\ loan[l].status # "absent"
              /\ loan'[l].discharge # loan[l].discharge =>
                   l = loanReq[r].loan /\ loanReq[r].op = "discharge" /\ loan[l].status \in Ended
<1>1. /\ loanReq[r].op \in {"agreement", "discharge"} /\ files' = files + 1
      /\ loan' = [loan EXCEPT ![loanReq[r].loan][loanReq[r].op] = files + 1]
  BY DEF FinishLetter, WriteLetter
<1>2. /\ loanReq[r].loan \in Loan /\ loanReq[r].op \in Deciding
      /\ LoanAllows(loanReq[r].op, loanReq[r].row)
      /\ loanReq[r].op = "discharge" => loan[loanReq[r].loan].status \in Ended
      /\ loan[loanReq[r].loan].status # "absent"
  BY <1>1 DEF LoInv, Decided, Deciding
<1>3. files' \in Nat
  BY <1>1 DEF LoInv
<1>4. CASE loanReq[r].op = "agreement"
  <2>1. loan' = [loan EXCEPT ![loanReq[r].loan]["agreement"] = files + 1]
    BY <1>1, <1>4
  <2> QED
    BY <1>2, <1>3, <1>4, <2>1, AgreementWritten
<1>5. CASE loanReq[r].op = "discharge"
  <2>1. loan' = [loan EXCEPT ![loanReq[r].loan]["discharge"] = files + 1]
    BY <1>1, <1>5
  <2> QED
    BY <1>2, <1>3, <1>5, <2>1, DischargeWritten
<1> QED
  BY <1>1, <1>4, <1>5

LEMMA LoansStep == LoInv /\ [LoansNext]_loanVars => LoInv'
<1> SUFFICES ASSUME LoInv, [LoansNext]_loanVars PROVE LoInv'
  OBVIOUS
<1>1. ASSUME NEW r \in Request, LoadLoan(r) PROVE LoInv'
  <2>1. PICK op \in Deciding, l \in Loan :
          /\ LoanAllows(op, loan[l])
          /\ loanReq' = [loanReq EXCEPT ![r] =
               [op |-> op, loan |-> l, row |-> loan[l], counted |-> FALSE]]
    BY <1>1 DEF LoadLoan
  <2> DEFINE q == [op |-> op, loan |-> l, row |-> loan[l], counted |-> FALSE]
  <2>2. /\ q.op = op /\ q.loan = l /\ q.row = loan[l]
        /\ q = [op |-> q.op, loan |-> q.loan, row |-> q.row, counted |-> q.counted]
    OBVIOUS
  <2> HIDE DEF q
  <2>3. loanReq' = [loanReq EXCEPT ![r] = q]
    BY <2>1 DEF q
  <2>4. loanReq' = [s \in Request |-> loanReq'[s]] /\ loanReq'[r] = q
          /\ \A s \in Request \ {r} : loanReq'[s] = loanReq[s]
    BY <2>3 DEF LoInv
  <2>5. loan' = loan /\ files' = files
    BY <1>1 DEF LoadLoan
  <2>6. (op = "discharge" => loan[l].status \in Ended) /\ loan[l].status # "absent"
    BY <2>1 DEF LoanAllows, Ended
  <2>7. Decided(r)'
    BY <2>1, <2>2, <2>4, <2>5, <2>6 DEF Decided
  <2> QED
    BY <2>4, <2>5, <2>7, RequestKept, LoansKept DEF LoInv
<1>2. ASSUME NEW r \in Request, CountRepaid(r) PROVE LoInv'
  <2> DEFINE old == [op |-> loanReq[r].op, loan |-> loanReq[r].loan,
                     row |-> loanReq[r].row, counted |-> loanReq[r].counted]
             q == [op |-> loanReq[r].op, loan |-> loanReq[r].loan,
                   row |-> loanReq[r].row, counted |-> TRUE]
  <2>1. loanReq' = [loanReq EXCEPT ![r] = [loanReq[r] EXCEPT !.counted = TRUE]]
    BY <1>2 DEF CountRepaid
  <2>2. [old EXCEPT !.counted = TRUE] = q
    <3>1. \A v : [old EXCEPT !.counted = v]
                 = [op |-> loanReq[r].op, loan |-> loanReq[r].loan,
                    row |-> loanReq[r].row, counted |-> v]
      OBVIOUS
    <3> QED
      BY <3>1, Zenon
  <2>3. loanReq[r] = old /\ Decided(r) /\ loanReq[r].op \in Deciding
    BY <1>2 DEF CountRepaid, LoInv, Decided, Deciding
  <2>4. /\ q.op = loanReq[r].op /\ q.loan = loanReq[r].loan /\ q.row = loanReq[r].row
        /\ q = [op |-> q.op, loan |-> q.loan, row |-> q.row, counted |-> q.counted]
    OBVIOUS
  <2> HIDE DEF old, q
  <2>5. loanReq' = [loanReq EXCEPT ![r] = q]
    BY <2>1, <2>2, <2>3, Zenon
  <2>6. loanReq' = [s \in Request |-> loanReq'[s]] /\ loanReq'[r] = q
          /\ \A s \in Request \ {r} : loanReq'[s] = loanReq[s]
    BY <2>5 DEF LoInv
  <2>7. loan' = loan /\ files' = files
    BY <1>2 DEF CountRepaid
  <2>8. Decided(r)'
    BY <2>3, <2>4, <2>6, <2>7 DEF Decided
  <2> QED
    BY <2>6, <2>7, <2>8, RequestKept, LoansKept DEF LoInv
<1>3. ASSUME NEW r \in Request, SumAllocations(r) PROVE LoInv'
  <2>1. PICK p : loanReq' = [loanReq EXCEPT ![r] =
          [op |-> "allocate", payment |-> p, allocated |-> Allocated(p)]]
    BY <1>3 DEF SumAllocations
  <2> DEFINE q == [op |-> "allocate", payment |-> p, allocated |-> Allocated(p)]
  <2>2. q.op \notin Deciding
    BY DEF Deciding
  <2> HIDE DEF q
  <2>3. loanReq' = [loanReq EXCEPT ![r] = q]
    BY <2>1 DEF q
  <2>4. loan' = loan /\ files' = files
    BY <1>3 DEF SumAllocations
  <2> QED
    BY <2>2, <2>3, <2>4, RequestReplaced, LoansKept DEF LoInv
<1>4. ASSUME NEW r \in Request, FinishUpdate(r) PROVE LoInv'
  <2>1. DischargedNotActive' /\ AbsentIsBlank' /\ EndedStays
    BY <1>4, UpdateFinished DEF LoInv, DischargedNotActive, AbsentIsBlank, EndedStays
  <2> QED
    BY <1>4, <2>1, UpdateFinished, LoanEnded DEF FinishUpdate, LoInv
<1>5. ASSUME NEW r \in Request, FinishMarkRepaid(r) PROVE LoInv'
  <2>1. DischargedNotActive' /\ AbsentIsBlank' /\ EndedStays
    BY <1>5, RepaidMarked DEF LoInv, DischargedNotActive, AbsentIsBlank, EndedStays, Ended
  <2> QED
    BY <1>5, <2>1, RepaidMarked, LoanEnded DEF FinishMarkRepaid, LoInv
<1>6. ASSUME NEW r \in Request, FinishLetter(r) PROVE LoInv'
  <2>1. DischargedNotActive' /\ AbsentIsBlank' /\ EndedStays
    BY <1>6, LetterFinished DEF LoInv, DischargedNotActive, AbsentIsBlank, EndedStays, Ended
  <2> QED
    BY <1>6, <2>1, LetterFinished, LoanEnded DEF FinishLetter, LoInv
<1>7. ASSUME NEW r \in Request, FinishAllocate(r) \/ AbortLoan(r) PROVE LoInv'
  <2>1. loan' = loan /\ files' = files /\ EndLoan(r)
    BY <1>7 DEF FinishAllocate, AbortLoan
  <2> QED
    BY <2>1, LoansKept, LoanEnded DEF LoInv
<1>8. ASSUME NEW l \in Loan, CreateLoan(l) PROVE LoInv'
  <2>1. PICK a : loan' = [loan EXCEPT ![l] =
          [status |-> "active", principal |-> a, agreement |-> 0, discharge |-> 0]]
    BY <1>8 DEF CreateLoan
  <2>2. LoansAreRows' /\ loan'[l].status = "active" /\ loan'[l].discharge = 0
          /\ \A k \in Loan \ {l} : loan'[k] = loan[k]
    BY <2>1 DEF LoInv, LoansAreRows
  <2>3. DischargedNotActive' /\ AbsentIsBlank' /\ EndedStays
    BY <1>8, <2>2 DEF CreateLoan, LoInv, DischargedNotActive, AbsentIsBlank, EndedStays, Ended
  <2> QED
    BY <1>8, <2>2, <2>3, RequestKept DEF CreateLoan, LoInv
<1>9. ASSUME NEW l \in Loan, WriteOff(l) PROVE LoInv'
  <2>1. LoansAreRows' /\ loan'[l].status = "written_off" /\ \A k \in Loan \ {l} : loan'[k] = loan[k]
    BY <1>9, StatusWritten DEF WriteOff
  <2>2. DischargedNotActive' /\ AbsentIsBlank' /\ EndedStays
    BY <2>1 DEF LoInv, DischargedNotActive, AbsentIsBlank, EndedStays, Ended
  <2> QED
    BY <1>9, <2>1, <2>2, RequestKept DEF WriteOff, LoInv
<1>10. CASE \/ \E p \in Payment : RecordLoanPayment(p) \/ LinkPayment(p)
            \/ \E a \in Allocation : Deallocate(a)
            \/ UNCHANGED loanVars
  <2>1. loan' = loan /\ files' = files /\ loanReq' = loanReq
    BY <1>10 DEF RecordLoanPayment, LinkPayment, Deallocate, loanVars
  <2> QED
    BY <2>1, LoansKept, RequestKept DEF LoInv
<1> QED
  BY <1>1, <1>2, <1>3, <1>4, <1>5, <1>6, <1>7, <1>8, <1>9, <1>10
     DEF LoansNext, LoanStep, FinishLoan

LEMMA LoansInvariant == LoansSpec => []LoInv
BY LoansInitial, LoansStep, PTL DEF LoansSpec

\* For any loans and requests: a loan with a discharge letter is repaid or written off.
THEOREM DischargedStaysEnded == LoansSpec => []DischargedNotActive
BY LoansInvariant, PTL DEF LoInv

-----------------------------------------------------------------------------

\* The action of SettledTermsNeedOverlap.
SettledTerms ==
  loan' # loan => \A l \in Loan :
    \/ loan[l].agreement # 0 /\ loan'[l].agreement # loan[l].agreement
    \/ loan[l].discharge # 0 /\ loan'[l].discharge # loan[l].discharge
    \/ loan[l].status \in {"repaid", "written_off"}
         /\ loan'[l].principal # loan[l].principal
    => \E r \in Request :
         /\ loanReq[r].op \in Deciding /\ loanReq[r].loan = l
         /\ loanReq[r].row # loan[l] /\ loanReq'[r] = Idle

LEMMA SettledTermsStep == LoInv /\ [LoansNext]_loanVars => [SettledTerms]_loanVars
<1> SUFFICES ASSUME LoInv, LoansNext, loan' # loan, NEW l \in Loan,
                    \/ loan[l].agreement # 0 /\ loan'[l].agreement # loan[l].agreement
                    \/ loan[l].discharge # 0 /\ loan'[l].discharge # loan[l].discharge
                    \/ loan[l].status \in {"repaid", "written_off"}
                         /\ loan'[l].principal # loan[l].principal
             PROVE  \E r \in Request :
                      /\ loanReq[r].op \in Deciding /\ loanReq[r].loan = l
                      /\ loanReq[r].row # loan[l] /\ loanReq'[r] = Idle
  BY DEF SettledTerms
<1>1. ASSUME NEW k \in Loan, CreateLoan(k) PROVE FALSE
  <2>1. loan[k].status = "absent" /\ loan[k].discharge = 0 /\ loan[k].agreement = 0
    BY <1>1 DEF CreateLoan, LoInv, DischargedNotActive, AbsentIsBlank
  <2> QED
    BY <1>1, <2>1 DEF CreateLoan, LoInv, LoansAreRows
<1>2. ASSUME NEW k \in Loan, WriteOff(k) PROVE FALSE
  BY <1>2, StatusWritten DEF WriteOff
<1>3. ASSUME NEW r \in Request, FinishMarkRepaid(r) PROVE FALSE
  BY <1>3, RepaidMarked
<1>4. ASSUME NEW r \in Request, FinishUpdate(r)
      PROVE  /\ loanReq[r].op \in Deciding /\ loanReq[r].loan = l
             /\ loanReq[r].row # loan[l] /\ loanReq'[r] = Idle
  <2>1. loanReq[r].op \in Deciding /\ loanReq'[r] = Idle
    BY <1>4 DEF FinishUpdate, EndLoan, LoInv, Deciding
  <2>2. loanReq[r].loan = l /\ loan[l].status \in {"repaid", "written_off"}
    BY <1>4, UpdateFinished
  <2>3. loanReq[r].row.status = "active"
    BY <1>4, UpdateFinished
  <2> QED
    BY <2>1, <2>2, <2>3
<1>5. ASSUME NEW r \in Request, FinishLetter(r)
      PROVE  /\ loanReq[r].op \in Deciding /\ loanReq[r].loan = l
             /\ loanReq[r].row # loan[l] /\ loanReq'[r] = Idle
  <2>1. loanReq'[r] = Idle
    BY <1>5 DEF FinishLetter, EndLoan, LoInv
  <2>2. loanReq[r].op \in Deciding /\ loanReq[r].loan = l
    BY <1>5, LetterFinished
  <2>3. \/ loanReq[r].row.agreement = 0 /\ loan[l].agreement # 0
        \/ loanReq[r].row.discharge = 0 /\ loan[l].discharge # 0
    BY <1>5, LetterFinished DEF LoanAllows
  <2> QED
    BY <2>1, <2>2, <2>3
<1> QED
  BY <1>1, <1>2, <1>3, <1>4, <1>5
     DEF LoansNext, LoanStep, FinishLoan, LoadLoan, CountRepaid, SumAllocations, FinishAllocate,
         AbortLoan, RecordLoanPayment, LinkPayment, Deallocate

\* For any loans and requests: a letter is replaced, and the principal of an ended loan
\* changed, only by a request that decided on a row another request has changed since.
THEOREM SettledTermsOverlap == LoansSpec => SettledTermsNeedOverlap
<1>1. LoansSpec => [][SettledTerms]_loanVars
  BY LoansInvariant, SettledTermsStep, PTL DEF LoansSpec
<1> QED
  BY <1>1 DEF SettledTermsNeedOverlap, SettledTerms

-----------------------------------------------------------------------------
(* Amounts: what the rows of a sum add up to *)

\* MapThenSumSet of the amounts of f's rows, as AllocatedBy, Repaid and Fits take it.
AmountOf(f, rows) == MapThenSumSet(LAMBDA a : f[a].amount, rows)

Amounts(f, rows) == [a \in rows |-> f[a].amount]

LEMMA AmountIsTotal ==
  ASSUME NEW f, NEW rows, IsFiniteSet(rows)
  PROVE  AmountOf(f, rows) = Total(Amounts(f, rows), rows)
<1> DEFINE F(iter) == iter = [s \in SUBSET rows |->
                         IF s = {} THEN 0
                         ELSE f[CHOOSE x \in s : TRUE].amount + iter[s \ {CHOOSE x \in s : TRUE}]]
           fold == CHOOSE iter : F(iter)
           g == Amounts(f, rows)
<1>1. AmountOf(f, rows) = fold[rows]
  BY DEF AmountOf, MapThenSumSet, MapThenFoldSet
<1>2. ASSUME NEW iter PROVE F(iter) <=> IsFold(iter, g, rows)
  <2>1. ASSUME NEW s \in SUBSET rows, s # {} PROVE f[CHOOSE x \in s : TRUE].amount = g[First(s)]
    BY <2>1, FirstIsMember DEF First, Amounts
  <2> QED
    BY <2>1 DEF IsFold, First
<1>3. IsFold(fold, g, rows)
  <2> HIDE DEF g, F
  <2>1. \E iter : F(iter)
    BY <1>2, FoldExists
  <2>2. F(fold)
    BY <2>1
  <2> QED
    BY <1>2, <2>2
<1> HIDE DEF fold, g
<1> QED
  BY <1>1, <1>3, FoldValue DEF g

\* Rows that have the same amounts add up to the same.
LEMMA AmountEqual ==
  ASSUME NEW f, NEW g, NEW rows, IsFiniteSet(rows), \A a \in rows : f[a].amount = g[a].amount
  PROVE  AmountOf(f, rows) = AmountOf(g, rows)
<1>1. Amounts(f, rows) = Amounts(g, rows)
  BY DEF Amounts
<1> QED
  BY <1>1, AmountIsTotal

\* The sum over a part of the rows: a natural number, and no greater than over all.
LEMMA AmountMonotone ==
  ASSUME NEW f, NEW rows, IsFiniteSet(rows), \A a \in rows : f[a].amount \in Nat,
         NEW part \in SUBSET rows
  PROVE  AmountOf(f, part) \in Nat /\ AmountOf(f, rows) \in Nat
           /\ AmountOf(f, part) <= AmountOf(f, rows)
<1>1. IsFiniteSet(part)
  BY FS_Subset
<1>2. \A a \in part : Amounts(f, part)[a] = Amounts(f, rows)[a]
  BY DEF Amounts
<1>3. \A a \in rows : Amounts(f, rows)[a] \in Nat
  BY DEF Amounts
<1>4. AmountOf(f, part) = Total(Amounts(f, rows), part)
  BY <1>1, <1>2, AmountIsTotal, TotalEqual
<1>5. AmountOf(f, rows) = Total(Amounts(f, rows), rows)
  BY AmountIsTotal
<1> QED
  BY <1>3, <1>4, <1>5, TotalMonotone

LEMMA AmountUnion ==
  ASSUME NEW f, NEW rows, IsFiniteSet(rows), NEW more, IsFiniteSet(more), rows \cap more = {},
         \A a \in rows \cup more : f[a].amount \in Nat
  PROVE  AmountOf(f, rows \cup more) = AmountOf(f, rows) + AmountOf(f, more)
<1> DEFINE all == rows \cup more
           g == Amounts(f, all)
<1>1. IsFiniteSet(all)
  BY FS_Union
<1>2. \A a \in all : g[a] = f[a].amount /\ g[a] \in Int
  BY DEF Amounts
<1>3. (\A a \in rows : Amounts(f, rows)[a] = g[a]) /\ \A a \in more : Amounts(f, more)[a] = g[a]
  BY DEF Amounts
<1> HIDE DEF g
<1>4. AmountOf(f, rows) = Total(g, rows) /\ AmountOf(f, more) = Total(g, more)
  BY <1>3, AmountIsTotal, TotalEqual
<1>5. AmountOf(f, all) = Total(g, all)
  BY <1>1, AmountIsTotal DEF g
<1>6. Total(g, all) = Total(g, rows) + Total(g, more)
  BY <1>2, TotalUnion
<1> QED
  BY <1>4, <1>5, <1>6

-----------------------------------------------------------------------------
(* Types *)

\* A payment not recorded yet is linked to nothing.
BlankPayment == \A p \in Payment : pay[p].amount = 0 => pay[p].link = None

LoTyped == LoansTypeOK /\ BlankPayment

LEMMA AllocationsFinite ==
  ASSUME NEW rows \in SUBSET Allocation PROVE IsFiniteSet(rows)
BY RowsAssumption, FS_Subset

LEMMA AllocationRows ==
  ASSUME LoansTypeOK, NEW a \in Allocations
  PROVE  a \in Allocation /\ alloc[a] \in AllocRow /\ alloc[a].amount \in Nat
BY AmountAssumption DEF LoansTypeOK, Allocations, AllocRow

LEMMA PaymentAmount ==
  ASSUME LoansTypeOK, NEW p \in Payment PROVE pay[p].amount \in Nat
<1>1. pay[p].amount \in Amount \cup {0}
  BY DEF LoansTypeOK, PayRow
<1>2. Amount \cup {0} \subseteq Nat
  BY AmountAssumption
<1> QED
  BY <1>1, <1>2

LEMMA AllocatedIsNat ==
  ASSUME LoansTypeOK, NEW p PROVE Allocated(p) \in Nat
<1>1. AllocationsOf(p) \in SUBSET Allocation /\ \A a \in AllocationsOf(p) : alloc[a].amount \in Nat
  BY AllocationRows DEF AllocationsOf, Allocations
<1>2. AmountOf(alloc, AllocationsOf(p)) \in Nat
  BY <1>1, AllocationsFinite, AmountMonotone
<1> QED
  BY <1>2 DEF Allocated, AllocatedBy, AmountOf

LEMMA LoansTypedInitial == LoansInit => LoTyped
BY MaxFilesAssumption
   DEF LoansInit, LoTyped, LoansTypeOK, BlankPayment, LoanRow, LoanStatus, FileId, PayRow, NoLoan,
       NoPay

LEMMA LoanRequestEnded ==
  ASSUME LoansTypeOK, NEW r, EndLoan(r)
  PROVE  loanReq' \in [Request -> {Idle} \cup LoadedLoan \cup SummedPayment]
BY DEF LoansTypeOK, EndLoan

LEMMA LoadedLoanIs ==
  ASSUME LoansTypeOK, NEW r \in Request, loanReq[r].op \in Deciding
  PROVE  loanReq[r] \in LoadedLoan /\ loanReq[r].loan \in Loan
<1>1. loanReq[r] \in {Idle} \cup LoadedLoan \cup SummedPayment
  BY DEF LoansTypeOK
<1> QED
  BY <1>1 DEF Idle, LoadedLoan, SummedPayment, Deciding

LEMMA SummedPaymentIs ==
  ASSUME LoansTypeOK, NEW r \in Request, loanReq[r].op = "allocate"
  PROVE  loanReq[r].payment \in Payment /\ loanReq[r].allocated \in Nat
<1>1. loanReq[r] \in {Idle} \cup LoadedLoan \cup SummedPayment
  BY DEF LoansTypeOK
<1> QED
  BY <1>1 DEF Idle, LoadedLoan, SummedPayment, Deciding

\* The rows of an allocation in the making.
LEMMA NewRows ==
  ASSUME NEW p \in Payment, NEW rows, NEW new \in NewAllocations(p, rows)
  PROVE  \A a \in rows : new[a] \in AllocRow /\ new[a] # None /\ new[a].payment = p
                           /\ new[a].amount \in Nat
BY AmountAssumption, NullAssumption DEF NewAllocations, AllocRow

LEMMA LoansTypedStep == LoTyped /\ [LoansNext]_loanVars => LoTyped'
<1> SUFFICES ASSUME LoTyped, [LoansNext]_loanVars PROVE LoTyped'
  OBVIOUS
<1> USE DEF LoTyped
<1>1. ASSUME NEW r \in Request, LoadLoan(r) PROVE LoTyped'
  <2>1. PICK op \in Deciding, l \in Loan :
          loanReq' = [loanReq EXCEPT ![r] =
            [op |-> op, loan |-> l, row |-> loan[l], counted |-> FALSE]]
    BY <1>1 DEF LoadLoan
  <2>2. [op |-> op, loan |-> l, row |-> loan[l], counted |-> FALSE] \in LoadedLoan
    BY DEF LoansTypeOK, LoadedLoan
  <2> QED
    BY <1>1, <2>1, <2>2 DEF LoadLoan, LoansTypeOK, BlankPayment
<1>2. ASSUME NEW r \in Request, CountRepaid(r) PROVE LoTyped'
  <2>1. loanReq[r] \in LoadedLoan
    BY <1>2, LoadedLoanIs DEF CountRepaid, Deciding
  <2>2. [loanReq[r] EXCEPT !.counted = TRUE] \in LoadedLoan
    BY <2>1 DEF LoadedLoan
  <2>3. loanReq' = [loanReq EXCEPT ![r] = [loanReq[r] EXCEPT !.counted = TRUE]]
    BY <1>2 DEF CountRepaid
  <2> QED
    BY <1>2, <2>2, <2>3 DEF CountRepaid, LoansTypeOK, BlankPayment
<1>3. ASSUME NEW r \in Request, SumAllocations(r) PROVE LoTyped'
  <2>1. PICK p \in Payment : loanReq' = [loanReq EXCEPT ![r] =
          [op |-> "allocate", payment |-> p, allocated |-> Allocated(p)]]
    BY <1>3 DEF SumAllocations
  <2>2. [op |-> "allocate", payment |-> p, allocated |-> Allocated(p)] \in SummedPayment
    BY AllocatedIsNat DEF SummedPayment
  <2> QED
    BY <1>3, <2>1, <2>2 DEF SumAllocations, LoansTypeOK, BlankPayment
<1>4. ASSUME NEW r \in Request, FinishUpdate(r) PROVE LoTyped'
  <2>1. PICK a \in Amount : loan' = [loan EXCEPT ![loanReq[r].loan].principal = a]
    BY <1>4 DEF FinishUpdate
  <2>2. loanReq[r].loan \in Loan
    BY <1>4, LoadedLoanIs DEF FinishUpdate, Deciding
  <2>3. \A l \in Loan : [loan[l] EXCEPT !.principal = a] \in LoanRow
    BY DEF LoansTypeOK, LoanRow
  <2>4. loan' \in [Loan -> LoanRow]
    BY <2>1, <2>2, <2>3 DEF LoansTypeOK
  <2> QED
    BY <1>4, <2>4, LoanRequestEnded DEF FinishUpdate, LoansTypeOK, BlankPayment
<1>5. ASSUME NEW r \in Request, FinishMarkRepaid(r) PROVE LoTyped'
  <2>1. loanReq[r].loan \in Loan
    BY <1>5, LoadedLoanIs DEF FinishMarkRepaid, Deciding
  <2>2. \A l \in Loan : [loan[l] EXCEPT !.status = "repaid"] \in LoanRow
    BY DEF LoansTypeOK, LoanRow, LoanStatus
  <2>3. loan' \in [Loan -> LoanRow]
    BY <1>5, <2>1, <2>2 DEF FinishMarkRepaid, LoansTypeOK
  <2> QED
    BY <1>5, <2>3, LoanRequestEnded DEF FinishMarkRepaid, LoansTypeOK, BlankPayment
<1>6. ASSUME NEW r \in Request, FinishLetter(r) PROVE LoTyped'
  <2>1. loanReq[r].op \in {"agreement", "discharge"} /\ files < MaxFiles /\ files' = files + 1
          /\ loan' = [loan EXCEPT ![loanReq[r].loan][loanReq[r].op] = files + 1]
    BY <1>6 DEF FinishLetter, WriteLetter
  <2>2. loanReq[r].loan \in Loan
    BY <2>1, LoadedLoanIs DEF Deciding
  <2>3. files' \in FileId
    BY <2>1, MaxFilesAssumption DEF LoansTypeOK, FileId
  <2>4. \A l \in Loan, c \in {"agreement", "discharge"} :
          [loan[l] EXCEPT ![c] = files'] \in LoanRow
    BY <2>3 DEF LoansTypeOK, LoanRow
  <2>5. loan' = [loan EXCEPT ![loanReq[r].loan] =
                   [loan[loanReq[r].loan] EXCEPT ![loanReq[r].op] = files']]
    BY <2>1
  <2>6. loan' \in [Loan -> LoanRow]
    <3> DEFINE row == [loan[loanReq[r].loan] EXCEPT ![loanReq[r].op] = files']
    <3>1. row \in LoanRow /\ loan' = [loan EXCEPT ![loanReq[r].loan] = row]
      BY <2>1, <2>2, <2>4, <2>5
    <3> HIDE DEF row
    <3> QED
      BY <3>1 DEF LoansTypeOK
  <2>7. pay' = pay /\ alloc' = alloc /\ EndLoan(r)
    BY <1>6 DEF FinishLetter
  <2>8. loanReq' \in [Request -> {Idle} \cup LoadedLoan \cup SummedPayment]
    BY <2>7, LoanRequestEnded
  <2> QED
    BY <2>3, <2>6, <2>7, <2>8 DEF LoansTypeOK, BlankPayment
<1>7. ASSUME NEW r \in Request, FinishAllocate(r) PROVE LoTyped'
  <2>1. loanReq[r].payment \in Payment
    BY <1>7, SummedPaymentIs DEF FinishAllocate
  <2>2. PICK rows, new :
          /\ rows \in SUBSET (Allocation \ Allocations) /\ new \in NewAllocations(loanReq[r].payment, rows)
          /\ alloc' = [a \in Allocation |-> IF a \in rows THEN new[a] ELSE alloc[a]]
    BY <1>7 DEF FinishAllocate
  <2>3. alloc' \in [Allocation -> AllocRow \cup {None}]
    BY <2>1, <2>2, NewRows DEF LoansTypeOK
  <2> QED
    BY <1>7, <2>3, LoanRequestEnded DEF FinishAllocate, LoansTypeOK, BlankPayment
<1>8. ASSUME NEW r \in Request, AbortLoan(r) PROVE LoTyped'
  BY <1>8, LoanRequestEnded DEF AbortLoan, LoansTypeOK, BlankPayment
<1>9. ASSUME NEW l \in Loan, CreateLoan(l) PROVE LoTyped'
  <2>1. PICK a \in Amount : loan' = [loan EXCEPT ![l] =
          [status |-> "active", principal |-> a, agreement |-> 0, discharge |-> 0]]
    BY <1>9 DEF CreateLoan
  <2>2. [status |-> "active", principal |-> a, agreement |-> 0, discharge |-> 0] \in LoanRow
    BY MaxFilesAssumption DEF LoanRow, LoanStatus, FileId
  <2> QED
    BY <1>9, <2>1, <2>2 DEF CreateLoan, LoansTypeOK, BlankPayment
<1>10. ASSUME NEW l \in Loan, WriteOff(l) PROVE LoTyped'
  <2>1. [loan[l] EXCEPT !.status = "written_off"] \in LoanRow
    BY DEF LoansTypeOK, LoanRow, LoanStatus
  <2>2. loan' = [loan EXCEPT ![l] = [loan[l] EXCEPT !.status = "written_off"]]
    BY <1>10 DEF WriteOff
  <2> QED
    BY <1>10, <2>1, <2>2 DEF WriteOff, LoansTypeOK, BlankPayment
<1>11. ASSUME NEW p \in Payment, RecordLoanPayment(p) PROVE LoTyped'
  <2>1. PICK a \in Amount, d \in Doc \cup {None} :
          pay' = [pay EXCEPT ![p] = [amount |-> a, link |-> d]]
    BY <1>11 DEF RecordLoanPayment
  <2>2. [amount |-> a, link |-> d] \in PayRow /\ a # 0
    BY AmountAssumption DEF PayRow
  <2> QED
    BY <1>11, <2>1, <2>2 DEF RecordLoanPayment, LoansTypeOK, BlankPayment
<1>12. ASSUME NEW p \in Payment, LinkPayment(p) PROVE LoTyped'
  <2>1. PICK d \in Doc : pay' = [pay EXCEPT ![p].link = d]
    BY <1>12 DEF LinkPayment
  <2>2. [pay[p] EXCEPT !.link = d] \in PayRow /\ [pay[p] EXCEPT !.link = d].amount = pay[p].amount
    BY DEF LoansTypeOK, PayRow
  <2>3. pay' = [pay EXCEPT ![p] = [pay[p] EXCEPT !.link = d]]
    BY <2>1
  <2>4. pay' \in [Payment -> PayRow] /\ pay'[p].amount # 0
          /\ \A q \in Payment \ {p} : pay'[q] = pay[q]
    BY <1>12, <2>2, <2>3 DEF LinkPayment, LoansTypeOK
  <2> QED
    BY <1>12, <2>4 DEF LinkPayment, LoansTypeOK, BlankPayment
<1>13. ASSUME NEW a \in Allocation, Deallocate(a) PROVE LoTyped'
  BY <1>13 DEF Deallocate, LoansTypeOK, BlankPayment
<1>14. CASE UNCHANGED loanVars
  BY <1>14 DEF loanVars, LoansTypeOK, BlankPayment
<1> QED
  BY <1>1, <1>2, <1>3, <1>4, <1>5, <1>6, <1>7, <1>8, <1>9, <1>10, <1>11, <1>12, <1>13, <1>14
     DEF LoansNext, LoanStep, FinishLoan

LEMMA LoansTypedInvariant == LoansSpec => []LoTyped
BY LoansTypedInitial, LoansTypedStep, PTL DEF LoansSpec

\* For any loans, payments, allocations and requests: every row is one of its table.
THEOREM LoansTyped == LoansSpec => []LoansTypeOK
BY LoansTypedInvariant, PTL DEF LoTyped

-----------------------------------------------------------------------------
(* Allocated beyond the amount *)

\* The action of OverAllocationNeedsOverlap.
OverAllocation ==
  alloc' # alloc => \A p \in Payment :
    OverAllocated(p)' /\ ~OverAllocated(p) =>
      \E r \in Request :
        /\ loanReq[r].op = "allocate" /\ loanReq[r].payment = p
        /\ loanReq[r].allocated # Allocated(p)

\* Allocated, of the rows f.
RowsOf(f, p) == {a \in Allocation : f[a] # None /\ f[a].payment = p}

LEMMA AllocatedIs ==
  ASSUME NEW p
  PROVE  /\ AllocationsOf(p) = RowsOf(alloc, p) /\ AllocationsOf(p)' = RowsOf(alloc', p)
         /\ Allocated(p) = AmountOf(alloc, RowsOf(alloc, p))
         /\ Allocated(p)' = AmountOf(alloc', RowsOf(alloc', p))
<1>1. AllocationsOf(p) = RowsOf(alloc, p) /\ AllocationsOf(p)' = RowsOf(alloc', p)
  BY DEF AllocationsOf, Allocations, RowsOf
<1>2. Allocated(p) = AmountOf(alloc, AllocationsOf(p))
  BY DEF Allocated, AllocatedBy, AmountOf
<1>3. Allocated(p)' = AmountOf(alloc', AllocationsOf(p)')
  BY DEF Allocated, AllocatedBy, AmountOf, MapThenSumSet, MapThenFoldSet
<1> QED
  BY <1>1, <1>2, <1>3

LEMMA OverAllocationStep == LoTyped /\ [LoansNext]_loanVars => [OverAllocation]_loanVars
<1> SUFFICES ASSUME LoTyped, LoansNext, alloc' # alloc, NEW p \in Payment,
                    OverAllocated(p)', ~OverAllocated(p)
             PROVE  \E r \in Request :
                      /\ loanReq[r].op = "allocate" /\ loanReq[r].payment = p
                      /\ loanReq[r].allocated # Allocated(p)
  BY DEF OverAllocation
<1> DEFINE before == RowsOf(alloc, p)
           after == RowsOf(alloc', p)
<1>1. /\ before \in SUBSET Allocation /\ IsFiniteSet(before)
      /\ \A a \in before : alloc[a].amount \in Nat
  BY AllocationsFinite, AllocationRows DEF LoTyped, RowsOf, Allocations
<1>2. /\ Allocated(p) = AmountOf(alloc, before) /\ Allocated(p)' = AmountOf(alloc', after)
      /\ AmountOf(alloc, before) \in Nat
  BY <1>1, AllocatedIs, AmountMonotone
<1>3. /\ pay[p].amount \in Nat
      /\ Allocated(p) <= pay[p].amount /\ Allocated(p)' > pay'[p].amount
  <2>1. pay[p].amount \in Nat
    BY PaymentAmount DEF LoTyped
  <2>2. Allocated(p)' > pay'[p].amount
    BY DEF OverAllocated
  <2>3. ~(Allocated(p) > pay[p].amount)
    BY DEF OverAllocated
  <2> HIDE DEF before, after
  <2> QED
    BY <1>2, <2>1, <2>2, <2>3
<1>4. ASSUME NEW a \in Allocation, Deallocate(a) PROVE FALSE
  <2>1. pay' = pay /\ \A b \in Allocation : alloc'[b] = IF b = a THEN None ELSE alloc[b]
    BY <1>4 DEF Deallocate, LoTyped, LoansTypeOK
  <2>2. after \in SUBSET before /\ \A b \in after : alloc'[b].amount = alloc[b].amount
    BY <2>1 DEF RowsOf
  <2> HIDE DEF before, after
  <2>3. IsFiniteSet(after)
    BY <1>1, <2>2, FS_Subset
  <2>4. AmountOf(alloc', after) = AmountOf(alloc, after)
    BY <2>2, <2>3, AmountEqual
  <2>5. AmountOf(alloc, after) \in Nat /\ AmountOf(alloc, after) <= AmountOf(alloc, before)
    BY <1>1, <2>2, AmountMonotone
  <2> QED
    BY <1>2, <1>3, <2>1, <2>4, <2>5
<1>5. ASSUME NEW r \in Request, FinishAllocate(r)
      PROVE  /\ loanReq[r].op = "allocate" /\ loanReq[r].payment = p
             /\ loanReq[r].allocated # Allocated(p)
  <2> DEFINE q == loanReq[r].payment
  <2>1. q \in Payment /\ loanReq[r].allocated \in Nat /\ loanReq[r].op = "allocate" /\ pay' = pay
    BY <1>5, SummedPaymentIs DEF FinishAllocate, LoTyped
  <2>2. PICK rows, new :
          /\ rows \in SUBSET (Allocation \ Allocations) /\ new \in NewAllocations(q, rows)
          /\ Fits(q, loanReq[r].allocated, new)
          /\ alloc' = [a \in Allocation |-> IF a \in rows THEN new[a] ELSE alloc[a]]
    BY <1>5 DEF FinishAllocate
  <2>3. /\ DOMAIN new = rows /\ IsFiniteSet(rows)
        /\ \A a \in rows : new[a] # None /\ new[a].payment = q /\ new[a].amount \in Nat
    BY <2>1, <2>2, NewRows, AllocationsFinite DEF NewAllocations
  <2>4. AmountOf(new, rows) \in Nat
    BY <2>3, AmountMonotone
  <2>5. loanReq[r].allocated + AmountOf(new, rows) <= pay[q].amount
    <3>1. AmountOf(new, DOMAIN new) = MapThenSumSet(LAMBDA a : new[a].amount, DOMAIN new)
      BY DEF AmountOf
    <3> QED
      BY <2>2, <2>3, <3>1 DEF Fits
  <2>6. before \cap rows = {} /\ \A a \in before : alloc'[a] = alloc[a]
    BY <2>2 DEF RowsOf, Allocations
  <2>7. \A a \in rows : alloc'[a] = new[a]
    BY <2>2
  <2>8. \A a \in Allocation \ rows : alloc'[a] = alloc[a]
    BY <2>2
  <2>9. CASE q # p
    <3>1. after = before
      BY <2>2, <2>3, <2>6, <2>7, <2>8, <2>9 DEF RowsOf
    <3> HIDE DEF before, after
    <3>2. AmountOf(alloc', before) = AmountOf(alloc, before)
      BY <1>1, <2>6, AmountEqual
    <3> QED
      BY <1>2, <1>3, <2>1, <3>1, <3>2
  <2>10. CASE q = p
    <3>1. after = before \cup rows
      BY <2>2, <2>3, <2>6, <2>7, <2>8, <2>10 DEF RowsOf
    <3>2. \A a \in before \cup rows : alloc'[a].amount \in Nat
      BY <1>1, <2>3, <2>6, <2>7
    <3> HIDE DEF before, after
    <3>3. AmountOf(alloc', after) = AmountOf(alloc', before) + AmountOf(alloc', rows)
      BY <1>1, <2>3, <2>6, <3>1, <3>2, AmountUnion
    <3>4. AmountOf(alloc', before) = AmountOf(alloc, before)
            /\ AmountOf(alloc', rows) = AmountOf(new, rows)
      BY <1>1, <2>3, <2>6, <2>7, AmountEqual
    <3>5. ASSUME loanReq[r].allocated = Allocated(p) PROVE FALSE
      BY <1>2, <1>3, <2>1, <2>4, <2>5, <2>10, <3>3, <3>4, <3>5
    <3> QED
      BY <2>1, <2>10, <3>5
  <2> QED
    BY <2>9, <2>10
<1> QED
  BY <1>4, <1>5
     DEF LoansNext, LoanStep, FinishLoan, LoadLoan, CountRepaid, SumAllocations, FinishUpdate,
         FinishMarkRepaid, FinishLetter, AbortLoan, CreateLoan, WriteOff, RecordLoanPayment,
         LinkPayment

\* For any payments, amounts and requests: a payment becomes allocated beyond its amount only
\* by a request that summed its allocations before another's were committed.
THEOREM OverAllocationOverlaps == LoansSpec => OverAllocationNeedsOverlap
<1>1. LoansSpec => [][OverAllocation]_loanVars
  BY LoansTypedInvariant, OverAllocationStep, PTL DEF LoansSpec
<1> QED
  BY <1>1 DEF OverAllocationNeedsOverlap, OverAllocation

-----------------------------------------------------------------------------
(* What was repaid on a loan *)

\* AllocationsTo and LinkedOnly, of the rows f and the payments g.
To(f, d) == {a \in Allocation : f[a] # None /\ f[a].doc = d}
Linked(f, g, l) == {p \in Payment : g[p].link = l /\ \A a \in To(f, l) : f[a].payment # p}

LEMMA RepaidIs ==
  ASSUME NEW l
  PROVE  /\ AllocationsTo(l) = To(alloc, l) /\ LinkedOnly(l) = Linked(alloc, pay, l)
         /\ Repaid(l) = AmountOf(alloc, To(alloc, l)) + AmountOf(pay, Linked(alloc, pay, l))
         /\ Repaid(l)' = AmountOf(alloc', To(alloc', l)) + AmountOf(pay', Linked(alloc', pay', l))
<1>1. AllocationsTo(l) = To(alloc, l) /\ AllocationsTo(l)' = To(alloc', l)
  BY DEF AllocationsTo, Allocations, To
<1>2. LinkedOnly(l) = Linked(alloc, pay, l) /\ LinkedOnly(l)' = Linked(alloc', pay', l)
  BY <1>1 DEF LinkedOnly, Linked
<1>3. Repaid(l) = AmountOf(alloc, AllocationsTo(l)) + AmountOf(pay, LinkedOnly(l))
  BY DEF Repaid, AllocatedBy, AmountOf, MapThenSumSet, MapThenFoldSet
<1>4. Repaid(l)' = AmountOf(alloc', AllocationsTo(l)') + AmountOf(pay', LinkedOnly(l)')
  BY DEF Repaid, AllocatedBy, AmountOf, MapThenSumSet, MapThenFoldSet
<1> QED
  BY <1>1, <1>2, <1>3, <1>4

\* The rows and payments that are summed stay in the sums, with their amounts.
LEMMA RepaidGrows ==
  ASSUME LoTyped, LoTyped', NEW l,
         \A a \in To(alloc, l) : a \in To(alloc', l) /\ alloc'[a].amount = alloc[a].amount,
         \A p \in Linked(alloc, pay, l) :
           p \in Linked(alloc', pay', l) /\ pay'[p].amount = pay[p].amount
  PROVE  ~(Repaid(l)' < Repaid(l))
<1> DEFINE to == To(alloc, l)
           too == To(alloc', l)
           by == Linked(alloc, pay, l)
           bye == Linked(alloc', pay', l)
<1>1. /\ to \in SUBSET too /\ IsFiniteSet(too) /\ IsFiniteSet(to)
      /\ \A a \in too : alloc'[a].amount \in Nat
  <2>1. too \in SUBSET Allocation /\ to \in SUBSET too
    BY DEF To
  <2>2. \A a \in Allocations' : alloc'[a].amount \in Nat
    BY AmountAssumption DEF LoTyped, LoansTypeOK, Allocations, AllocRow
  <2> QED
    BY <2>1, <2>2, AllocationsFinite DEF To, Allocations
<1>2. /\ by \in SUBSET bye /\ IsFiniteSet(bye) /\ IsFiniteSet(by)
      /\ \A p \in bye : pay'[p].amount \in Nat
  <2>1. bye \in SUBSET Payment /\ by \in SUBSET bye
    BY DEF Linked
  <2>2. Amount \cup {0} \subseteq Nat
    BY AmountAssumption
  <2>3. \A p \in Payment : pay'[p].amount \in Amount \cup {0}
    BY DEF LoTyped, LoansTypeOK, PayRow
  <2> HIDE DEF by, bye
  <2>4. IsFiniteSet(bye) /\ IsFiniteSet(by)
    BY <2>1, RowsAssumption, FS_Subset
  <2> QED
    BY <2>1, <2>2, <2>3, <2>4
<1>3. Repaid(l) = AmountOf(alloc, to) + AmountOf(pay, by)
        /\ Repaid(l)' = AmountOf(alloc', too) + AmountOf(pay', bye)
  BY RepaidIs
<1>4. (\A a \in to : alloc'[a].amount = alloc[a].amount)
        /\ \A p \in by : pay'[p].amount = pay[p].amount
  OBVIOUS
<1> HIDE DEF to, too, by, bye
<1>5. AmountOf(alloc, to) = AmountOf(alloc', to) /\ AmountOf(pay, by) = AmountOf(pay', by)
  BY <1>1, <1>2, <1>4, AmountEqual
<1>6. AmountOf(alloc', to) \in Nat /\ AmountOf(alloc', too) \in Nat
        /\ AmountOf(alloc', to) <= AmountOf(alloc', too)
  BY <1>1, AmountMonotone
<1>7. AmountOf(pay', by) \in Nat /\ AmountOf(pay', bye) \in Nat
        /\ AmountOf(pay', by) <= AmountOf(pay', bye)
  BY <1>2, AmountMonotone
<1> QED
  BY <1>3, <1>5, <1>6, <1>7

\* The action of RepaidFallsOnly.
RepaidFalls ==
  alloc' # alloc \/ pay' # pay => \A l \in Loan :
    Repaid(l)' < Repaid(l) =>
      \/ \E a \in AllocationsTo(l) : alloc'[a] = None
      \/ \E p \in LinkedOnly(l), a \in Allocation \ Allocations :
           alloc'[a] # None /\ alloc'[a].payment = p /\ alloc'[a].doc = l

LEMMA RepaidFallsStep == LoTyped /\ LoTyped' /\ [LoansNext]_loanVars => [RepaidFalls]_loanVars
<1> SUFFICES ASSUME LoTyped, LoTyped', LoansNext, NEW l \in Loan, Repaid(l)' < Repaid(l),
                    alloc' # alloc \/ pay' # pay
             PROVE  \/ \E a \in AllocationsTo(l) : alloc'[a] = None
                    \/ \E p \in LinkedOnly(l), a \in Allocation \ Allocations :
                         alloc'[a] # None /\ alloc'[a].payment = p /\ alloc'[a].doc = l
  BY DEF RepaidFalls
<1>1. AllocationsTo(l) = To(alloc, l) /\ LinkedOnly(l) = Linked(alloc, pay, l)
  BY RepaidIs
<1>2. ASSUME NEW a \in Allocation, Deallocate(a)
      PROVE  a \in AllocationsTo(l) /\ alloc'[a] = None
  <2>1. pay' = pay /\ \A b \in Allocation : alloc'[b] = IF b = a THEN None ELSE alloc[b]
    BY <1>2 DEF Deallocate, LoTyped, LoansTypeOK
  <2>2. ASSUME a \notin To(alloc, l) PROVE FALSE
    <3>1. \A b \in To(alloc, l) : b \in To(alloc', l) /\ alloc'[b] = alloc[b]
      BY <2>1, <2>2 DEF To
    <3>2. \A b \in To(alloc', l) : b \in To(alloc, l) /\ alloc'[b] = alloc[b]
      BY <2>1 DEF To
    <3>3. \A p \in Linked(alloc, pay, l) : p \in Linked(alloc', pay', l)
      BY <2>1, <3>2 DEF Linked
    <3> QED
      BY <2>1, <3>1, <3>3, RepaidGrows
  <2> QED
    BY <1>1, <2>1, <2>2
<1>3. ASSUME NEW r \in Request, FinishAllocate(r)
      PROVE  \E p \in LinkedOnly(l), a \in Allocation \ Allocations :
               alloc'[a] # None /\ alloc'[a].payment = p /\ alloc'[a].doc = l
  <2>1. PICK rows, new :
          /\ rows \in SUBSET (Allocation \ Allocations)
          /\ alloc' = [a \in Allocation |-> IF a \in rows THEN new[a] ELSE alloc[a]]
    BY <1>3 DEF FinishAllocate
  <2>2. pay' = pay
    BY <1>3 DEF FinishAllocate
  <2>3. \A a \in To(alloc, l) : a \in To(alloc', l) /\ alloc'[a] = alloc[a]
    BY <2>1 DEF To, Allocations
  <2>4. \A a \in To(alloc', l) :
          a \in Allocations => a \in To(alloc, l) /\ alloc'[a] = alloc[a]
    BY <2>1 DEF To, Allocations
  <2>5. PICK p \in Linked(alloc, pay, l) : p \notin Linked(alloc', pay', l)
    BY <2>2, <2>3, RepaidGrows
  <2>6. PICK a \in To(alloc', l) : alloc'[a].payment = p
    BY <2>2, <2>5 DEF Linked
  <2>7. a \notin Allocations
    BY <2>4, <2>5, <2>6 DEF Linked
  <2> QED
    BY <1>1, <2>5, <2>6, <2>7 DEF To
<1>4. ASSUME NEW p \in Payment, RecordLoanPayment(p) \/ LinkPayment(p) PROVE FALSE
  <2>1. alloc' = alloc /\ pay[p].link = None /\ \A q \in Payment \ {p} : pay'[q] = pay[q]
    BY <1>4 DEF RecordLoanPayment, LinkPayment, LoTyped, LoansTypeOK, BlankPayment
  <2>2. p \notin Linked(alloc, pay, l)
    BY <2>1, DocAssumption DEF Linked
  <2>3. \A q \in Linked(alloc, pay, l) : q \in Linked(alloc', pay', l) /\ pay'[q] = pay[q]
    BY <2>1, <2>2 DEF Linked
  <2> QED
    BY <2>1, <2>3, RepaidGrows
<1> QED
  BY <1>2, <1>3, <1>4
     DEF LoansNext, LoanStep, FinishLoan, LoadLoan, CountRepaid, SumAllocations, FinishUpdate,
         FinishMarkRepaid, FinishLetter, AbortLoan, CreateLoan, WriteOff

\* For any loans, payments and requests: what was repaid on a loan falls only when an
\* allocation is deleted, or a payment linked to the loan gets its first allocation to it.
THEOREM RepaidFallsByDeletion == LoansSpec => RepaidFallsOnly
<1>1. LoansSpec => [][RepaidFalls]_loanVars
  BY LoansTypedInvariant, RepaidFallsStep, PTL DEF LoansSpec
<1> QED
  BY <1>1 DEF RepaidFallsOnly, RepaidFalls
=============================================================================
