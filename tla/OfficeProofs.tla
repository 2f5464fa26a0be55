---------------------------- MODULE OfficeProofs ----------------------------
(***************************************************************************)
(* Proofs about the handlers without a lock, for any rows and any number of *)
(* requests, one section per module.  Most of the properties say what an    *)
(* illegal outcome takes: a request that decided on rows which another has  *)
(* changed since.  The invariants say what a request in progress still has  *)
(* from what it read: the check its handler made, the rows it found and     *)
(* those it made, the version it holds.                                     *)
(***************************************************************************)
EXTENDS MCOffice, LoansProofs, LedgerLinesProofs

-----------------------------------------------------------------------------
(* Landings: at most one conversion lands as a deposit, and a deposit that is
   booked twice was read before its first booking, or marked as something else since.  The
   second rests on what the checks leave in a request: no landing or reconciliation in
   progress has read "reconciled". *)

\* A landing or reconciliation in progress passed the check of the status it read.
ReadUnreconciled ==
  \A r \in Request : landReq[r].op \in {"land", "reconcile"} => landReq[r].status # "reconciled"

LInv == LandingsTypeOK /\ LandedOnce /\ ReadUnreconciled

LEMMA LandingsInitial == LandingsInit => LInv
BY MaxContraAssumption
   DEF LandingsInit, LInv, LandingsTypeOK, LandedOnce, ReadUnreconciled, MatchStatus, Idle

\* The fields of a request that has loaded a deposit.
LEMMA LoadedFields ==
  ASSUME LandingsTypeOK, NEW r \in Request, landReq[r].op \in DOMAIN Outcomes
  PROVE  landReq[r].deposit \in Deposit /\ Outcomes[landReq[r].op] \in MatchStatus
BY DEF LandingsTypeOK, Loaded, Matching, Idle, Outcomes, MatchStatus

LEMMA MatchingField ==
  ASSUME LandingsTypeOK, NEW r \in Request, landReq[r].op = "auto_match"
  PROVE  landReq[r].unmatched \subseteq Deposit
BY DEF LandingsTypeOK, Loaded, Matching, Idle, Outcomes

\* The end of a request leaves nothing of it, and the others as they were.
LEMMA LandingEnded ==
  ASSUME LInv, NEW r \in Request, EndLanding(r)
  PROVE  /\ landReq' \in [Request -> {Idle} \cup Loaded \cup Matching]
         /\ ReadUnreconciled'
BY DEF LInv, LandingsTypeOK, ReadUnreconciled, EndLanding, Idle

LEMMA StatusStored ==
  ASSUME LandingsTypeOK, NEW r \in Request, landReq[r].op \in DOMAIN Outcomes, WriteStatus(r)
  PROVE  deposit' \in [Deposit -> MatchStatus \cup {"absent"}]
BY LoadedFields DEF WriteStatus, LandingsTypeOK

LEMMA LandingsStep == LInv /\ [LandingsNext]_landingVars => LInv'
<1> SUFFICES ASSUME LInv, [LandingsNext]_landingVars PROVE LInv'
  OBVIOUS
<1>1. ASSUME NEW d \in Deposit, ImportDeposit(d) PROVE LInv'
  BY <1>1 DEF ImportDeposit, LInv, LandingsTypeOK, LandedOnce, ReadUnreconciled, MatchStatus
<1>2. ASSUME NEW r \in Request, LoadDeposit(r) PROVE LInv'
  <2>1. PICK op \in DOMAIN Outcomes, d \in Deposit :
          /\ MayLoad(op, deposit[d])
          /\ landReq' = [landReq EXCEPT ![r] = [op |-> op, deposit |-> d, status |-> deposit[d]]]
    BY <1>2 DEF LoadDeposit
  <2>2. deposit[d] \in MatchStatus
    BY <2>1 DEF LInv, LandingsTypeOK, MayLoad
  <2>3. [op |-> op, deposit |-> d, status |-> deposit[d]] \in Loaded
    BY <2>2 DEF Loaded
  <2>4. LandingsTypeOK'
    BY <1>2, <2>1, <2>3 DEF LoadDeposit, LInv, LandingsTypeOK
  <2>5. ReadUnreconciled'
    BY <2>1 DEF LInv, LandingsTypeOK, ReadUnreconciled, MayLoad
  <2> QED
    BY <1>2, <2>4, <2>5 DEF LoadDeposit, LInv, LandedOnce
<1>3. ASSUME NEW r \in Request, FinishLand(r) PROVE LInv'
  <2>1. landReq[r].op \in DOMAIN Outcomes
    BY <1>3 DEF FinishLand, Outcomes
  <2>2. landReq[r].deposit \in Deposit
    BY <2>1, LoadedFields DEF LInv
  <2>3. landed' \in [Deposit -> Nat] /\ LandedOnce'
    BY <1>3, <2>2 DEF FinishLand, Unlanded, LInv, LandingsTypeOK, LandedOnce
  <2> QED
    BY <1>3, <2>1, <2>3, LandingEnded, StatusStored DEF FinishLand, LInv, LandingsTypeOK
<1>4. ASSUME NEW r \in Request, FinishReconcile(r) PROVE LInv'
  <2>1. landReq[r].op \in DOMAIN Outcomes
    BY <1>4 DEF FinishReconcile, Outcomes
  <2>2. landReq[r].deposit \in Deposit
    BY <2>1, LoadedFields DEF LInv
  <2>3. contra' \in [Deposit -> 0 .. MaxContra]
    BY <1>4, <2>2, MaxContraAssumption DEF FinishReconcile, LInv, LandingsTypeOK
  <2> QED
    BY <1>4, <2>1, <2>3, LandingEnded, StatusStored
       DEF FinishReconcile, LInv, LandingsTypeOK, LandedOnce
<1>5. ASSUME NEW r \in Request, FinishMatch(r) PROVE LInv'
  <2>1. landReq[r].op \in DOMAIN Outcomes
    BY <1>5 DEF FinishMatch, Outcomes
  <2> QED
    BY <1>5, <2>1, LandingEnded, StatusStored DEF FinishMatch, LInv, LandingsTypeOK, LandedOnce
<1>6. ASSUME NEW r \in Request, BeginAutoMatch(r) PROVE LInv'
  <2>1. [op |-> "auto_match", unmatched |-> Unmatched] \in Matching
    BY DEF Matching, Unmatched
  <2> QED
    BY <1>6, <2>1 DEF BeginAutoMatch, LInv, LandingsTypeOK, LandedOnce, ReadUnreconciled
<1>7. ASSUME NEW r \in Request, FinishAutoMatch(r) PROVE LInv'
  <2>1. PICK matched \in SUBSET landReq[r].unmatched :
          deposit' = [d \in Deposit |-> IF d \in matched THEN "auto_matched" ELSE deposit[d]]
    BY <1>7 DEF FinishAutoMatch
  <2>2. deposit' \in [Deposit -> MatchStatus \cup {"absent"}]
    BY <2>1 DEF LInv, LandingsTypeOK, MatchStatus
  <2> QED
    BY <1>7, <2>2, LandingEnded DEF FinishAutoMatch, LInv, LandingsTypeOK, LandedOnce
<1>8. ASSUME NEW r \in Request, AbortLanding(r) PROVE LInv'
  BY <1>8, LandingEnded DEF AbortLanding, LInv, LandingsTypeOK, LandedOnce
<1>9. CASE UNCHANGED landingVars
  BY <1>9 DEF landingVars, LInv, LandingsTypeOK, LandedOnce, ReadUnreconciled
<1> QED
  BY <1>1, <1>2, <1>3, <1>4, <1>5, <1>6, <1>7, <1>8, <1>9 DEF LandingsNext

LEMMA LandingsInvariant == LandingsSpec => []LInv
BY LandingsInitial, LandingsStep, PTL DEF LandingsSpec

\* For any deposits and requests: no two conversions land as one deposit, however often its
\* status is overwritten.
THEOREM NoDepositLandsTwice == LandingsSpec => []LandedOnce
BY LandingsInvariant, PTL DEF LInv

-----------------------------------------------------------------------------

\* The action of SecondBookingNeedsOverlap.
SecondBooking ==
  \A d \in Deposit :
    Booked(d) /\ landed'[d] + contra'[d] > landed[d] + contra[d] =>
      \/ deposit[d] # "reconciled"
      \/ \E r \in Request :
           /\ landReq[r].op \in {"land", "reconcile"} /\ landReq[r].deposit = d
           /\ landReq[r].status # "reconciled" /\ landReq'[r] = Idle

LEMMA SecondBookingStep == LInv /\ [LandingsNext]_landingVars => [SecondBooking]_landingVars
<1> SUFFICES ASSUME LInv, LandingsNext, NEW d \in Deposit,
                    landed'[d] + contra'[d] > landed[d] + contra[d]
             PROVE  \E r \in Request :
                      /\ landReq[r].op \in {"land", "reconcile"} /\ landReq[r].deposit = d
                      /\ landReq[r].status # "reconciled" /\ landReq'[r] = Idle
  BY DEF SecondBooking
<1>1. PICK r \in Request : FinishLand(r) \/ FinishReconcile(r)
  BY DEF LandingsNext, ImportDeposit, LoadDeposit, FinishMatch, BeginAutoMatch,
         FinishAutoMatch, AbortLanding, LInv, LandingsTypeOK
<1>2. landReq[r].op \in {"land", "reconcile"}
  BY <1>1 DEF FinishLand, FinishReconcile
<1>3. landReq[r].deposit = d
  BY <1>1 DEF FinishLand, FinishReconcile, LInv, LandingsTypeOK
<1>4. landReq[r].status # "reconciled" /\ landReq'[r] = Idle
  BY <1>1, <1>2 DEF FinishLand, FinishReconcile, EndLanding, LInv, LandingsTypeOK,
                    ReadUnreconciled
<1> QED
  BY <1>2, <1>3, <1>4

\* For any deposits and requests: what books a deposit a second time is a request that passed
\* its check before the first booking, or a status overwritten after it.
THEOREM SecondBookingOverlaps == LandingsSpec => SecondBookingNeedsOverlap
<1>1. LandingsSpec => [][SecondBooking]_landingVars
  BY LandingsInvariant, SecondBookingStep, PTL DEF LandingsSpec
<1> QED
  BY <1>1 DEF SecondBookingNeedsOverlap, SecondBooking

-----------------------------------------------------------------------------
(* Webhooks: no event is handled by two deliveries, nor once it is stored.  The
   invariant says so of the flushed rows: the row of an event is held by at most one delivery
   in progress, and by none once a row is committed. *)

Handles(r, e) == hookReq[r].op \in {"inserted", "handled"} /\ hookReq[r].event = e

OneHandler ==
  \A r, s \in Request, e \in Event : Handles(r, e) /\ Handles(s, e) => r = s

StoredNotHandled ==
  \A r \in Request, e \in Event : Handles(r, e) => stored[e] = None

WInv == WebhooksTypeOK /\ OneHandler /\ StoredNotHandled

LEMMA WebhooksInitial == WebhooksInit => WInv
BY DEF WebhooksInit, WInv, WebhooksTypeOK, OneHandler, StoredNotHandled, Handles, Idle

\* The end of a delivery frees its event.
LEMMA DeliveryEnded ==
  ASSUME WInv, NEW r \in Request, EndDelivery(r)
  PROVE  /\ hookReq' \in [Request -> {Idle} \cup Delivery]
         /\ OneHandler'
         /\ \A s \in Request, e \in Event : Handles(s, e)' => s # r /\ Handles(s, e)
BY DEF WInv, WebhooksTypeOK, EndDelivery, OneHandler, Handles, Idle

LEMMA DeliveryFields ==
  ASSUME WebhooksTypeOK, NEW r \in Request, hookReq[r].op \in {"looked", "inserted", "handled"}
  PROVE  /\ hookReq[r] \in Delivery /\ hookReq[r].event \in Event
         /\ hookReq[r].op = "handled" => hookReq[r].status \in EventStatus
         /\ hookReq[r].op # "handled" =>
              hookReq[r] = [op |-> hookReq[r].op, event |-> hookReq[r].event]
BY DEF WebhooksTypeOK, Delivery, Idle

LEMMA WebhooksStep == WInv /\ [WebhooksNext]_webhookVars => WInv'
<1> SUFFICES ASSUME WInv, [WebhooksNext]_webhookVars PROVE WInv'
  OBVIOUS
<1>1. ASSUME NEW r \in Request, Look(r) PROVE WInv'
  <2>1. CASE UNCHANGED hookReq
    BY <1>1, <2>1 DEF Look, WInv, WebhooksTypeOK, OneHandler, StoredNotHandled, Handles
  <2>2. ASSUME NEW e \in Event, hookReq' = [hookReq EXCEPT ![r] = [op |-> "looked", event |-> e]]
        PROVE  WInv'
    <3>1. [op |-> "looked", event |-> e] \in Delivery
      BY DEF Delivery
    <3> QED
      BY <1>1, <2>2, <3>1
         DEF Look, WInv, WebhooksTypeOK, OneHandler, StoredNotHandled, Handles
  <2> QED
    BY <1>1, <2>1, <2>2 DEF Look
<1>2. ASSUME NEW r \in Request, InsertEvent(r) PROVE WInv'
  <2> DEFINE e == hookReq[r].event
  <2>1. hookReq[r] = [op |-> hookReq[r].op, event |-> e] /\ e \in Event
    BY <1>2, DeliveryFields DEF InsertEvent, WInv
  <2>2. hookReq' = [hookReq EXCEPT ![r] = [hookReq[r] EXCEPT !.op = "inserted"]]
    BY <1>2 DEF InsertEvent
  <2>3. \A a, b : [[op |-> a, event |-> b] EXCEPT !.op = "inserted"] = [op |-> "inserted", event |-> b]
    OBVIOUS
  <2>4. [hookReq[r] EXCEPT !.op = "inserted"] = [op |-> "inserted", event |-> e]
    BY <2>1, <2>3, Zenon
  <2>5. hookReq' = [hookReq EXCEPT ![r] = [op |-> "inserted", event |-> e]]
    BY <2>2, <2>4, Zenon
  <2>6. [op |-> "inserted", event |-> e] \in Delivery
    BY <2>1 DEF Delivery
  <2>7. stored[e] = None /\ \A s \in Request : ~Handles(s, e)
    BY <1>2 DEF InsertEvent, EventFree, HandledBy, Handles
  <2>8. WebhooksTypeOK' /\ stored' = stored
    BY <1>2, <2>5, <2>6 DEF InsertEvent, WInv, WebhooksTypeOK
  <2>9. \A s \in Request, d \in Event :
          Handles(s, d)' <=> IF s = r THEN d = e ELSE Handles(s, d)
    BY <2>5 DEF WInv, WebhooksTypeOK, Handles
  <2> HIDE DEF e
  <2> QED
    BY <2>1, <2>7, <2>8, <2>9 DEF WInv, OneHandler, StoredNotHandled
<1>3. ASSUME NEW r \in Request, HandleEvent(r) PROVE WInv'
  <2>1. PICK s \in EventStatus :
          hookReq' = [hookReq EXCEPT ![r] =
            [op |-> "handled", event |-> hookReq[r].event, status |-> s]]
    BY <1>3 DEF HandleEvent
  <2>2. [op |-> "handled", event |-> hookReq[r].event, status |-> s] \in Delivery
    BY <1>3, DeliveryFields DEF HandleEvent, Delivery, WInv
  <2>3. WebhooksTypeOK' /\ stored' = stored
    BY <1>3, <2>1, <2>2 DEF HandleEvent, WInv, WebhooksTypeOK
  <2>4. \A t \in Request, e \in Event : Handles(t, e)' <=> Handles(t, e)
    BY <1>3, <2>1 DEF HandleEvent, WInv, WebhooksTypeOK, Handles
  <2> QED
    BY <2>3, <2>4 DEF WInv, OneHandler, StoredNotHandled
<1>4. ASSUME NEW r \in Request, FinishDelivery(r) PROVE WInv'
  <2>1. hookReq[r].event \in Event /\ hookReq[r].status \in EventStatus
    BY <1>4, DeliveryFields DEF FinishDelivery, WInv
  <2>2. stored' \in [Event -> EventStatus \cup {None}]
    BY <1>4, <2>1 DEF FinishDelivery, WInv, WebhooksTypeOK
  <2>3. StoredNotHandled'
    BY <1>4, <2>1, DeliveryEnded
       DEF FinishDelivery, WInv, WebhooksTypeOK, OneHandler, StoredNotHandled, Handles
  <2> QED
    BY <1>4, <2>2, <2>3, DeliveryEnded DEF FinishDelivery, WInv, WebhooksTypeOK
<1>5. ASSUME NEW r \in Request, AbortDelivery(r) PROVE WInv'
  BY <1>5, DeliveryEnded DEF AbortDelivery, WInv, WebhooksTypeOK, StoredNotHandled
<1>6. CASE UNCHANGED webhookVars
  BY <1>6 DEF webhookVars, WInv, WebhooksTypeOK, OneHandler, StoredNotHandled, Handles
<1> QED
  BY <1>1, <1>2, <1>3, <1>4, <1>5, <1>6 DEF WebhooksNext

LEMMA HandledOnceFollows == WInv => HandledOnce
<1> SUFFICES ASSUME WInv, NEW e \in Event
             PROVE  Cardinality(HandledBy(e)) <= 1 /\ (stored[e] # None => HandledBy(e) = {})
  BY DEF HandledOnce
<1>1. HandledBy(e) = {r \in Request : Handles(r, e)}
  BY DEF HandledBy, Handles
<1>2. HandledBy(e) = {} \/ \E r \in Request : HandledBy(e) = {r}
  BY <1>1 DEF WInv, OneHandler
<1>3. Cardinality(HandledBy(e)) <= 1
  <2>1. CASE HandledBy(e) = {}
    BY <2>1, FS_EmptySet
  <2>2. ASSUME NEW r \in Request, HandledBy(e) = {r} PROVE Cardinality(HandledBy(e)) <= 1
    <3>1. Cardinality({r}) = 1
      BY FS_Singleton
    <3> QED
      BY <2>2, <3>1
  <2> QED
    BY <1>2, <2>1, <2>2
<1>4. stored[e] # None => HandledBy(e) = {}
  BY <1>1 DEF WInv, StoredNotHandled
<1> QED
  BY <1>3, <1>4

\* For any events and number of deliveries: an event is handled by one delivery at a time,
\* and by none once it is stored.
THEOREM EventHandledOnce == WebhooksSpec => []HandledOnce
<1>1. WebhooksSpec => []WInv
  BY WebhooksInitial, WebhooksStep, PTL DEF WebhooksSpec
<1> QED
  BY <1>1, HandledOnceFollows, PTL

-----------------------------------------------------------------------------
(* Tasks: a settled instance is opened again only in the two ways
   ReopenNeedsOverlap names.  It rests on one fact about the requests: the statuses a
   generation has read, of the instances it will mark overdue, were all "pending". *)

InstancesAreRows ==
  /\ inst = [k \in Key |-> inst[k]]
  /\ \A k \in Key : inst[k] = [status |-> inst[k].status, due |-> inst[k].due]

\* What was read late was pending, and an instance read as late is no settled one.
LateWasPending ==
  \A r \in Request :
    taskReq[r].op = "marked" =>
      \A k \in DOMAIN taskReq[r].late : taskReq[r].late[k] = "pending"

TInv ==
  /\ InstancesAreRows
  /\ taskReq = [r \in Request |-> taskReq[r]]
  /\ LateWasPending

LEMMA TasksInitial == TasksInit => TInv
BY DEF TasksInit, TInv, InstancesAreRows, LateWasPending, NoInstance, Idle

\* Ending a request, or replacing what it has read, touches no other request.
LEMMA TaskReplaced ==
  ASSUME TInv, NEW r \in Request, NEW v, taskReq' = [taskReq EXCEPT ![r] = v],
         v.op = "marked" => \A k \in DOMAIN v.late : v.late[k] = "pending"
  PROVE  /\ taskReq' = [s \in Request |-> taskReq'[s]]
         /\ LateWasPending'
BY DEF TInv, LateWasPending

LEMMA LateRead ==
  ASSUME NEW months, NEW new, NEW k \in DOMAIN LateInstances(months, new)
  PROVE  LateInstances(months, new)[k] = "pending"
BY DEF LateInstances, Late

LEMMA InstancesKept == ASSUME TInv, UNCHANGED inst PROVE InstancesAreRows'
BY DEF TInv, InstancesAreRows

LEMMA TasksKept ==
  ASSUME TInv, UNCHANGED taskReq
  PROVE  taskReq' = [s \in Request |-> taskReq'[s]] /\ LateWasPending'
BY DEF TInv, LateWasPending

\* A status written by EXCEPT.
LEMMA InstanceStatusWritten ==
  ASSUME TInv, NEW k \in Key, NEW s, inst' = [inst EXCEPT ![k].status = s]
  PROVE  /\ InstancesAreRows'
         /\ inst'[k].status = s
         /\ \A j \in Key \ {k} : inst'[j] = inst[j]
<1>1. inst' = [inst EXCEPT ![k] = [inst[k] EXCEPT !.status = s]]
  OBVIOUS
<1>2. \A a, b : [[status |-> a, due |-> b] EXCEPT !.status = s] = [status |-> s, due |-> b]
  OBVIOUS
<1>3. inst[k] = [status |-> inst[k].status, due |-> inst[k].due]
  BY DEF TInv, InstancesAreRows
<1>4. [inst[k] EXCEPT !.status = s] = [status |-> s, due |-> inst[k].due]
  BY <1>2, <1>3, Zenon
<1>5. inst' = [inst EXCEPT ![k] = [status |-> s, due |-> inst[k].due]]
  BY <1>1, <1>4, Zenon
<1> QED
  BY <1>5 DEF TInv, InstancesAreRows

LEMMA TasksStep == TInv /\ [TasksNext]_taskVars => TInv'
<1> SUFFICES ASSUME TInv, [TasksNext]_taskVars PROVE TInv'
  OBVIOUS
<1> USE DEF EndTask
<1>1. ASSUME NEW r \in Request, Generate(r) PROVE TInv'
  <2>1. PICK months, backfill : ReadTemplates(r, months, backfill)
    BY <1>1 DEF Generate
  <2> QED
    BY <2>1, TaskReplaced, InstancesKept DEF ReadTemplates, TInv
<1>2. ASSUME NEW r \in Request, MarkOverdue(r) PROVE TInv'
  BY <1>2, TaskReplaced, InstancesKept, LateRead DEF MarkOverdue, TInv
<1>3. ASSUME NEW r \in Request, FinishGenerate(r) PROVE TInv'
  <2>1. InstancesAreRows'
    BY <1>3 DEF FinishGenerate, InstancesAreRows
  <2> QED
    BY <1>3, <2>1, TaskReplaced DEF FinishGenerate, TInv, Idle
<1>4. ASSUME NEW r \in Request, Decide(r) PROVE TInv'
  BY <1>4, TaskReplaced, InstancesKept DEF Decide, TInv
<1>5. ASSUME NEW r \in Request, FinishDecide(r) PROVE TInv'
  <2>1. InstancesAreRows'
    <3>1. CASE taskReq[r].key \in Key
      BY <1>5, <3>1, InstanceStatusWritten DEF FinishDecide
    <3>2. CASE taskReq[r].key \notin Key
      BY <1>5, <3>2 DEF FinishDecide, TInv, InstancesAreRows
    <3> QED
      BY <3>1, <3>2
  <2> QED
    BY <1>5, <2>1, TaskReplaced DEF FinishDecide, TInv, Idle
<1>6. ASSUME NEW r \in Request, AbortTask(r) PROVE TInv'
  BY <1>6, TaskReplaced, InstancesKept DEF AbortTask, TInv, Idle
<1>7. ASSUME NEW k \in Key, PatchInstance(k) PROVE TInv'
  BY <1>7, InstanceStatusWritten, TasksKept DEF PatchInstance, TInv
<1>8. ASSUME NEW k \in Key, CreateInstance(k) PROVE TInv'
  <2>1. InstancesAreRows'
    BY <1>8 DEF CreateInstance, TInv, InstancesAreRows
  <2> QED
    BY <1>8, <2>1, TasksKept DEF CreateInstance, TInv
<1>9. CASE TemplateNext
  BY <1>9, TasksKept, InstancesKept
     DEF TemplateNext, SeedTemplates, CreateTemplate, UpdateTemplate, DeleteTemplate, TInv
<1>10. CASE NextDate
  BY <1>10, TasksKept, InstancesKept DEF NextDate, TInv
<1>11. CASE UNCHANGED taskVars
  BY <1>11, TasksKept, InstancesKept DEF taskVars, TInv
<1> QED
  BY <1>1, <1>2, <1>3, <1>4, <1>5, <1>6, <1>7, <1>8, <1>9, <1>10, <1>11 DEF TasksNext

-----------------------------------------------------------------------------

LEMMA ReopenStep ==
  ASSUME TInv, TasksNext, inst' # inst, NEW k \in Key,
         inst[k].status \in Settled, inst'[k].status \in Open
  PROVE  \/ taskReq' = taskReq
         \/ \E r \in Request :
              /\ taskReq[r].op = "marked" /\ taskReq'[r] = Idle
              /\ k \in DOMAIN taskReq[r].late /\ taskReq[r].late[k] # inst[k].status
<1> USE DEF Open, Settled, EndTask
<1>1. ASSUME NEW r \in Request, FinishGenerate(r) PROVE k \in DOMAIN taskReq[r].late
  <2> SUFFICES ASSUME k \notin DOMAIN taskReq[r].late PROVE FALSE
    OBVIOUS
  <2>1. k \in Instances
    BY DEF Instances, NoInstance
  <2>2. k \notin DOMAIN taskReq[r].new
    BY <1>1, <2>1 DEF FinishGenerate
  <2>3. inst'[k].status = inst[k].status
    BY <1>1, <2>2 DEF FinishGenerate
  <2> QED
    BY <2>3
<1>2. ASSUME NEW r \in Request, FinishGenerate(r)
      PROVE  /\ taskReq[r].op = "marked" /\ taskReq'[r] = Idle
             /\ k \in DOMAIN taskReq[r].late /\ taskReq[r].late[k] # inst[k].status
  BY <1>1, <1>2 DEF FinishGenerate, TInv, LateWasPending
<1>3. ASSUME NEW r \in Request, FinishDecide(r) PROVE FALSE
  <2>1. CASE taskReq[r].key \in Key
    BY <1>3, <2>1, InstanceStatusWritten DEF FinishDecide, Outcome
  <2>2. CASE taskReq[r].key \notin Key
    BY <1>3, <2>2 DEF FinishDecide, TInv, InstancesAreRows
  <2> QED
    BY <2>1, <2>2
<1>4. ASSUME NEW j \in Key, PatchInstance(j) \/ CreateInstance(j) PROVE taskReq' = taskReq
  BY <1>4 DEF PatchInstance, CreateInstance
<1> QED
  BY <1>2, <1>3, <1>4
     DEF TasksNext, Generate, ReadTemplates, MarkOverdue, Decide, AbortTask, TemplateNext,
         SeedTemplates, CreateTemplate, UpdateTemplate, DeleteTemplate, NextDate

\* The action of ReopenNeedsOverlap.
ReopenAction ==
  inst' # inst => \A k \in Key :
    inst[k].status \in Settled /\ inst'[k].status \in Open =>
      \/ taskReq' = taskReq
      \/ \E r \in Request :
           /\ taskReq[r].op = "marked" /\ taskReq'[r] = Idle
           /\ k \in DOMAIN taskReq[r].late /\ taskReq[r].late[k] # inst[k].status

\* For any templates, months and number of requests: what was completed, skipped or archived
\* is opened again only by a PATCH or by a generation that had read it as pending.
THEOREM SettledReopensByOverlapOnly == TasksSpec => ReopenNeedsOverlap
<1>1. TInv /\ [TasksNext]_taskVars => [ReopenAction]_taskVars
  BY ReopenStep DEF taskVars, ReopenAction
<1>2. TasksInit /\ [][TasksNext]_taskVars => []TInv
  BY TasksInitial, TasksStep, PTL
<1>3. TasksSpec => [][ReopenAction]_taskVars
  BY <1>1, <1>2, PTL DEF TasksSpec
<1> QED
  BY <1>3 DEF ReopenNeedsOverlap, ReopenAction

-----------------------------------------------------------------------------
(* Tasks: a second open instance of a template needs an overlap.  The new keys of a
   generation belong to templates it did not spare, and it spares each template that it sees
   open. *)

\* No new instance of a template left out of a generation.
SparedGetNone ==
  \A r \in Request : taskReq[r].op \in {"read", "marked"} =>
    \A k \in DOMAIN taskReq[r].new : k \in Key /\ k[1] \notin taskReq[r].spared

SInv == taskReq = [r \in Request |-> taskReq[r]] /\ SparedGetNone

LEMMA SparedInitial == TasksInit => SInv
BY DEF TasksInit, SInv, SparedGetNone, Idle

LEMMA SparedStep == SInv /\ [TasksNext]_taskVars => SInv'
<1> SUFFICES ASSUME SInv, [TasksNext]_taskVars PROVE SInv'
  OBVIOUS
<1>1. ASSUME NEW r \in Request, Generate(r) PROVE SInv'
  <2>1. PICK months, backfill : ReadTemplates(r, months, backfill)
    BY <1>1 DEF Generate
  <2> DEFINE new == NewInstances(months, backfill)
             spared == {t \in Template : ~backfill /\ OpenInstances(t) # {}}
  <2>2. \A k \in DOMAIN new : k \in Key /\ k[1] \notin spared
    BY DEF NewInstances, Wanted
  <2>3. taskReq' = [taskReq EXCEPT ![r] =
          [op |-> "read", months |-> months, new |-> new, spared |-> spared]]
    BY <2>1 DEF ReadTemplates
  <2> HIDE DEF new, spared
  <2> QED
    BY <2>2, <2>3 DEF SInv, SparedGetNone
<1>2. ASSUME NEW r \in Request, MarkOverdue(r) PROVE SInv'
  BY <1>2 DEF MarkOverdue, SInv, SparedGetNone
<1>3. ASSUME NEW r \in Request, EndTask(r) PROVE SInv'
  BY <1>3 DEF EndTask, SInv, SparedGetNone, Idle
<1>4. ASSUME NEW r \in Request, Decide(r) PROVE SInv'
  BY <1>4 DEF Decide, SInv, SparedGetNone
<1>5. CASE UNCHANGED taskReq
  BY <1>5 DEF SInv, SparedGetNone
<1> QED
  BY <1>1, <1>2, <1>3, <1>4, <1>5
     DEF TasksNext, FinishGenerate, FinishDecide, AbortTask, PatchInstance, CreateInstance,
         TemplateNext, SeedTemplates, CreateTemplate, UpdateTemplate, DeleteTemplate, NextDate,
         taskVars

LEMMA PeriodFinite == IsFiniteSet(Period)
<1> DEFINE S == Frequency \X TaskMonth
           f == [x \in S |-> PeriodOf(x[1], x[2])]
<1>1. IsFiniteSet(TaskMonth)
  BY FS_Interval, MonthAssumption DEF TaskMonth
<1>2. IsFiniteSet(Frequency)
  <2>1. Frequency = ({"monthly"} \cup {"quarterly"}) \cup {"yearly"}
    BY DEF Frequency
  <2> QED
    BY <2>1, FS_Singleton, FS_AddElement
<1>3. IsFiniteSet(S)
  BY <1>1, <1>2, FS_Product
<1>4. f \in Surjection(S, Period)
  <2>1. ASSUME NEW x \in S PROVE f[x] \in Period
    BY DEF Period
  <2>2. ASSUME NEW p \in Period PROVE \E x \in S : f[x] = p
    <3>1. PICK unit \in Frequency, m \in TaskMonth : p = PeriodOf(unit, m)
      BY DEF Period
    <3>2. <<unit, m>> \in S /\ f[<<unit, m>>] = p
      BY <3>1
    <3> QED
      BY <3>2
  <2>3. f = [x \in S |-> f[x]]
    OBVIOUS
  <2> HIDE DEF S, f
  <2> QED
    BY <2>1, <2>2, <2>3 DEF Surjection
<1> HIDE DEF S, f
<1> QED
  BY <1>3, <1>4, FS_Surjection

LEMMA TemplateInstancesFinite == ASSUME NEW t PROVE IsFiniteSet(OpenInstances(t))
<1> DEFINE T == {t} \X Period
<1>1. IsFiniteSet({t}) /\ IsFiniteSet(Period)
  BY FS_Singleton, PeriodFinite
<1>2. IsFiniteSet(T)
  BY <1>1, FS_Product
<1>3. OpenInstances(t) \in SUBSET T
  BY DEF OpenInstances, Instances, Key
<1> HIDE DEF T
<1> QED
  BY <1>2, <1>3, FS_Subset

\* The action of SecondOpenNeedsOverlap.
SecondOpen ==
  \A t \in Template, r \in Request :
    /\ taskReq[r].op = "marked" /\ taskReq'[r] = Idle /\ inst' # inst
    /\ Cardinality(OpenInstances(t)) = 1 /\ Cardinality(OpenInstances(t)') = 2
    => t \notin taskReq[r].spared
         \/ \E k \in OpenInstances(t)' \ OpenInstances(t) : k \in DOMAIN taskReq[r].late

LEMMA SecondOpenStep == SInv /\ [TasksNext]_taskVars => [SecondOpen]_taskVars
<1> SUFFICES ASSUME SInv, TasksNext, NEW t \in Template, NEW r \in Request,
                    taskReq[r].op = "marked", taskReq'[r] = Idle, inst' # inst,
                    Cardinality(OpenInstances(t)) = 1, Cardinality(OpenInstances(t)') = 2,
                    t \in taskReq[r].spared
             PROVE  \E k \in OpenInstances(t)' \ OpenInstances(t) : k \in DOMAIN taskReq[r].late
  BY DEF SecondOpen
<1>1. FinishGenerate(r)
  <2>1. ASSUME NEW s \in Request, EndTask(s), s # r PROVE FALSE
    BY <2>1 DEF EndTask, SInv, Idle
  <2>2. taskReq' # taskReq
    BY DEF Idle
  <2> QED
    BY <2>1, <2>2
       DEF TasksNext, Generate, ReadTemplates, MarkOverdue, FinishGenerate, Decide, FinishDecide,
           AbortTask, PatchInstance, CreateInstance, TemplateNext, SeedTemplates,
           CreateTemplate, UpdateTemplate, DeleteTemplate, NextDate
<1>2. ~(OpenInstances(t)' \subseteq OpenInstances(t))
  <2>1. ASSUME OpenInstances(t)' \subseteq OpenInstances(t)
        PROVE  Cardinality(OpenInstances(t)') <= Cardinality(OpenInstances(t))
    BY <2>1, TemplateInstancesFinite, FS_Subset
  <2> QED
    BY <2>1
<1>3. PICK k \in OpenInstances(t)' : k \notin OpenInstances(t)
  BY <1>2
<1>4. k \in Key /\ k[1] = t /\ inst'[k].status \in Open
  BY <1>3 DEF OpenInstances, Instances, Key, Period, TaskMonth
<1>5. k \notin DOMAIN taskReq[r].new
  BY <1>4 DEF SInv, SparedGetNone
<1>6. ASSUME k \notin DOMAIN taskReq[r].late PROVE FALSE
  <2>1. inst'[k].status = inst[k].status
    BY <1>1, <1>4, <1>5, <1>6 DEF FinishGenerate
  <2>2. inst[k] # NoInstance
    BY <1>4, <2>1 DEF NoInstance, Open
  <2> QED
    BY <1>3, <1>4, <2>1, <2>2 DEF OpenInstances, Instances
<1> QED
  BY <1>3, <1>6

\* For any templates, months and number of requests: a second unfinished instance comes from a
\* generation that saw none, or that marks overdue over what another request settled.
THEOREM SecondOpenOverlaps == TasksSpec => SecondOpenNeedsOverlap
<1>1. TasksInit /\ [][TasksNext]_taskVars => []SInv
  BY SparedInitial, SparedStep, PTL
<1>2. TasksSpec => [][SecondOpen]_taskVars
  BY <1>1, SecondOpenStep, PTL DEF TasksSpec
<1> QED
  BY <1>2 DEF SecondOpenNeedsOverlap, SecondOpen

-----------------------------------------------------------------------------
(* Tasks: the types.  Rows are never deleted, so that what a request decides on is still a
   row; the due dates of new rows lie in the quarter of the last month at the latest. *)

LastDue == DueDay(3 * PeriodsTo("quarterly", MaxMonth))

\* What a request in progress will write: dates in range, and statuses of rows there are.
Writable(r) ==
  /\ taskReq[r].op \in {"complete", "archive"} => taskReq[r].key \in Instances
  /\ taskReq[r].op \in {"read", "marked"} =>
       \A k \in DOMAIN taskReq[r].new : taskReq[r].new[k] \in 1 .. LastDue
  /\ taskReq[r].op = "marked" =>
       DOMAIN taskReq[r].late \subseteq Instances \cup DOMAIN taskReq[r].new

TaTyped ==
  /\ TasksTypeOK /\ taskReq = [r \in Request |-> taskReq[r]]
  /\ \A r \in Request : Writable(r)

LEMMA LeastMonth ==
  ASSUME NEW S \in SUBSET TaskMonth, S # {}
  PROVE  \E m \in S : \A o \in S : m <= o
<1> DEFINE B == {1 .. m : m \in S}
<1>1. IsFiniteSet(TaskMonth)
  BY MonthAssumption, FS_Interval DEF TaskMonth
<1>2. B \subseteq SUBSET TaskMonth /\ B # {}
  <2>1. ASSUME NEW m \in TaskMonth PROVE 1 .. m \subseteq TaskMonth
    BY MonthAssumption DEF TaskMonth
  <2>2. \A m \in S : 1 .. m \subseteq TaskMonth
    BY <2>1
  <2> QED
    BY <2>2
<1> HIDE DEF B
<1>3. PICK s \in B : \A t \in B : t \subseteq s => t = s
  BY <1>1, <1>2, LeastSubset
<1>4. PICK m \in S : s = 1 .. m
  BY <1>3 DEF B
<1>5. ASSUME NEW o \in S PROVE m <= o
  <2> SUFFICES ASSUME o < m PROVE FALSE
    BY MonthAssumption DEF TaskMonth
  <2>1. 1 .. o \in B /\ 1 .. o \subseteq s /\ m \in s /\ m \notin 1 .. o
    BY <1>4, MonthAssumption DEF B, TaskMonth
  <2> QED
    BY <1>3, <2>1
<1> QED
  BY <1>5

\* The months of a quarter end by the end of the quarter of the last month.
LEMMA DueInRange ==
  ASSUME NEW m \in TaskMonth
  PROVE  /\ DueDay(m) \in 1 .. LastDue
         /\ m % 3 = 1 => DueDay(m + 2) \in 1 .. LastDue
<1>1. LastDue = 2 * (3 * ((MaxMonth - 1) \div 3 + 1)) - 1
  BY DEF LastDue, DueDay, PeriodsTo
<1> DEFINE k == (MaxMonth - 1) \div 3
           n == m \div 3
<1>2. k \in Nat /\ 3 * k <= MaxMonth - 1 /\ MaxMonth - 1 < 3 * k + 3
  BY MonthAssumption
<1>3. n \in Nat /\ m = 3 * n + (m % 3) /\ m <= MaxMonth /\ m >= 1 /\ m \in Nat
  BY MonthAssumption DEF TaskMonth
<1> HIDE DEF k, n
<1>4. m % 3 = 1 => m + 2 <= 3 * (k + 1)
  <2> SUFFICES ASSUME m = 3 * n + 1 PROVE m + 2 <= 3 * (k + 1)
    BY <1>3
  <2>1. n <= k
    BY <1>2, <1>3, MonthAssumption
  <2> QED
    BY <1>2, <1>3, <2>1
<1>5. m <= 3 * (k + 1)
  BY <1>2, <1>3, MonthAssumption
<1>6. LastDue = 2 * (3 * (k + 1)) - 1
  BY <1>1 DEF k
<1> QED
  BY <1>2, <1>3, <1>4, <1>5, <1>6 DEF DueDay

LEMMA NewDues ==
  ASSUME NEW months \in SUBSET TaskMonth, NEW backfill,
         NEW k \in DOMAIN NewInstances(months, backfill)
  PROVE  k \in Key /\ NewInstances(months, backfill)[k] \in 1 .. LastDue
<1> DEFINE f == template[k[1]].frequency
           S == {m \in months : Generates(f, m) /\ PeriodOf(f, m) = k[2]}
           first == CHOOSE m \in S : \A o \in S : m <= o
<1>1. k \in Key /\ S # {} /\ NewInstances(months, backfill)[k] = Due(f, first)
  BY DEF NewInstances
<1>2. first \in S
  <2>1. \E m \in S : \A o \in S : m <= o
    <3>1. S \in SUBSET TaskMonth
      OBVIOUS
    <3> HIDE DEF S
    <3> QED
      BY <1>1, <3>1, LeastMonth
  <2> HIDE DEF S
  <2> QED
    BY <2>1
<1>3. first \in TaskMonth /\ Generates(f, first)
  BY <1>2
<1> HIDE DEF S, first
<1>4. f = "quarterly" => first % 3 = 1
  BY <1>3 DEF Generates
<1> QED
  BY <1>1, <1>3, <1>4, DueInRange DEF Due

LEMMA LateRows ==
  ASSUME NEW months, NEW new
  PROVE  DOMAIN LateInstances(months, new) \subseteq Instances \cup DOMAIN new
BY DEF LateInstances

LEMMA TasksTypedInitial == TasksInit => TaTyped
BY MonthAssumption
   DEF TasksInit, TaTyped, TasksTypeOK, Writable, NoTemplate, TemplateRow, Frequency, InstanceRow, Idle

\* An instance that is there is a row, and a row of those statuses is there.
LEMMA RowThere ==
  ASSUME TaTyped, NEW k \in Key
  PROVE  /\ k \in Instances => inst[k].status \in Open \cup Settled /\ inst[k].due \in 1 .. LastDue
                                 /\ inst[k] = [status |-> inst[k].status, due |-> inst[k].due]
         /\ k \notin Instances => inst[k] = NoInstance
BY DEF TaTyped, TasksTypeOK, InstanceRow, Instances, LastDue

LEMMA RowTyped ==
  ASSUME NEW s \in Open \cup Settled, NEW d \in 1 .. LastDue
  PROVE  [status |-> s, due |-> d] \in InstanceRow /\ [status |-> s, due |-> d] # NoInstance
BY DEF InstanceRow, LastDue, NoInstance, Open, Settled

\* Steps that replace what a request has read.
LEMMA TaskRequestTyped ==
  ASSUME TaTyped, NEW r \in Request, NEW v, taskReq' = [taskReq EXCEPT ![r] = v],
         template' \in [Template -> TemplateRow], inst' \in [Key -> InstanceRow],
         today' \in 1 .. 2 * MaxMonth, Instances \subseteq Instances',
         taskReq'[r] = v => (v = Idle \/ v \in Decision \/ Generation(r)') /\ Writable(r)'
  PROVE  TaTyped'
<1>1. taskReq'[r] = v /\ \A s \in Request \ {r} : taskReq'[s] = taskReq[s]
  BY DEF TaTyped
<1>2. ASSUME NEW s \in Request \ {r}
      PROVE  (taskReq'[s] = Idle \/ taskReq'[s] \in Decision \/ Generation(s)') /\ Writable(s)'
  <2>1. taskReq'[s] = taskReq[s]
    BY <1>1
  <2>2. taskReq[s] = Idle \/ taskReq[s] \in Decision \/ Generation(s)
    BY DEF TaTyped, TasksTypeOK
  <2>3. Writable(s)
    BY DEF TaTyped
  <2>4. Writable(s)'
    BY <2>1, <2>3 DEF Writable
  <2>5. taskReq'[s] = Idle \/ taskReq'[s] \in Decision \/ Generation(s)'
    BY <2>1, <2>2 DEF Generation, Decision
  <2> QED
    BY <2>4, <2>5
<1> QED
  BY <1>1, <1>2 DEF TaTyped, TasksTypeOK

LEMMA TaskEnded ==
  ASSUME TaTyped, NEW r \in Request, EndTask(r),
         template' \in [Template -> TemplateRow], inst' \in [Key -> InstanceRow],
         today' \in 1 .. 2 * MaxMonth, Instances \subseteq Instances'
  PROVE  TaTyped'
<1>1. taskReq'[r] = Idle => Writable(r)'
  BY DEF Writable, Idle
<1> QED
  BY <1>1, TaskRequestTyped DEF EndTask

LEMMA RequestsKept ==
  ASSUME TaTyped, UNCHANGED taskReq,
         template' \in [Template -> TemplateRow], inst' \in [Key -> InstanceRow],
         today' \in 1 .. 2 * MaxMonth, Instances \subseteq Instances'
  PROVE  TaTyped'
<1>1. ASSUME NEW s \in Request
      PROVE  (taskReq'[s] = Idle \/ taskReq'[s] \in Decision \/ Generation(s)') /\ Writable(s)'
  <2>1. taskReq[s] = Idle \/ taskReq[s] \in Decision \/ Generation(s)
    BY DEF TaTyped, TasksTypeOK
  <2>2. Writable(s)
    BY DEF TaTyped
  <2> QED
    BY <2>1, <2>2 DEF Generation, Decision, Writable
<1> QED
  BY <1>1 DEF TaTyped, TasksTypeOK

LEMMA InstanceWritten ==
  ASSUME TaTyped, NEW k \in Instances, NEW s \in Open \cup Settled,
         inst' = [inst EXCEPT ![k].status = s]
  PROVE  inst' \in [Key -> InstanceRow] /\ Instances \subseteq Instances'
<1>1. k \in Key
  BY DEF Instances
<1>2. \A a, b : [[status |-> a, due |-> b] EXCEPT !.status = s] = [status |-> s, due |-> b]
  OBVIOUS
<1>3. [inst[k] EXCEPT !.status = s] = [status |-> s, due |-> inst[k].due]
  BY <1>1, <1>2, RowThere, Zenon
<1>4. inst' = [inst EXCEPT ![k] = [inst[k] EXCEPT !.status = s]]
  OBVIOUS
<1>5. inst' = [inst EXCEPT ![k] = [status |-> s, due |-> inst[k].due]]
  BY <1>3, <1>4, Zenon
<1>6. [status |-> s, due |-> inst[k].due] \in InstanceRow /\ [status |-> s, due |-> inst[k].due] # NoInstance
  BY <1>1, RowThere, RowTyped
<1> QED
  BY <1>1, <1>5, <1>6 DEF TaTyped, TasksTypeOK, Instances

LEMMA TasksTypedStep == TaTyped /\ [TasksNext]_taskVars => TaTyped'
<1> SUFFICES ASSUME TaTyped, [TasksNext]_taskVars PROVE TaTyped'
  OBVIOUS
<1>0. /\ template \in [Template -> TemplateRow] /\ inst \in [Key -> InstanceRow]
      /\ today \in 1 .. 2 * MaxMonth
      /\ UNCHANGED inst => Instances' = Instances
  BY DEF TaTyped, TasksTypeOK, Instances
<1>1. ASSUME NEW r \in Request, NEW months \in SUBSET TaskMonth, NEW backfill,
             ReadTemplates(r, months, backfill)
      PROVE  TaTyped'
  <2> DEFINE v == [op |-> "read", months |-> months, new |-> NewInstances(months, backfill),
                   spared |-> {t \in Template : ~backfill /\ OpenInstances(t) # {}}]
  <2>1. taskReq' = [taskReq EXCEPT ![r] = v] /\ UNCHANGED <<template, inst, today>>
    BY <1>1 DEF ReadTemplates
  <2>2. v.op = "read" /\ v.months \subseteq TaskMonth /\ v.spared \subseteq Template
          /\ v.new = NewInstances(months, backfill)
    OBVIOUS
  <2>3. \A k \in DOMAIN v.new : k \in Key /\ v.new[k] \in 1 .. LastDue
    BY <2>2, NewDues
  <2> HIDE DEF v
  <2>4. taskReq'[r] = v => Generation(r)' /\ Writable(r)'
    BY <2>2, <2>3 DEF Generation, Writable
  <2> QED
    BY <1>0, <2>1, <2>4, TaskRequestTyped
<1>2. ASSUME NEW r \in Request, MarkOverdue(r) PROVE TaTyped'
  <2> DEFINE v == [op |-> "marked", new |-> taskReq[r].new, spared |-> taskReq[r].spared,
                   late |-> LateInstances(taskReq[r].months, taskReq[r].new)]
  <2>1. taskReq' = [taskReq EXCEPT ![r] = v] /\ UNCHANGED <<template, inst, today>>
    BY <1>2 DEF MarkOverdue
  <2>2. Generation(r) /\ Writable(r) /\ taskReq[r].op = "read"
    BY <1>2 DEF MarkOverdue, TaTyped, TasksTypeOK, Idle, Decision
  <2>3. v.op = "marked" /\ v.new = taskReq[r].new /\ v.spared = taskReq[r].spared
          /\ DOMAIN v.late \subseteq Instances \cup DOMAIN v.new
    BY LateRows
  <2> HIDE DEF v
  <2>4. taskReq'[r] = v => Generation(r)' /\ Writable(r)'
    BY <1>0, <2>1, <2>2, <2>3 DEF Generation, Writable, Instances
  <2> QED
    BY <1>0, <2>1, <2>4, TaskRequestTyped
<1>3. ASSUME NEW r \in Request, FinishGenerate(r) PROVE TaTyped'
  <2>1. Writable(r) /\ taskReq[r].op = "marked"
    BY <1>3 DEF FinishGenerate, TaTyped
  <2>2. ASSUME NEW k \in Key
        PROVE  /\ inst'[k] \in InstanceRow
               /\ k \in Instances => k \in Instances'
    <3> DEFINE new == taskReq[r].new
               late == taskReq[r].late
    <3>1. inst'[k] = [status |-> IF k \in DOMAIN late THEN "overdue"
                                 ELSE IF k \in DOMAIN new THEN "pending" ELSE inst[k].status,
                      due |-> IF k \in DOMAIN new THEN new[k] ELSE inst[k].due]
      BY <1>3 DEF FinishGenerate
    <3>2. CASE k \in Instances \/ k \in DOMAIN new
      <4>1. /\ inst'[k].status \in Open \cup Settled /\ inst'[k].due \in 1 .. LastDue
            /\ inst'[k] = [status |-> inst'[k].status, due |-> inst'[k].due]
        <5>1. k \in DOMAIN new => new[k] \in 1 .. LastDue
          BY <2>1 DEF Writable
        <5>2. k \notin DOMAIN new => inst[k].status \in Open \cup Settled /\ inst[k].due \in 1 .. LastDue
          BY <3>2, RowThere
        <5> HIDE DEF new, late
        <5>3. inst'[k].due \in 1 .. LastDue
          BY <3>1, <5>1, <5>2
        <5>4. inst'[k].status \in Open \cup Settled
          BY <3>1, <5>2 DEF Open
        <5> QED
          BY <3>1, <5>3, <5>4
      <4> QED
        BY <4>1, RowTyped DEF Instances
    <3>3. CASE k \notin Instances /\ k \notin DOMAIN new
      BY <1>0, <2>1, <3>1, <3>3, RowThere DEF Writable, NoInstance
    <3> QED
      BY <3>2, <3>3
  <2>3. inst' \in [Key -> InstanceRow] /\ Instances \subseteq Instances'
    <3>1. inst' = [k \in Key |-> inst'[k]]
      BY <1>3 DEF FinishGenerate
    <3> QED
      BY <2>2, <3>1 DEF Instances
  <2> QED
    BY <1>0, <1>3, <2>3, TaskEnded DEF FinishGenerate
<1>4. ASSUME NEW r \in Request, Decide(r) PROVE TaTyped'
  <2>1. PICK op \in {"complete", "archive"}, k \in Instances :
          taskReq' = [taskReq EXCEPT ![r] = [op |-> op, key |-> k, status |-> inst[k].status]]
    BY <1>4 DEF Decide
  <2>2. UNCHANGED <<template, inst, today>>
    BY <1>4 DEF Decide
  <2> DEFINE v == [op |-> op, key |-> k, status |-> inst[k].status]
  <2>3. k \in Key
    BY DEF Instances
  <2>4. v \in Decision /\ v.op = op /\ v.key = k
    BY <2>3, RowThere DEF Decision
  <2>5. taskReq' = [taskReq EXCEPT ![r] = v]
    BY <2>1
  <2> HIDE DEF v
  <2>6. taskReq'[r] = v => Writable(r)'
    BY <1>0, <2>2, <2>4 DEF Writable
  <2> QED
    BY <1>0, <2>2, <2>4, <2>5, <2>6, TaskRequestTyped
<1>5. ASSUME NEW r \in Request, FinishDecide(r) PROVE TaTyped'
  <2>1. taskReq[r].key \in Instances
    BY <1>5 DEF FinishDecide, TaTyped, Writable
  <2>2. inst' \in [Key -> InstanceRow] /\ Instances \subseteq Instances'
    BY <1>5, <2>1, InstanceWritten DEF FinishDecide, Outcome, Settled
  <2> QED
    BY <1>0, <1>5, <2>2, TaskEnded DEF FinishDecide
<1>6. ASSUME NEW r \in Request, AbortTask(r) PROVE TaTyped'
  BY <1>0, <1>6, TaskEnded DEF AbortTask
<1>7. ASSUME NEW k \in Key, PatchInstance(k) PROVE TaTyped'
  BY <1>0, <1>7, InstanceWritten, RequestsKept DEF PatchInstance
<1>8. ASSUME NEW k \in Key, CreateInstance(k) PROVE TaTyped'
  <2>1. DueDay(k[2].n) \in 1 .. LastDue
    <3>1. PICK f \in Frequency, m \in TaskMonth : k[2] = PeriodOf(f, m)
      BY DEF Key, Period
    <3>2. PeriodsTo(f, m) \in TaskMonth
      BY MonthAssumption DEF PeriodsTo, Frequency, TaskMonth
    <3> QED
      BY <3>1, <3>2, DueInRange DEF PeriodOf
  <2>2. inst' \in [Key -> InstanceRow] /\ Instances \subseteq Instances'
    <3> DEFINE row == [status |-> "pending", due |-> DueDay(k[2].n)]
    <3>1. row \in InstanceRow /\ row # NoInstance
      BY <2>1, RowTyped DEF Open
    <3>2. inst' = [inst EXCEPT ![k] = row]
      BY <1>8 DEF CreateInstance
    <3> HIDE DEF row
    <3> QED
      BY <1>0, <3>1, <3>2 DEF Instances
  <2> QED
    BY <1>0, <1>8, <2>2, RequestsKept DEF CreateInstance
<1>9. CASE TemplateNext
  <2>1. UNCHANGED <<inst, today, taskReq>>
    BY <1>9 DEF TemplateNext, SeedTemplates, CreateTemplate, UpdateTemplate, DeleteTemplate
  <2>2. template' \in [Template -> TemplateRow]
    <3>1. ASSUME NEW new \in SUBSET Template, SeedTemplates(new) PROVE template' \in [Template -> TemplateRow]
      BY <1>0, <3>1 DEF SeedTemplates, TemplateRow
    <3>2. ASSUME NEW t \in Template, CreateTemplate(t) \/ UpdateTemplate(t) \/ DeleteTemplate(t)
          PROVE  template' \in [Template -> TemplateRow]
      <4>1. ASSUME NEW row \in TemplateRow, template' = [template EXCEPT ![t] = row]
            PROVE  template' \in [Template -> TemplateRow]
        BY <1>0, <4>1
      <4>2. ASSUME NEW on \in BOOLEAN, template' = [template EXCEPT ![t].on = on]
            PROVE  template' \in [Template -> TemplateRow]
        <5>1. [template[t] EXCEPT !.on = on] \in TemplateRow
          BY <1>0 DEF TemplateRow
        <5> QED
          BY <4>1, <4>2, <5>1
      <4>3. CASE CreateTemplate(t)
        BY <4>1, <4>3 DEF CreateTemplate, TemplateRow
      <4> QED
        BY <3>2, <4>2, <4>3 DEF UpdateTemplate, DeleteTemplate
    <3> QED
      BY <1>9, <3>1, <3>2 DEF TemplateNext
  <2> QED
    BY <1>0, <2>1, <2>2, RequestsKept
<1>10. CASE NextDate
  BY <1>0, <1>10, RequestsKept, MonthAssumption DEF NextDate
<1>11. CASE UNCHANGED taskVars
  BY <1>0, <1>11, RequestsKept DEF taskVars
<1>12. ASSUME NEW r \in Request, Generate(r) PROVE TaTyped'
  <2>1. \A m \in TaskMonth : {m} \subseteq TaskMonth
    OBVIOUS
  <2>2. \A m \in 1 .. MonthOf(today) : m .. MonthOf(today) \subseteq TaskMonth
    BY <1>0, MonthAssumption DEF MonthOf, TaskMonth
  <2> QED
    BY <1>1, <1>12, <2>1, <2>2 DEF Generate
<1> QED
  BY <1>2, <1>3, <1>4, <1>5, <1>6, <1>7, <1>8, <1>9, <1>10, <1>11, <1>12 DEF TasksNext

\* For any templates, months and number of requests: templates, instances, the date and what
\* generations and decisions hold of them stay well typed.
THEOREM TasksTyped == TasksSpec => []TasksTypeOK
<1>1. TaTyped => TasksTypeOK
  BY DEF TaTyped
<1> QED
  BY TasksTypedInitial, TasksTypedStep, <1>1, PTL DEF TasksSpec

-----------------------------------------------------------------------------
(* Monthly: a second bill of a rule for a month needs an overlap.  A run bills a rule once,
   and takes it off the rules it has left when it does. *)

\* A run bills a rule once, and has it no longer left.
BilledByRun ==
  \A r \in Request : monthReq[r].op = "run" =>
    \A q \in Rule, n, k \in Number : <<q, n>> \in monthReq[r].made =>
      /\ q \notin monthReq[r].left
      /\ <<q, k>> \in monthReq[r].made => n = k

MInv == MonthlyTypeOK /\ BilledByRun

LEMMA MonthlyKinds ==
  ASSUME MonthlyTypeOK, NEW r \in Request
  PROVE  /\ monthReq[r].op = "run" => monthReq[r] \in Running
         /\ monthReq[r].op = "create" => monthReq[r] \in Creating
BY DEF MonthlyTypeOK, Running, Creating, Idle

\* What the steps of a request write into it.
LEMMA RunRenumbered ==
  ASSUME NEW req \in Running, NEW number \in 0 .. MaxNumber
  PROVE  LET v == [req EXCEPT !.number = number]
         IN  v \in Running /\ v.left = req.left /\ v.made = req.made
BY DEF Running

LEMMA CreateInserted ==
  ASSUME NEW req \in Creating
  PROVE  [req EXCEPT !.inserted = TRUE] \in Creating
BY DEF Creating

LEMMA MonthlyInitial == MonthlyInit => MInv
BY MonthlyBoundsAssumption DEF MonthlyInit, MInv, MonthlyTypeOK, BilledByRun, Idle

\* A request that is replaced by a run, or by anything that is none.
LEMMA RunReplaced ==
  ASSUME MInv, NEW r \in Request, NEW v \in {Idle} \cup Running \cup Creating,
         monthReq' = [monthReq EXCEPT ![r] = v], UNCHANGED <<nextIssue, invoices>>,
         v \in Running => \A q \in Rule, n, k \in Number : <<q, n>> \in v.made =>
           q \notin v.left /\ (<<q, k>> \in v.made => n = k)
  PROVE  MInv'
<1>1. v.op = "run" => v \in Running
  BY DEF Running, Creating, Idle
<1> QED
  BY <1>1 DEF MInv, MonthlyTypeOK, BilledByRun

LEMMA CreatingReplaced ==
  ASSUME MInv, NEW r \in Request, NEW v \in Creating,
         monthReq' = [monthReq EXCEPT ![r] = v], UNCHANGED <<nextIssue, invoices>>
  PROVE  MInv'
<1>1. v \notin Running
  BY DEF Running, Creating
<1> QED
  BY <1>1, RunReplaced

LEMMA MonthlyEnded ==
  ASSUME MInv, NEW r \in Request, EndMonthly(r)
  PROVE  monthReq' \in [Request -> {Idle} \cup Running \cup Creating] /\ BilledByRun'
BY DEF MInv, MonthlyTypeOK, BilledByRun, EndMonthly, Idle

LEMMA MonthlyStep == MInv /\ [MonthlyNext]_monthlyVars => MInv'
<1> SUFFICES ASSUME MInv, [MonthlyNext]_monthlyVars PROVE MInv'
  OBVIOUS
<1>1. ASSUME NEW r \in Request, ReadRules(r) PROVE MInv'
  <2>1. PICK m \in RunMonth :
          monthReq' = [monthReq EXCEPT ![r] =
            [op |-> "run", month |-> m, left |-> {q \in Rule : nextIssue[q] = m},
             number |-> 0, made |-> {}]]
    BY <1>1 DEF ReadRules
  <2> DEFINE v == [op |-> "run", month |-> m, left |-> {q \in Rule : nextIssue[q] = m},
                   number |-> 0, made |-> {}]
  <2>2. v \in Running /\ v.made = {}
    BY MonthlyBoundsAssumption DEF Running
  <2>3. monthReq' = [monthReq EXCEPT ![r] = v] /\ UNCHANGED <<nextIssue, invoices>>
    BY <1>1, <2>1 DEF ReadRules
  <2> HIDE DEF v
  <2> QED
    BY <2>2, <2>3, RunReplaced
<1>2. ASSUME NEW r \in Request, TakeNumber(r) PROVE MInv'
  <2> DEFINE v == [monthReq[r] EXCEPT !.number = NextNumber(r)]
  <2>1. monthReq[r].op = "run" /\ monthReq[r] \in Running
    BY <1>2, MonthlyKinds DEF TakeNumber, MInv
  <2>2. monthReq' = [monthReq EXCEPT ![r] = v] /\ UNCHANGED <<nextIssue, invoices>>
    BY <1>2 DEF TakeNumber
  <2>3. NextNumber(r) \in 0 .. MaxNumber
    BY <1>2 DEF TakeNumber, Number
  <2>4. v \in Running /\ v.left = monthReq[r].left /\ v.made = monthReq[r].made
    BY <2>1, <2>3, RunRenumbered
  <2> HIDE DEF v
  <2> QED
    BY <2>1, <2>2, <2>4, RunReplaced DEF MInv, BilledByRun
<1>3. ASSUME NEW r \in Request, BillRule(r) PROVE MInv'
  <2>1. PICK q \in monthReq[r].left :
          monthReq' = [monthReq EXCEPT ![r].left = monthReq[r].left \ {q}, ![r].number = 0,
                         ![r].made = monthReq[r].made \cup {<<q, monthReq[r].number>>}]
    BY <1>3 DEF BillRule
  <2> DEFINE left == monthReq[r].left \ {q}
             made == monthReq[r].made \cup {<<q, monthReq[r].number>>}
             v == [monthReq[r] EXCEPT !.left = left, !.number = 0, !.made = made]
  <2>2. monthReq[r].op = "run" /\ monthReq[r] \in Running /\ monthReq[r].number # 0
          /\ UNCHANGED <<nextIssue, invoices>>
    BY <1>3, MonthlyKinds DEF BillRule, Free, MInv
  <2>3. monthReq' = [monthReq EXCEPT ![r] = v]
    BY <2>1 DEF MInv, MonthlyTypeOK
  <2>4. /\ monthReq[r].left \subseteq Rule /\ monthReq[r].made \subseteq Rule \X Number
        /\ monthReq[r].number \in Number
    BY <2>2, MonthlyBoundsAssumption DEF Running, Number
  <2>5. left \in SUBSET Rule /\ made \in SUBSET (Rule \X Number) /\ 0 \in 0 .. MaxNumber
    BY <2>1, <2>4, MonthlyBoundsAssumption
  <2>6. \A p \in Rule, j, k \in Number : <<p, j>> \in made =>
          p \notin left /\ (<<p, k>> \in made => j = k)
    BY <2>1, <2>2, <2>4 DEF MInv, BilledByRun
  <2> HIDE DEF left, made
  <2>7. v \in Running /\ v.left = left /\ v.made = made
    BY <2>2, <2>5 DEF Running
  <2> HIDE DEF v
  <2> QED
    BY <2>2, <2>3, <2>6, <2>7, RunReplaced
<1>4. ASSUME NEW r \in Request, FinishRun(r) PROVE MInv'
  <2>1. monthReq[r].month \in RunMonth /\ monthReq[r].made \subseteq Rule \X Number
    BY <1>4, MonthlyKinds DEF FinishRun, MInv, Running
  <2>2. \A n \in Number : invoices'[n] = invoices[n] \/ invoices'[n] \in Billing
    <3> SUFFICES ASSUME NEW n \in Number, \E pair \in monthReq[r].made : pair[2] = n
                 PROVE  invoices'[n] \in Billing
      BY <1>4 DEF FinishRun
    <3>1. (CHOOSE q \in Rule : <<q, n>> \in monthReq[r].made) \in Rule
      <4>1. \E q \in Rule : <<q, n>> \in monthReq[r].made
        BY <2>1
      <4> QED
        BY <4>1
    <3>2. invoices'[n] = [rule |-> CHOOSE q \in Rule : <<q, n>> \in monthReq[r].made,
                          month |-> monthReq[r].month]
      BY <1>4 DEF FinishRun
    <3> QED
      BY <2>1, <3>1, <3>2 DEF Billing
  <2>3. invoices' \in [Number -> Billing \cup {ByHand, None}]
    BY <1>4, <2>2 DEF FinishRun, MInv, MonthlyTypeOK
  <2>4. nextIssue' \in [Rule -> 0 .. LastMonth + 1]
    BY <1>4, <2>1, MonthlyBoundsAssumption DEF FinishRun, MovedOn, RunMonth, MInv, MonthlyTypeOK
  <2> QED
    BY <1>4, <2>3, <2>4, MonthlyEnded DEF FinishRun, MInv, MonthlyTypeOK
<1>5. ASSUME NEW r \in Request, AbortMonthly(r) PROVE MInv'
  BY <1>5, MonthlyEnded DEF AbortMonthly, MInv, MonthlyTypeOK
<1>6. ASSUME NEW r \in Request, BeginCreate(r) PROVE MInv'
  <2> DEFINE v == [op |-> "create", tries |-> 1, number |-> NextNumber(r), inserted |-> FALSE]
  <2>1. v \in Creating
    BY <1>6 DEF BeginCreate, Creating, Number
  <2> QED
    BY <1>6, <2>1, CreatingReplaced DEF BeginCreate
<1>7. ASSUME NEW r \in Request, InsertByHand(r) PROVE MInv'
  <2>1. [monthReq[r] EXCEPT !.inserted = TRUE] \in Creating
    BY <1>7, MonthlyKinds, CreateInserted DEF InsertByHand, MInv
  <2>2. monthReq' = [monthReq EXCEPT ![r] = [monthReq[r] EXCEPT !.inserted = TRUE]]
    BY <1>7 DEF InsertByHand
  <2> QED
    BY <1>7, <2>1, <2>2, CreatingReplaced DEF InsertByHand
<1>8. ASSUME NEW r \in Request, RetryCreate(r) PROVE MInv'
  <2> DEFINE tries == monthReq[r].tries + 1
             v == [monthReq[r] EXCEPT !.tries = tries, !.number = NextNumber(r)]
  <2>1. monthReq[r] \in Creating /\ monthReq[r].tries < 3
    BY <1>8, MonthlyKinds DEF RetryCreate, MInv
  <2>2. tries \in 1 .. 3 /\ NextNumber(r) \in 0 .. MaxNumber
    BY <1>8, <2>1 DEF RetryCreate, Creating, Number
  <2>3. monthReq' = [monthReq EXCEPT ![r] = v] /\ UNCHANGED <<nextIssue, invoices>>
    BY <1>8 DEF RetryCreate, MInv, MonthlyTypeOK
  <2> HIDE DEF tries
  <2>4. v \in Creating
    BY <2>1, <2>2 DEF Creating
  <2> QED
    BY <2>3, <2>4, CreatingReplaced
<1>9. ASSUME NEW r \in Request, FinishCreate(r) PROVE MInv'
  <2>1. invoices' \in [Number -> Billing \cup {ByHand, None}]
    BY <1>9 DEF FinishCreate, MInv, MonthlyTypeOK
  <2> QED
    BY <1>9, <2>1, MonthlyEnded DEF FinishCreate, MInv, MonthlyTypeOK
<1>10. ASSUME NEW q \in Rule, CreateRule(q) PROVE MInv'
  BY <1>10, MonthlyBoundsAssumption DEF CreateRule, MInv, MonthlyTypeOK, BilledByRun, RunMonth
<1>11. CASE UNCHANGED monthlyVars
  BY <1>11 DEF monthlyVars, MInv, MonthlyTypeOK, BilledByRun
<1> QED
  BY <1>1, <1>2, <1>3, <1>4, <1>5, <1>6, <1>7, <1>8, <1>9, <1>10, <1>11 DEF MonthlyNext

-----------------------------------------------------------------------------

\* A rule whose billings and date stay as they were, or which loses billings, is billed once.
LEMMA BilledOnceKept ==
  ASSUME NEW q \in Rule, BilledOnce(q), nextIssue'[q] = nextIssue[q],
         \A n \in BillingsOf(q)' : n \in BillingsOf(q) /\ invoices'[n] = invoices[n]
  PROVE  BilledOnce(q)'
BY DEF BilledOnce

\* A run that bills a rule for its next month bills it once.
LEMMA BilledByRunOnce ==
  ASSUME MInv, NEW r \in Request, FinishRun(r), NEW q \in Rule, BilledOnce(q),
         NEW k \in Number, <<q, k>> \in monthReq[r].made, nextIssue[q] = monthReq[r].month
  PROVE  BilledOnce(q)'
<1> DEFINE month == monthReq[r].month
           made == monthReq[r].made
<1>1. month \in Nat /\ made \subseteq Rule \X Number
  BY MonthlyKinds DEF FinishRun, MInv, Running, RunMonth
<1>2. nextIssue'[q] = month + 1
  BY DEF FinishRun, MovedOn
<1>3. ASSUME NEW n \in BillingsOf(q)'
      PROVE  \/ n \in BillingsOf(q) /\ invoices'[n] = invoices[n] /\ invoices[n].month < month
             \/ n = k /\ invoices'[n].month = month
  <2>1. n \in Number /\ invoices'[n] # None /\ invoices'[n].rule = q
    BY <1>3 DEF BillingsOf, Taken
  <2>2. CASE \E pair \in made : pair[2] = n
    <3>1. \E p \in Rule : <<p, n>> \in made
      BY <1>1, <2>2
    <3>2. invoices'[n] = [rule |-> CHOOSE p \in Rule : <<p, n>> \in made, month |-> month]
      BY <2>1, <2>2 DEF FinishRun
    <3>3. <<q, n>> \in made
      BY <2>1, <3>1, <3>2
    <3>4. n = k
      BY <2>1, <3>3 DEF MInv, BilledByRun, FinishRun
    <3> QED
      BY <3>2, <3>4
  <2>3. CASE ~ \E pair \in made : pair[2] = n
    <3>1. invoices'[n] = invoices[n]
      BY <2>1, <2>3 DEF FinishRun
    <3>2. n \in BillingsOf(q)
      BY <2>1, <3>1 DEF BillingsOf, Taken
    <3> QED
      BY <3>1, <3>2 DEF BilledOnce
  <2> QED
    BY <2>2, <2>3
<1>4. \A n \in BillingsOf(q) : invoices[n].month \in Nat
  BY NoRuleAssumption DEF BillingsOf, Taken, MInv, MonthlyTypeOK, Billing, RunMonth, ByHand
<1> HIDE DEF month
<1>5. \A n \in BillingsOf(q)' : invoices'[n].month < nextIssue'[q]
  BY <1>1, <1>2, <1>3, <1>4
<1>6. \A n, j \in BillingsOf(q)' : invoices'[n].month = invoices'[j].month => n = j
  <2> SUFFICES ASSUME NEW n \in BillingsOf(q)', NEW j \in BillingsOf(q)',
                      invoices'[n].month = invoices'[j].month
               PROVE  n = j
    OBVIOUS
  <2>1. CASE n \in BillingsOf(q) /\ invoices'[n] = invoices[n] /\ invoices[n].month < month
             /\ j \in BillingsOf(q) /\ invoices'[j] = invoices[j]
    BY <2>1 DEF BilledOnce
  <2>2. CASE n = k /\ j = k
    BY <2>2
  <2> QED
    BY <1>1, <1>3, <1>4, <2>1, <2>2
<1> QED
  BY <1>5, <1>6 DEF BilledOnce

\* The action of SecondBillNeedsOverlap.
SecondBill ==
  nextIssue' # nextIssue \/ invoices' # invoices => \A q \in Rule :
    BilledOnce(q) /\ ~BilledOnce(q)' =>
      \E r \in Request :
        /\ monthReq[r].op = "run" /\ monthReq'[r] = Idle
        /\ nextIssue[q] # monthReq[r].month
        /\ \E n \in Number : <<q, n>> \in monthReq[r].made

LEMMA SecondBillStep == MInv /\ [MonthlyNext]_monthlyVars => [SecondBill]_monthlyVars
<1> SUFFICES ASSUME MInv, MonthlyNext, NEW q \in Rule, BilledOnce(q), ~BilledOnce(q)'
             PROVE  \E r \in Request :
                      /\ monthReq[r].op = "run" /\ monthReq'[r] = Idle
                      /\ nextIssue[q] # monthReq[r].month
                      /\ \E n \in Number : <<q, n>> \in monthReq[r].made
  BY DEF SecondBill
<1>1. ASSUME UNCHANGED <<nextIssue, invoices>> PROVE FALSE
  BY <1>1, BilledOnceKept DEF BillingsOf, Taken
<1>2. ASSUME NEW p \in Rule, CreateRule(p) PROVE FALSE
  <2>1. CASE p = q
    <3>1. \A n \in BillingsOf(q) : FALSE
      BY <1>2, <2>1, NoRuleAssumption
         DEF CreateRule, BillingsOf, Taken, BilledOnce, MInv, MonthlyTypeOK, Billing, RunMonth,
             ByHand
    <3>2. BillingsOf(q)' = {}
      BY <1>2, <3>1 DEF CreateRule, BillingsOf, Taken
    <3> QED
      BY <3>2 DEF BilledOnce
  <2>2. CASE p # q
    BY <1>2, <2>2, BilledOnceKept
       DEF CreateRule, BillingsOf, Taken, MInv, MonthlyTypeOK
  <2> QED
    BY <2>1, <2>2
<1>3. ASSUME NEW r \in Request, FinishCreate(r) PROVE FALSE
  <2>1. \A n \in BillingsOf(q)' : n \in BillingsOf(q) /\ invoices'[n] = invoices[n]
    BY <1>3, NoRuleAssumption DEF FinishCreate, BillingsOf, Taken, ByHand, MInv, MonthlyTypeOK
  <2> QED
    BY <1>3, <2>1, BilledOnceKept DEF FinishCreate
<1>4. ASSUME NEW r \in Request, FinishRun(r)
      PROVE  /\ monthReq[r].op = "run" /\ monthReq'[r] = Idle
             /\ nextIssue[q] # monthReq[r].month
             /\ \E n \in Number : <<q, n>> \in monthReq[r].made
  <2>1. monthReq[r].op = "run" /\ monthReq'[r] = Idle /\ monthReq[r].made \subseteq Rule \X Number
    BY <1>4, MonthlyKinds DEF FinishRun, EndMonthly, MInv, MonthlyTypeOK, Running
  <2>2. \E n \in Number : <<q, n>> \in monthReq[r].made
    <3> SUFFICES ASSUME \A n \in Number : <<q, n>> \notin monthReq[r].made PROVE FALSE
      OBVIOUS
    <3>1. nextIssue'[q] = nextIssue[q]
      BY <1>4, <2>1 DEF FinishRun
    <3>2. \A n \in BillingsOf(q)' : n \in BillingsOf(q) /\ invoices'[n] = invoices[n]
      <4> SUFFICES ASSUME NEW n \in BillingsOf(q)'
                   PROVE  n \in BillingsOf(q) /\ invoices'[n] = invoices[n]
        OBVIOUS
      <4>1. n \in Number /\ invoices'[n] # None /\ invoices'[n].rule = q
        BY DEF BillingsOf, Taken
      <4>2. ASSUME \E pair \in monthReq[r].made : pair[2] = n PROVE FALSE
        <5>1. \E p \in Rule : <<p, n>> \in monthReq[r].made
          BY <2>1, <4>2
        <5>2. invoices'[n] = [rule |-> CHOOSE p \in Rule : <<p, n>> \in monthReq[r].made,
                              month |-> monthReq[r].month]
          BY <1>4, <4>1, <4>2 DEF FinishRun
        <5> QED
          BY <4>1, <5>1, <5>2
      <4>3. invoices'[n] = invoices[n]
        BY <1>4, <4>1, <4>2 DEF FinishRun
      <4> QED
        BY <4>1, <4>3 DEF BillingsOf, Taken
    <3> QED
      BY <3>1, <3>2, BilledOnceKept
  <2>3. nextIssue[q] # monthReq[r].month
    BY <1>4, <2>2, BilledByRunOnce
  <2> QED
    BY <2>1, <2>2, <2>3
<1> QED
  BY <1>1, <1>2, <1>3, <1>4
     DEF MonthlyNext, ReadRules, TakeNumber, BillRule, AbortMonthly, BeginCreate, InsertByHand,
         RetryCreate

\* For any rules, months and number of requests: a rule is billed twice for a month, or falls
\* back to a month it was billed for, only by a run that read it before another moved it on.
THEOREM SecondBillOverlaps == MonthlySpec => SecondBillNeedsOverlap
<1>1. MonthlyInit /\ [][MonthlyNext]_monthlyVars => []MInv
  BY MonthlyInitial, MonthlyStep, PTL
<1>2. MonthlySpec => [][SecondBill]_monthlyVars
  BY <1>1, SecondBillStep, PTL DEF MonthlySpec
<1> QED
  BY <1>2 DEF SecondBillNeedsOverlap, SecondBill

-----------------------------------------------------------------------------
(* Commitments, for any commitments, transactions, months and requests.  Everything a
   generation promises of its month follows from what its lookups leave behind: each
   commitment it has read is still to be looked at, is to get a transaction, or has one that
   was found, and the three never overlap.  A transaction is never deleted and never changes
   its commitment, so that nothing done meanwhile disturbs this. *)

LookedUp(r) ==
  comReq[r].op = "generate" =>
    /\ comReq[r].due \cap comReq[r].left = {}
    /\ \A t \in comReq[r].found :
         t \in Stored /\ tx[t].of \notin comReq[r].left \cup comReq[r].due
    /\ \A c \in comReq[r].read :
         \/ c \in comReq[r].left \cup comReq[r].due
         \/ \E t \in comReq[r].found : tx[t].of = c

Decides(r) ==
  comReq[r].op \in {"confirm", "cancel", "update"} =>
    comReq[r].tx \in Stored /\ comReq[r].row.status = "pending"

CInv == CommitmentsTypeOK /\ \A r \in Request : LookedUp(r) /\ Decides(r)

LEMMA CommitmentsInitial == CommitmentsInit => CInv
BY DEF CommitmentsInit, CInv, CommitmentsTypeOK, CommitmentRow, NoCommitment, LookedUp, Decides,
       Idle

-----------------------------------------------------------------------------
(* What a step leaves alone *)

TxKept == Stored \subseteq Stored' /\ \A t \in Stored : tx'[t].of = tx[t].of

LEMMA CommitmentKept ==
  ASSUME CInv, TxKept, NEW r \in Request, comReq'[r] = comReq[r]
  PROVE  LookedUp(r)' /\ Decides(r)'
BY DEF CInv, TxKept, LookedUp, Decides

LEMMA CommitmentEnded ==
  ASSUME CInv, TxKept, NEW r \in Request, EndCommitment(r)
  PROVE  /\ comReq' \in [Request -> {Idle} \cup Generating \cup TxDecision]
         /\ \A s \in Request : LookedUp(s)' /\ Decides(s)'
<1>1. comReq'[r] = Idle /\ \A s \in Request \ {r} : comReq'[s] = comReq[s]
  BY DEF EndCommitment, CInv, CommitmentsTypeOK
<1>2. LookedUp(r)' /\ Decides(r)'
  BY <1>1 DEF LookedUp, Decides, Idle
<1>3. comReq' \in [Request -> {Idle} \cup Generating \cup TxDecision]
  BY DEF EndCommitment, CInv, CommitmentsTypeOK
<1> QED
  BY <1>1, <1>2, <1>3, CommitmentKept

LEMMA GenerationFields ==
  ASSUME CommitmentsTypeOK, NEW r \in Request, comReq[r].op = "generate"
  PROVE  /\ comReq[r] \in Generating
         /\ comReq[r].month \in Month /\ comReq[r].read \subseteq Commitment
         /\ comReq[r].left \subseteq Commitment /\ comReq[r].due \subseteq Commitment
         /\ comReq[r].found \subseteq Tx
BY DEF CommitmentsTypeOK, Generating, TxDecision, Idle

-----------------------------------------------------------------------------
(* Transactions *)

\* The commit of a generation adds pending rows and leaves the others as they are.
LEMMA GenerationFinished ==
  ASSUME CInv, NEW r \in Request, FinishGeneration(r)
  PROVE  /\ tx' \in [Tx -> TxRow \cup {None}]
         /\ TxKept
         /\ \A t \in Stored : tx'[t] = tx[t]
         /\ \A t \in Tx : tx'[t] # tx[t] =>
              tx'[t].of \in comReq[r].due /\ tx'[t].month = comReq[r].month
         /\ \A c \in comReq[r].due : \E t \in Tx :
              tx'[t] \in TxRow /\ tx'[t].of = c /\ tx'[t].month = comReq[r].month
<1> DEFINE due == comReq[r].due
           month == comReq[r].month
<1>1. month \in Month /\ due \subseteq Commitment
  BY GenerationFields DEF FinishGeneration, CInv
<1>2. PICK rows \in [due -> Tx \ Stored] :
        /\ \A c, d \in due : rows[c] = rows[d] => c = d
        /\ tx' = [t \in Tx |->
             IF \E c \in due : rows[c] = t
             THEN [status |-> "pending", month |-> month, of |-> CHOOSE c \in due : rows[c] = t]
             ELSE tx[t]]
  BY DEF FinishGeneration, DatedIn
<1> HIDE DEF due, month
<1>3. ASSUME NEW c \in due
      PROVE  tx'[rows[c]] = [status |-> "pending", month |-> month, of |-> c]
  <2>1. rows[c] \in Tx /\ (CHOOSE d \in due : rows[d] = rows[c]) = c
    BY <1>2
  <2> QED
    BY <1>2, <2>1
<1>31. ASSUME NEW c \in due
       PROVE  tx'[rows[c]].of = c /\ tx'[rows[c]].month = month
  <2> DEFINE row == [status |-> "pending", month |-> month, of |-> c]
  <2>1. row.of = c /\ row.month = month
    OBVIOUS
  <2>2. tx'[rows[c]] = row
    BY <1>3
  <2> HIDE DEF row
  <2> QED
    BY <2>1, <2>2
<1>4. ASSUME NEW t \in Tx, \A c \in due : rows[c] # t PROVE tx'[t] = tx[t]
  BY <1>2, <1>4
<1>5. \A c \in due : tx'[rows[c]] \in TxRow /\ rows[c] \in Tx \ Stored
  BY <1>1, <1>2, <1>3 DEF TxRow
<1>6. tx' \in [Tx -> TxRow \cup {None}]
  <2>1. tx' = [t \in Tx |-> tx'[t]]
    BY <1>2
  <2>2. ASSUME NEW t \in Tx PROVE tx'[t] \in TxRow \cup {None}
    BY <1>4, <1>5 DEF CInv, CommitmentsTypeOK
  <2> QED
    BY <2>1, <2>2
<1>7. \A t \in Stored : tx'[t] = tx[t]
  BY <1>4, <1>5 DEF Stored
<1>8. TxKept
  BY <1>7 DEF TxKept, Stored
<1>9. \A t \in Tx : tx'[t] # tx[t] => tx'[t].of \in due /\ tx'[t].month = month
  <2> SUFFICES ASSUME NEW t \in Tx, tx'[t] # tx[t] PROVE tx'[t].of \in due /\ tx'[t].month = month
    OBVIOUS
  <2>1. PICK c \in due : rows[c] = t
    BY <1>4
  <2> QED
    BY <1>31, <2>1
<1>10. \A c \in due : \E t \in Tx : tx'[t] \in TxRow /\ tx'[t].of = c /\ tx'[t].month = month
  BY <1>31, <1>5
<1> QED
  BY <1>6, <1>7, <1>8, <1>9, <1>10 DEF due, month

\* The commit of a decision changes the transaction that was loaded, which stays a row of its
\* commitment.
LEMMA TransactionFinished ==
  ASSUME CInv, NEW r \in Request, FinishTransaction(r)
  PROVE  /\ tx' \in [Tx -> TxRow \cup {None}]
         /\ TxKept
         /\ \A t \in Tx : tx'[t] # tx[t] => t = comReq[r].tx
<1> DEFINE t == comReq[r].tx
<1>1. t \in Stored
  BY DEF FinishTransaction, CInv, Decides
<1>2. t \in Tx /\ tx[t] \in TxRow
  BY <1>1 DEF Stored, CInv, CommitmentsTypeOK
<1>3. tx[t] = [status |-> tx[t].status, month |-> tx[t].month, of |-> tx[t].of]
        /\ tx[t].month \in Month /\ tx[t].of \in Commitment
        /\ tx[t].status \in {"pending", "confirmed", "cancelled"}
  BY <1>2 DEF TxRow
<1>4. \A a, b, c, s :
        [[status |-> a, month |-> b, of |-> c] EXCEPT !.status = s]
          = [status |-> s, month |-> b, of |-> c]
  OBVIOUS
<1>5. \A a, b, c, m :
        [[status |-> a, month |-> b, of |-> c] EXCEPT !.month = m]
          = [status |-> a, month |-> m, of |-> c]
  OBVIOUS
<1>6. PICK row : row \in TxRow /\ row.of = tx[t].of /\ tx' = [tx EXCEPT ![t] = row]
  <2>1. ASSUME NEW s \in {"confirmed", "cancelled"}, tx' = [tx EXCEPT ![t].status = s]
        PROVE  \E row : row \in TxRow /\ row.of = tx[t].of /\ tx' = [tx EXCEPT ![t] = row]
    <3>1. tx' = [tx EXCEPT ![t] = [tx[t] EXCEPT !.status = s]]
      BY <2>1
    <3>2. [tx[t] EXCEPT !.status = s] = [status |-> s, month |-> tx[t].month, of |-> tx[t].of]
      <4> DEFINE old == [status |-> tx[t].status, month |-> tx[t].month, of |-> tx[t].of]
                 new == [status |-> s, month |-> tx[t].month, of |-> tx[t].of]
      <4>1. [old EXCEPT !.status = s] = new
        BY <1>4
      <4>2. tx[t] = old
        BY <1>3
      <4> HIDE DEF old, new
      <4>3. [tx[t] EXCEPT !.status = s] = new
        BY <4>1, <4>2, Zenon
      <4> QED
        BY <4>3 DEF new
    <3>3. tx' = [tx EXCEPT ![t] = [status |-> s, month |-> tx[t].month, of |-> tx[t].of]]
      BY <3>1, <3>2, Zenon
    <3>4. [status |-> s, month |-> tx[t].month, of |-> tx[t].of] \in TxRow
      BY <1>3 DEF TxRow
    <3> QED
      BY <3>3, <3>4
  <2>2. ASSUME NEW m \in Month, tx' = [tx EXCEPT ![t].month = m]
        PROVE  \E row : row \in TxRow /\ row.of = tx[t].of /\ tx' = [tx EXCEPT ![t] = row]
    <3>1. tx' = [tx EXCEPT ![t] = [tx[t] EXCEPT !.month = m]]
      BY <2>2
    <3>2. [tx[t] EXCEPT !.month = m] = [status |-> tx[t].status, month |-> m, of |-> tx[t].of]
      <4> DEFINE old == [status |-> tx[t].status, month |-> tx[t].month, of |-> tx[t].of]
                 new == [status |-> tx[t].status, month |-> m, of |-> tx[t].of]
      <4>1. [old EXCEPT !.month = m] = new
        BY <1>5
      <4>2. tx[t] = old
        BY <1>3
      <4> HIDE DEF old, new
      <4>3. [tx[t] EXCEPT !.month = m] = new
        BY <4>1, <4>2, Zenon
      <4> QED
        BY <4>3 DEF new
    <3>3. tx' = [tx EXCEPT ![t] = [status |-> tx[t].status, month |-> m, of |-> tx[t].of]]
      BY <3>1, <3>2, Zenon
    <3>4. [status |-> tx[t].status, month |-> m, of |-> tx[t].of] \in TxRow
      BY <1>3 DEF TxRow
    <3> QED
      BY <3>3, <3>4
  <2> QED
    BY <2>1, <2>2 DEF FinishTransaction
<1> HIDE DEF t
<1>7. tx' \in [Tx -> TxRow \cup {None}] /\ \A u \in Tx : tx'[u] # tx[u] => u = t
  BY <1>1, <1>6 DEF CInv, CommitmentsTypeOK
<1>8. TxKept
  BY <1>1, <1>6, NoneIsNoRow DEF TxKept, Stored, CInv, CommitmentsTypeOK
<1> QED
  BY <1>7, <1>8 DEF t

-----------------------------------------------------------------------------

\* A lookup keeps its commitment either as one to get a transaction or with one found.
LEMMA LookUpStep == ASSUME CInv, NEW r \in Request, LookUp(r) PROVE CInv'
<1>1. PICK c \in comReq[r].left :
        comReq' = [comReq EXCEPT ![r] =
          [op |-> "generate", month |-> comReq[r].month, read |-> comReq[r].read,
           left |-> comReq[r].left \ {c},
           due |-> comReq[r].due \cup {d \in comReq[r].read \cap {c} : Lacks(c, comReq[r].month)},
           found |-> comReq[r].found \cup Of(c, comReq[r].month)]]
  BY DEF LookUp
<1> DEFINE q == comReq[r]
           of == Of(c, q.month)
           due == q.due \cup {d \in q.read \cap {c} : Lacks(c, q.month)}
           n == [op |-> "generate", month |-> q.month, read |-> q.read,
                 left |-> q.left \ {c}, due |-> due, found |-> q.found \cup of]
<1>2. q.op = "generate" /\ q \in Generating /\ LookedUp(r) /\ UNCHANGED <<commitment, tx>>
        /\ q.left \subseteq Commitment /\ q.due \subseteq Commitment /\ q.found \subseteq Tx
        /\ q.read \subseteq Commitment /\ q.month \in Month
  BY GenerationFields DEF LookUp, CInv
<1>3. comReq' = [comReq EXCEPT ![r] = n]
  BY <1>1
<1>4. \A t \in of : t \in Stored /\ tx[t].of = c
  BY DEF Of
<1>5. n.op = "generate" /\ n.month = q.month /\ n.read = q.read /\ n.left = q.left \ {c}
        /\ n.due = due /\ n.found = q.found \cup of
  OBVIOUS
<1>6. n \in Generating
  BY <1>2, <1>4 DEF Generating, Stored
<1>7. /\ due \subseteq q.due \cup {c}
      /\ c \in due => of = {} \/ c \in q.due
      /\ c \in q.read => c \in due \/ of # {}
  BY DEF Lacks
<1> HIDE DEF n, due, of
<1>8. comReq'[r] = n /\ \A s \in Request \ {r} : comReq'[s] = comReq[s]
  BY <1>3 DEF CInv, CommitmentsTypeOK
<1>9. CommitmentsTypeOK'
  BY <1>2, <1>3, <1>6 DEF CInv, CommitmentsTypeOK
<1>10. c \notin q.due /\ \A t \in q.found : tx[t].of # c
  BY <1>1, <1>2 DEF LookedUp
<1>11. LookedUp(r)'
  <2>1. n.due \cap n.left = {}
    BY <1>2, <1>5, <1>7 DEF LookedUp
  <2>2. \A t \in n.found : t \in Stored' /\ tx'[t].of \notin n.left \cup n.due
    <3>1. \A t \in q.found : t \in Stored /\ tx[t].of \notin n.left \cup n.due
      BY <1>2, <1>5, <1>7, <1>10 DEF LookedUp
    <3>2. \A t \in of : t \in Stored /\ tx[t].of \notin n.left \cup n.due
      BY <1>4, <1>5, <1>7, <1>10
    <3> QED
      BY <1>2, <1>5, <3>1, <3>2 DEF Stored
  <2>3. \A d \in n.read : d \in n.left \cup n.due \/ \E t \in n.found : tx'[t].of = d
    <3>1. ASSUME NEW d \in q.read, d # c
          PROVE  d \in n.left \cup n.due \/ \E t \in n.found : tx[t].of = d
      BY <1>2, <1>5, <3>1 DEF LookedUp, due
    <3>2. c \in q.read => c \in n.due \/ \E t \in n.found : tx[t].of = c
      BY <1>4, <1>5, <1>7
    <3> QED
      BY <1>2, <1>5, <3>1, <3>2
  <2> QED
    BY <1>8, <2>1, <2>2, <2>3 DEF LookedUp
<1>12. TxKept
  BY <1>2 DEF TxKept, Stored
<1>13. Decides(r)'
  BY <1>5, <1>8 DEF Decides
<1> QED
  BY <1>8, <1>9, <1>11, <1>12, <1>13, CommitmentKept DEF CInv

LEMMA CommitmentsStep == CInv /\ [CommitmentsNext]_commitmentVars => CInv'
<1> SUFFICES ASSUME CInv, [CommitmentsNext]_commitmentVars PROVE CInv'
  OBVIOUS
<1>1. ASSUME NEW r \in Request, ReadCommitments(r) PROVE CInv'
  <2>1. PICK m \in Month, active \in SUBSET Commitment :
          comReq' = [comReq EXCEPT ![r] =
            [op |-> "generate", month |-> m,
             read |-> {c \in active : commitment[c].state = "active"},
             left |-> active, due |-> {}, found |-> {}]]
    BY <1>1 DEF ReadCommitments
  <2> DEFINE n == [op |-> "generate", month |-> m,
                   read |-> {c \in active : commitment[c].state = "active"},
                   left |-> active, due |-> {}, found |-> {}]
  <2>2. n \in Generating /\ n.op = "generate" /\ n.due = {} /\ n.found = {} /\ n.left = active
          /\ n.read \subseteq active
    BY DEF Generating
  <2> HIDE DEF n
  <2>3. comReq' = [comReq EXCEPT ![r] = n]
    BY <2>1 DEF n
  <2>4. TxKept /\ UNCHANGED <<commitment, tx>>
    BY <1>1 DEF ReadCommitments, TxKept, Stored
  <2>5. comReq'[r] = n /\ \A s \in Request \ {r} : comReq'[s] = comReq[s]
    BY <2>3 DEF CInv, CommitmentsTypeOK
  <2>6. LookedUp(r)' /\ Decides(r)'
    BY <2>2, <2>5 DEF LookedUp, Decides
  <2>7. CommitmentsTypeOK'
    BY <2>2, <2>3, <2>4 DEF CInv, CommitmentsTypeOK
  <2> QED
    BY <2>4, <2>5, <2>6, <2>7, CommitmentKept DEF CInv
<1>2. ASSUME NEW r \in Request, LookUp(r) PROVE CInv'
  BY <1>2, LookUpStep
<1>3. ASSUME NEW r \in Request, FinishGeneration(r) PROVE CInv'
  BY <1>3, GenerationFinished, CommitmentEnded DEF FinishGeneration, CInv, CommitmentsTypeOK
<1>4. ASSUME NEW r \in Request, AbortCommitment(r) PROVE CInv'
  <2>1. TxKept
    BY <1>4 DEF AbortCommitment, TxKept, Stored
  <2> QED
    BY <1>4, <2>1, CommitmentEnded DEF AbortCommitment, CInv, CommitmentsTypeOK
<1>5. ASSUME NEW r \in Request, LoadTransaction(r) PROVE CInv'
  <2>1. PICK op \in {"confirm", "cancel", "update"}, t \in Stored :
          /\ May(op, tx[t].status)
          /\ comReq' = [comReq EXCEPT ![r] = [op |-> op, tx |-> t, row |-> tx[t]]]
    BY <1>5 DEF LoadTransaction
  <2> DEFINE n == [op |-> op, tx |-> t, row |-> tx[t]]
  <2>2. n \in TxDecision /\ n.op = op /\ n.tx = t /\ n.row.status = "pending"
    BY <2>1 DEF TxDecision, Stored, CInv, CommitmentsTypeOK, May
  <2> HIDE DEF n
  <2>3. comReq' = [comReq EXCEPT ![r] = n]
    BY <2>1 DEF n
  <2>4. TxKept /\ UNCHANGED <<commitment, tx>>
    BY <1>5 DEF LoadTransaction, TxKept, Stored
  <2>5. comReq'[r] = n /\ \A s \in Request \ {r} : comReq'[s] = comReq[s]
    BY <2>3 DEF CInv, CommitmentsTypeOK
  <2>6. LookedUp(r)' /\ Decides(r)'
    BY <2>2, <2>4, <2>5 DEF LookedUp, Decides, TxKept
  <2>7. CommitmentsTypeOK'
    BY <2>2, <2>3, <2>4 DEF CInv, CommitmentsTypeOK
  <2> QED
    BY <2>4, <2>5, <2>6, <2>7, CommitmentKept DEF CInv
<1>6. ASSUME NEW r \in Request, FinishTransaction(r) PROVE CInv'
  BY <1>6, TransactionFinished, CommitmentEnded DEF FinishTransaction, CInv, CommitmentsTypeOK
<1>7. ASSUME NEW t \in Tx, CreateTransaction(t) PROVE CInv'
  <2>1. TxKept /\ tx' \in [Tx -> TxRow \cup {None}]
    BY <1>7 DEF CreateTransaction, TxKept, Stored, CInv, CommitmentsTypeOK
  <2> QED
    BY <1>7, <2>1, CommitmentKept DEF CreateTransaction, CInv, CommitmentsTypeOK
<1>8. ASSUME NEW c \in Commitment, CreateCommitment(c) \/ UpdateCommitment(c) PROVE CInv'
  <2>1. commitment' \in [Commitment -> CommitmentRow] /\ UNCHANGED <<tx, comReq>>
    BY <1>8 DEF CreateCommitment, UpdateCommitment, CInv, CommitmentsTypeOK
  <2>2. TxKept
    BY <2>1 DEF TxKept, Stored
  <2> QED
    BY <2>1, <2>2, CommitmentKept DEF CInv, CommitmentsTypeOK
<1>9. ASSUME NEW c \in Commitment, DeactivateCommitment(c) PROVE CInv'
  <2>1. commitment' \in [Commitment -> CommitmentRow] /\ UNCHANGED <<tx, comReq>>
    BY <1>9 DEF DeactivateCommitment, CInv, CommitmentsTypeOK, CommitmentRow
  <2>2. TxKept
    BY <2>1 DEF TxKept, Stored
  <2> QED
    BY <2>1, <2>2, CommitmentKept DEF CInv, CommitmentsTypeOK
<1>10. CASE UNCHANGED commitmentVars
  <2>1. TxKept
    BY <1>10 DEF commitmentVars, TxKept, Stored
  <2> QED
    BY <1>10, <2>1, CommitmentKept DEF commitmentVars, CInv, CommitmentsTypeOK
<1> QED
  BY <1>1, <1>2, <1>3, <1>4, <1>5, <1>6, <1>7, <1>8, <1>9, <1>10 DEF CommitmentsNext

LEMMA CommitmentsInvariant == CommitmentsSpec => []CInv
BY CommitmentsInitial, CommitmentsStep, PTL DEF CommitmentsSpec

\* For any commitments, transactions, months and requests: every variable keeps its type.
THEOREM CommitmentsTyped == CommitmentsSpec => []CommitmentsTypeOK
BY CommitmentsInvariant, PTL DEF CInv

-----------------------------------------------------------------------------
(* The commit of a generation *)

\* The step in which a generation ends: its commit, or a rollback that inserts nothing.
LEMMA GenerationEnd ==
  ASSUME CInv, CommitmentsNext, NEW r \in Request, GenerationEnds(r)
  PROVE  \/ FinishGeneration(r)
         \/ tx' = tx /\ comReq[r].due = {}
<1>1. comReq[r].op = "generate" /\ comReq[r].left = {} /\ comReq'[r] = Idle /\ comReq'[r] # comReq[r]
  BY DEF GenerationEnds, Idle
<1>2. CASE tx' = tx
  BY <1>2 DEF GenerationEnds
<1>3. ASSUME NEW s \in Request, FinishGeneration(s) PROVE FinishGeneration(r)
  <2>1. s = r
    BY <1>1, <1>3 DEF FinishGeneration, EndCommitment, CInv, CommitmentsTypeOK
  <2> QED
    BY <1>3, <2>1
<1>4. ASSUME NEW s \in Request, FinishTransaction(s) PROVE FALSE
  BY <1>1, <1>4 DEF FinishTransaction, EndCommitment, CInv, CommitmentsTypeOK
<1>5. ASSUME NEW t \in Tx, CreateTransaction(t) PROVE FALSE
  BY <1>1, <1>5 DEF CreateTransaction
<1> QED
  BY <1>2, <1>3, <1>4, <1>5
     DEF CommitmentsNext, ReadCommitments, LookUp, AbortCommitment, LoadTransaction,
         CreateCommitment, UpdateCommitment, DeactivateCommitment

\* The actions of the three properties.
DuplicateAction ==
  \A r \in Request :
    GenerationEnds(r) =>
      \A m \in {comReq[r].month}, c \in Commitment :
        Of(c, m) # {} /\ Of(c, m)' # Of(c, m) =>
          Of(c, m) \cap comReq[r].found = {}

CoverAction ==
  \A r \in Request :
    GenerationEnds(r) =>
      \A m \in {comReq[r].month}, c \in comReq[r].read :
        \/ Of(c, m)' # {}
        \/ \E t \in comReq[r].found : tx[t].of = c /\ tx[t].month # m

SettledTxAction ==
  tx' # tx => \A t \in Stored :
    tx[t].status # "pending" /\ tx'[t] # tx[t] =>
      \E r \in Request :
        /\ comReq[r].op \in {"confirm", "cancel", "update"} /\ comReq[r].tx = t
        /\ comReq[r].row # tx[t] /\ comReq'[r] = Idle

LEMMA DuplicateStep ==
  CInv /\ [CommitmentsNext]_commitmentVars => [DuplicateAction]_commitmentVars
<1> SUFFICES ASSUME CInv, CommitmentsNext, NEW r \in Request, GenerationEnds(r),
                    NEW m \in {comReq[r].month}, NEW c \in Commitment, Of(c, m)' # Of(c, m),
                    NEW t \in Of(c, m) \cap comReq[r].found
             PROVE  FALSE
  BY DEF DuplicateAction
<1>1. c \notin comReq[r].due
  BY DEF GenerationEnds, Of, CInv, LookedUp
<1>2. FinishGeneration(r)
  <2>1. tx' # tx
    BY DEF Of, Stored
  <2> QED
    BY <2>1, GenerationEnd
<1>3. \A u \in Tx : tx'[u] # tx[u] => u \notin Of(c, m) /\ u \notin Of(c, m)'
  BY <1>1, <1>2, GenerationFinished DEF Of
<1>4. \A u \in Tx : u \in Of(c, m) <=> u \in Of(c, m)'
  BY <1>3 DEF Of, Stored
<1>5. Of(c, m) \subseteq Tx /\ Of(c, m)' \subseteq Tx
  BY DEF Of, Stored
<1> QED
  BY <1>4, <1>5

\* For any commitments and requests: a commitment gets a second transaction of a month from a
\* generation only when the others were committed after its lookup.
THEOREM DuplicatesOverlap == CommitmentsSpec => DuplicateNeedsOverlap
<1>1. CommitmentsSpec => [][DuplicateAction]_commitmentVars
  BY CommitmentsInvariant, DuplicateStep, PTL DEF CommitmentsSpec
<1> QED
  BY <1>1 DEF DuplicateNeedsOverlap, DuplicateAction

LEMMA CoverStep == CInv /\ [CommitmentsNext]_commitmentVars => [CoverAction]_commitmentVars
<1> SUFFICES ASSUME CInv, CommitmentsNext, NEW r \in Request, GenerationEnds(r),
                    NEW m \in {comReq[r].month}, NEW c \in comReq[r].read,
                    \A t \in comReq[r].found : tx[t].of = c => tx[t].month = m
             PROVE  Of(c, m)' # {}
  BY DEF CoverAction
<1>1. c \in comReq[r].due \/ \E t \in comReq[r].found : tx[t].of = c
  BY DEF GenerationEnds, CInv, LookedUp
<1>2. CASE c \in comReq[r].due
  <2>1. FinishGeneration(r)
    BY <1>2, GenerationEnd
  <2>2. PICK t \in Tx : tx'[t] \in TxRow /\ tx'[t].of = c /\ tx'[t].month = m
    BY <1>2, <2>1, GenerationFinished
  <2> QED
    BY <2>2, NoneIsNoRow DEF Of, Stored
<1>3. ASSUME NEW t \in comReq[r].found, tx[t].of = c PROVE Of(c, m)' # {}
  <2>1. t \in Stored /\ tx[t].month = m
    BY <1>3 DEF GenerationEnds, CInv, LookedUp
  <2>2. tx'[t] = tx[t]
    BY <2>1, GenerationEnd, GenerationFinished
  <2> QED
    BY <1>3, <2>1, <2>2 DEF Of, Stored
<1> QED
  BY <1>1, <1>2, <1>3

\* For any commitments and requests: each commitment that a generation read as active has a
\* transaction in the month at its commit, if the one it found was not moved meanwhile.
THEOREM GenerationCoversMonth == CommitmentsSpec => GenerationCovers
<1>1. CommitmentsSpec => [][CoverAction]_commitmentVars
  BY CommitmentsInvariant, CoverStep, PTL DEF CommitmentsSpec
<1> QED
  BY <1>1 DEF GenerationCovers, CoverAction

-----------------------------------------------------------------------------
(* Decisions *)

LEMMA SettledTxStep == CInv /\ [CommitmentsNext]_commitmentVars => [SettledTxAction]_commitmentVars
<1> SUFFICES ASSUME CInv, CommitmentsNext, NEW t \in Stored,
                    tx[t].status # "pending", tx'[t] # tx[t]
             PROVE  \E r \in Request :
                      /\ comReq[r].op \in {"confirm", "cancel", "update"} /\ comReq[r].tx = t
                      /\ comReq[r].row # tx[t] /\ comReq'[r] = Idle
  BY DEF SettledTxAction
<1>1. ASSUME NEW r \in Request, FinishGeneration(r) PROVE FALSE
  BY <1>1, GenerationFinished
<1>2. ASSUME NEW u \in Tx, CreateTransaction(u) PROVE FALSE
  BY <1>2 DEF CreateTransaction, Stored, CInv, CommitmentsTypeOK
<1>3. PICK r \in Request : FinishTransaction(r)
  BY <1>1, <1>2 DEF CommitmentsNext, ReadCommitments, LookUp, AbortCommitment, LoadTransaction,
                    CreateCommitment, UpdateCommitment, DeactivateCommitment
<1>4. comReq[r].op \in {"confirm", "cancel", "update"} /\ comReq'[r] = Idle
  BY <1>3 DEF FinishTransaction, EndCommitment, CInv, CommitmentsTypeOK
<1>5. comReq[r].tx = t
  BY <1>3, TransactionFinished DEF Stored
<1>6. comReq[r].row # tx[t]
  BY <1>4 DEF CInv, Decides
<1> QED
  BY <1>4, <1>5, <1>6

\* For any transactions and requests: a confirmed or cancelled transaction is changed only by
\* a request that had loaded it as pending.
THEOREM SettledTxOverlaps == CommitmentsSpec => SettledTxNeedsOverlap
<1>1. CommitmentsSpec => [][SettledTxAction]_commitmentVars
  BY CommitmentsInvariant, SettledTxStep, PTL DEF CommitmentsSpec
<1> QED
  BY <1>1 DEF SettledTxNeedsOverlap, SettledTxAction

-----------------------------------------------------------------------------
(* Exports, for any expenses, payments, employees, versions and requests.  What makes a
   stored pack final is the unique constraint: the version of a pack in the making is held
   by no other request and by no stored pack.  What the validation counted only ever stays
   done or is cancelled, payroll runs apart, and an expense is edited on a row that was a
   draft. *)

ExpensesAreRows ==
  /\ expense = [e \in Expense |-> expense[e]]
  /\ \A e \in Expense : expense[e] = [status |-> expense[e].status, amount |-> expense[e].amount]

\* The version of a pack in the making.
VersionHeld ==
  \A r \in Request :
    expReq[r].op \in {"inserted", "gathered"} =>
      /\ expReq[r].version \notin Versions
      /\ \A s \in Request \ {r} : ~HoldsVersion(s, expReq[r].version)

\* A numbered request is a row of four fields, which the insert changes in one.
NumberedRow(row) ==
  row.op \in {"numbered", "inserted"} =>
    row = [op |-> row.op, complete |-> row.complete, checked |-> row.checked,
           version |-> row.version]

NumberedAreRows == \A r \in Request : NumberedRow(expReq[r])

\* Done documents stay done or are invoices cancelled, payroll runs apart.
Lasting == (DoneDocuments \cup Cancelled) \ Employee

CheckedIsDone ==
  \A r \in Request :
    expReq[r].op \in {"validated", "numbered", "inserted"} =>
      expReq[r].checked \ Employee \subseteq Lasting

EditAllowed ==
  \A r \in Request :
    expReq[r].op \in {"update", "confirm", "reimburse"} =>
      Allowed(expReq[r].op, expReq[r].row.status)

EInv ==
  /\ packs = [v \in Version |-> packs[v]]
  /\ expReq = [r \in Request |-> expReq[r]]
  /\ proof = [p \in Payment |-> proof[p]]
  /\ invoice = [i \in Invoice |-> invoice[i]]
  /\ ExpensesAreRows /\ VersionHeld /\ NumberedAreRows /\ CheckedIsDone /\ EditAllowed

LEMMA ExportsInitial == ExportsInit => EInv
BY DEF ExportsInit, EInv, ExpensesAreRows, VersionHeld, NumberedRow, NumberedAreRows,
       CheckedIsDone, EditAllowed, NoExpense, Idle

-----------------------------------------------------------------------------
(* What the steps do to a request *)

\* A step that ends a request, or replaces it by one that holds no version.
LEMMA ExportReplaced ==
  ASSUME EInv, NEW r \in Request, NEW v, expReq' = [expReq EXCEPT ![r] = v],
         v.op \notin {"inserted", "gathered"}, NumberedRow(v),
         Versions' \subseteq Versions,
         Lasting \subseteq Lasting',
         v.op \in {"validated", "numbered"} => v.checked \ Employee \subseteq Lasting',
         v.op \in {"update", "confirm", "reimburse"} => Allowed(v.op, v.row.status)
  PROVE  /\ expReq' = [s \in Request |-> expReq'[s]]
         /\ VersionHeld' /\ NumberedAreRows' /\ CheckedIsDone' /\ EditAllowed'
<1>1. expReq' = [s \in Request |-> expReq'[s]] /\ expReq'[r] = v
        /\ \A s \in Request \ {r} : expReq'[s] = expReq[s]
  BY DEF EInv
<1>2. VersionHeld'
  BY <1>1 DEF EInv, VersionHeld, HoldsVersion
<1>3. NumberedAreRows'
  BY <1>1 DEF EInv, NumberedAreRows
<1>4. CheckedIsDone'
  BY <1>1 DEF EInv, CheckedIsDone
<1>5. EditAllowed'
  BY <1>1 DEF EInv, EditAllowed
<1> QED
  BY <1>1, <1>2, <1>3, <1>4, <1>5

LEMMA ExportEnded ==
  ASSUME EInv, NEW r \in Request, EndExport(r), Versions' \subseteq Versions,
         Lasting \subseteq Lasting'
  PROVE  /\ expReq' = [s \in Request |-> expReq'[s]]
         /\ VersionHeld' /\ NumberedAreRows' /\ CheckedIsDone' /\ EditAllowed'
BY ExportReplaced DEF EndExport, Idle, NumberedRow

LEMMA ExportsKept ==
  ASSUME EInv, expReq' = expReq, packs' = packs, Lasting \subseteq Lasting'
  PROVE  /\ expReq' = [s \in Request |-> expReq'[s]]
         /\ VersionHeld' /\ NumberedAreRows' /\ CheckedIsDone' /\ EditAllowed'
BY DEF EInv, VersionHeld, HoldsVersion, Versions, NumberedAreRows, CheckedIsDone, EditAllowed

LEMMA DocumentsKept ==
  ASSUME EInv, UNCHANGED Documents
  PROVE  /\ DoneDocuments' = DoneDocuments /\ Lasting' = Lasting /\ ExpensesAreRows'
         /\ proof' = [p \in Payment |-> proof'[p]] /\ invoice' = [i \in Invoice |-> invoice'[i]]
BY DEF EInv, Documents, DoneDocuments, Done, Cancelled, Lasting, ExpensesAreRows

LEMMA PacksKept ==
  ASSUME EInv, packs' = packs
  PROVE  Versions' = Versions /\ packs' = [v \in Version |-> packs'[v]]
BY DEF EInv, Versions

\* A pack stored under the version its request holds.
LEMMA PackStored ==
  ASSUME EInv, NEW r \in Request, expReq[r].op = "gathered", NEW pack,
         packs' = [packs EXCEPT ![expReq[r].version] = pack],
         EndExport(r), UNCHANGED Documents
  PROVE  EInv' /\ \A v \in Versions : packs'[v] = packs[v]
<1>1. packs' = [v \in Version |-> packs'[v]] /\ Versions' \subseteq Versions \cup {expReq[r].version}
  BY DEF EInv, Versions
<1>2. expReq[r].version \notin Versions
        /\ \A s \in Request \ {r} : ~HoldsVersion(s, expReq[r].version)
  BY DEF EInv, VersionHeld
<1>3. expReq' = [s \in Request |-> expReq'[s]] /\ expReq'[r] = Idle
        /\ \A s \in Request \ {r} : expReq'[s] = expReq[s]
  BY DEF EInv, EndExport
<1>4. VersionHeld'
  BY <1>1, <1>2, <1>3 DEF EInv, VersionHeld, HoldsVersion, Idle
<1>5. NumberedAreRows'
  BY <1>3 DEF EInv, NumberedAreRows, NumberedRow, Idle
<1>6. CheckedIsDone' /\ EditAllowed'
  BY <1>3, DocumentsKept DEF EInv, CheckedIsDone, EditAllowed, Idle
<1>7. \A v \in Versions : packs'[v] = packs[v]
  BY <1>2 DEF EInv, Versions
<1> QED
  BY <1>1, <1>3, <1>4, <1>5, <1>6, <1>7, DocumentsKept DEF EInv

-----------------------------------------------------------------------------
(* What the steps do to an expense *)

\* One field of one expense, written by EXCEPT.
LEMMA AmountWritten ==
  ASSUME EInv, NEW e \in Expense, NEW a, expense' = [expense EXCEPT ![e].amount = a]
  PROVE  /\ ExpensesAreRows'
         /\ expense'[e].status = expense[e].status
         /\ \A f \in Expense \ {e} : expense'[f] = expense[f]
<1>1. expense' = [expense EXCEPT ![e] = [expense[e] EXCEPT !.amount = a]]
  OBVIOUS
<1>2. \A s, b : [[status |-> s, amount |-> b] EXCEPT !.amount = a] = [status |-> s, amount |-> a]
  OBVIOUS
<1>3. expense[e] = [status |-> expense[e].status, amount |-> expense[e].amount]
  BY DEF EInv, ExpensesAreRows
<1>4. [expense[e] EXCEPT !.amount = a] = [status |-> expense[e].status, amount |-> a]
  BY <1>2, <1>3, Zenon
<1>5. expense' = [expense EXCEPT ![e] = [status |-> expense[e].status, amount |-> a]]
  BY <1>1, <1>4, Zenon
<1> QED
  BY <1>5 DEF EInv, ExpensesAreRows

LEMMA ExpenseStatusWritten ==
  ASSUME EInv, NEW e \in Expense, NEW s, expense' = [expense EXCEPT ![e].status = s]
  PROVE  /\ ExpensesAreRows'
         /\ expense'[e].status = s /\ expense'[e].amount = expense[e].amount
         /\ \A f \in Expense \ {e} : expense'[f] = expense[f]
<1>1. expense' = [expense EXCEPT ![e] = [expense[e] EXCEPT !.status = s]]
  OBVIOUS
<1>2. \A t, b : [[status |-> t, amount |-> b] EXCEPT !.status = s] = [status |-> s, amount |-> b]
  OBVIOUS
<1>3. expense[e] = [status |-> expense[e].status, amount |-> expense[e].amount]
  BY DEF EInv, ExpensesAreRows
<1>4. [expense[e] EXCEPT !.status = s] = [status |-> s, amount |-> expense[e].amount]
  BY <1>2, <1>3, Zenon
<1>5. expense' = [expense EXCEPT ![e] = [status |-> s, amount |-> expense[e].amount]]
  BY <1>1, <1>4, Zenon
<1> QED
  BY <1>5 DEF EInv, ExpensesAreRows

\* An edit leaves what is done done, and the other expenses as they were.
LEMMA ExpenseFinished ==
  ASSUME EInv, NEW r \in Request, FinishExpense(r)
  PROVE  /\ ExpensesAreRows' /\ Lasting \subseteq Lasting'
         /\ \A e \in Expense : expense'[e] # expense[e] => expReq[r].expense = e
         /\ \A e \in Expense :
              expense'[e].amount # expense[e].amount => expReq[r].op = "update"
         /\ \A e \in Expense :
              expense'[e].status # expense[e].status =>
                expReq[r].op = "confirm" \/ expense'[e].status = "reimbursed"
<1> DEFINE e == expReq[r].expense
<1>1. CASE e \notin Expense
  <2>1. expense' = expense
    BY <1>1 DEF FinishExpense, EInv, ExpensesAreRows
  <2> QED
    BY <2>1 DEF FinishExpense, EInv, ExpensesAreRows, DoneDocuments, Done, Cancelled, Lasting
<1>2. CASE e \in Expense /\ expReq[r].op = "update"
  BY <1>2, AmountWritten DEF FinishExpense, DoneDocuments, Done, Cancelled, Lasting
<1>3. CASE e \in Expense /\ expReq[r].op = "confirm"
  BY <1>3, ExpenseStatusWritten DEF FinishExpense, DoneDocuments, Done, Cancelled, Lasting
<1>4. CASE e \in Expense /\ expReq[r].op = "reimburse"
  BY <1>4, ExpenseStatusWritten DEF FinishExpense, DoneDocuments, Done, Cancelled, Lasting
<1> QED
  BY <1>1, <1>2, <1>3, <1>4 DEF FinishExpense

-----------------------------------------------------------------------------

LEMMA ExportsStep == EInv /\ [ExportsNext]_exportVars => EInv'
<1> SUFFICES ASSUME EInv, [ExportsNext]_exportVars PROVE EInv'
  OBVIOUS
<1>1. ASSUME NEW r \in Request, Validate(r) PROVE EInv'
  <2> DEFINE v == [op |-> "validated", complete |-> Complete, checked |-> DoneDocuments]
  <2>1. expReq' = [expReq EXCEPT ![r] = v] /\ UNCHANGED Documents /\ packs' = packs
    BY <1>1 DEF Validate
  <2>2. v.op = "validated" /\ v.checked \ Employee \subseteq Lasting /\ NumberedRow(v)
    BY DEF NumberedRow, Lasting
  <2> HIDE DEF v
  <2> QED
    BY <2>1, <2>2, ExportReplaced, DocumentsKept, PacksKept DEF EInv
<1>2. ASSUME NEW r \in Request, TakeVersion(r) PROVE EInv'
  <2> DEFINE v == [op |-> "numbered", complete |-> expReq[r].complete,
                   checked |-> expReq[r].checked, version |-> NextVersion]
  <2>1. expReq' = [expReq EXCEPT ![r] = v] /\ UNCHANGED Documents /\ packs' = packs
          /\ expReq[r].op = "validated"
    BY <1>2 DEF TakeVersion
  <2>2. v.op = "numbered" /\ v.checked = expReq[r].checked /\ NumberedRow(v)
    BY DEF NumberedRow
  <2>3. expReq[r].checked \ Employee \subseteq Lasting
    BY <2>1 DEF EInv, CheckedIsDone
  <2> HIDE DEF v
  <2> QED
    BY <2>1, <2>2, <2>3, ExportReplaced, DocumentsKept, PacksKept DEF EInv
<1>3. ASSUME NEW r \in Request, InsertPack(r) PROVE EInv'
  <2> DEFINE v == [op |-> "inserted", complete |-> expReq[r].complete,
                   checked |-> expReq[r].checked, version |-> expReq[r].version]
  <2>1. expReq' = [expReq EXCEPT ![r] = [expReq[r] EXCEPT !.op = "inserted"]]
    BY <1>3 DEF InsertPack
  <2>2. \A a, b, c, d :
          [[op |-> a, complete |-> b, checked |-> c, version |-> d] EXCEPT !.op = "inserted"]
            = [op |-> "inserted", complete |-> b, checked |-> c, version |-> d]
    OBVIOUS
  <2>3. expReq[r] = [op |-> expReq[r].op, complete |-> expReq[r].complete,
                     checked |-> expReq[r].checked, version |-> expReq[r].version]
    BY <1>3 DEF InsertPack, EInv, NumberedAreRows, NumberedRow
  <2>4. [expReq[r] EXCEPT !.op = "inserted"] = v
    <3> DEFINE row == [op |-> expReq[r].op, complete |-> expReq[r].complete,
                       checked |-> expReq[r].checked, version |-> expReq[r].version]
    <3>1. [row EXCEPT !.op = "inserted"] = v
      BY <2>2
    <3>2. expReq[r] = row
      BY <2>3
    <3> HIDE DEF row, v
    <3> QED
      BY <3>1, <3>2, Zenon
  <2>5. expReq' = [expReq EXCEPT ![r] = v]
    BY <2>1, <2>4, Zenon
  <2>6. v.op = "inserted" /\ v.checked = expReq[r].checked /\ v.version = expReq[r].version
          /\ NumberedRow(v)
    BY DEF NumberedRow
  <2> HIDE DEF v
  <2>7. expReq' = [s \in Request |-> expReq'[s]] /\ expReq'[r] = v
          /\ \A s \in Request \ {r} : expReq'[s] = expReq[s]
    BY <2>5 DEF EInv
  <2>8. Versions' = Versions /\ Lasting' = Lasting
    BY <1>3, DocumentsKept, PacksKept DEF InsertPack
  <2>9. VersionHeld'
    BY <1>3, <2>6, <2>7, <2>8 DEF InsertPack, EInv, VersionHeld, HoldsVersion
  <2>10. NumberedAreRows'
    BY <2>6, <2>7 DEF EInv, NumberedAreRows
  <2>11. CheckedIsDone' /\ EditAllowed'
    BY <1>3, <2>6, <2>7, <2>8 DEF InsertPack, EInv, CheckedIsDone, EditAllowed
  <2> QED
    BY <1>3, <2>7, <2>9, <2>10, <2>11, DocumentsKept, PacksKept DEF InsertPack, EInv
<1>4. ASSUME NEW r \in Request, Gather(r) PROVE EInv'
  <2> DEFINE v == [op |-> "gathered", complete |-> expReq[r].complete,
                   version |-> expReq[r].version, holds |-> Gathered]
  <2>1. expReq' = [expReq EXCEPT ![r] = v] /\ UNCHANGED Documents /\ packs' = packs
          /\ expReq[r].op = "inserted"
    BY <1>4 DEF Gather
  <2>2. v.op = "gathered" /\ v.version = expReq[r].version
    OBVIOUS
  <2> HIDE DEF v
  <2>3. expReq' = [s \in Request |-> expReq'[s]] /\ expReq'[r] = v
          /\ \A s \in Request \ {r} : expReq'[s] = expReq[s]
    BY <2>1 DEF EInv
  <2>4. Versions' = Versions /\ Lasting' = Lasting
    BY <2>1, DocumentsKept, PacksKept
  <2>5. VersionHeld'
    BY <2>1, <2>2, <2>3, <2>4 DEF EInv, VersionHeld, HoldsVersion
  <2>6. NumberedAreRows' /\ CheckedIsDone' /\ EditAllowed'
    BY <2>2, <2>3, <2>4 DEF EInv, NumberedAreRows, NumberedRow, CheckedIsDone, EditAllowed
  <2> QED
    BY <2>1, <2>3, <2>5, <2>6, DocumentsKept, PacksKept DEF EInv
<1>5. ASSUME NEW r \in Request, FinishExport(r) PROVE EInv'
  BY <1>5, PackStored DEF FinishExport
<1>6. ASSUME NEW r \in Request, FailExport(r) PROVE EInv'
  BY <1>6, PackStored DEF FailExport
<1>7. ASSUME NEW r \in Request, AbortExport(r) PROVE EInv'
  BY <1>7, ExportEnded, DocumentsKept, PacksKept DEF AbortExport, EInv
<1>8. ASSUME NEW r \in Request, LoadExpense(r) PROVE EInv'
  <2>1. PICK op \in {"update", "confirm", "reimburse"}, e \in Expense :
          /\ Allowed(op, expense[e].status)
          /\ expReq' = [expReq EXCEPT ![r] = [op |-> op, expense |-> e, row |-> expense[e]]]
    BY <1>8 DEF LoadExpense
  <2> DEFINE v == [op |-> op, expense |-> e, row |-> expense[e]]
  <2>2. v.op = op /\ v.row = expense[e] /\ NumberedRow(v)
    BY DEF NumberedRow
  <2> HIDE DEF v
  <2>3. expReq' = [expReq EXCEPT ![r] = v] /\ UNCHANGED Documents /\ packs' = packs
    BY <1>8, <2>1 DEF LoadExpense, v
  <2> QED
    BY <2>1, <2>2, <2>3, ExportReplaced, DocumentsKept, PacksKept DEF EInv
<1>9. ASSUME NEW r \in Request, FinishExpense(r) PROVE EInv'
  BY <1>9, ExpenseFinished, ExportEnded, PacksKept DEF FinishExpense, EInv
<1>10. ASSUME NEW e \in Expense, CreateExpense(e) PROVE EInv'
  <2>1. PICK a : expense' = [expense EXCEPT ![e] = [status |-> "draft", amount |-> a]]
    BY <1>10 DEF CreateExpense
  <2>2. ExpensesAreRows'
    BY <2>1 DEF EInv, ExpensesAreRows
  <2>3. Lasting \subseteq Lasting'
    BY <1>10, <2>1 DEF CreateExpense, NoExpense, DoneDocuments, Done, Cancelled, Lasting
  <2> QED
    BY <1>10, <2>2, <2>3, ExportsKept, PacksKept DEF CreateExpense, EInv
<1>11. ASSUME NEW p \in Payment, RecordPayment(p) \/ AttachProof(p) PROVE EInv'
  <2>1. proof' = [q \in Payment |-> proof'[q]]
    BY <1>11 DEF RecordPayment, AttachProof, EInv
  <2>2. Lasting \subseteq Lasting'
    BY <1>11 DEF RecordPayment, AttachProof, EInv, DoneDocuments, Done, Cancelled, Lasting
  <2> QED
    BY <1>11, <2>1, <2>2, ExportsKept, PacksKept
       DEF RecordPayment, AttachProof, EInv, ExpensesAreRows
<1>12. ASSUME NEW m \in Employee, PayrollRun(m) PROVE EInv'
  <2>1. Lasting \subseteq Lasting'
    BY <1>12 DEF PayrollRun, DoneDocuments, Done, Cancelled, Lasting
  <2> QED
    BY <1>12, <2>1, ExportsKept, PacksKept DEF PayrollRun, EInv, ExpensesAreRows
<1>13. ASSUME NEW i \in Invoice, IssuedInvoice(i) PROVE EInv'
  <2>1. invoice' = [j \in Invoice |-> invoice'[j]]
    BY <1>13 DEF IssuedInvoice, EInv
  <2>2. Lasting \subseteq Lasting'
    BY <1>13, <2>1 DEF IssuedInvoice, EInv, DoneDocuments, Done, Cancelled, Lasting, Document
  <2> QED
    BY <1>13, <2>1, <2>2, ExportsKept, PacksKept DEF IssuedInvoice, EInv, ExpensesAreRows
<1>14. CASE UNCHANGED exportVars
  BY <1>14, ExportsKept, DocumentsKept, PacksKept DEF exportVars, Documents, EInv
<1> QED
  BY <1>1, <1>2, <1>3, <1>4, <1>5, <1>6, <1>7, <1>8, <1>9, <1>10, <1>11, <1>12, <1>13,
     <1>14
     DEF ExportsNext

LEMMA ExportsInvariant == ExportsSpec => []EInv
BY ExportsInitial, ExportsStep, PTL DEF ExportsSpec

-----------------------------------------------------------------------------
(* Theorems *)

\* The actions of the three properties.
KeepPacks == \A v \in Versions : packs'[v] = packs[v]

GatherChecked ==
  \A r \in Request :
    expReq[r].op = "inserted" /\ expReq'[r].op = "gathered"
    => expReq[r].checked \ Employee \subseteq expReq'[r].holds \cup Cancelled

KeepConfirmed ==
  expense' # expense => \A e \in Expense :
    \/ expense[e].status \in {"confirmed", "reimbursed"}
         /\ expense'[e].amount # expense[e].amount
    \/ expense[e].status = "reimbursed" /\ expense'[e].status # "reimbursed"
    => \E r \in Request :
         /\ expReq[r].op \in {"update", "confirm", "reimburse"} /\ expReq[r].expense = e
         /\ expReq[r].row # expense[e] /\ expReq'[r] = Idle

LEMMA KeepPacksStep == EInv /\ [ExportsNext]_exportVars => [KeepPacks]_exportVars
<1> SUFFICES ASSUME EInv, ExportsNext PROVE KeepPacks
  OBVIOUS
<1>1. ASSUME NEW r \in Request, FinishExport(r) \/ FailExport(r) PROVE KeepPacks
  BY <1>1, PackStored DEF FinishExport, FailExport, KeepPacks
<1> QED
  BY <1>1 DEF ExportsNext, KeepPacks, Validate, TakeVersion, InsertPack, Gather, AbortExport,
              LoadExpense, FinishExpense, CreateExpense, RecordPayment, AttachProof, PayrollRun,
              IssuedInvoice

\* For any versions and requests: no request changes an export pack once it is stored.
THEOREM StoredPackIsFinal == ExportsSpec => PackImmutable
<1>1. ExportsSpec => [][KeepPacks]_exportVars
  BY ExportsInvariant, KeepPacksStep, PTL DEF ExportsSpec
<1> QED
  BY <1>1 DEF PackImmutable, KeepPacks

LEMMA GatherCheckedStep == EInv /\ [ExportsNext]_exportVars => [GatherChecked]_exportVars
<1> SUFFICES ASSUME EInv, ExportsNext, NEW r \in Request,
                    expReq[r].op = "inserted", expReq'[r].op = "gathered"
             PROVE  expReq[r].checked \ Employee \subseteq expReq'[r].holds \cup Cancelled
  BY DEF GatherChecked
<1>1. ASSUME NEW s \in Request, Gather(s)
      PROVE  expReq[r].checked \ Employee \subseteq expReq'[r].holds \cup Cancelled
  <2>1. r = s
    BY <1>1 DEF Gather, EInv
  <2>2. expReq'[r].holds = Gathered
    BY <1>1, <2>1 DEF Gather, EInv
  <2> QED
    BY <2>2 DEF Gathered, EInv, CheckedIsDone, Lasting
<1>2. ASSUME NEW s \in Request, InsertPack(s) PROVE FALSE
  <2>1. r # s /\ expReq'[r] = expReq[r]
    BY <1>2 DEF InsertPack, EInv
  <2> QED
    BY <2>1
<1>3. ASSUME NEW s \in Request,
             \/ Validate(s) \/ TakeVersion(s) \/ LoadExpense(s) \/ EndExport(s)
      PROVE  FALSE
  BY <1>3 DEF Validate, TakeVersion, LoadExpense, EndExport, EInv, Idle
<1>4. expReq' # expReq
  OBVIOUS
<1> QED
  BY <1>1, <1>2, <1>3, <1>4
     DEF ExportsNext, FinishExport, FailExport, AbortExport, FinishExpense, CreateExpense,
         RecordPayment, AttachProof, PayrollRun, IssuedInvoice

\* For any documents and requests: every expense and payment that the validation counted is
\* in the pack, and every invoice, unless it was cancelled since, whatever is issued, edited,
\* recorded or deleted while the pack is made.
THEOREM PackHoldsWhatWasChecked == ExportsSpec => PackMatchesCheck
<1>1. ExportsSpec => [][GatherChecked]_exportVars
  BY ExportsInvariant, GatherCheckedStep, PTL DEF ExportsSpec
<1> QED
  BY <1>1 DEF PackMatchesCheck, GatherChecked

LEMMA KeepConfirmedStep == EInv /\ [ExportsNext]_exportVars => [KeepConfirmed]_exportVars
<1> SUFFICES ASSUME EInv, ExportsNext, expense' # expense, NEW e \in Expense,
                    \/ expense[e].status \in {"confirmed", "reimbursed"}
                         /\ expense'[e].amount # expense[e].amount
                    \/ expense[e].status = "reimbursed" /\ expense'[e].status # "reimbursed"
             PROVE  \E r \in Request :
                      /\ expReq[r].op \in {"update", "confirm", "reimburse"}
                      /\ expReq[r].expense = e
                      /\ expReq[r].row # expense[e] /\ expReq'[r] = Idle
  BY DEF KeepConfirmed
<1>1. ASSUME NEW f \in Expense, CreateExpense(f) PROVE FALSE
  BY <1>1 DEF CreateExpense, NoExpense, EInv, ExpensesAreRows
<1>2. PICK r \in Request : FinishExpense(r)
  BY <1>1 DEF ExportsNext, Validate, TakeVersion, InsertPack, Gather, FinishExport, FailExport,
              AbortExport, LoadExpense, RecordPayment, AttachProof, PayrollRun, IssuedInvoice,
              Documents
<1>3. expReq[r].op \in {"update", "confirm", "reimburse"} /\ expReq'[r] = Idle
  BY <1>2 DEF FinishExpense, EndExport, EInv
<1>4. expReq[r].expense = e
  BY <1>2, ExpenseFinished
<1>5. expReq[r].op \in {"update", "confirm"}
  BY <1>2, ExpenseFinished
<1>6. expReq[r].row # expense[e]
  BY <1>3, <1>5 DEF EInv, EditAllowed, Allowed
<1> QED
  BY <1>3, <1>4, <1>6

\* For any expenses and requests: an expense is edited after its confirmation, or leaves
\* "reimbursed", only by a request that had loaded it before.
THEOREM ConfirmedEditOverlaps == ExportsSpec => ConfirmedNeedsOverlap
<1>1. ExportsSpec => [][KeepConfirmed]_exportVars
  BY ExportsInvariant, KeepConfirmedStep, PTL DEF ExportsSpec
<1> QED
  BY <1>1 DEF ConfirmedNeedsOverlap, KeepConfirmed

-----------------------------------------------------------------------------
(* Exports: the types.  An expense that a request edits is there: expenses are never deleted. *)

Edited(req) == req.op \in {"update", "confirm", "reimburse"}

ExTyped ==
  /\ ExportsTypeOK
  /\ \A r \in Request : Edited(expReq[r]) => expense[expReq[r].expense].status # "absent"

LEMMA ExportsTypedInitial == ExportsInit => ExTyped
BY DEF ExportsInit, ExTyped, ExportsTypeOK, Edited, ExpenseRow, NoExpense, Idle

\* A step that replaces what a request has read, the expenses as they were.
LEMMA ExportRequestTyped ==
  ASSUME ExTyped, NEW r \in Request, NEW v \in {Idle} \cup Editing \cup Exporting,
         expReq' = [expReq EXCEPT ![r] = v],
         Edited(v) => expense[v.expense].status # "absent",
         UNCHANGED Documents, packs' \in [Version -> PackRow \cup {NoPack}]
  PROVE  ExTyped'
<1>1. expReq' \in [Request -> {Idle} \cup Editing \cup Exporting]
  BY DEF ExTyped, ExportsTypeOK
<1>2. expReq'[r] = v /\ \A s \in Request \ {r} : expReq'[s] = expReq[s]
  BY DEF ExTyped, ExportsTypeOK
<1>3. \A s \in Request : Edited(expReq'[s]) => expense'[expReq'[s].expense].status # "absent"
  BY <1>2 DEF ExTyped, Documents
<1> QED
  BY <1>1, <1>3 DEF ExTyped, ExportsTypeOK, Documents, Edited

LEMMA ExportTypedEnd ==
  ASSUME ExTyped, NEW r \in Request, EndExport(r), UNCHANGED Documents,
         packs' \in [Version -> PackRow \cup {NoPack}]
  PROVE  ExTyped'
BY ExportRequestTyped DEF EndExport, Edited, Idle

\* A step of the documents that leaves the requests alone and no expense absent again.
LEMMA DocumentsTyped ==
  ASSUME ExTyped, UNCHANGED <<packs, expReq>>,
         expense' \in [Expense -> ExpenseRow],
         \A e \in Expense : expense[e].status # "absent" => expense'[e].status # "absent",
         proof' \in [Payment -> {"absent", "without", "with"}],
         payslip' \in [Employee -> {"absent", "draft", "finalized"}],
         invoice' \in [Invoice -> {"absent", "issued", "paid", "cancelled"}]
  PROVE  ExTyped'
<1>1. \A r \in Request : Edited(expReq[r]) => expReq[r].expense \in Expense
  BY DEF ExTyped, ExportsTypeOK, Edited, Editing, Exporting, Idle
<1> QED
  BY <1>1 DEF ExTyped, ExportsTypeOK, Edited

\* The rows an edit writes.
LEMMA EditWritten ==
  ASSUME ExTyped, NEW e \in Expense, expense[e].status # "absent"
  PROVE  /\ \A a \in Amount : [expense[e] EXCEPT !.amount = a] \in ExpenseRow \ {NoExpense}
         /\ \A s \in {"confirmed", "reimbursed"} :
              [expense[e] EXCEPT !.status = s] \in ExpenseRow \ {NoExpense}
<1> DEFINE Status == {"draft", "confirmed", "reimbursed"}
<1>1. expense[e] \in [status : Status, amount : Amount]
  BY DEF ExTyped, ExportsTypeOK, ExpenseRow, NoExpense
<1>2. \A row \in [status : Status, amount : Amount], a \in Amount :
        [row EXCEPT !.amount = a] \in [status : Status, amount : Amount]
  OBVIOUS
<1>3. \A row \in [status : Status, amount : Amount], s \in Status :
        [row EXCEPT !.status = s] \in [status : Status, amount : Amount]
  OBVIOUS
<1>4. \A row \in [status : Status, amount : Amount] : row \in ExpenseRow \ {NoExpense}
  BY DEF ExpenseRow, NoExpense
<1> QED
  BY <1>1, <1>2, <1>3, <1>4

LEMMA ExportsTypedStep == ExTyped /\ [ExportsNext]_exportVars => ExTyped'
<1> SUFFICES ASSUME ExTyped, [ExportsNext]_exportVars PROVE ExTyped'
  OBVIOUS
<1>0. /\ expense \in [Expense -> ExpenseRow]
      /\ proof \in [Payment -> {"absent", "without", "with"}]
      /\ payslip \in [Employee -> {"absent", "draft", "finalized"}]
      /\ invoice \in [Invoice -> {"absent", "issued", "paid", "cancelled"}]
      /\ packs \in [Version -> PackRow \cup {NoPack}]
      /\ \A r \in Request : expReq[r] \in {Idle} \cup Editing \cup Exporting
      /\ DoneDocuments \subseteq Document
  BY DEF ExTyped, ExportsTypeOK, DoneDocuments
<1>1. ASSUME NEW r \in Request, Validate(r) PROVE ExTyped'
  <2> DEFINE v == [op |-> "validated", complete |-> Complete, checked |-> DoneDocuments]
  <2>1. v \in Exporting /\ ~Edited(v)
    <3>1. Complete \in BOOLEAN
      BY DEF Complete
    <3> QED
      BY <1>0, <3>1 DEF Exporting, Edited
  <2>2. expReq' = [expReq EXCEPT ![r] = v] /\ UNCHANGED Documents /\ packs' = packs
    BY <1>1 DEF Validate
  <2> HIDE DEF v
  <2> QED
    BY <1>0, <2>1, <2>2, ExportRequestTyped
<1>2. ASSUME NEW r \in Request, TakeVersion(r) PROVE ExTyped'
  <2> DEFINE v == [op |-> "numbered", complete |-> expReq[r].complete,
                   checked |-> expReq[r].checked, version |-> NextVersion]
  <2>1. expReq[r].complete \in BOOLEAN /\ expReq[r].checked \subseteq Document
    BY <1>0, <1>2 DEF TakeVersion, Exporting, Editing, Idle
  <2>2. v \in Exporting /\ ~Edited(v)
    BY <1>2, <2>1 DEF TakeVersion, Exporting, Edited
  <2>3. expReq' = [expReq EXCEPT ![r] = v] /\ UNCHANGED Documents /\ packs' = packs
    BY <1>2 DEF TakeVersion
  <2> HIDE DEF v
  <2> QED
    BY <1>0, <2>2, <2>3, ExportRequestTyped
<1>3. ASSUME NEW r \in Request, InsertPack(r) PROVE ExTyped'
  <2> DEFINE v == [expReq[r] EXCEPT !.op = "inserted"]
             Numbered(op) == [op : {op}, complete : BOOLEAN, checked : SUBSET Document,
                              version : Version]
  <2>1. expReq[r] \in Numbered("numbered")
    BY <1>0, <1>3 DEF InsertPack, Exporting, Editing, Idle
  <2>2. v \in Numbered("inserted")
    BY <2>1
  <2>3. v \in Exporting /\ ~Edited(v)
    BY <2>2 DEF Exporting, Edited
  <2>4. expReq' = [expReq EXCEPT ![r] = v] /\ UNCHANGED Documents /\ packs' = packs
    BY <1>3 DEF InsertPack
  <2> HIDE DEF v
  <2> QED
    BY <1>0, <2>3, <2>4, ExportRequestTyped
<1>4. ASSUME NEW r \in Request, Gather(r) PROVE ExTyped'
  <2> DEFINE v == [op |-> "gathered", complete |-> expReq[r].complete,
                   version |-> expReq[r].version, holds |-> Gathered]
  <2>1. expReq[r].complete \in BOOLEAN /\ expReq[r].version \in Version
    BY <1>0, <1>4 DEF Gather, Exporting, Editing, Idle
  <2>2. v \in Exporting /\ ~Edited(v)
    BY <1>0, <2>1 DEF Exporting, Edited, Gathered
  <2>3. expReq' = [expReq EXCEPT ![r] = v] /\ UNCHANGED Documents /\ packs' = packs
    BY <1>4 DEF Gather
  <2> HIDE DEF v
  <2> QED
    BY <1>0, <2>2, <2>3, ExportRequestTyped
<1>5. ASSUME NEW r \in Request, expReq[r].op = "gathered", NEW pack \in PackRow,
             packs' = [packs EXCEPT ![expReq[r].version] = pack]
      PROVE  packs' \in [Version -> PackRow \cup {NoPack}]
  BY <1>0, <1>5
<1>6. ASSUME NEW r \in Request, FinishExport(r) PROVE ExTyped'
  <2>1. expReq[r].holds \subseteq Document
    BY <1>0, <1>6 DEF FinishExport, Exporting, Editing, Idle
  <2>2. [status |-> "complete", holds |-> expReq[r].holds] \in PackRow
    BY <2>1 DEF PackRow
  <2> QED
    BY <1>5, <1>6, <2>2, ExportTypedEnd DEF FinishExport
<1>7. ASSUME NEW r \in Request, FailExport(r) PROVE ExTyped'
  <2>1. [NoPack EXCEPT !.status = "failed"] \in PackRow
    BY DEF NoPack, PackRow
  <2> QED
    BY <1>5, <1>7, <2>1, ExportTypedEnd DEF FailExport
<1>8. ASSUME NEW r \in Request, AbortExport(r) PROVE ExTyped'
  BY <1>0, <1>8, ExportTypedEnd DEF AbortExport
<1>9. ASSUME NEW r \in Request, LoadExpense(r) PROVE ExTyped'
  <2>1. PICK op \in {"update", "confirm", "reimburse"}, e \in Expense :
          /\ Allowed(op, expense[e].status)
          /\ expReq' = [expReq EXCEPT ![r] = [op |-> op, expense |-> e, row |-> expense[e]]]
    BY <1>9 DEF LoadExpense
  <2> DEFINE v == [op |-> op, expense |-> e, row |-> expense[e]]
  <2>2. v \in Editing /\ v.expense = e
    BY <1>0 DEF Editing
  <2>3. expense[e].status # "absent"
    BY <2>1 DEF Allowed
  <2>4. expReq' = [expReq EXCEPT ![r] = v] /\ UNCHANGED Documents /\ packs' = packs
    BY <1>9, <2>1 DEF LoadExpense
  <2> HIDE DEF v
  <2> QED
    BY <1>0, <2>2, <2>3, <2>4, ExportRequestTyped
<1>10. ASSUME NEW r \in Request, FinishExpense(r) PROVE ExTyped'
  <2> DEFINE e == expReq[r].expense
  <2>1. e \in Expense /\ expense[e].status # "absent"
    BY <1>0, <1>10 DEF FinishExpense, ExTyped, Edited, Editing, Exporting, Idle
  <2>2. PICK row \in ExpenseRow \ {NoExpense} : expense' = [expense EXCEPT ![e] = row]
    <3>1. CASE expReq[r].op = "update"
      <4>1. PICK a \in Amount : expense' = [expense EXCEPT ![e].amount = a]
        BY <1>10, <3>1 DEF FinishExpense
      <4>2. expense' = [expense EXCEPT ![e] = [expense[e] EXCEPT !.amount = a]]
        BY <4>1
      <4> QED
        BY <2>1, <4>2, EditWritten
    <3>2. CASE expReq[r].op # "update"
      <4>1. PICK s \in {"confirmed", "reimbursed"} : expense' = [expense EXCEPT ![e].status = s]
        BY <1>10, <3>2 DEF FinishExpense
      <4>2. expense' = [expense EXCEPT ![e] = [expense[e] EXCEPT !.status = s]]
        BY <4>1
      <4> QED
        BY <2>1, <4>2, EditWritten
    <3> QED
      BY <3>1, <3>2
  <2>3. row.status # "absent"
    BY DEF ExpenseRow, NoExpense
  <2>4. expense' \in [Expense -> ExpenseRow]
          /\ \A f \in Expense : expense[f].status # "absent" => expense'[f].status # "absent"
    BY <1>0, <2>2, <2>3
  <2>5. /\ expReq' \in [Request -> {Idle} \cup Editing \cup Exporting] /\ expReq'[r] = Idle
        /\ \A s \in Request \ {r} : expReq'[s] = expReq[s]
    BY <1>10 DEF FinishExpense, EndExport, ExTyped, ExportsTypeOK
  <2>6. \A s \in Request : Edited(expReq'[s]) => expense'[expReq'[s].expense].status # "absent"
    <3>1. \A s \in Request : Edited(expReq[s]) => expReq[s].expense \in Expense
      BY <1>0 DEF Edited, Editing, Exporting, Idle
    <3> QED
      BY <2>4, <2>5, <3>1 DEF ExTyped, Edited, Idle
  <2> QED
    BY <1>0, <1>10, <2>4, <2>5, <2>6 DEF FinishExpense, ExTyped, ExportsTypeOK, Edited
<1>11. ASSUME NEW e \in Expense, CreateExpense(e) PROVE ExTyped'
  <2>1. PICK a \in Amount : expense' = [expense EXCEPT ![e] = [status |-> "draft", amount |-> a]]
    BY <1>11 DEF CreateExpense
  <2>2. [status |-> "draft", amount |-> a] \in ExpenseRow
    BY DEF ExpenseRow
  <2> QED
    BY <1>0, <1>11, <2>1, <2>2, DocumentsTyped DEF CreateExpense
<1>12. ASSUME NEW p \in Payment, RecordPayment(p) \/ AttachProof(p) PROVE ExTyped'
  BY <1>0, <1>12, DocumentsTyped DEF RecordPayment, AttachProof
<1>13. ASSUME NEW m \in Employee, PayrollRun(m) PROVE ExTyped'
  BY <1>0, <1>13, DocumentsTyped DEF PayrollRun
<1>14. ASSUME NEW i \in Invoice, IssuedInvoice(i) PROVE ExTyped'
  BY <1>0, <1>14, DocumentsTyped DEF IssuedInvoice
<1>15. CASE UNCHANGED exportVars
  BY <1>15 DEF exportVars, ExTyped, ExportsTypeOK, Edited
<1> QED
  BY <1>1, <1>2, <1>3, <1>4, <1>6, <1>7, <1>8, <1>9, <1>10, <1>11, <1>12, <1>13, <1>14, <1>15
     DEF ExportsNext

\* For any documents, versions and number of requests: documents, packs and what exports and
\* edits hold of them stay well typed.
THEOREM ExportsTyped == ExportsSpec => []ExportsTypeOK
<1>1. ExTyped => ExportsTypeOK
  BY DEF ExTyped
<1> QED
  BY ExportsTypedInitial, ExportsTypedStep, <1>1, PTL DEF ExportsSpec

-----------------------------------------------------------------------------
(* LineItems: totals that are not those of the stored items need an overlap.  A request
   carries the totals of the items it has summed. *)

\* The items that a request has summed: those it read, with its own change.
SummedItems(req) ==
  IF req.changed = None THEN req.items ELSE [req.items EXCEPT ![req.changed] = req.row]

IsBill(row) == DOMAIN row = {"inclusive", "subtotal", "tax", "total"} /\ row = [c \in DOMAIN row |-> row[c]]

\* The totals in a request are those of the items it has summed.
IInv ==
  /\ IsBill(bill)
  /\ itemReq = [r \in Request |-> itemReq[r]]
  /\ \A r \in Request : itemReq[r].op = "summed" =>
       /\ IsBill(itemReq[r].totals)
       /\ itemReq[r].totals = Totals(SummedItems(itemReq[r]), itemReq[r].totals.inclusive)

LEMMA TotalsAreBill ==
  ASSUME NEW items, NEW inclusive
  PROVE  IsBill(Totals(items, inclusive)) /\ Totals(items, inclusive).inclusive = inclusive
BY DEF IsBill, Totals

LEMMA LineItemsInitial == LineItemsInit => IInv
<1> SUFFICES ASSUME LineItemsInit PROVE IInv
  OBVIOUS
<1>1. IsBill(bill)
  BY TotalsAreBill DEF LineItemsInit
<1> QED
  BY <1>1 DEF LineItemsInit, IInv, Idle

\* A request that has summed has the totals of what it saw.
LEMMA Recalculated ==
  ASSUME IInv, NEW r \in Request, NEW i, NEW row, NEW inclusive, Recalculate(r, i, row, inclusive)
  PROVE  IInv'
<1> DEFINE new == [op |-> "summed", bill |-> itemReq[r].bill, items |-> item, changed |-> i,
                   row |-> row, totals |-> Totals(Seen(i, row), inclusive)]
<1>1. SummedItems(new) = Seen(i, row)
  BY DEF SummedItems, Seen
<1>2. IsBill(new.totals) /\ new.totals = Totals(SummedItems(new), new.totals.inclusive)
  BY <1>1, TotalsAreBill
<1>3. itemReq' = [itemReq EXCEPT ![r] = new] /\ bill' = bill
  BY DEF Recalculate
<1> HIDE DEF new
<1> QED
  BY <1>2, <1>3 DEF IInv

LEMMA EditEnded ==
  ASSUME IInv, NEW r \in Request, EndItem(r), IsBill(bill')
  PROVE  IInv'
BY DEF IInv, EndItem, Idle

LEMMA FlushedBill ==
  ASSUME NEW loaded, NEW new, IsBill(bill), FlushTotals(loaded, new)
  PROVE  IsBill(bill')
BY DEF IsBill, FlushTotals

LEMMA LineItemsStep == IInv /\ [LineItemsNext]_itemVars => IInv'
<1> SUFFICES ASSUME IInv, [LineItemsNext]_itemVars PROVE IInv'
  OBVIOUS
<1>1. ASSUME NEW r \in Request, OpenDraft(r) PROVE IInv'
  BY <1>1 DEF OpenDraft, IInv
<1>2. ASSUME NEW r \in Request, AddItem(r) \/ ChangeItem(r) \/ DeleteItem(r) \/ SetInclusive(r)
      PROVE  IInv'
  BY <1>2, Recalculated DEF AddItem, ChangeItem, DeleteItem, SetInclusive
<1>3. ASSUME NEW r \in Request, FinishEdit(r) PROVE IInv'
  BY <1>3, EditEnded, FlushedBill DEF FinishEdit, IInv
<1>4. ASSUME NEW r \in Request, AbortEdit(r) PROVE IInv'
  BY <1>4, EditEnded DEF AbortEdit, IInv
<1>5. CASE UNCHANGED itemVars
  BY <1>5 DEF itemVars, IInv
<1> QED
  BY <1>1, <1>2, <1>3, <1>4, <1>5 DEF LineItemsNext

\* The action of StaleTotalsNeedOverlap.
StaleTotals ==
  <<item, bill>>' # <<item, bill>> /\ TotalsMatch /\ ~TotalsMatch' =>
    \E r \in Request :
      /\ itemReq[r].op = "summed" /\ itemReq'[r] = Idle
      /\ itemReq[r].bill # bill \/ itemReq[r].items # item

LEMMA StaleTotalsStep == IInv /\ [LineItemsNext]_itemVars => [StaleTotals]_itemVars
<1> SUFFICES ASSUME IInv, LineItemsNext, <<item, bill>>' # <<item, bill>>, ~TotalsMatch'
             PROVE  \E r \in Request :
                      /\ itemReq[r].op = "summed" /\ itemReq'[r] = Idle
                      /\ itemReq[r].bill # bill \/ itemReq[r].items # item
  BY DEF StaleTotals
<1>1. PICK r \in Request : FinishEdit(r)
  BY DEF LineItemsNext, OpenDraft, AddItem, ChangeItem, DeleteItem, SetInclusive, Recalculate,
         AbortEdit
<1>2. itemReq[r].op = "summed" /\ itemReq'[r] = Idle
  BY <1>1 DEF FinishEdit, EndItem, IInv
<1>3. ASSUME itemReq[r].bill = bill, itemReq[r].items = item PROVE FALSE
  <2> DEFINE totals == itemReq[r].totals
  <2>1. IsBill(bill) /\ IsBill(totals) /\ totals = Totals(SummedItems(itemReq[r]), totals.inclusive)
    BY <1>2 DEF IInv
  <2>2. FlushTotals(bill, totals)
    BY <1>1, <1>3 DEF FinishEdit
  <2> HIDE DEF totals
  <2>3. bill' = totals
    BY <2>1, <2>2 DEF FlushTotals, Flushed, IsBill
  <2>4. item' = SummedItems(itemReq[r])
    BY <1>1, <1>3 DEF FinishEdit, SummedItems
  <2> QED
    BY <2>1, <2>3, <2>4 DEF TotalsMatch
<1> QED
  BY <1>2, <1>3

\* For any items, prices and number of requests: the totals of a draft stop being those of its
\* items only by a request that decided on a bill or on items another has changed since.
THEOREM StaleTotalsOverlap == LineItemsSpec => StaleTotalsNeedOverlap
<1>1. LineItemsInit /\ [][LineItemsNext]_itemVars => []IInv
  BY LineItemsInitial, LineItemsStep, PTL
<1>2. LineItemsSpec => [][StaleTotals]_itemVars
  BY <1>1, StaleTotalsStep, PTL DEF LineItemsSpec
<1> QED
  BY <1>2 DEF StaleTotalsNeedOverlap, StaleTotals

-----------------------------------------------------------------------------
(* LineItems: the types.  The totals are numbers because a draft has finitely many items,
   whatever the set Item. *)

StoredItems(items) == {i \in Item : items[i] # None}

LiTyped == LineItemsTypeOK /\ IsFiniteSet(StoredItems(item))

\* The tax of the items seen, as Totals sums it up.
TaxSum(items, inclusive, seen) == MapThenSumSet(LAMBDA i : TaxOf(items[i], inclusive), seen)

LEMMA TaxIsTotal ==
  ASSUME NEW items, NEW inclusive, NEW seen, IsFiniteSet(seen)
  PROVE  TaxSum(items, inclusive, seen) = Total([i \in seen |-> TaxOf(items[i], inclusive)], seen)
<1> DEFINE F(iter) == iter = [s \in SUBSET seen |->
                         IF s = {} THEN 0
                         ELSE TaxOf(items[CHOOSE x \in s : TRUE], inclusive)
                                + iter[s \ {CHOOSE x \in s : TRUE}]]
           fold == CHOOSE iter : F(iter)
           g == [i \in seen |-> TaxOf(items[i], inclusive)]
<1>1. TaxSum(items, inclusive, seen) = fold[seen]
  BY DEF TaxSum, MapThenSumSet, MapThenFoldSet
<1>2. ASSUME NEW iter PROVE F(iter) <=> IsFold(iter, g, seen)
  <2>1. ASSUME NEW s \in SUBSET seen, s # {}
        PROVE  TaxOf(items[CHOOSE x \in s : TRUE], inclusive) = g[First(s)]
    BY <2>1, FirstIsMember DEF First
  <2> QED
    BY <2>1 DEF IsFold, First
<1>3. IsFold(fold, g, seen)
  <2> HIDE DEF g, F
  <2>1. \E iter : F(iter)
    BY <1>2, FoldExists
  <2>2. F(fold)
    BY <2>1
  <2> QED
    BY <1>2, <2>2
<1> HIDE DEF fold, g
<1> QED
  BY <1>1, <1>3, FoldValue DEF g

\* Half up is a natural number.
LEMMA HalfUpNat == ASSUME NEW n \in Nat, NEW d \in Nat \ {0} PROVE HalfUp(n, d) \in Nat
<1>1. 2 * n + d \in Nat /\ 2 * d \in Nat \ {0}
  OBVIOUS
<1> QED
  BY <1>1 DEF HalfUp

LEMMA TaxIsNat ==
  ASSUME NEW row \in ItemRow, NEW inclusive \in BOOLEAN
  PROVE  TaxOf(row, inclusive) \in Nat
<1>1. row.amount \in Nat /\ row.rate \in Nat
  BY PriceAssumption DEF ItemRow
<1>2. row.amount * row.rate \in Nat
  BY <1>1
<1>3. (IF inclusive THEN 10000 + row.rate ELSE 10000) \in Nat \ {0}
  BY <1>1
<1> QED
  BY <1>2, <1>3, HalfUpNat DEF TaxOf

LEMMA TotalsTyped ==
  ASSUME NEW items \in [Item -> ItemRow \cup {None}], IsFiniteSet(StoredItems(items)),
         NEW inclusive \in BOOLEAN
  PROVE  Totals(items, inclusive) \in Bill
<1> DEFINE seen == StoredItems(items)
           subtotal == AmountOf(items, seen)
           tax == TaxSum(items, inclusive, seen)
<1>1. \A i \in seen : items[i] \in ItemRow
  BY DEF StoredItems
<1>2. subtotal \in Nat
  <2>1. \A i \in seen : Amounts(items, seen)[i] \in Nat
    BY <1>1, PriceAssumption DEF Amounts, ItemRow
  <2> QED
    BY <2>1, AmountIsTotal, TotalNat
<1>3. tax \in Nat
  <2> DEFINE g == [i \in seen |-> TaxOf(items[i], inclusive)]
  <2>1. \A i \in seen : g[i] \in Nat
    BY <1>1, TaxIsNat
  <2>2. tax = Total(g, seen)
    BY TaxIsTotal
  <2> HIDE DEF g, tax
  <2> QED
    BY <2>1, <2>2, TotalNat
<1>4. Totals(items, inclusive) =
        [inclusive |-> inclusive, subtotal |-> subtotal, tax |-> tax,
         total |-> IF inclusive THEN subtotal ELSE subtotal + tax]
  BY Zenon DEF Totals, AmountOf, TaxSum, StoredItems
<1> HIDE DEF subtotal, tax
<1> QED
  BY <1>2, <1>3, <1>4 DEF Bill

LEMMA FlushedTyped ==
  ASSUME NEW loaded \in Bill, NEW new \in Bill, bill \in Bill, FlushTotals(loaded, new)
  PROVE  bill' \in Bill
<1> DEFINE f == bill'
<1>1. DOMAIN bill = {"inclusive", "subtotal", "tax", "total"}
  BY DEF Bill
<1>2. PICK again \in SUBSET {"subtotal", "tax", "total"} :
        f = [c \in {"inclusive", "subtotal", "tax", "total"} |->
               IF c \in again \/ new[c] # loaded[c] THEN new[c] ELSE bill[c]]
  BY <1>1 DEF FlushTotals, Flushed
<1>3. f.inclusive \in BOOLEAN /\ f.subtotal \in Nat /\ f.tax \in Nat /\ f.total \in Nat
  BY <1>2 DEF Bill
<1> HIDE DEF f
<1>4. f = [inclusive |-> f.inclusive, subtotal |-> f.subtotal, tax |-> f.tax, total |-> f.total]
  <2>1. f = [c \in {"inclusive", "subtotal", "tax", "total"} |-> f[c]]
    BY <1>2
  <2> QED
    BY <2>1
<1> QED
  BY <1>3, <1>4 DEF Bill, f

LEMMA LineItemsTypedInitial == LineItemsInit => LiTyped
<1> SUFFICES ASSUME LineItemsInit PROVE LiTyped
  OBVIOUS
<1>1. item \in [Item -> ItemRow \cup {None}] /\ StoredItems(item) = {}
  BY DEF LineItemsInit, StoredItems
<1>2. IsFiniteSet(StoredItems(item))
  BY <1>1, FS_EmptySet
<1>3. bill \in Bill
  BY <1>1, <1>2, TotalsTyped DEF LineItemsInit
<1> QED
  BY <1>1, <1>2, <1>3 DEF LineItemsInit, LiTyped, LineItemsTypeOK

\* Storing or deleting one item.
LEMMA ItemWritten ==
  ASSUME LiTyped, NEW i \in Item, NEW row \in ItemRow \cup {None}
  PROVE  /\ [item EXCEPT ![i] = row] \in [Item -> ItemRow \cup {None}]
         /\ IsFiniteSet(StoredItems([item EXCEPT ![i] = row]))
<1>1. StoredItems([item EXCEPT ![i] = row]) \subseteq StoredItems(item) \cup {i}
  BY DEF StoredItems, LiTyped, LineItemsTypeOK
<1>2. IsFiniteSet(StoredItems(item) \cup {i})
  BY FS_AddElement DEF LiTyped
<1> QED
  BY <1>1, <1>2, FS_Subset DEF LiTyped, LineItemsTypeOK

LEMMA RecalculatedTyped ==
  ASSUME LiTyped, NEW r \in Request, itemReq[r].op = "loaded",
         NEW i \in Item \cup {None}, NEW row \in ItemRow \cup {None},
         NEW inclusive \in BOOLEAN, Recalculate(r, i, row, inclusive)
  PROVE  LiTyped'
<1> DEFINE new == [op |-> "summed", bill |-> itemReq[r].bill, items |-> item, changed |-> i,
                   row |-> row, totals |-> Totals(Seen(i, row), inclusive)]
<1>1. itemReq[r].bill \in Bill
  BY DEF LiTyped, LineItemsTypeOK, Idle, Opened, Summed
<1>2. Totals(Seen(i, row), inclusive) \in Bill
  BY ItemWritten, TotalsTyped DEF Seen, LiTyped, LineItemsTypeOK
<1>3. new \in Summed
  BY <1>1, <1>2 DEF Summed, LiTyped, LineItemsTypeOK
<1>4. itemReq' = [itemReq EXCEPT ![r] = new] /\ UNCHANGED <<item, bill>>
  BY DEF Recalculate
<1> HIDE DEF new
<1> QED
  BY <1>3, <1>4 DEF LiTyped, LineItemsTypeOK, StoredItems

LEMMA LineItemsTypedStep == LiTyped /\ [LineItemsNext]_itemVars => LiTyped'
<1> SUFFICES ASSUME LiTyped, [LineItemsNext]_itemVars PROVE LiTyped'
  OBVIOUS
<1>0. \A r \in Request : itemReq[r].op = "loaded" => itemReq[r].bill.inclusive \in BOOLEAN
  BY DEF LiTyped, LineItemsTypeOK, Idle, Opened, Summed, Bill
<1>1. ASSUME NEW r \in Request, OpenDraft(r) PROVE LiTyped'
  BY <1>1 DEF OpenDraft, LiTyped, LineItemsTypeOK, Opened, StoredItems
<1>2. ASSUME NEW r \in Request, AddItem(r) \/ ChangeItem(r) PROVE LiTyped'
  BY <1>0, <1>2, RecalculatedTyped DEF AddItem, ChangeItem
<1>3. ASSUME NEW r \in Request, DeleteItem(r) PROVE LiTyped'
  BY <1>0, <1>3, RecalculatedTyped DEF DeleteItem
<1>4. ASSUME NEW r \in Request, SetInclusive(r) PROVE LiTyped'
  BY <1>4, RecalculatedTyped DEF SetInclusive
<1>5. ASSUME NEW r \in Request, FinishEdit(r) PROVE LiTyped'
  <2> DEFINE i == itemReq[r].changed
             row == itemReq[r].row
  <2>1. itemReq[r].op = "summed" /\ itemReq[r] \in Summed
    BY <1>5 DEF FinishEdit, LiTyped, LineItemsTypeOK, Idle, Opened
  <2>2. /\ i \in Item \cup {None} /\ row \in ItemRow \cup {None}
        /\ itemReq[r].bill \in Bill /\ itemReq[r].totals \in Bill
    BY <2>1 DEF Summed
  <2>3. bill' \in Bill
    BY <1>5, <2>2, FlushedTyped DEF FinishEdit, LiTyped, LineItemsTypeOK
  <2>4. item' \in [Item -> ItemRow \cup {None}] /\ IsFiniteSet(StoredItems(item'))
    <3>1. item' = IF i = None THEN item ELSE [item EXCEPT ![i] = row]
      BY <1>5 DEF FinishEdit
    <3> HIDE DEF i, row
    <3> QED
      BY <2>2, <3>1, ItemWritten DEF LiTyped, LineItemsTypeOK
  <2>5. itemReq' \in [Request -> {Idle} \cup Opened \cup Summed]
    BY <1>5 DEF FinishEdit, EndItem, LiTyped, LineItemsTypeOK
  <2> QED
    BY <2>3, <2>4, <2>5 DEF LiTyped, LineItemsTypeOK, StoredItems
<1>6. ASSUME NEW r \in Request, AbortEdit(r) PROVE LiTyped'
  BY <1>6 DEF AbortEdit, EndItem, LiTyped, LineItemsTypeOK, StoredItems
<1>7. CASE UNCHANGED itemVars
  BY <1>7 DEF itemVars, LiTyped, LineItemsTypeOK, StoredItems
<1> QED
  BY <1>1, <1>2, <1>3, <1>4, <1>5, <1>6, <1>7 DEF LineItemsNext

\* For any items, prices, rate and number of requests: the totals of a draft are numbers, and
\* what a request has loaded and summed is well typed.
THEOREM LineItemsTyped == LineItemsSpec => []LineItemsTypeOK
<1>1. LiTyped => LineItemsTypeOK
  BY DEF LiTyped
<1> QED
  BY LineItemsTypedInitial, LineItemsTypedStep, <1>1, PTL DEF LineItemsSpec

-----------------------------------------------------------------------------
(* Payslips: what a payroll run pays is bounded by the salary, whatever two updates mix in its
   row, and amounts that do not follow from its dates need an overlap. *)

\* What is rounded half up is a natural number, grows with the number rounded, and for a share
\* of five grows no faster.
LEMMA HalfUpBounds ==
  ASSUME NEW g \in Nat, NEW s \in Nat, g <= s
  PROVE  /\ HalfUp(g, 5) \in 0 .. g
         /\ HalfUp(g, 5) <= HalfUp(s, 5)
         /\ g - HalfUp(g, 5) <= s - HalfUp(s, 5)
BY DEF HalfUp

LEMMA QuotientBound ==
  ASSUME NEW n \in Nat, NEW d \in Nat \ {0}, NEW q \in Nat, n < d * (q + 1)
  PROVE  n \div d \in 0 .. q
OBVIOUS

LEMMA ProratedBound ==
  ASSUME NEW salary \in Nat, NEW days \in Nat
  PROVE  Prorated(salary, days) \in 0 .. salary
<1>1. CASE days >= DaysInMonth
  BY <1>1 DEF Prorated
<1>2. CASE days < DaysInMonth
  <2> DEFINE n == 2 * (salary * days) + DaysInMonth
             d == 2 * DaysInMonth
  <2>1. DaysInMonth \in Nat \ {0}
    BY SalaryAssumption
  <2>2. salary * days \in Nat /\ salary * DaysInMonth \in Nat
    BY <2>1
  <2>3. salary * days <= salary * DaysInMonth
    BY <1>2, <2>1
  <2>4. d * (salary + 1) = 2 * (salary * DaysInMonth) + 2 * DaysInMonth
    BY <2>1
  <2>5. n \in Nat /\ d \in Nat \ {0} /\ n < d * (salary + 1)
    BY <2>1, <2>2, <2>3, <2>4
  <2>6. Prorated(salary, days) = n \div d
    BY <1>2, <2>1 DEF Prorated, HalfUp
  <2> HIDE DEF n, d
  <2> QED
    BY <2>5, <2>6, QuotientBound
<1> QED
  BY <1>1, <1>2, SalaryAssumption

\* The sum over no record, and over one.
LEMMA DeductedValue ==
  ASSUME NEW gross \in Nat, NEW pass \in WorkPass
  PROVE  Deducted(gross, pass) = IF pass = "citizen" THEN HalfUp(gross, 5) ELSE 0
<1> DEFINE own == {d \in Deductions(gross, pass) : ~d.employer}
           one == [kind |-> "cpf_employee", amount |-> HalfUp(gross, 5), employer |-> FALSE]
           f == [d \in own |-> d.amount]
           F(iter) == iter = [s \in SUBSET own |->
                         IF s = {} THEN 0
                         ELSE (CHOOSE x \in s : TRUE).amount + iter[s \ {CHOOSE x \in s : TRUE}]]
           fold == CHOOSE iter : F(iter)
<1>1. Deducted(gross, pass) = fold[own]
  BY DEF Deducted, MapThenSumSet, MapThenFoldSet
<1>2. own = IF pass = "citizen" THEN {one} ELSE {}
  BY DEF Deductions, WorkPass
<1>3. IsFiniteSet(own)
  BY <1>2, FS_EmptySet, FS_Singleton
<1>4. ASSUME NEW iter PROVE F(iter) <=> IsFold(iter, f, own)
  <2>1. ASSUME NEW s \in SUBSET own, s # {} PROVE (CHOOSE x \in s : TRUE).amount = f[First(s)]
    BY <2>1, FirstIsMember DEF First
  <2> QED
    BY <2>1 DEF IsFold, First
<1>5. IsFold(fold, f, own)
  <2> HIDE DEF own, f, F
  <2>1. \E iter : F(iter)
    BY <1>3, <1>4, FoldExists
  <2>2. F(fold)
    BY <2>1
  <2> QED
    BY <1>4, <2>2
<1>6. Deducted(gross, pass) = Total(f, own)
  BY <1>1, <1>3, <1>5, FoldValue
<1>7. CASE pass = "citizen"
  <2>1. own = {one} /\ f[one] = HalfUp(gross, 5) /\ f[one] \in Int
    BY <1>2, <1>7 DEF HalfUp
  <2> QED
    BY <1>6, <1>7, <2>1, TotalSingle
<1>8. CASE pass # "citizen"
  BY <1>2, <1>6, <1>8, TotalEmpty
<1> QED
  BY <1>7, <1>8

OwnShare(salary, pass) == IF pass = "citizen" THEN HalfUp(salary, 5) ELSE 0

\* What holds of each amount alone, however amounts of several updates are mixed in a row.
PaysWithin(row) ==
  /\ row.gross <= row.salary
  /\ row.deducted <= OwnShare(row.salary, row.pass)
  /\ row.net <= row.salary - OwnShare(row.salary, row.pass)

PInv ==
  /\ PayslipsTypeOK
  /\ PaysWithin(slip)
  /\ \A r \in Request : slipReq[r].op = "update" =>
       /\ PaysWithin(slipReq[r].row)
       /\ slipReq[r].row.status = "draft" /\ slip.status # "absent"
       /\ slipReq[r].row.salary = slip.salary /\ slipReq[r].row.pass = slip.pass

LEMMA DaysInRange ==
  ASSUME NEW start \in Date, NEW end \in Date
  PROVE  Days(start, end) \in 0 .. DaysInMonth + 2
BY SalaryAssumption DEF Date, Days

\* The gross and the deductions of a salary: what PaysWithin says of them.
LEMMA AmountsWithin ==
  ASSUME NEW salary \in Nat, NEW pass \in WorkPass, NEW days \in Nat
  PROVE  LET gross == Prorated(salary, days)
             deducted == Deducted(gross, pass)
         IN  /\ gross \in 0 .. salary
             /\ deducted \in 0 .. OwnShare(salary, pass)
             /\ gross - deducted \in 0 .. salary - OwnShare(salary, pass)
<1> DEFINE gross == Prorated(salary, days)
           deducted == Deducted(gross, pass)
<1>1. gross \in 0 .. salary
  BY ProratedBound
<1> HIDE DEF gross
<1>2. deducted = IF pass = "citizen" THEN HalfUp(gross, 5) ELSE 0
  BY <1>1, DeductedValue
<1> HIDE DEF deducted
<1>3. deducted \in 0 .. OwnShare(salary, pass) /\ gross - deducted \in 0 .. salary - OwnShare(salary, pass)
  BY <1>1, <1>2, HalfUpBounds DEF OwnShare
<1> QED
  BY <1>1, <1>3 DEF gross, deducted

RowFields == {"status", "pass", "salary", "start", "end", "days", "gross", "deducted", "net"}

LEMMA SlipRowFields ==
  ASSUME NEW row
  PROVE  row \in SlipRow <=>
           /\ row = [c \in RowFields |-> row[c]]
           /\ row["status"] \in {"absent", "draft", "reviewed"} /\ row["pass"] \in WorkPass
           /\ row["salary"] \in Salary \cup {0} /\ row["start"] \in Date /\ row["end"] \in Date
           /\ row["days"] \in 0 .. DaysInMonth + 2
           /\ row["gross"] \in Nat /\ row["deducted"] \in Nat /\ row["net"] \in Nat
BY DEF SlipRow, RowFields

\* The fields of a calculated row.
LEMMA CalculatedFields ==
  ASSUME NEW row \in SlipRow, NEW start, NEW end
  PROVE  LET new == Calculated(row, start, end)
             gross == Prorated(row.salary, Days(start, end))
             deducted == Deducted(gross, row.pass)
         IN  /\ new = [c \in RowFields |-> new[c]]
             /\ new["status"] = row["status"] /\ new["pass"] = row["pass"]
             /\ new["salary"] = row["salary"]
             /\ new["start"] = start /\ new["end"] = end /\ new["days"] = Days(start, end)
             /\ new["gross"] = gross /\ new["deducted"] = deducted
             /\ new["net"] = gross - deducted
<1>1. row = [c \in RowFields |-> row[c]]
  BY SlipRowFields
<1> DEFINE days == Days(start, end)
           gross == Prorated(row.salary, days)
           deducted == Deducted(gross, row.pass)
           net == gross - deducted
           new == Calculated(row, start, end)
<1>2. new = [row EXCEPT !.start = start, !.end = end, !.days = days, !.gross = gross,
                        !.deducted = deducted, !.net = net]
  BY DEF Calculated
<1> HIDE DEF days, gross, deducted, net, new
<1>3. /\ new = [c \in RowFields |-> new[c]]
      /\ new["status"] = row["status"] /\ new["pass"] = row["pass"]
      /\ new["salary"] = row["salary"]
      /\ new["start"] = start /\ new["end"] = end /\ new["days"] = days
      /\ new["gross"] = gross /\ new["deducted"] = deducted
      /\ new["net"] = net
  BY <1>1, <1>2 DEF RowFields
<1> QED
  BY <1>3 DEF days, gross, deducted, net, new

\* A calculated row pays within the salary.
LEMMA CalculatedWithin ==
  ASSUME NEW row \in SlipRow, NEW start \in Date, NEW end \in Date
  PROVE  Calculated(row, start, end) \in SlipRow /\ PaysWithin(Calculated(row, start, end))
<1> DEFINE new == Calculated(row, start, end)
           days == Days(start, end)
           gross == Prorated(row.salary, days)
           deducted == Deducted(gross, row.pass)
<1>1. row.salary \in Nat /\ row.pass \in WorkPass /\ days \in 0 .. DaysInMonth + 2 /\ days \in Nat
  <2>1. row.salary \in Nat /\ row.pass \in WorkPass
    BY SalaryAssumption, SlipRowFields
  <2>2. days \in 0 .. DaysInMonth + 2
    BY DaysInRange
  <2> HIDE DEF days
  <2> QED
    BY <2>1, <2>2, SalaryAssumption
<1>2. /\ gross \in 0 .. row.salary
      /\ deducted \in 0 .. OwnShare(row.salary, row.pass)
      /\ gross - deducted \in 0 .. row.salary - OwnShare(row.salary, row.pass)
  BY <1>1, AmountsWithin
<1>3. /\ new = [c \in RowFields |-> new[c]]
      /\ new["status"] = row["status"] /\ new["pass"] = row["pass"]
      /\ new["salary"] = row["salary"]
      /\ new["start"] = start /\ new["end"] = end /\ new["days"] = days
      /\ new["gross"] = gross /\ new["deducted"] = deducted
      /\ new["net"] = gross - deducted
  BY CalculatedFields
<1>4. OwnShare(row.salary, row.pass) \in Int
  BY <1>1 DEF OwnShare, HalfUp
<1> HIDE DEF new, days, gross, deducted
<1>5. gross \in Nat /\ deducted \in Nat /\ gross - deducted \in Nat
  BY <1>1, <1>2, <1>4
<1>6. new \in SlipRow
  BY <1>1, <1>3, <1>5, SlipRowFields
<1>7. PaysWithin(new)
  BY <1>1, <1>2, <1>3, <1>4, <1>5 DEF PaysWithin
<1> QED
  BY <1>6, <1>7 DEF new

\* A flush mixes the amounts of two rows of one salary and pass, each within its bound.
LEMMA FlushedRow ==
  ASSUME NEW loaded \in SlipRow, NEW new \in SlipRow, NEW now \in SlipRow,
         PaysWithin(new), PaysWithin(now),
         new.status = loaded.status, new.pass = loaded.pass, new.salary = loaded.salary,
         loaded.salary = now.salary, loaded.pass = now.pass
  PROVE  LET row == Flushed(loaded, new, now) IN
         /\ row \in SlipRow /\ PaysWithin(row)
         /\ row.status = now.status /\ row.salary = now.salary /\ row.pass = now.pass
<1> DEFINE row == Flushed(loaded, new, now)
<1>1. now = [c \in RowFields |-> now[c]]
  BY SlipRowFields
<1>2. row = [c \in RowFields |-> IF new[c] # loaded[c] THEN new[c] ELSE now[c]]
  BY <1>1 DEF Flushed
<1> HIDE DEF row
<1>3. \A c \in RowFields : row[c] \in {new[c], now[c]}
  BY <1>2
<1>4. row.status = now.status /\ row.salary = now.salary /\ row.pass = now.pass
  BY <1>2 DEF RowFields
<1>5. row = [c \in RowFields |-> row[c]]
  BY <1>2
<1>6. row \in SlipRow
  BY <1>3, <1>4, <1>5, SlipRowFields DEF RowFields
<1>7. PaysWithin(row)
  BY <1>3, <1>4 DEF PaysWithin, RowFields
<1> QED
  BY <1>4, <1>6, <1>7 DEF row

LEMMA PayslipsInitial == PayslipsInit => PInv
<1> SUFFICES ASSUME PayslipsInit PROVE PInv
  OBVIOUS
<1>1. NoSlip \in SlipRow /\ PaysWithin(NoSlip)
  BY SalaryAssumption DEF NoSlip, SlipRow, WorkPass, Date, PaysWithin, OwnShare
<1> QED
  BY <1>1 DEF PayslipsInit, PInv, PayslipsTypeOK, Idle

\* The row of a new run, before its amounts are calculated.
LEMMA CreatedRow ==
  ASSUME NEW pass \in WorkPass, NEW salary \in Salary
  PROVE  [NoSlip EXCEPT !.status = "draft", !.pass = pass, !.salary = salary] \in SlipRow
<1> DEFINE new == [NoSlip EXCEPT !.status = "draft", !.pass = pass, !.salary = salary]
<1>1. /\ new = [c \in RowFields |-> new[c]]
      /\ new["status"] = "draft" /\ new["pass"] = pass /\ new["salary"] = salary
      /\ new["start"] = 1 /\ new["end"] = 0 /\ new["days"] = 0
      /\ new["gross"] = 0 /\ new["deducted"] = 0 /\ new["net"] = 0
  BY DEF NoSlip, RowFields
<1> HIDE DEF new
<1>2. 1 \in Date /\ 0 \in Date /\ 0 \in 0 .. DaysInMonth + 2
  BY SalaryAssumption DEF Date
<1>3. new \in SlipRow
  BY <1>1, <1>2, SlipRowFields
<1> QED
  BY <1>3 DEF new

LEMMA UpdateEnded ==
  ASSUME PInv, NEW r \in Request, EndUpdate(r)
  PROVE  /\ slipReq' \in [Request -> {Idle} \cup Updating]
         /\ \A q \in Request : slipReq'[q].op = "update" => slipReq'[q] = slipReq[q]
BY DEF PInv, PayslipsTypeOK, EndUpdate, Idle

LEMMA PayslipsStep == PInv /\ [PayslipsNext]_slipVars => PInv'
<1> SUFFICES ASSUME PInv, [PayslipsNext]_slipVars PROVE PInv'
  OBVIOUS
<1>1. ASSUME NEW s \in Sheet, CreateSlip(s) PROVE PInv'
  <2>1. PICK salary \in Salary, pass \in WorkPass, start \in Date, end \in Date :
          slip' = Calculated([NoSlip EXCEPT !.status = "draft", !.pass = pass, !.salary = salary],
                             Greatest(start, 1), Least(end, DaysInMonth))
    BY <1>1 DEF CreateSlip
  <2> DEFINE new == [NoSlip EXCEPT !.status = "draft", !.pass = pass, !.salary = salary]
  <2>2. new \in SlipRow
    BY CreatedRow
  <2>3. Greatest(start, 1) \in Date /\ Least(end, DaysInMonth) \in Date
    BY SalaryAssumption DEF Greatest, Least, Date
  <2> HIDE DEF new
  <2>4. slip' \in SlipRow /\ PaysWithin(slip')
    BY <2>1, <2>2, <2>3, CalculatedWithin DEF new
  <2> QED
    BY <1>1, <2>4 DEF CreateSlip, PInv, PayslipsTypeOK
<1>2. ASSUME NEW r \in Request, LoadSlip(r) PROVE PInv'
  <2>1. [op |-> "update", row |-> slip, sheets |-> sheets] \in Updating
    BY DEF PInv, PayslipsTypeOK, Updating
  <2> QED
    BY <1>2, <2>1 DEF LoadSlip, MayUpdate, PInv, PayslipsTypeOK
<1>3. ASSUME NEW r \in Request, NEW s \in Sheet, FinishUpdateSlip(r, s) PROVE PInv'
  <2>1. PICK start \in Date, end \in Date :
          slip' = Flushed(slipReq[r].row, Calculated(slipReq[r].row, start, end), slip)
    BY <1>3 DEF FinishUpdateSlip
  <2> DEFINE row == slipReq[r].row
             new == Calculated(row, start, end)
  <2>2. row \in SlipRow /\ row.salary = slip.salary /\ row.pass = slip.pass
    BY <1>3 DEF FinishUpdateSlip, PInv, PayslipsTypeOK, Updating, Idle
  <2>3. new \in SlipRow /\ PaysWithin(new)
    BY <2>2, CalculatedWithin
  <2>4. new.status = row.status /\ new.pass = row.pass /\ new.salary = row.salary
    BY <2>2, CalculatedFields
  <2>5. slip \in SlipRow /\ PaysWithin(slip)
    BY DEF PInv, PayslipsTypeOK
  <2> HIDE DEF row, new
  <2>6. slip' = Flushed(row, new, slip)
    BY <2>1 DEF row, new
  <2>7. /\ slip' \in SlipRow /\ PaysWithin(slip')
        /\ slip'.status = slip.status /\ slip'.salary = slip.salary /\ slip'.pass = slip.pass
    BY <2>2, <2>3, <2>4, <2>5, <2>6, FlushedRow
  <2>8. sheets' \in SUBSET Sheet
    BY <1>3 DEF FinishUpdateSlip, PInv, PayslipsTypeOK
  <2> QED
    BY <1>3, <2>7, <2>8, UpdateEnded DEF FinishUpdateSlip, PInv, PayslipsTypeOK
<1>4. CASE ReviewSlip
  <2>1. slip' \in SlipRow /\ slip'.status = "reviewed" /\ slip'.salary = slip.salary
          /\ slip'.pass = slip.pass /\ slip'.gross = slip.gross /\ slip'.net = slip.net
          /\ slip'.deducted = slip.deducted
    BY <1>4 DEF ReviewSlip, PInv, PayslipsTypeOK, SlipRow
  <2>2. PaysWithin(slip')
    BY <2>1 DEF PInv, PaysWithin
  <2> QED
    BY <1>4, <2>1, <2>2 DEF ReviewSlip, PInv, PayslipsTypeOK
<1>5. CASE DeleteSlip
  <2>1. NoSlip \in SlipRow /\ PaysWithin(NoSlip)
    BY SalaryAssumption DEF NoSlip, SlipRow, WorkPass, Date, PaysWithin, OwnShare
  <2> QED
    BY <1>5, <2>1 DEF DeleteSlip, PInv, PayslipsTypeOK, Idle
<1>6. ASSUME NEW r \in Request, AbortUpdate(r) PROVE PInv'
  BY <1>6, UpdateEnded DEF AbortUpdate, PInv, PayslipsTypeOK
<1>7. CASE UNCHANGED slipVars
  BY <1>7 DEF slipVars, PInv, PayslipsTypeOK
<1> QED
  BY <1>1, <1>2, <1>3, <1>4, <1>5, <1>6, <1>7 DEF PayslipsNext

LEMMA PayslipsInvariant == PayslipsSpec => []PInv
BY PayslipsInitial, PayslipsStep, PTL DEF PayslipsSpec

LEMMA PInvBounds == PInv => PayBounded
<1> SUFFICES ASSUME PInv PROVE PayBounded
  OBVIOUS
<1>1. slip.salary \in Nat /\ slip.net \in Nat /\ slip.deducted \in Nat
  BY SalaryAssumption, SlipRowFields DEF PInv, PayslipsTypeOK
<1>2. OwnShare(slip.salary, slip.pass) \in Int
  BY <1>1 DEF OwnShare, HalfUp
<1> QED
  BY <1>1, <1>2 DEF PInv, PaysWithin, PayBounded

\* For any salaries, length of the month and number of updates: a run pays no negative amount
\* and never more than the salary, though a row may mix the amounts of two updates.
THEOREM PayBoundedHolds == PayslipsSpec => []PayBounded
BY PayslipsInvariant, PInvBounds, PTL

-----------------------------------------------------------------------------

LEMMA DaysCounted ==
  ASSUME NEW start \in Date, NEW end \in Date
  PROVE  Days(start, end) = Cardinality({d \in Date : start <= d /\ d <= end})
<1>1. start \in Int /\ end \in Int /\ {d \in Date : start <= d /\ d <= end} = start .. end
  BY SalaryAssumption DEF Date
<1>2. Cardinality(start .. end) = IF start > end THEN 0 ELSE end - start + 1
  BY <1>1, FS_Interval
<1> QED
  BY <1>1, <1>2 DEF Days

\* What SlipSound says of the amounts of a row.
AmountsSound(row) ==
  /\ row.days = Cardinality({d \in Date : row.start <= d /\ d <= row.end})
  /\ row.gross = Prorated(row.salary, row.days)
  /\ row.net = row.gross - row.deducted

LEMMA CalculatedSound ==
  ASSUME NEW row \in SlipRow, NEW start \in Date, NEW end \in Date
  PROVE  AmountsSound(Calculated(row, start, end))
<1> DEFINE new == Calculated(row, start, end)
<1>1. /\ new["salary"] = row["salary"]
      /\ new["start"] = start /\ new["end"] = end /\ new["days"] = Days(start, end)
      /\ new["gross"] = Prorated(row.salary, Days(start, end))
      /\ new["net"] = new["gross"] - new["deducted"]
  BY CalculatedFields
<1> HIDE DEF new
<1>2. AmountsSound(new)
  BY <1>1, DaysCounted DEF AmountsSound
<1> QED
  BY <1>2 DEF new

\* A flush over the row that was loaded leaves the row calculated.
LEMMA FlushedUnchanged ==
  ASSUME NEW row \in SlipRow, NEW new \in SlipRow
  PROVE  Flushed(row, new, row) = new
<1>1. row = [c \in RowFields |-> row[c]] /\ new = [c \in RowFields |-> new[c]]
  BY SlipRowFields
<1>2. Flushed(row, new, row) = [c \in RowFields |-> new[c]]
  BY <1>1 DEF Flushed
<1> QED
  BY <1>1, <1>2

\* The action of StaleSlipNeedsOverlap.
StaleSlip ==
  /\ <<slip, sheets>>' # <<slip, sheets>>
  /\ \/ SlipSound /\ ~SlipSound'
     \/ slip.status = "reviewed" /\ slip' \notin {slip, NoSlip}
  => \E r \in Request :
       /\ slipReq[r].op = "update" /\ slipReq'[r] = Idle
       /\ slipReq[r].row # slip \/ slipReq[r].sheets # sheets

LEMMA StaleSlipStep == PInv /\ [PayslipsNext]_slipVars => [StaleSlip]_slipVars
<1> SUFFICES ASSUME PInv, PayslipsNext,
                    \/ SlipSound /\ ~SlipSound'
                    \/ slip.status = "reviewed" /\ slip' \notin {slip, NoSlip}
             PROVE  \E r \in Request :
                      /\ slipReq[r].op = "update" /\ slipReq'[r] = Idle
                      /\ slipReq[r].row # slip \/ slipReq[r].sheets # sheets
  BY DEF StaleSlip
<1>1. ASSUME NEW s \in Sheet, CreateSlip(s) PROVE FALSE
  <2>1. PICK salary \in Salary, pass \in WorkPass, start \in Date, end \in Date :
          slip' = Calculated([NoSlip EXCEPT !.status = "draft", !.pass = pass, !.salary = salary],
                             Greatest(start, 1), Least(end, DaysInMonth))
    BY <1>1 DEF CreateSlip
  <2> DEFINE new == [NoSlip EXCEPT !.status = "draft", !.pass = pass, !.salary = salary]
  <2>2. new \in SlipRow
    BY CreatedRow
  <2>3. Greatest(start, 1) \in Date /\ Least(end, DaysInMonth) \in Date
    BY SalaryAssumption DEF Greatest, Least, Date
  <2> HIDE DEF new
  <2>4. AmountsSound(slip')
    BY <2>1, <2>2, <2>3, CalculatedSound DEF new
  <2>5. Cardinality(sheets') <= 1
    BY <1>1, FS_Singleton DEF CreateSlip
  <2>6. SlipSound'
    BY <2>4, <2>5 DEF SlipSound, AmountsSound
  <2> QED
    BY <1>1, <2>6 DEF CreateSlip
<1>2. ASSUME NEW r \in Request, LoadSlip(r) \/ AbortUpdate(r) PROVE FALSE
  BY <1>2 DEF LoadSlip, AbortUpdate, SlipSound
<1>3. ASSUME ReviewSlip PROVE FALSE
  <2>1. /\ slip'.days = slip.days /\ slip'.start = slip.start /\ slip'.end = slip.end
        /\ slip'.gross = slip.gross /\ slip'.salary = slip.salary /\ slip'.net = slip.net
        /\ slip'.deducted = slip.deducted /\ slip.status = "draft" /\ sheets' = sheets
    BY <1>3 DEF ReviewSlip, PInv, PayslipsTypeOK, SlipRow
  <2> QED
    BY <2>1 DEF SlipSound
<1>4. ASSUME DeleteSlip PROVE FALSE
  <2>1. slip' = NoSlip /\ sheets' = {}
    BY <1>4 DEF DeleteSlip
  <2>2. {d \in Date : 1 <= d /\ d <= 0} = {}
    BY SalaryAssumption DEF Date
  <2>3. Prorated(0, 0) = 0
    BY ProratedBound
  <2>4. SlipSound'
    BY <2>1, <2>2, <2>3, FS_EmptySet DEF SlipSound, NoSlip
  <2> QED
    BY <2>1, <2>4
<1>5. ASSUME NEW r \in Request, NEW s \in Sheet, FinishUpdateSlip(r, s),
             slipReq[r].row = slip, slipReq[r].sheets = sheets
      PROVE  FALSE
  <2>1. PICK start \in Date, end \in Date :
          slip' = Flushed(slip, Calculated(slip, start, end), slip)
    BY <1>5 DEF FinishUpdateSlip
  <2>2. slip \in SlipRow /\ slip.status = "draft" /\ sheets' = {s}
    BY <1>5 DEF FinishUpdateSlip, PInv, PayslipsTypeOK
  <2>3. slip' = Calculated(slip, start, end)
    BY <2>1, <2>2, CalculatedWithin, FlushedUnchanged
  <2>4. AmountsSound(slip')
    BY <2>2, <2>3, CalculatedSound
  <2>5. Cardinality(sheets') <= 1
    <3>1. Cardinality({s}) = 1
      BY FS_Singleton
    <3> QED
      BY <2>2, <3>1
  <2>6. SlipSound'
    BY <2>4, <2>5 DEF SlipSound, AmountsSound
  <2> QED
    BY <2>2, <2>6
<1> QED
  BY <1>1, <1>2, <1>3, <1>4, <1>5
     DEF PayslipsNext, FinishUpdateSlip, EndUpdate, PInv, PayslipsTypeOK

\* For any salaries, length of the month and number of updates: the amounts of a run stop
\* following from its dates, and a reviewed run changes, only by an update that decided on a row
\* another request has changed since.
THEOREM StaleSlipOverlaps == PayslipsSpec => StaleSlipNeedsOverlap
<1>1. PayslipsSpec => [][StaleSlip]_slipVars
  BY PayslipsInvariant, StaleSlipStep, PTL DEF PayslipsSpec
<1> QED
  BY <1>1 DEF StaleSlipNeedsOverlap, StaleSlip

-----------------------------------------------------------------------------
(* The office: what the components promise holds of the run that checks them, in which a
   step of one leaves the rows of the others alone. *)

officeVars == <<part, loanVars, taskVars, exportVars, commitmentVars, monthlyVars, landingVars,
                webhookVars, itemVars, slipVars, bookVars>>

LEMMA OfficeStep ==
  [OfficeNext]_officeVars =>
    /\ [LoansNext]_loanVars /\ [TasksNext]_taskVars /\ [ExportsNext]_exportVars
    /\ [CommitmentsNext]_commitmentVars /\ [MonthlyNext]_monthlyVars
    /\ [LandingsNext]_landingVars /\ [WebhooksNext]_webhookVars
    /\ [LineItemsNext]_itemVars /\ [PayslipsNext]_slipVars /\ [LedgerLinesNext]_bookVars
BY Zenon DEF OfficeNext, officeVars

\* A behaviour of the office is one of each component, so that every theorem about a
\* component's specification is one about the run's.
THEOREM OfficeIsEachComponent ==
  OfficeSpec =>
    /\ LoansSpec /\ TasksSpec /\ ExportsSpec /\ CommitmentsSpec /\ MonthlySpec
    /\ LandingsSpec /\ WebhooksSpec /\ LineItemsSpec /\ PayslipsSpec /\ LedgerLinesSpec
<1> DEFINE Each ==
      /\ LoansInit /\ TasksInit /\ ExportsInit /\ CommitmentsInit /\ MonthlyInit
      /\ LandingsInit /\ WebhooksInit /\ LineItemsInit /\ PayslipsInit /\ LedgerLinesInit
<1>1. OfficeInit => Each
  BY Zenon DEF OfficeInit
<1>2. OfficeSpec => OfficeInit /\ [][OfficeNext]_officeVars
  BY DEF OfficeSpec, officeVars
<1> QED
  BY <1>1, <1>2, OfficeStep, PTL
     DEF LoansSpec, TasksSpec, ExportsSpec, CommitmentsSpec, MonthlySpec,
         LandingsSpec, WebhooksSpec, LineItemsSpec, PayslipsSpec, LedgerLinesSpec

\* For any rows and any number of requests: the part that runs is well typed.
THEOREM OfficeTypeCorrect == OfficeSpec => []OfficeTypeOK
<1>1. MonthlySpec => []MonthlyTypeOK
  <2>1. MInv => MonthlyTypeOK
    BY DEF MInv
  <2> QED
    BY MonthlyInitial, MonthlyStep, <2>1, PTL DEF MonthlySpec
<1>2. LandingsSpec => []LandingsTypeOK
  <2>1. LInv => LandingsTypeOK
    BY DEF LInv
  <2> QED
    BY LandingsInvariant, <2>1, PTL
<1>3. WebhooksSpec => []WebhooksTypeOK
  <2>1. WInv => WebhooksTypeOK
    BY DEF WInv
  <2> QED
    BY WebhooksInitial, WebhooksStep, <2>1, PTL DEF WebhooksSpec
<1>4. PayslipsSpec => []PayslipsTypeOK
  <2>1. PInv => PayslipsTypeOK
    BY DEF PInv
  <2> QED
    BY PayslipsInvariant, <2>1, PTL
<1>5. /\ LoansTypeOK /\ TasksTypeOK /\ ExportsTypeOK /\ CommitmentsTypeOK /\ MonthlyTypeOK
      /\ LandingsTypeOK /\ WebhooksTypeOK /\ LineItemsTypeOK /\ PayslipsTypeOK
      /\ LedgerLinesTypeOK
      => OfficeTypeOK
  BY Zenon DEF OfficeTypeOK
<1> QED
  BY <1>1, <1>2, <1>3, <1>4, <1>5, OfficeIsEachComponent, LoansTyped, TasksTyped, ExportsTyped,
     CommitmentsTyped, LineItemsTyped, LedgerLinesTyped, PTL
=============================================================================
