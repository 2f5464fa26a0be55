------------------------------ MODULE Webhooks ------------------------------
(***************************************************************************)
(* Deliveries of webhook events.  A provider may deliver an event several   *)
(* times, and at the same time.  A delivery looks for the event, stores it, *)
(* has the provider's handler handle it, and commits what came of that; the *)
(* unique constraint on the event's id is all that keeps two of them apart. *)
(*                                                                         *)
(* Events without an id are left out: each delivery of one is stored and    *)
(* handled.  So is what precedes the look: the signature and the parsing.   *)
(***************************************************************************)
EXTENDS Requests, Naturals, FiniteSets

CONSTANT Event   \* the ids of one provider's events

VARIABLES
  stored,     \* integration_events, committed: the status of an event's row
  hookReq     \* deliveries in progress

webhookVars == <<stored, hookReq>>

-----------------------------------------------------------------------------

EventStatus == {"processed", "failed"}

\* looked: the event was not stored; inserted: its row is flushed; handled: so is its status.
Delivery ==
  [op : {"looked", "inserted"}, event : Event]
    \cup [op : {"handled"}, event : Event, status : EventStatus]

WebhooksTypeOK ==
  /\ stored \in [Event -> EventStatus \cup {None}]
  /\ hookReq \in [Request -> {Idle} \cup Delivery]

WebhooksInit ==
  /\ stored = [e \in Event |-> None]
  /\ hookReq = [r \in Request |-> Idle]

EndDelivery(r) == hookReq' = [hookReq EXCEPT ![r] = Idle]

\* A delivery of an event already stored is answered "duplicate" and changes nothing.
Look(r) ==
  /\ hookReq[r] = Idle
  /\ \E e \in Event :
       \/ stored[e] # None /\ UNCHANGED hookReq
       \/ stored[e] = None /\ hookReq' = [hookReq EXCEPT ![r] = [op |-> "looked", event |-> e]]
  /\ UNCHANGED stored

HandledBy(e) ==
  {r \in Request : hookReq[r].op \in {"inserted", "handled"} /\ hookReq[r].event = e}

\* Mutant: no unique constraint on the event's id.
EventFreeAlways(e) == TRUE

\* uq_integration_events_provider_event: the insert waits for that of another delivery, and
\* raises once that one is committed.
EventFree(e) == stored[e] = None /\ HandledBy(e) = {}

InsertEvent(r) ==
  /\ hookReq[r].op = "looked"
  /\ EventFree(hookReq[r].event)
  /\ hookReq' = [hookReq EXCEPT ![r].op = "inserted"]
  /\ UNCHANGED stored

\* What the handler raises is caught, and becomes the status failed.
HandleEvent(r) ==
  /\ hookReq[r].op = "inserted"
  /\ \E s \in EventStatus :
       hookReq' = [hookReq EXCEPT ![r] =
         [op |-> "handled", event |-> hookReq[r].event, status |-> s]]
  /\ UNCHANGED stored

FinishDelivery(r) ==
  /\ hookReq[r].op = "handled"
  /\ stored' = [stored EXCEPT ![hookReq[r].event] = hookReq[r].status]
  /\ EndDelivery(r)

\* The insert raises, or the server stops: the row is rolled back, handled or not.
AbortDelivery(r) ==
  /\ hookReq[r] # Idle
  /\ EndDelivery(r)
  /\ UNCHANGED stored

WebhooksNext ==
  \E r \in Request :
    Look(r) \/ InsertEvent(r) \/ HandleEvent(r) \/ FinishDelivery(r) \/ AbortDelivery(r)

WebhooksSpec == WebhooksInit /\ [][WebhooksNext]_webhookVars

-----------------------------------------------------------------------------
(* Properties *)

\* However often and however close together an event is delivered, no two deliveries handle
\* it at the same time, and none handles it once it is stored, as processed or as failed.
HandledOnce ==
  \A e \in Event :
    /\ Cardinality(HandledBy(e)) <= 1
    /\ stored[e] # None => HandledBy(e) = {}
=============================================================================
