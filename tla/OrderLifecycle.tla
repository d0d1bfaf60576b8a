--------------------------- MODULE OrderLifecycle ---------------------------
(***************************************************************************)
(* Orders, trips and the requests that move them: OrderService,            *)
(* TripService and the repositories they query.                            *)
(*                                                                         *)
(* The server is one Node process that interleaves request handlers at     *)
(* every await, over Postgres at READ COMMITTED.  A handler reads the      *)
(* rows it decides on, yields, and then updates by id with no condition:   *)
(* UPDATE ... WHERE id = o.  A handler that decides on what it read is     *)
(* therefore two steps here, the read (guards, and what it keeps in its    *)
(* locals) and the commit (its writes); one that only needs the row to     *)
(* exist is a single step.  `handler' holds the locals of the requests in  *)
(* flight.                                                                 *)
(*                                                                         *)
(* `reached' and `charged' are history variables: what an order went       *)
(* through since it was created, and whether a charge of its fare returned *)
(* without an error.                                                       *)
(***************************************************************************)
EXTENDS Naturals, FiniteSets

CONSTANTS
  Orders, Trips, Drivers, Companies,
  Handlers,       \* slots for requests that run at the same time
  NoOne,          \* the null of a nullable column or of an unused local
  Internal,       \* orders with source = INTERNAL (booked by a client)
  PayOnDelivery,  \* orders with paymentDelivery = true
  CompanyOf,      \* trip.companyId
  Calls           \* the endpoints that clients call in this instance

Statuses == {"absent", "new", "published", "declined", "claimed",
             "dispatched", "canceled", "paid", "on_pickup",
             "on_way_to_pickup", "picked_up", "on_delivery", "delivered",
             "on_way_to_delivery", "signature_requested", "deleted",
             "archived", "billed"}

TripStatuses == {"absent", "draft", "pending", "active", "completed", "deleted"}

LinkStatuses == {"none", "draft", "pending", "active"}

ClientPayment == {"other", "car_pickup_failed", "car_pickup_paid"}

\* The statuses that leave a mark in `reached'.
Milestones == {"on_pickup", "picked_up", "delivered", "claimed", "billed", "paid"}

DELIVERED_ORDERS == {"delivered", "claimed", "billed", "paid"}
PICKED_UP_ORDERS == {"on_way_to_delivery", "picked_up", "on_delivery"}

\* Mutant: the list misses the order that is being delivered.
NotReleasableButOnDelivery == {"picked_up", "delivered", "on_way_to_delivery", "paid"}

\* Statuses in which neither the client cancels nor the driver declines.
NotReleasable == {"picked_up", "on_delivery", "delivered",
                  "on_way_to_delivery", "paid"}

ASSUME NoOneAssumption ==
  NoOne \notin Orders \cup Trips \cup Drivers \cup Companies \cup Statuses
ASSUME SourcesAssumption == Internal \subseteq Orders /\ PayOnDelivery \subseteq Orders
ASSUME CompanyAssumption == CompanyOf \in [Trips -> Companies]

VARIABLES
  order,     \* the order table
  trip,      \* the trip table
  link,      \* the orderToTrip table: the status of the (order, trip) row
  handler,   \* the locals of each request in flight
  reached,   \* history: the milestones each order was ever written to
  charged    \* history: whether chargeOrder ever returned for each order without an error

tables == <<order, trip, link>>
history == <<reached, charged>>
vars == <<order, trip, link, handler, reached, charged>>

Steps == {"idle", "status", "cancel", "assign", "unlink", "publishTrip",
          "start", "deleteTrip", "pickup", "charge", "sign", "findTrip",
          "count", "complete"}

OrderRow == [status : Statuses, published : BOOLEAN, hidden : BOOLEAN,
             company : Companies \cup {NoOne}, pay : ClientPayment]
TripRow == [status : TripStatuses, driver : Drivers \cup {NoOne}]
Request == [step : Steps, order : Orders \cup {NoOne}, trip : Trips \cup {NoOne},
            from : Trips \cup {NoOne}, value : Statuses \cup {NoOne}]

TypeOK ==
  /\ order \in [Orders -> OrderRow]
  /\ trip \in [Trips -> TripRow]
  /\ link \in [Orders -> [Trips -> LinkStatuses]]
  /\ handler \in [Handlers -> Request]
  /\ reached \in [Orders -> SUBSET Milestones]
  /\ charged \in [Orders -> BOOLEAN]

Idle == [step |-> "idle", order |-> NoOne, trip |-> NoOne,
         from |-> NoOne, value |-> NoOne]

NoOrder == [status |-> "absent", published |-> FALSE, hidden |-> FALSE,
            company |-> NoOne, pay |-> "other"]
NoTrip == [status |-> "absent", driver |-> NoOne]

Init ==
  /\ order = [o \in Orders |-> NoOrder]
  /\ trip = [t \in Trips |-> NoTrip]
  /\ link = [o \in Orders |-> [t \in Trips |-> "none"]]
  /\ handler = [h \in Handlers |-> Idle]
  /\ reached = [o \in Orders |-> {}]
  /\ charged = [o \in Orders |-> FALSE]

-----------------------------------------------------------------------------
(* Queries. *)

Exists(o) == order[o].status # "absent"
TripExists(t) == trip[t].status \notin {"absent", "deleted"}

TripsOf(o) == {t \in Trips : link[o][t] # "none"}
OrdersOf(t) == {o \in Orders : link[o][t] # "none"}

\* getOrderStatusTrip(o, ACTIVE), getOrderTrip(o): any active trip of o.
ActiveTrips(o) == {t \in TripsOf(o) : trip[t].status = "active"}

\* order.orderTrips[0]: the join has no ORDER BY, so any of them.
FirstTrip(o) == IF TripsOf(o) = {} THEN {NoOne} ELSE TripsOf(o)

\* getOrderByStatus: an order on a trip of driver d.
CarriedBy(o, d) == \E t \in TripsOf(o) : trip[t].driver = d

ActiveTripsOf(d) == {t \in Trips : trip[t].status = "active" /\ trip[t].driver = d}

\* Mutant: only a claimed order counts as delivered.
UnclaimedOrders(t) == {o \in OrdersOf(t) : order[o].status # "claimed"}

\* countTripNoDeliveredOrders.
UndeliveredOrders(t) == {o \in OrdersOf(t) : order[o].status \notin {"delivered", "claimed"}}

-----------------------------------------------------------------------------
(* Writes. *)

SetOrder(o, row) ==
  /\ order' = [order EXCEPT ![o] = row]
  /\ reached' = [reached EXCEPT ![o] = @ \cup ({row.status} \cap Milestones)]

SetStatus(o, s) == SetOrder(o, [order[o] EXCEPT !.status = s])

\* An update of a row that is gone changes nothing.
SetTripStatus(t, s) ==
  trip' = [trip EXCEPT ![t].status = IF TripExists(t) THEN s ELSE @]

\* orderTripRepository.update({ tripId }, { status }).
LinksTo(t, s) ==
  [o \in Orders |-> [link[o] EXCEPT ![t] = IF @ = "none" THEN @ ELSE s]]

Unlinked(o, t) == [link EXCEPT ![o][t] = "none"]

\* Handler h is free and some client calls the endpoint.
Called(h, call) == handler[h] = Idle /\ call \in Calls

Keep(h, s, o, t, f, v) ==
  handler' = [handler EXCEPT ![h] =
    [step |-> s, order |-> o, trip |-> t, from |-> f, value |-> v]]

Done(h) == handler' = [handler EXCEPT ![h] = Idle]

\* Only the read part of a handler: the tables are unchanged.
Read(h, s, o, t, f, v) == Keep(h, s, o, t, f, v) /\ UNCHANGED <<tables, history>>

-----------------------------------------------------------------------------
(* Orders come into being, and carriers get them. *)

\* createTransactional: a new order that is not published.
CreateNew(h, o) ==
  /\ Called(h, "create") /\ ~Exists(o) /\ o \in Internal
  /\ SetOrder(o, [NoOrder EXCEPT !.status = "new"])
  /\ UNCHANGED <<trip, link, handler, charged>>

\* QuoteService.publish: a booked quote becomes a published order.
CreatePublished(h, o) ==
  /\ Called(h, "create") /\ ~Exists(o) /\ o \in Internal
  /\ SetOrder(o, [NoOrder EXCEPT !.status = "published", !.published = TRUE])
  /\ UNCHANGED <<trip, link, handler, charged>>

\* createOrder and saveImportedOrder: a carrier's own order, dispatched to
\* it; an imported one may go straight onto a trip of the carrier.
CreateDispatched(h, o, c, t) ==
  /\ Called(h, "create") /\ ~Exists(o) /\ o \notin Internal
  /\ t # NoOne => TripExists(t) /\ CompanyOf[t] = c
  /\ SetOrder(o, [NoOrder EXCEPT !.status = "dispatched", !.published = TRUE, !.company = c])
  /\ link' = IF t = NoOne THEN link ELSE [link EXCEPT ![o][t] = "draft"]
  /\ UNCHANGED <<trip, handler, charged>>

\* DispatchService.accept, as the order sees it (module Dispatching has the
\* dispatch table): whatever its status, the order goes to the carrier.
Accept(h, o, c) ==
  /\ Called(h, "accept") /\ Exists(o)
  /\ SetOrder(o, [order[o] EXCEPT !.status = "dispatched", !.company = c, !.pay = "other"])
  /\ UNCHANGED <<trip, link, handler, charged>>

\* RegisterService.changeOrder: an invited carrier registers and gets the
\* order if no company has it.
AcceptInvite(h, o, c) ==
  /\ Called(h, "accept") /\ Exists(o) /\ order[o].company = NoOne
  /\ SetOrder(o, [order[o] EXCEPT !.status = "dispatched", !.company = c,
                                  !.published = TRUE, !.pay = "other"])
  /\ UNCHANGED <<trip, link, handler, charged>>

\* chargeServiceFee fails: clientPaymentStatus is overwritten all the same.
ServiceFeeFailed(h, o) ==
  /\ Called(h, "accept") /\ Exists(o)
  /\ order' = [order EXCEPT ![o].pay = "other"]
  /\ UNCHANGED <<trip, link, handler, history>>

\* publish / unpublish.
Publish(h, o, published) ==
  /\ Called(h, "publish") /\ Exists(o)
  /\ order' = [order EXCEPT ![o].published = published]
  /\ UNCHANGED <<trip, link, handler, history>>

\* delete: the super admin's call has no condition on the order.
Delete(h, o) ==
  /\ Called(h, "delete") /\ Exists(o)
  /\ SetOrder(o, [order[o] EXCEPT !.status = "deleted", !.published = FALSE])
  /\ UNCHANGED <<trip, link, handler, charged>>

\* archiveOrder, by the order's carrier: hiddenForCompnay.
Archive(h, o) ==
  /\ Called(h, "archive") /\ Exists(o) /\ order[o].company # NoOne
  /\ SetOrder(o, [order[o] EXCEPT !.status = "archived", !.hidden = TRUE])
  /\ UNCHANGED <<trip, link, handler, charged>>

\* By the super admin it is hidden for him alone: no column of this model.
AdminArchive(h, o) ==
  /\ Called(h, "adminArchive") /\ Exists(o)
  /\ SetStatus(o, "archived")
  /\ UNCHANGED <<trip, link, handler, charged>>

-----------------------------------------------------------------------------
(* Releasing an order. *)

\* cancelOrder, by the super admin (companyId null) or by the order's own
\* company: only the latter takes the order off a trip, and only off the
\* first one, when that is the company's.
CancelRead(h, o, account, t) ==
  /\ Called(h, "cancel") /\ Exists(o)
  /\ account \in {NoOne, order[o].company}
  /\ order[o].published
  /\ order[o].status \in {"dispatched", "on_pickup", "declined", "billed", "paid"}
  /\ t \in FirstTrip(o)
  /\ LET own == t # NoOne /\ CompanyOf[t] = account
     IN  Read(h, "cancel", o, NoOne, IF own THEN t ELSE NoOne, NoOne)

\* actionCancelOrder.
CancelWrite(h) ==
  LET o == handler[h].order
      t == handler[h].from
      status == IF o \in Internal THEN "published" ELSE "canceled"
  IN  /\ handler[h].step = "cancel"
      /\ link' = IF t = NoOne THEN link ELSE Unlinked(o, t)
      /\ SetOrder(o, [order[o] EXCEPT !.status = status, !.company = NoOne])
      /\ Done(h)
      /\ UNCHANGED <<trip, charged>>

\* cancelOrderForClient up to its update.
ClientCancelRead(h, o) ==
  /\ Called(h, "clientCancel") /\ Exists(o)
  /\ order[o].status \notin NotReleasable
  /\ Read(h, "status", o, NoOne, NoOne, "canceled")

\* decline by the driver of a trip of the order that is not completed.
DeclineRead(h, o, t) ==
  /\ Called(h, "decline") /\ Exists(o)
  /\ order[o].status \notin {"deleted", "declined", "canceled", "archived"}
  /\ order[o].status \notin NotReleasable
  /\ t \in TripsOf(o) /\ trip[t].status # "completed" /\ trip[t].driver # NoOne
  /\ Read(h, "status", o, NoOne, NoOne, "declined")

\* deleteOrder: a company drops an order that was cancelled under it.
DeleteOrderRead(h, o, t) ==
  /\ Called(h, "deleteOrder") /\ Exists(o)
  /\ order[o].status = "canceled" /\ order[o].company # NoOne
  /\ t \in FirstTrip(o)
  /\ Read(h, "unlink", o, NoOne, t, NoOne)

DeleteOrderWrite(h) ==
  LET o == handler[h].order
      t == handler[h].from
  IN  /\ handler[h].step = "unlink"
      /\ link' = IF t = NoOne THEN link ELSE Unlinked(o, t)
      /\ order' = [order EXCEPT ![o].company = NoOne]
      /\ Done(h)
      /\ UNCHANGED <<trip, history>>

-----------------------------------------------------------------------------
(* Trips. *)

\* TripService.create over getNonDispatchedOrders: whether a published order
\* still has dispatch requests is not in this module.
TripCreate(h, t, d, S) ==
  /\ Called(h, "tripCreate") /\ trip[t].status = "absent" /\ S # {}
  /\ \A o \in S : \/ order[o].status = "published"
                  \/ order[o].status = "dispatched" /\ order[o].company = CompanyOf[t]
  /\ trip' = [trip EXCEPT ![t] = [status |-> "draft", driver |-> d]]
  /\ link' = [o \in Orders |-> IF o \in S THEN [link[o] EXCEPT ![t] = "draft"] ELSE link[o]]
  /\ UNCHANGED <<order, handler, history>>

\* TripService.patch with a list of orders: the trip ends up with those.
TripPatch(h, t, S) ==
  /\ Called(h, "tripPatch") /\ TripExists(t) /\ S # {}
  /\ \A o \in S : Exists(o)
  /\ link' = [o \in Orders |-> [link[o] EXCEPT ![t] =
                CASE o \notin S -> "none" [] o \in S /\ @ = "none" -> "draft" [] OTHER -> @]]
  /\ UNCHANGED <<order, trip, handler, history>>

\* doAction 'assign' / 'unassign', and TripService.patch with a driver.
AssignDriver(h, t, d) ==
  /\ Called(h, "assignDriver") /\ TripExists(t)
  /\ trip' = [trip EXCEPT ![t].driver = d]
  /\ UNCHANGED <<order, link, handler, history>>

\* doAction 'move_to_draft'.
MoveToDraft(h, t) ==
  /\ Called(h, "moveToDraft") /\ TripExists(t)
  /\ SetTripStatus(t, "draft")
  /\ link' = LinksTo(t, "draft")
  /\ UNCHANGED <<order, handler, history>>

\* doAction 'publish': all the orders of the trip must be DISPATCHED.  With
\* no order the query is IN () and fails.
TripPublishRead(h, t) ==
  /\ Called(h, "tripPublish") /\ TripExists(t)
  /\ OrdersOf(t) # {}
  /\ \A o \in OrdersOf(t) : order[o].status = "dispatched"
  /\ Read(h, "publishTrip", NoOne, t, NoOne, NoOne)

TripPublishWrite(h) ==
  LET t == handler[h].trip
  IN  /\ handler[h].step = "publishTrip"
      /\ SetTripStatus(t, "pending")
      /\ link' = LinksTo(t, "pending")
      /\ Done(h)
      /\ UNCHANGED <<order, history>>

\* Mutant: the trip starts without a look at the driver's other trips.
TripStartAnyRead(h, t) ==
  /\ Called(h, "tripStart") /\ TripExists(t)
  /\ Read(h, "start", NoOne, t, NoOne, NoOne)

\* doAction 'start_progress': the driver has no active trip.  Nothing asks
\* for the status of the trip itself.
TripStartRead(h, t) ==
  /\ Called(h, "tripStart") /\ TripExists(t)
  /\ ActiveTripsOf(trip[t].driver) = {}
  /\ Read(h, "start", NoOne, t, NoOne, NoOne)

\* The partial unique index on orderToTrip: an order has one active row.
TripStartWrite(h) ==
  LET t == handler[h].trip
  IN  /\ handler[h].step = "start"
      /\ \A o \in OrdersOf(t) : \A u \in Trips \ {t} : link[o][u] # "active"
      /\ SetTripStatus(t, "active")
      /\ link' = LinksTo(t, "active")
      /\ Done(h)
      /\ UNCHANGED <<order, history>>

\* TripService.delete.
TripDeleteRead(h, t) ==
  /\ Called(h, "tripDelete") /\ TripExists(t)
  /\ trip[t].status # "completed"
  /\ Read(h, "deleteTrip", NoOne, t, NoOne, NoOne)

TripDeleteWrite(h) ==
  LET t == handler[h].trip
  IN  /\ handler[h].step = "deleteTrip"
      /\ trip' = [trip EXCEPT ![t] = [status |-> "deleted", driver |-> NoOne]]
      /\ link' = [o \in Orders |-> [link[o] EXCEPT ![t] = "none"]]
      /\ Done(h)
      /\ UNCHANGED <<order, history>>

\* assignOrder: put an order on a trip, or move it there from its first one.
AssignRead(h, o, t, first) ==
  /\ Called(h, "assign") /\ Exists(o) /\ TripExists(t)
  /\ first \in FirstTrip(o)
  /\ Read(h, "assign", o, t, first,
          IF order[o].status = "declined" THEN "dispatched" ELSE NoOne)

\* A moved row keeps its status.  A new row needs its trip to exist.
AssignWrite(h) ==
  LET o == handler[h].order
      t == handler[h].trip
      first == handler[h].from
      status == handler[h].value
  IN  /\ handler[h].step = "assign"
      /\ TripExists(t)
      /\ link' = CASE first = NoOne -> [link EXCEPT ![o][t] = "draft"]
                   [] first # NoOne /\ link[o][first] = "none" -> link
                   [] OTHER -> [Unlinked(o, first) EXCEPT ![o][t] = link[o][first]]
      /\ IF status = NoOne THEN UNCHANGED <<order, reached>> ELSE SetStatus(o, status)
      /\ Done(h)
      /\ UNCHANGED <<trip, charged>>

\* OrderService.deleteFromTrip.
DeleteFromTrip(h, o, t) ==
  /\ Called(h, "deleteFromTrip") /\ TripExists(t) /\ link[o][t] # "none"
  /\ link' = Unlinked(o, t)
  /\ UNCHANGED <<order, trip, handler, history>>

-----------------------------------------------------------------------------
(* The driver's way to the car and with the car. *)

\* TripService.setDriverOnPickup.  The order's status is not looked at.
DriverToPickupRead(h, o, t) ==
  LET d == trip[t].driver
  IN  /\ Called(h, "setDriverOnPickup")
      /\ t \in TripsOf(o) /\ d # NoOne
      /\ trip[t].status \in {"pending", "active"}
      /\ Cardinality(ActiveTripsOf(d)) = 1 => t \in ActiveTripsOf(d)
      /\ Read(h, "pickup", o, t, NoOne, NoOne)

DriverToPickupWrite(h) ==
  /\ handler[h].step = "pickup"
  /\ SetTripStatus(handler[h].trip, "active")
  /\ SetStatus(handler[h].order, "on_way_to_pickup")
  /\ Done(h)
  /\ UNCHANGED <<link, charged>>

\* changeOrderToPickup, changeOrderToDelivery, changeOrderOnDelivery.
DriverAction(h, o, d, from, to) ==
  /\ Called(h, "driverAction")
  /\ order[o].status \in from
  /\ CarriedBy(o, d)
  /\ ActiveTrips(o) # {}
  /\ Read(h, "status", o, NoOne, NoOne, to)

ToPickupRead(h, o, d) ==
  DriverAction(h, o, d, {"dispatched", "on_pickup", "on_way_to_pickup"}, "on_pickup")
ToDeliveryRead(h, o, d) ==
  DriverAction(h, o, d, {"picked_up"}, "on_way_to_delivery")
OnDeliveryRead(h, o, d) ==
  DriverAction(h, o, d, {"on_way_to_delivery"}, "on_delivery")

\* checkDriverIsNearOrderToPickUp, when the driver's position is near.
NearPickupRead(h, o) ==
  /\ Called(h, "location")
  /\ order[o].status = "on_way_to_pickup"
  /\ \E t \in ActiveTrips(o) : trip[t].driver # NoOne
  /\ Read(h, "status", o, NoOne, NoOne, "on_pickup")

\* checkDriverIsNearOrderToDelivery.
NearDeliveryRead(h, o) ==
  /\ Called(h, "location")
  /\ order[o].status = "picked_up"
  /\ \E t \in ActiveTrips(o) : trip[t].driver # NoOne
  /\ Read(h, "status", o, NoOne, NoOne, "on_delivery")

\* requestInspectionSignature, once every car has a finished inspection
\* (module Inspections).
RequestSignatureRead(h, o) ==
  /\ Called(h, "requestSignature")
  /\ \E t \in ActiveTrips(o) : trip[t].driver # NoOne
  /\ order[o].status \in {"on_pickup", "on_delivery"}
  /\ Read(h, "status", o, NoOne, NoOne, "signature_requested")

\* createDeliveryInspection: the client asks to sign at delivery.
DeliveryInspectionRead(h, o) ==
  /\ Called(h, "deliveryInspection")
  /\ order[o].status \in {"on_delivery", "on_way_to_delivery", "picked_up"}
  /\ Read(h, "status", o, NoOne, NoOne, "signature_requested")

-----------------------------------------------------------------------------
(* Signatures, the fare and the end of the trip. *)

\* signInspection's nextStatus, for the type of inspection the caller names.
\* preStatus is never DECLINED, so a delivery is always DELIVERED.
NextStatus(type) == IF type = "pickup" THEN "picked_up" ELSE "delivered"

\* Mutant: a failed charge counts as settled.
MustChargeOnce(o, next) ==
  next = "picked_up" /\ o \in Internal /\ order[o].pay = "other" /\ o \notin PayOnDelivery

MustCharge(o, next) ==
  /\ next = "picked_up"
  /\ o \in Internal
  /\ order[o].pay # "car_pickup_paid"
  /\ o \notin PayOnDelivery

SignRead(h, o, type) ==
  LET next == NextStatus(type)
  IN  Read(h, IF MustCharge(o, next) THEN "charge" ELSE "sign", o, NoOne, NoOne, next)

\* signInspectionClient: at ON_PICKUP too, and for either inspection.
ClientSignRead(h, o, type) ==
  /\ Called(h, "clientSign")
  /\ order[o].status \in {"signature_requested", "on_pickup"}
  /\ SignRead(h, o, type)

\* signInspectionDriverApp: by the driver of the order's active trip.
DriverSignRead(h, o, type) ==
  /\ Called(h, "driverSign")
  /\ order[o].status = "signature_requested"
  /\ \E t \in ActiveTrips(o) : trip[t].driver # NoOne
  /\ SignRead(h, o, type)

\* chargeOrdersFailed: the client has a new wallet, failed fares are retried.
RetryChargeRead(h, o) ==
  /\ Called(h, "retryCharge")
  /\ order[o].pay = "car_pickup_failed" /\ o \notin PayOnDelivery
  /\ Read(h, "charge", o, NoOne, NoOne, NoOne)

\* chargeOrder succeeds.  Its update is on a connection of its own: it stays
\* whatever becomes of the signature.
ChargeOrder(h) ==
  LET o == handler[h].order
  IN  /\ handler[h].step = "charge"
      /\ order' = [order EXCEPT ![o].pay = "car_pickup_paid"]
      /\ charged' = [charged EXCEPT ![o] = TRUE]
      /\ IF handler[h].value = NoOne
         THEN Done(h)
         ELSE Keep(h, "sign", o, NoOne, NoOne, handler[h].value)
      /\ UNCHANGED <<trip, link, reached>>

\* chargeOrder fails, and the signature with it.
ChargeOrderFails(h) ==
  /\ handler[h].step = "charge"
  /\ order' = [order EXCEPT ![handler[h].order].pay = "car_pickup_failed"]
  /\ Done(h)
  /\ UNCHANGED <<trip, link, history>>

\* signInspection's update and the commit; then, after a delivery,
\* actionsOrderDelivered runs on its own.
SignWrite(h) ==
  LET o == handler[h].order
      next == handler[h].value
  IN  /\ handler[h].step = "sign"
      /\ SetStatus(o, next)
      /\ IF next \in {"delivered", "claimed"}
         THEN Keep(h, "findTrip", o, NoOne, NoOne, NoOne)
         ELSE Done(h)
      /\ UNCHANGED <<trip, link, charged>>

\* completedTrip: the order's active trip (with none, trip.id throws and the
\* rejected promise is dropped) ...
FindTrip(h) ==
  LET o == handler[h].order
  IN  /\ handler[h].step = "findTrip"
      /\ \/ \E t \in ActiveTrips(o) : Read(h, "count", o, t, NoOne, NoOne)
         \/ /\ ActiveTrips(o) = {}
            /\ Done(h)
            /\ UNCHANGED <<tables, history>>

\* ... how many of its orders are not delivered ...
CountUndelivered(h) ==
  LET t == handler[h].trip
  IN  /\ handler[h].step = "count"
      /\ IF UndeliveredOrders(t) = {}
         THEN Keep(h, "complete", handler[h].order, t, NoOne, NoOne)
         ELSE Done(h)
      /\ UNCHANGED <<tables, history>>

\* ... and if none, the trip is completed.
CompleteTrip(h) ==
  /\ handler[h].step = "complete"
  /\ SetTripStatus(handler[h].trip, "completed")
  /\ Done(h)
  /\ UNCHANGED <<order, link, history>>

-----------------------------------------------------------------------------
(* Billing. *)

\* sendInvoice: getOrderForBOL, then files, mail and the update.
SendInvoiceRead(h, o) ==
  /\ Called(h, "sendInvoice")
  /\ order[o].status \in {"claimed", "delivered", "billed"}
  /\ \E t \in TripsOf(o) : trip[t].status \in {"active", "completed"}
  /\ Read(h, "status", o, NoOne, NoOne, "billed")

\* Mutant: the caller's BILLED filter is dropped for what the error text says.
MarkPaidDeliveredRead(h, o) ==
  /\ Called(h, "markPaid")
  /\ order[o].status \in {"delivered", "billed"}
  /\ Read(h, "status", o, NoOne, NoOne, "paid")

\* markPaid: every caller asks for a BILLED order.
MarkPaidRead(h, o) ==
  /\ Called(h, "markPaid")
  /\ order[o].status = "billed"
  /\ Read(h, "status", o, NoOne, NoOne, "paid")

-----------------------------------------------------------------------------
\* The update of a handler that writes nothing but the status.
WriteStatus(h) ==
  /\ handler[h].step = "status"
  /\ SetStatus(handler[h].order, handler[h].value)
  /\ Done(h)
  /\ UNCHANGED <<trip, link, charged>>

\* A request fails before its commit and is rolled back.
Abort(h) ==
  /\ handler[h].step \notin {"idle", "findTrip", "count", "complete"}
  /\ Done(h)
  /\ UNCHANGED <<tables, history>>

\* An order is made, or gets its carrier (order, company and dispatcher controllers).
Booking(h) ==
  \E o \in Orders :
    \/ CreateNew(h, o) \/ CreatePublished(h, o)
    \/ \E c \in Companies, t \in Trips \cup {NoOne} : CreateDispatched(h, o, c, t)
    \/ \E c \in Companies : Accept(h, o, c) \/ AcceptInvite(h, o, c)
    \/ ServiceFeeFailed(h, o)
    \/ \E p \in BOOLEAN : Publish(h, o, p)
    \/ Delete(h, o) \/ Archive(h, o) \/ AdminArchive(h, o)

\* It is taken from its carrier (company controller, clients and drivers).
Releasing(h) ==
  \/ \E o \in Orders :
       \/ \E a \in Companies \cup {NoOne}, t \in Trips \cup {NoOne} : CancelRead(h, o, a, t)
       \/ ClientCancelRead(h, o)
       \/ \E t \in Trips : DeclineRead(h, o, t)
       \/ \E t \in Trips \cup {NoOne} : DeleteOrderRead(h, o, t)
  \/ CancelWrite(h) \/ DeleteOrderWrite(h)

\* Trips, as their dispatcher plans them (dispatcher controller).
Planning(h) ==
  \/ \E t \in Trips :
       \/ \E d \in Drivers \cup {NoOne}, S \in SUBSET Orders : TripCreate(h, t, d, S)
       \/ \E S \in SUBSET Orders : TripPatch(h, t, S)
       \/ \E d \in Drivers \cup {NoOne} : AssignDriver(h, t, d)
       \/ MoveToDraft(h, t)
       \/ TripPublishRead(h, t) \/ TripStartRead(h, t) \/ TripDeleteRead(h, t)
       \/ \E o \in Orders : DeleteFromTrip(h, o, t)
       \/ \E o \in Orders, f \in Trips \cup {NoOne} : AssignRead(h, o, t, f)
  \/ TripPublishWrite(h) \/ TripStartWrite(h) \/ TripDeleteWrite(h) \/ AssignWrite(h)

\* The driver's moves and his positions (driver controller).
Driving(h) ==
  \/ \E o \in Orders :
       \/ \E t \in Trips : DriverToPickupRead(h, o, t)
       \/ \E d \in Drivers :
            ToPickupRead(h, o, d) \/ ToDeliveryRead(h, o, d) \/ OnDeliveryRead(h, o, d)
       \/ NearPickupRead(h, o) \/ NearDeliveryRead(h, o)
       \/ RequestSignatureRead(h, o) \/ DeliveryInspectionRead(h, o)
  \/ DriverToPickupWrite(h)

\* Signatures, and what follows them (client controller).
Signing(h) ==
  \/ \E o \in Orders :
       \/ \E type \in {"pickup", "delivery"} : ClientSignRead(h, o, type) \/ DriverSignRead(h, o, type)
       \/ RetryChargeRead(h, o)
  \/ ChargeOrder(h) \/ ChargeOrderFails(h) \/ SignWrite(h)

Completing(h) == FindTrip(h) \/ CountUndelivered(h) \/ CompleteTrip(h)

Billing(h) == \E o \in Orders : SendInvoiceRead(h, o) \/ MarkPaidRead(h, o)

Next ==
  \E h \in Handlers :
    \/ Booking(h) \/ Releasing(h) \/ Planning(h) \/ Driving(h)
    \/ Signing(h) \/ Completing(h) \/ Billing(h)
    \/ WriteStatus(h) \/ Abort(h)

Spec == Init /\ [][Next]_vars

\* The promise chain that ends a trip is run by the event loop: nobody has
\* to call anything for it to go on.
FairSpec == Spec /\ \A h \in Handlers : WF_vars(Completing(h))

-----------------------------------------------------------------------------
(* Properties. *)

\* An order's status is only ever as far along as what happened to it:
\* somebody asked for its signature, signed, billed or paid only if the
\* driver had been marked at the pick-up, the car delivered, the bill sent.
\* The read-then-update handlers of order.service.ts keep this whatever
\* requests run in between.
MilestonesInOrder ==
  \A o \in Orders :
    /\ order[o].status \in PICKED_UP_ORDERS \cup DELIVERED_ORDERS
                            \cup {"on_pickup", "signature_requested"}
         => "on_pickup" \in reached[o]
    /\ order[o].status \in {"billed", "paid"} => reached[o] \cap {"delivered", "claimed"} # {}
    /\ order[o].status = "paid" => "billed" \in reached[o]

\* signInspection (order.service.ts:2019): a client's order that is not paid
\* at delivery is marked picked up only after a chargeOrder for it returned
\* without an error, also when cancellations, re-dispatches, failed charges
\* and other signatures run between the check of clientPaymentStatus and the
\* update.  Whether that charge took the fare is another matter: on an order
\* that was dispatched again the retry finds the paid fee of the former
\* dispatch under the same secret and answers with it (order.service.ts:2822,
\* transaction.service.ts:53).
PickupCharged ==
  \A o \in Internal \ PayOnDelivery : "picked_up" \in reached[o] => charged[o]

\* 'A driver can have only one active trip' (trip.service.ts:290).
OneActiveTripPerDriver == \A d \in Drivers : Cardinality(ActiveTripsOf(d)) <= 1

\* cancelOrder, cancelOrderForClient and decline refuse an order that is
\* loaded (order.service.ts:405, 1543): no step takes an order from a loaded
\* status to one in which it is free again.
LoadedNeverReleased ==
  [][\A o \in Orders :
       order[o].status \in PICKED_UP_ORDERS
         => order'[o].status \notin {"canceled", "declined", "published"}]_vars

\* Every order of t is in one of the statuses the entity calls delivered.
AllDelivered(t) ==
  /\ OrdersOf(t) # {}
  /\ \A o \in OrdersOf(t) : order[o].status \in DELIVERED_ORDERS

\* completedTrip (order.service.ts:2384): an active trip whose orders are all
\* delivered is completed, unless its orders change again.
DeliveredTripCompletes ==
  \A t \in Trips :
    (trip[t].status = "active" /\ AllDelivered(t))
      ~> (trip[t].status # "active" \/ ~AllDelivered(t))

\* The phase of an order in the promise OrderJourney.
PhaseOf(status) ==
  CASE status = "absent" -> "absent"
    [] status \in {"new", "published", "canceled", "declined"} -> "released"
    [] status \in {"dispatched", "on_way_to_pickup"} -> "booked"
    [] status = "on_pickup" -> "arrived"
    [] status = "signature_requested" -> "signing"
    [] status \in PICKED_UP_ORDERS -> "loaded"
    [] status \in {"delivered", "claimed"} -> "delivered"
    [] status \in {"deleted", "archived"} -> "removed"
    [] OTHER -> status

Journey == INSTANCE OrderJourney WITH phase <- [o \in Orders |-> PhaseOf(order[o].status)]

\* One request at a time, the services implement the phases and moves of
\* OrderJourney: every guard of order.service.ts is where it has to be.
FollowsJourney == Journey!Spec
=============================================================================
