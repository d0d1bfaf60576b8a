------------------------------ MODULE Inspections ------------------------------
(***************************************************************************)
(* The inspection reports of one order: InspectionService, and the parts   *)
(* of OrderService that request signatures, sign, copy the pick-up's       *)
(* reports to the delivery, and delete them.                               *)
(*                                                                         *)
(* A car has at most one report of a type (UNX_car_inspection_type), so    *)
(* the table is a function.  Handlers are reads and commits as in          *)
(* OrderLifecycle; `edit' runs outside a transaction and is a step per     *)
(* statement, and the driver's request for a signature looks for the       *)
(* reports in one step and changes them in another: its transaction does   *)
(* not lock what it has read.  Statements that only write, up to the       *)
(* commit, are one step: they lock the order's row first.  The moves of    *)
(* the order itself are those of OrderLifecycle, one step each.            *)
(***************************************************************************)
EXTENDS Naturals, FiniteSets

CONSTANTS
  Cars,       \* the cars the order has at one time or another
  Drivers,
  Photos,     \* photos that are uploaded
  Handlers,   \* slots for requests that run at the same time
  NoOne,      \* the null of a nullable column or of an unused local
  Calls       \* the endpoints each slot's requests call in this instance

ASSUME CarsAssumption == IsFiniteSet(Cars) /\ Cars # {}

INSPECTION_TYPE == {"pickup", "delivery"}
INSPECTION_STATUS == {"started", "finished", "signature_requested", "viewed", "signed"}

\* "claimed" is written to preStatus only; the order's is not.
OrderStatuses == {"published", "declined", "on_way_to_pickup", "on_pickup",
                  "signature_requested", "picked_up", "on_delivery", "delivered", "claimed"}

ASSUME NoOneAssumption ==
  NoOne \notin Drivers \cup Cars \cup INSPECTION_TYPE \cup OrderStatuses

VARIABLES
  order,    \* the row of the order, its cars, and the driver of its trip
  report,   \* the inspection table
  handler,  \* the locals of each request in flight
  asked,    \* history: the cars whose pick-up the driver asked to be signed
  carried   \* history: the photos of the pick-up that a delivery report began with

tables == <<order, report>>
history == <<asked, carried>>
vars == <<order, report, handler, asked, carried>>

\* complete: there are notes and exactly five details, one for each face.
Row == [status : INSPECTION_STATUS \cup {"absent"}, driver : Drivers \cup {NoOne},
        complete : BOOLEAN, images : SUBSET Photos]
NoReport == [status |-> "absent", driver |-> NoOne, complete |-> FALSE, images |-> {}]

OrderRow == [status : OrderStatuses, preStatus : OrderStatuses \cup {NoOne},
             driver : Drivers \cup {NoOne}, cars : SUBSET Cars]

Steps == {"idle", "create", "edit", "editRow", "editCheck", "editFinish", "view",
          "damage", "request", "requestWrite", "sign", "clientDelivery", "decline", "cancel"}
Locals == [step : Steps, car : Cars \cup {NoOne}, type : INSPECTION_TYPE \cup {NoOne},
           driver : Drivers \cup {NoOne}, value : OrderStatuses \cup {NoOne},
           images : SUBSET Photos, signed : BOOLEAN, cars : SUBSET Cars,
           seen : [Cars -> Row]]

TypeOK ==
  /\ order \in OrderRow
  /\ report \in [Cars -> [INSPECTION_TYPE -> Row]]
  /\ handler \in [Handlers -> Locals]
  /\ asked \in SUBSET Cars
  /\ carried \in [Cars -> SUBSET Photos]

\* The steps of a request that holds a report it has read.
AboutReport == {"edit", "editRow", "editCheck", "editFinish", "view", "damage"}

NothingSeen == [c \in Cars |-> NoReport]
Idle == [step |-> "idle", car |-> NoOne, type |-> NoOne, driver |-> NoOne,
         value |-> NoOne, images |-> {}, signed |-> FALSE, cars |-> {},
         seen |-> NothingSeen]

Init ==
  /\ order = [status |-> "published", preStatus |-> NoOne, driver |-> NoOne,
              cars |-> Cars]
  /\ report = [c \in Cars |-> [t \in INSPECTION_TYPE |-> NoReport]]
  /\ handler = [h \in Handlers |-> Idle]
  /\ asked = {}
  /\ carried = [c \in Cars |-> {}]

-----------------------------------------------------------------------------
Present(c, t) == report[c][t].status # "absent"

Called(h, call) == handler[h] = Idle /\ call \in Calls[h]
Keep(h, locals) == handler' = [handler EXCEPT ![h] = locals]
Done(h) == Keep(h, Idle)
Read(h, locals) == Keep(h, locals) /\ UNCHANGED <<tables, history>>
Goto(h, s) == handler' = [handler EXCEPT ![h].step = s]

\* The locals of a request about one report; signed: it was when it was read.
About(s, c, t, d) ==
  [Idle EXCEPT !.step = s, !.car = c, !.type = t, !.driver = d,
               !.signed = report[c][t].status = "signed"]

SetReport(c, t, row) == report' = [report EXCEPT ![c][t] = row]

UpdateStatus(c, t, s) == report' = [report EXCEPT ![c][t].status = s]

\* inspectionRepository.update({ orderId, type }, { status }), on table r.
AllOfType(r, t, s) ==
  [c \in Cars |-> [r[c] EXCEPT ![t].status = IF @ = "absent" THEN @ ELSE s]]

-----------------------------------------------------------------------------
(* The driver writes the reports. *)

\* create up to its commit: the driver is on a trip of the order, the car has
\* no report of the type.
CreateRead(h, c, t) ==
  /\ Called(h, "create") /\ order.driver # NoOne /\ c \in order.cars /\ ~Present(c, t)
  /\ Read(h, About("create", c, t, order.driver))

\* The location was asked for over the network; the unique constraint
\* refuses a second report, the foreign key a car that is gone.
CreateWrite(h, complete, photos) ==
  LET me == handler[h]
  IN  /\ me.step = "create" /\ me.car \in order.cars /\ ~Present(me.car, me.type)
      /\ SetReport(me.car, me.type,
           [status |-> IF complete THEN "finished" ELSE "started", driver |-> me.driver,
            complete |-> complete, images |-> photos])
      /\ carried' = IF me.type = "delivery" THEN [carried EXCEPT ![me.car] = {}] ELSE carried
      /\ Done(h)
      /\ UNCHANGED <<order, asked>>

\* edit: only the driver who made the report, while it is STARTED.
EditRead(h, c, t) ==
  /\ Called(h, "edit")
  /\ report[c][t].status = "started" /\ report[c][t].driver = order.driver
  /\ Read(h, About("edit", c, t, NoOne))

\* updateInspectionDetails: the faces that are not sent again are removed.
EditDetails(h, complete) ==
  LET me == handler[h]
  IN  /\ me.step = "edit"
      /\ report' = [report EXCEPT ![me.car][me.type].complete = complete]
      /\ Goto(h, "editRow")
      /\ UNCHANGED <<order, history>>

\* The update of the row; photos that are sent replace the old ones.
EditRow(h, complete, photos) ==
  LET me == handler[h]
  IN  /\ me.step \in {"edit", "editRow"}
      /\ SetReport(me.car, me.type,
           [report[me.car][me.type] EXCEPT !.complete = complete,
                                           !.images = IF photos = {} THEN @ ELSE photos])
      /\ Goto(h, "editCheck")
      /\ UNCHANGED <<order, history>>

\* The report is read again ...
EditCheck(h) ==
  LET me == handler[h]
  IN  /\ me.step = "editCheck"
      /\ IF report[me.car][me.type].complete THEN Goto(h, "editFinish") ELSE Done(h)
      /\ UNCHANGED <<tables, history>>

\* ... and FINISHED when it is complete.
EditFinish(h) ==
  /\ handler[h].step = "editFinish"
  /\ UpdateStatus(handler[h].car, handler[h].type, "finished")
  /\ Done(h)
  /\ UNCHANGED <<order, history>>

-----------------------------------------------------------------------------
(* The client looks at them, and both report damages at the delivery. *)

\* markPickUpInspectionAsViewed.
ViewRead(h, c, t) ==
  /\ Called(h, "view") /\ report[c][t].status \in {"signature_requested", "finished"}
  /\ Read(h, About("view", c, t, NoOne))

ViewWrite(h) ==
  /\ handler[h].step = "view"
  /\ UpdateStatus(handler[h].car, handler[h].type, "viewed")
  /\ Done(h)
  /\ UNCHANGED <<order, history>>

\* Mutant: damages are added to a report that was signed, too.
DamageReadSigned(h, c) ==
  /\ Called(h, "damage") /\ report[c]["delivery"].status # "absent"
  /\ Read(h, [About("damage", c, "delivery", NoOne) EXCEPT !.images = report[c]["delivery"].images])

\* addInspectionDamages: an unsigned report of the delivery.
DamageRead(h, c) ==
  /\ Called(h, "damage") /\ report[c]["delivery"].status \notin {"absent", "signed"}
  /\ Read(h, [About("damage", c, "delivery", NoOne) EXCEPT !.images = report[c]["delivery"].images])

\* Mutant: the photos that are sent replace the old ones.
DamageWriteReplaces(h, complete, photos) ==
  LET me == handler[h]
      row == report[me.car]["delivery"]
  IN  /\ me.step = "damage" /\ (row.complete => ~complete)
      /\ SetReport(me.car, "delivery", [row EXCEPT !.complete = complete, !.images = photos])
      /\ order' = [order EXCEPT !.preStatus = "claimed"]
      /\ Done(h)
      /\ UNCHANGED history

\* With details: they are added (a complete report has too many then), the
\* photos go behind those that were read.
DamageWrite(h, complete, photos) ==
  LET me == handler[h]
      row == report[me.car]["delivery"]
  IN  /\ me.step = "damage" /\ (row.complete => ~complete)
      /\ SetReport(me.car, "delivery",
                   [row EXCEPT !.complete = complete, !.images = me.images \cup photos])
      /\ order' = [order EXCEPT !.preStatus = "claimed"]
      /\ Done(h)
      /\ UNCHANGED history

\* Without details only notes are written; photos alone are dropped.
DamageNotes(h, complete) ==
  LET me == handler[h]
      row == report[me.car]["delivery"]
  IN  /\ me.step = "damage" /\ (row.complete => complete)
      /\ SetReport(me.car, "delivery", [row EXCEPT !.complete = complete])
      /\ Done(h)
      /\ UNCHANGED <<order, history>>

-----------------------------------------------------------------------------
(* From the pick-up's reports to the delivery's. *)

\* What clonePickUpToDeliverySignatures finds: the signed reports of the
\* pick-up, unless there is a report of the delivery already.
ToCopy ==
  [c \in Cars |->
     IF (\A k \in Cars : ~Present(k, "delivery")) /\ report[c]["pickup"].status = "signed"
     THEN report[c]["pickup"] ELSE NoReport]

\* What it saves; a car that has got a report meanwhile violates the unique
\* constraint, one that is gone the foreign key (CopyFails).
CopyFails(seen) ==
  \E c \in Cars : seen[c] # NoReport /\ (Present(c, "delivery") \/ c \notin order.cars)
Copied(seen) ==
  [c \in Cars |-> IF seen[c] = NoReport THEN report[c]
                  ELSE [report[c] EXCEPT !["delivery"] = [seen[c] EXCEPT !.status = "finished"]]]
Carried(seen) == [c \in Cars |-> IF seen[c] = NoReport THEN carried[c] ELSE seen[c].images]

\* requestInspectionSignature by the driver of the order's active trip: the
\* order is read with its cars.
RequestRead(h, t) ==
  /\ Called(h, "request") /\ order.driver # NoOne
  /\ order.status \in {"on_pickup", "on_delivery"}
  /\ Read(h, [Idle EXCEPT !.step = "request", !.type = t, !.value = order.status,
                          !.cars = order.cars,
                          !.seen = IF t = "delivery" THEN ToCopy ELSE NothingSeen])

\* Mutant: a car without a report is not missed.
NoneUnfinished(r, t, cars) == \A c \in cars : r[c][t].status \in {"absent", "finished"}

\* 'Not all cars from order have finished inspection': what is compared are
\* the numbers.
AllFinished(r, t, cars) ==
  Cardinality({c \in Cars : r[c][t].status = "finished"}) = Cardinality(cars)

\* The finished reports are looked for: the own copies and what others have
\* committed since the order was read.
RequestFind(h) ==
  LET me == handler[h]
  IN  /\ me.step = "request" /\ ~CopyFails(me.seen)
      /\ AllFinished(Copied(me.seen), me.type, me.cars)
      /\ Goto(h, "requestWrite")
      /\ UNCHANGED <<tables, history>>

\* The order by its id and all its reports of the type, whatever their status
\* is by now.
RequestWrite(h) ==
  LET me == handler[h]
  IN  /\ me.step = "requestWrite" /\ ~CopyFails(me.seen)
      /\ order' = [order EXCEPT !.status = "signature_requested", !.preStatus = me.value]
      /\ report' = AllOfType(Copied(me.seen), me.type, "signature_requested")
      /\ carried' = Carried(me.seen)
      /\ asked' = IF me.type = "pickup" THEN me.cars ELSE {}
      /\ Done(h)

\* createDeliveryInspection by the client, who asks for no finished reports.
ClientDeliveryRead(h) ==
  /\ Called(h, "clientDelivery")
  /\ order.status \in {"on_delivery", "picked_up"}
  /\ Read(h, [Idle EXCEPT !.step = "clientDelivery",
                          !.seen = IF order.driver # NoOne THEN ToCopy ELSE NothingSeen])

ClientDeliveryWrite(h) ==
  LET me == handler[h]
  IN  /\ me.step = "clientDelivery" /\ ~CopyFails(me.seen)
      /\ order' = [order EXCEPT !.status = "signature_requested"]
      /\ report' = AllOfType(Copied(me.seen), "delivery", "signature_requested")
      /\ carried' = Carried(me.seen)
      /\ asked' = {}
      /\ Done(h)

\* signInspectionClient and signInspectionDriverApp; the status that follows
\* is chosen from the preStatus that is read here.
SignRead(h, t, byClient) ==
  /\ Called(h, "sign")
  /\ IF byClient THEN order.status \in {"signature_requested", "on_pickup"}
     ELSE order.status = "signature_requested" /\ order.driver # NoOne
  /\ Read(h, [Idle EXCEPT !.step = "sign", !.type = t, !.value =
       CASE t = "pickup"                  -> "picked_up"
         [] order.preStatus = "declined"  -> "claimed"
         [] OTHER                         -> "delivered"])

\* signInspection after the charge: the order and its reports, one commit.
SignWrite(h) ==
  LET me == handler[h]
  IN  /\ me.step = "sign"
      /\ order' = [order EXCEPT !.status = me.value, !.preStatus = NoOne]
      /\ report' = AllOfType(report, me.type, "signed")
      /\ Done(h)
      /\ asked' = {}
      /\ UNCHANGED carried

-----------------------------------------------------------------------------
(* The order moves (OrderLifecycle). *)

\* decline: all reports of the order are deleted.  A request that is about one
\* of them updates it by an id that is gone, or inserts details that violate
\* its foreign key: it writes nothing any more.
DeclineRead(h) ==
  /\ Called(h, "decline") /\ order.driver # NoOne
  /\ order.status \notin {"declined", "picked_up", "on_delivery", "delivered"}
  /\ Read(h, [Idle EXCEPT !.step = "decline"])

DeclineWrite(h) ==
  /\ handler[h].step = "decline"
  /\ order' = [order EXCEPT !.status = "declined"]
  /\ report' = [c \in Cars |-> [t \in INSPECTION_TYPE |-> NoReport]]
  /\ carried' = [c \in Cars |-> {}]
  /\ handler' = [g \in Handlers |->
       IF g = h \/ handler[g].step \in AboutReport THEN Idle ELSE handler[g]]
  /\ asked' = {}

\* cancelOrder: published again, off the trip; the reports stay.
CancelRead(h) ==
  /\ Called(h, "cancel") /\ order.status \in {"on_pickup", "declined"}
  /\ Read(h, [Idle EXCEPT !.step = "cancel"])

CancelWrite(h) ==
  /\ handler[h].step = "cancel"
  /\ order' = [order EXCEPT !.status = "published", !.driver = NoOne]
  /\ Done(h)
  /\ asked' = {}
  /\ UNCHANGED <<report, carried>>

\* A carrier gets the order and d sets out to pick it up; setDriverOnPickup
\* lets the driver of the trip do so again, whatever the order's status.
SendDriver(h, d) ==
  /\ Called(h, "send")
  /\ order.status \in {"published", "declined"} \/ order.driver = d
  /\ order' = [order EXCEPT !.status = "on_way_to_pickup", !.driver = d]
  /\ UNCHANGED <<report, handler, history>>

\* The trip gets another driver.
AssignDriver(h, d) ==
  /\ Called(h, "assign") /\ order.driver # NoOne
  /\ order' = [order EXCEPT !.driver = d]
  /\ UNCHANGED <<report, handler, history>>

\* The driver arrives.
Arrive(h, from, to) ==
  /\ Called(h, "arrive") /\ order.status = from
  /\ order' = [order EXCEPT !.status = to]
  /\ UNCHANGED <<report, handler, history>>

\* patch (updateOrderCars), whatever the order's status: cars are added and
\* removed, those with a report cannot be (foreign key).
PatchCars(h, cars) ==
  /\ Called(h, "patch") /\ \A c \in order.cars \ cars, t \in INSPECTION_TYPE : ~Present(c, t)
  /\ order' = [order EXCEPT !.cars = cars]
  /\ UNCHANGED <<report, handler, history>>

\* A request fails and is rolled back; what edit has written stays.
Abort(h) ==
  /\ handler[h].step # "idle"
  /\ Done(h)
  /\ UNCHANGED <<tables, history>>

-----------------------------------------------------------------------------
\* The driver's reports (inspection controller).
Reporting(h) ==
  \/ \E c \in Cars, t \in INSPECTION_TYPE : CreateRead(h, c, t) \/ EditRead(h, c, t)
  \/ \E complete \in BOOLEAN :
       \/ EditDetails(h, complete)
       \/ \E photos \in SUBSET Photos :
            CreateWrite(h, complete, photos) \/ EditRow(h, complete, photos)
  \/ EditCheck(h) \/ EditFinish(h)

\* What clients and drivers add to them (client and driver controllers).
Commenting(h) ==
  \/ \E c \in Cars, t \in INSPECTION_TYPE : ViewRead(h, c, t)
  \/ \E c \in Cars : DamageRead(h, c)
  \/ \E complete \in BOOLEAN :
       \/ DamageNotes(h, complete)
       \/ \E photos \in SUBSET Photos : DamageWrite(h, complete, photos)
  \/ ViewWrite(h)

\* Signatures and the requests for them (driver controller).
Signing(h) ==
  \/ \E t \in INSPECTION_TYPE :
       RequestRead(h, t) \/ \E byClient \in BOOLEAN : SignRead(h, t, byClient)
  \/ RequestFind(h) \/ RequestWrite(h) \/ ClientDeliveryRead(h) \/ ClientDeliveryWrite(h) \/ SignWrite(h)

Moving(h) ==
  \/ DeclineRead(h) \/ DeclineWrite(h) \/ CancelRead(h) \/ CancelWrite(h)
  \/ \E d \in Drivers : SendDriver(h, d) \/ AssignDriver(h, d)
  \/ Arrive(h, "on_way_to_pickup", "on_pickup") \/ Arrive(h, "picked_up", "on_delivery")
  \/ \E cars \in SUBSET Cars : PatchCars(h, cars)

Next == \E h \in Handlers :
          Reporting(h) \/ Commenting(h) \/ Signing(h) \/ Moving(h) \/ Abort(h)

Spec == Init /\ [][Next]_vars

-----------------------------------------------------------------------------
(* Properties. *)

\* A request in flight that read the report (c, t) before it was signed, or
\* that does not look whether it is signed: the driver's request for this
\* signature once it has found the reports finished (the update at
\* order.service.ts:1851 names no status), the client's for the delivery.
Holds(h, c, t) ==
  \/ /\ handler[h].step \in AboutReport /\ ~handler[h].signed
     /\ handler[h].car = c /\ handler[h].type = t
  \/ handler[h].step = "requestWrite" /\ handler[h].type = t
  \/ handler[h].step = "clientDelivery" /\ t = "delivery"

\* 'No unsigned delivery inspection found' (inspection.service.ts:387) and
\* 'Inspection is not available to be updated' (:181): what was signed is
\* not altered any more, whatever is called in which order, but by a request
\* in flight that had found it unsigned.  It may be deleted, by decline.
SignedReportsAreFinal ==
  [][\A c \in Cars, t \in INSPECTION_TYPE :
       report[c][t].status = "signed" /\ (\A h \in Handlers : ~Holds(h, c, t))
         => report'[c][t] \in {report[c][t], NoReport}]_vars

\* The requests of the driver who asks for a signature come one at a time:
\* none overlaps with one that begins a report, or deletes all of them.
DriverSerial ==
  \A g, h \in Handlers :
    "request" \in Calls[g] /\ Calls[h] \cap {"create", "decline"} # {} => g = h

\* 'Not all cars from order have finished inspection' (order.service.ts:1842):
\* while the order waits for the pick-up signature its driver requested, each
\* car the order had for that request has a report that was finished, though
\* the code only compares numbers and changes the reports by statements of
\* their own.  It needs DriverSerial: a decline that commits between those
\* statements deletes the reports the request has found.
RequestsAreReported ==
  order.status = "signature_requested"
    => \A c \in asked : report[c]["pickup"].status \notin {"absent", "started"}

\* A delivery report starts as a copy of the pick-up's
\* (clonePickUpToDeliverySignatures): the photos of the pick-up stay in it,
\* so old damages are not taken for new ones, whatever is added by whom.
PickupPhotosKept ==
  \A c \in Cars : Present(c, "delivery") => carried[c] \subseteq report[c]["delivery"].images

=============================================================================
