------------------------ MODULE OrderLifecycleProofs ------------------------
(***************************************************************************)
(* For any number of orders, trips, drivers, companies and concurrent      *)
(* requests, and whatever endpoints are called: the tables keep their      *)
(* types, and the milestones and the fare of an order are in order; as     *)
(* long as the endpoints are BoardCalls and a carrier is given an order    *)
(* only on no trip (FreshAccept), the order is in one place of the         *)
(* carrier's load board.  When requests are served one at a time: orders   *)
(* follow the journey that module OrderJourney promises, and a driver has  *)
(* one active trip.                                                        *)
(*                                                                         *)
(* MilestonesInOrder is not inductive: a request in flight will write a    *)
(* status that it decided on some steps ago.  IInv adds that what a        *)
(* request holds to write is backed by the order's history; since history  *)
(* only grows, that stays true whatever runs in between.  BoardOK says the *)
(* same of the board: what a request holds to write has its place there.   *)
(***************************************************************************)
EXTENDS OrderBoards, FiniteSetTheorems, TLAPS

\* The statuses that an order has only after its driver was at the pick-up.
Started == PICKED_UP_ORDERS \cup DELIVERED_ORDERS \cup {"signature_requested"}

\* The history of o allows its status to be s.
Backed(o, s) ==
  /\ s \in Started => "on_pickup" \in reached[o]
  /\ s \in {"billed", "paid"} => reached[o] \cap {"delivered", "claimed"} # {}
  /\ s = "paid" => "billed" \in reached[o]

OrdersBacked ==
  \A o \in Orders :
    /\ Backed(o, order[o].status)
    /\ order[o].status \in Milestones => order[o].status \in reached[o]

\* What the locals of a request hold at each of its steps.
RequestOK(r) ==
  /\ r.step \in {"status", "cancel", "assign", "unlink", "pickup", "charge",
                 "sign", "findTrip", "count", "complete"} => r.order \in Orders
  /\ r.step \in {"publishTrip", "start", "deleteTrip", "assign", "pickup",
                 "count", "complete"} => r.trip \in Trips
  /\ r.step \in {"status", "sign"} => r.value \in Statuses
  /\ r.step = "status" => r.value # "picked_up"
  /\ r.step = "assign" => r.value \in {"dispatched", NoOne}

RequestBacked(r) == r.step \in {"status", "charge", "sign"} => Backed(r.order, r.value)

RequestsBacked == \A h \in Handlers : RequestOK(handler[h]) /\ RequestBacked(handler[h])

\* Request r is about to mark o as picked up.
Loads(r, o) == r.step = "sign" /\ r.order = o /\ r.value = "picked_up"

Fares ==
  \A o \in Internal \ PayOnDelivery :
    /\ "picked_up" \in reached[o] => charged[o]
    /\ order[o].pay = "car_pickup_paid" => charged[o]
    /\ \A h \in Handlers : Loads(handler[h], o) => charged[o]

IInv == TypeOK /\ OrdersBacked /\ RequestsBacked /\ Fares

-----------------------------------------------------------------------------
(* A step that is what every step of the services is: history grows, a new *)
(* status is backed and recorded, a new request is backed and loads only   *)
(* what is charged.                                                        *)

\* Orders whose status a step changes get one their history allows.
StatusesOK ==
  \A o \in Orders :
    \/ order'[o].status = order[o].status
    \/ /\ Backed(o, order'[o].status)
       /\ order'[o].status \in Milestones => order'[o].status \in reached'[o]

RequestsOK ==
  \A h \in Handlers :
    \/ handler'[h] = handler[h]
    \/ /\ RequestOK(handler'[h])
       /\ RequestBacked(handler'[h])
       /\ \A o \in Internal \ PayOnDelivery : Loads(handler'[h], o) => charged'[o]

HistoryGrows ==
  \A o \in Orders :
    /\ reached[o] \subseteq reached'[o]
    /\ charged[o] => charged'[o]
    /\ reached'[o] \subseteq Milestones
    /\ charged'[o] \in BOOLEAN

FaresOK ==
  \A o \in Internal \ PayOnDelivery :
    /\ "picked_up" \in reached'[o] => "picked_up" \in reached[o] \/ charged[o]
    /\ order'[o].pay = "car_pickup_paid" => order[o].pay = "car_pickup_paid" \/ charged'[o]

\* History backs as much after a step that only adds to it.
LEMMA BackedGrows ==
  ASSUME NEW o \in Orders, NEW s, reached[o] \subseteq reached'[o], Backed(o, s)
  PROVE  Backed(o, s)'
BY DEF Backed

LEMMA GoodStep ==
  ASSUME IInv, TypeOK', HistoryGrows, StatusesOK, RequestsOK, FaresOK
  PROVE  IInv'
<1>1. OrdersBacked'
  <2> SUFFICES ASSUME NEW o \in Orders
               PROVE  /\ Backed(o, order[o].status)'
                      /\ order'[o].status \in Milestones => order'[o].status \in reached'[o]
    BY DEF OrdersBacked
  <2>1. Backed(o, order'[o].status)
    BY DEF IInv, OrdersBacked, StatusesOK
  <2>2. reached[o] \subseteq reached'[o]
    BY DEF HistoryGrows
  <2>3. Backed(o, order[o].status)'
    BY <2>1, <2>2 DEF Backed
  <2>4. order'[o].status \in Milestones => order'[o].status \in reached'[o]
    BY <2>2 DEF IInv, OrdersBacked, StatusesOK
  <2> QED BY <2>3, <2>4
<1>2. RequestsBacked'
  <2> SUFFICES ASSUME NEW h \in Handlers
               PROVE  RequestOK(handler'[h]) /\ RequestBacked(handler[h])'
    BY DEF RequestsBacked, RequestOK
  <2>1. RequestOK(handler'[h]) /\ RequestBacked(handler'[h])
    BY DEF IInv, RequestsBacked, RequestsOK
  <2>2. handler'[h].step \in {"status", "charge", "sign"} => handler'[h].order \in Orders
    BY <2>1 DEF RequestOK
  <2>3. RequestBacked(handler[h])'
    BY <2>1, <2>2 DEF RequestBacked, Backed, HistoryGrows
  <2> QED BY <2>1, <2>3
<1>3. Fares'
  <2> SUFFICES ASSUME NEW o \in Internal \ PayOnDelivery
               PROVE  /\ "picked_up" \in reached'[o] => charged'[o]
                      /\ order'[o].pay = "car_pickup_paid" => charged'[o]
                      /\ \A h \in Handlers : Loads(handler'[h], o) => charged'[o]
    BY DEF Fares, Loads
  <2>0. o \in Orders
    BY SourcesAssumption
  <2>1. charged[o] => charged'[o]
    BY <2>0 DEF HistoryGrows
  <2>2. "picked_up" \in reached'[o] => charged'[o]
    BY <2>1 DEF FaresOK, IInv, Fares
  <2>3. order'[o].pay = "car_pickup_paid" => charged'[o]
    BY <2>1 DEF FaresOK, IInv, Fares
  <2>4. ASSUME NEW h \in Handlers, Loads(handler'[h], o)
        PROVE  charged'[o]
    <3>1. CASE handler'[h] = handler[h]
      BY <3>1, <2>4, <2>1 DEF IInv, Fares
    <3>2. CASE handler'[h] # handler[h]
      BY <3>2, <2>4 DEF RequestsOK
    <3> QED BY <3>1, <3>2
  <2> QED BY <2>2, <2>3, <2>4
<1> QED BY <1>1, <1>2, <1>3 DEF IInv

-----------------------------------------------------------------------------
(* The kinds of step. *)

\* The request slot h is left alone, freed, or kept by a request that will
\* not write a status.
HandlerQuiet(h) ==
  \/ UNCHANGED handler
  \/ Done(h)
  \/ \E o \in Orders : Keep(h, "findTrip", o, NoOne, NoOne, NoOne)
  \/ \E o \in Orders, t \in Trips, s \in {"count", "complete"} : Keep(h, s, o, t, NoOne, NoOne)

LEMMA QuietRequests ==
  ASSUME IInv, NEW h \in Handlers, HandlerQuiet(h)
  PROVE  handler' \in [Handlers -> Request] /\ RequestsOK
<1>1. handler \in [Handlers -> Request]
  BY DEF IInv, TypeOK
<1>2. CASE UNCHANGED handler
  BY <1>1, <1>2 DEF RequestsOK
<1>3. CASE Done(h)
  BY <1>1, <1>3 DEF Done, Idle, Request, Steps, RequestsOK, RequestOK, RequestBacked, Loads
<1>4. CASE \E o \in Orders : Keep(h, "findTrip", o, NoOne, NoOne, NoOne)
  BY <1>1, <1>4 DEF Keep, Request, Steps, RequestsOK, RequestOK, RequestBacked, Loads
<1>5. CASE \E o \in Orders, t \in Trips, s \in {"count", "complete"} : Keep(h, s, o, t, NoOne, NoOne)
  BY <1>1, <1>5 DEF Keep, Request, Steps, RequestsOK, RequestOK, RequestBacked, Loads
<1> QED BY <1>2, <1>3, <1>4, <1>5 DEF HandlerQuiet

\* A read keeps a request whose value is backed.
LEMMA ReadStep ==
  ASSUME IInv, NEW h \in Handlers,
         NEW s \in Steps, NEW o \in Orders \cup {NoOne}, NEW t \in Trips \cup {NoOne},
         NEW f \in Trips \cup {NoOne}, NEW v \in Statuses \cup {NoOne},
         Read(h, s, o, t, f, v),
         RequestOK([step |-> s, order |-> o, trip |-> t, from |-> f, value |-> v]),
         s \in {"status", "charge", "sign"} => Backed(o, v),
         s = "sign" /\ v = "picked_up" /\ o \in Internal \ PayOnDelivery => charged[o]
  PROVE  IInv'
<1> DEFINE r == [step |-> s, order |-> o, trip |-> t, from |-> f, value |-> v]
<1>1. handler' = [handler EXCEPT ![h] = r] /\ UNCHANGED <<order, trip, link, reached, charged>>
  BY DEF Read, Keep, tables, history
<1>2. TypeOK
  BY DEF IInv
<1>3. r \in Request
  BY DEF Request
<1>4. TypeOK'
  BY <1>1, <1>2, <1>3 DEF TypeOK
<1>5. HistoryGrows /\ StatusesOK /\ FaresOK
  BY <1>1, <1>2 DEF HistoryGrows, StatusesOK, FaresOK, TypeOK
<1>6. RequestBacked(r) /\ (\A p \in Internal \ PayOnDelivery : Loads(r, p) => charged'[p])
  BY <1>1 DEF RequestBacked, Loads
<1>7. RequestsOK
  BY <1>1, <1>2, <1>6 DEF RequestsOK, TypeOK
<1> QED BY <1>4, <1>5, <1>7, GoodStep

\* Only trips, links and the request change.
LEMMA TripStep ==
  ASSUME IInv, NEW h \in Handlers, UNCHANGED <<order, history>>,
         trip' \in [Trips -> TripRow],
         link' \in [Orders -> [Trips -> LinkStatuses]],
         HandlerQuiet(h)
  PROVE  IInv'
<1>1. UNCHANGED <<order, reached, charged>>
  BY DEF history
<1>2. handler' \in [Handlers -> Request] /\ RequestsOK
  BY QuietRequests
<1>3. TypeOK' /\ HistoryGrows /\ StatusesOK /\ FaresOK
  BY <1>1, <1>2 DEF IInv, TypeOK, HistoryGrows, StatusesOK, FaresOK
<1> QED BY <1>2, <1>3, GoodStep

\* An order's row is written, with a status that its history backs.
LEMMA OrderStep ==
  ASSUME IInv, NEW h \in Handlers, NEW o \in Orders, NEW row \in OrderRow,
         SetOrder(o, row), UNCHANGED charged,
         trip' \in [Trips -> TripRow],
         link' \in [Orders -> [Trips -> LinkStatuses]],
         HandlerQuiet(h),
         Backed(o, row.status),
         row.status = "picked_up" /\ o \in Internal \ PayOnDelivery => charged[o],
         row.pay = "car_pickup_paid" => order[o].pay = "car_pickup_paid"
  PROVE  IInv'
<1>1. /\ order' = [order EXCEPT ![o] = row]
      /\ reached' = [reached EXCEPT ![o] = @ \cup ({row.status} \cap Milestones)]
  BY DEF SetOrder
<1>2. TypeOK
  BY DEF IInv
<1>3. handler' \in [Handlers -> Request] /\ RequestsOK
  BY QuietRequests
<1>4. TypeOK'
  BY <1>1, <1>2, <1>3 DEF TypeOK
<1>5. HistoryGrows
  BY <1>1, <1>2, <1>4 DEF HistoryGrows, TypeOK
<1>6. StatusesOK
  BY <1>1, <1>2 DEF StatusesOK, TypeOK
<1>7. FaresOK
  BY <1>1, <1>2, SourcesAssumption DEF FaresOK, TypeOK
<1> QED BY <1>3, <1>4, <1>5, <1>6, <1>7, GoodStep

\* An order's row is written, its status is not.
LEMMA FieldStep ==
  ASSUME IInv, NEW h \in Handlers, NEW o \in Orders, NEW row \in OrderRow,
         order' = [order EXCEPT ![o] = row], UNCHANGED <<trip, history>>,
         link' \in [Orders -> [Trips -> LinkStatuses]],
         HandlerQuiet(h),
         row.status = order[o].status,
         row.pay = "car_pickup_paid" => order[o].pay = "car_pickup_paid"
  PROVE  IInv'
<1>1. TypeOK /\ UNCHANGED <<reached, charged, trip>>
  BY DEF IInv, history
<1>2. handler' \in [Handlers -> Request] /\ RequestsOK
  BY QuietRequests
<1>3. TypeOK'
  BY <1>1, <1>2 DEF TypeOK
<1>4. HistoryGrows
  BY <1>1 DEF HistoryGrows, TypeOK
<1>5. StatusesOK /\ FaresOK
  BY <1>1, SourcesAssumption DEF StatusesOK, FaresOK, TypeOK
<1> QED BY <1>2, <1>3, <1>4, <1>5, GoodStep

-----------------------------------------------------------------------------
(* The actions, group by group. *)

\* The rows of the tables have the fields of their types.
LEMMA Rows ==
  ASSUME TypeOK
  PROVE  /\ \A o \in Orders : /\ order[o] \in OrderRow
                               /\ order[o].status \in Statuses
                               /\ order[o].company \in Companies \cup {NoOne}
                               /\ order[o].pay \in ClientPayment
         /\ \A t \in Trips : trip[t] \in TripRow
         /\ \A h \in Handlers : handler[h] \in Request
         /\ trip \in [Trips -> TripRow]
         /\ link \in [Orders -> [Trips -> LinkStatuses]]
BY DEF TypeOK, OrderRow, TripRow, Request

LEMMA BookingStep ==
  ASSUME IInv, NEW h \in Handlers, Booking(h)
  PROVE  IInv'
<1>1. TypeOK /\ OrdersBacked
  BY DEF IInv
<1>2. PICK o \in Orders :
        \/ CreateNew(h, o) \/ CreatePublished(h, o)
        \/ \E c \in Companies, t \in Trips \cup {NoOne} : CreateDispatched(h, o, c, t)
        \/ \E c \in Companies : Accept(h, o, c) \/ AcceptInvite(h, o, c)
        \/ ServiceFeeFailed(h, o)
        \/ \E p \in BOOLEAN : Publish(h, o, p)
        \/ Delete(h, o) \/ Archive(h, o) \/ AdminArchive(h, o)
  BY DEF Booking
<1> DEFINE Free(s) == Backed(o, s) /\ s # "picked_up"
<1>3. /\ Free("new") /\ Free("published") /\ Free("dispatched")
      /\ Free("deleted") /\ Free("archived")
  BY DEF Backed, Started, PICKED_UP_ORDERS, DELIVERED_ORDERS
<1>4. NoOrder \in OrderRow /\ order[o] \in OrderRow
  BY <1>1, Rows DEF NoOrder, OrderRow, Statuses, ClientPayment
<1>5. CASE CreateNew(h, o)
  <2>1. [NoOrder EXCEPT !.status = "new"] \in OrderRow
    BY <1>4 DEF OrderRow, Statuses
  <2> QED BY <1>1, <1>3, <1>5, <2>1, OrderStep, Rows DEF CreateNew, HandlerQuiet, NoOrder
<1>6. CASE CreatePublished(h, o)
  <2>1. [NoOrder EXCEPT !.status = "published", !.published = TRUE] \in OrderRow
    BY <1>4 DEF OrderRow, Statuses
  <2> QED BY <1>1, <1>3, <1>6, <2>1, OrderStep, Rows DEF CreatePublished, HandlerQuiet, NoOrder
<1>7. ASSUME NEW c \in Companies, NEW t \in Trips \cup {NoOne}, CreateDispatched(h, o, c, t)
      PROVE  IInv'
  <2>1. [NoOrder EXCEPT !.status = "dispatched", !.published = TRUE, !.company = c] \in OrderRow
    BY <1>4 DEF OrderRow, Statuses
  <2>2. link' \in [Orders -> [Trips -> LinkStatuses]]
    BY <1>1, <1>7, Rows DEF CreateDispatched, LinkStatuses
  <2> QED BY <1>1, <1>3, <1>7, <2>1, <2>2, OrderStep, Rows DEF CreateDispatched, HandlerQuiet, NoOrder
<1>8. ASSUME NEW c \in Companies, Accept(h, o, c)
      PROVE  IInv'
  <2> DEFINE row == [order[o] EXCEPT !.status = "dispatched", !.company = c, !.pay = "other"]
  <2>1. row \in OrderRow /\ row.status = "dispatched" /\ row.pay = "other"
    BY <1>4 DEF OrderRow, Statuses, ClientPayment
  <2>2. SetOrder(o, row) /\ UNCHANGED <<trip, link, handler, charged>>
    BY <1>8 DEF Accept
  <2> HIDE DEF row
  <2> QED BY <1>1, <1>3, <2>1, <2>2, OrderStep, Rows DEF HandlerQuiet
<1>9. ASSUME NEW c \in Companies, AcceptInvite(h, o, c)
      PROVE  IInv'
  <2> DEFINE row == [order[o] EXCEPT !.status = "dispatched", !.company = c,
                                     !.published = TRUE, !.pay = "other"]
  <2>1. row \in OrderRow /\ row.status = "dispatched" /\ row.pay = "other"
    BY <1>4 DEF OrderRow, Statuses, ClientPayment
  <2>2. SetOrder(o, row) /\ UNCHANGED <<trip, link, handler, charged>>
    BY <1>9 DEF AcceptInvite
  <2> HIDE DEF row
  <2> QED BY <1>1, <1>3, <2>1, <2>2, OrderStep, Rows DEF HandlerQuiet
<1>10. CASE ServiceFeeFailed(h, o)
  <2> DEFINE row == [order[o] EXCEPT !.pay = "other"]
  <2>1. row \in OrderRow /\ row.status = order[o].status /\ row.pay = "other"
    BY <1>4 DEF OrderRow, ClientPayment
  <2>2. order' = [order EXCEPT ![o] = row]
    BY <1>10 DEF ServiceFeeFailed
  <2> HIDE DEF row
  <2> QED BY <1>1, <1>10, <2>1, <2>2, FieldStep, Rows DEF ServiceFeeFailed, HandlerQuiet
<1>11. ASSUME NEW p \in BOOLEAN, Publish(h, o, p)
       PROVE  IInv'
  <2> DEFINE row == [order[o] EXCEPT !.published = p]
  <2>1. row \in OrderRow /\ row.status = order[o].status /\ row.pay = order[o].pay
    BY <1>4 DEF OrderRow
  <2>2. order' = [order EXCEPT ![o] = row]
    BY <1>11 DEF Publish
  <2> HIDE DEF row
  <2> QED BY <1>1, <1>11, <2>1, <2>2, FieldStep, Rows DEF Publish, HandlerQuiet
<1>12. CASE Delete(h, o)
  <2> DEFINE row == [order[o] EXCEPT !.status = "deleted", !.published = FALSE]
  <2>1. row \in OrderRow /\ row.status = "deleted" /\ row.pay = order[o].pay
    BY <1>4 DEF OrderRow, Statuses
  <2>2. SetOrder(o, row) /\ UNCHANGED <<trip, link, handler, charged>>
    BY <1>12 DEF Delete
  <2> HIDE DEF row
  <2> QED BY <1>1, <1>3, <2>1, <2>2, OrderStep, Rows DEF HandlerQuiet
<1>13. CASE Archive(h, o)
  <2> DEFINE row == [order[o] EXCEPT !.status = "archived", !.hidden = TRUE]
  <2>1. row \in OrderRow /\ row.status = "archived" /\ row.pay = order[o].pay
    BY <1>4 DEF OrderRow, Statuses
  <2>2. SetOrder(o, row) /\ UNCHANGED <<trip, link, handler, charged>>
    BY <1>13 DEF Archive
  <2> HIDE DEF row
  <2> QED BY <1>1, <1>3, <2>1, <2>2, OrderStep, Rows DEF HandlerQuiet
<1>14. CASE AdminArchive(h, o)
  <2> DEFINE row == [order[o] EXCEPT !.status = "archived"]
  <2>1. row \in OrderRow /\ row.status = "archived" /\ row.pay = order[o].pay
    BY <1>4 DEF OrderRow, Statuses
  <2>2. SetOrder(o, row) /\ UNCHANGED <<trip, link, handler, charged>>
    BY <1>14 DEF AdminArchive, SetStatus
  <2> HIDE DEF row
  <2> QED BY <1>1, <1>3, <2>1, <2>2, OrderStep, Rows DEF HandlerQuiet
<1> QED BY <1>2, <1>5, <1>6, <1>7, <1>8, <1>9, <1>10, <1>11, <1>12, <1>13, <1>14

\* The update of a status alone.
LEMMA StatusStep ==
  ASSUME IInv, NEW h \in Handlers, NEW o \in Orders, NEW s \in Statuses,
         SetStatus(o, s), UNCHANGED charged,
         trip' \in [Trips -> TripRow],
         link' \in [Orders -> [Trips -> LinkStatuses]],
         HandlerQuiet(h), Backed(o, s),
         s = "picked_up" /\ o \in Internal \ PayOnDelivery => charged[o]
  PROVE  IInv'
<1> DEFINE row == [order[o] EXCEPT !.status = s]
<1>1. row \in OrderRow /\ row.status = s /\ row.pay = order[o].pay
  BY Rows DEF IInv, OrderRow
<1>2. SetOrder(o, row)
  BY DEF SetStatus
<1> HIDE DEF row
<1> QED BY <1>1, <1>2, OrderStep

LEMMA ReleasingStep ==
  ASSUME IInv, NEW h \in Handlers, Releasing(h)
  PROVE  IInv'
<1>1. TypeOK /\ RequestOK(handler[h])
  BY DEF IInv, RequestsBacked
<1>2. handler[h] \in Request
  BY <1>1, Rows
<1>3. \A o \in Orders : Backed(o, "canceled") /\ Backed(o, "declined") /\ Backed(o, "published")
  BY DEF Backed, Started, PICKED_UP_ORDERS, DELIVERED_ORDERS
<1>4. ASSUME NEW o \in Orders, NEW a \in Companies \cup {NoOne}, NEW t \in Trips \cup {NoOne},
             CancelRead(h, o, a, t)
      PROVE  IInv'
  <2>1. PICK f \in {t, NoOne} : Read(h, "cancel", o, NoOne, f, NoOne)
    BY <1>4 DEF CancelRead
  <2> QED BY <2>1, ReadStep DEF RequestOK, Steps
<1>5. ASSUME NEW o \in Orders, ClientCancelRead(h, o)
      PROVE  IInv'
  BY <1>3, <1>5, ReadStep DEF ClientCancelRead, RequestOK, Steps, Statuses
<1>6. ASSUME NEW o \in Orders, NEW t \in Trips, DeclineRead(h, o, t)
      PROVE  IInv'
  BY <1>3, <1>6, ReadStep DEF DeclineRead, RequestOK, Steps, Statuses
<1>7. ASSUME NEW o \in Orders, NEW t \in Trips \cup {NoOne}, DeleteOrderRead(h, o, t)
      PROVE  IInv'
  BY <1>7, ReadStep DEF DeleteOrderRead, RequestOK, Steps
<1>8. CASE CancelWrite(h)
  <2> DEFINE o == handler[h].order
             s == IF o \in Internal THEN "published" ELSE "canceled"
             row == [order[o] EXCEPT !.status = s, !.company = NoOne]
  <2>1. o \in Orders
    BY <1>1, <1>8 DEF CancelWrite, RequestOK
  <2>2. row \in OrderRow /\ row.status \in {"published", "canceled"} /\ row.pay = order[o].pay
    BY <1>1, <2>1, Rows DEF OrderRow, Statuses
  <2>3. SetOrder(o, row) /\ Done(h) /\ UNCHANGED <<trip, charged>>
    BY <1>8 DEF CancelWrite
  <2>4. link' \in [Orders -> [Trips -> LinkStatuses]]
    BY <1>1, <1>8, Rows DEF CancelWrite, Unlinked, LinkStatuses
  <2>5. Backed(o, row.status)
    BY <1>3, <2>1, <2>2
  <2> HIDE DEF row, o
  <2> QED BY <1>1, <2>1, <2>2, <2>3, <2>4, <2>5, OrderStep, Rows DEF HandlerQuiet
<1>9. CASE DeleteOrderWrite(h)
  <2> DEFINE o == handler[h].order
             row == [order[o] EXCEPT !.company = NoOne]
  <2>1. o \in Orders
    BY <1>1, <1>9 DEF DeleteOrderWrite, RequestOK
  <2>2. row \in OrderRow /\ row.status = order[o].status /\ row.pay = order[o].pay
    BY <1>1, <2>1, Rows DEF OrderRow
  <2>3. order' = [order EXCEPT ![o] = row] /\ Done(h) /\ UNCHANGED <<trip, history>>
    BY <1>9 DEF DeleteOrderWrite
  <2>4. link' \in [Orders -> [Trips -> LinkStatuses]]
    BY <1>1, <1>9, Rows DEF DeleteOrderWrite, Unlinked, LinkStatuses
  <2> HIDE DEF row, o
  <2> QED BY <2>1, <2>2, <2>3, <2>4, FieldStep DEF HandlerQuiet
<1> QED BY <1>4, <1>5, <1>6, <1>7, <1>8, <1>9 DEF Releasing

\* What trips and links become in the actions of Planning and Completing.
LEMMA TripWrites ==
  ASSUME TypeOK, NEW t \in Trips, NEW s \in TripStatuses, NEW l \in LinkStatuses
  PROVE  /\ SetTripStatus(t, s) => trip' \in [Trips -> TripRow]
         /\ LinksTo(t, l) \in [Orders -> [Trips -> LinkStatuses]]
<1>1. trip \in [Trips -> TripRow] /\ link \in [Orders -> [Trips -> LinkStatuses]]
  BY DEF TypeOK
<1>2. SetTripStatus(t, s) => trip' \in [Trips -> TripRow]
  BY <1>1 DEF SetTripStatus, TripRow
<1>3. LinksTo(t, l) \in [Orders -> [Trips -> LinkStatuses]]
  BY <1>1 DEF LinksTo
<1> QED BY <1>2, <1>3

LEMMA PlanningStep ==
  ASSUME IInv, NEW h \in Handlers, Planning(h)
  PROVE  IInv'
<1>1. TypeOK /\ RequestOK(handler[h])
  BY DEF IInv, RequestsBacked
<1>2. /\ trip \in [Trips -> TripRow]
      /\ link \in [Orders -> [Trips -> LinkStatuses]]
      /\ handler[h] \in Request
  BY <1>1, Rows
<1>3. ASSUME NEW t \in Trips, NEW d \in Drivers \cup {NoOne}, NEW S \in SUBSET Orders,
             TripCreate(h, t, d, S)
      PROVE  IInv'
  <2>1. trip' \in [Trips -> TripRow]
    BY <1>2, <1>3 DEF TripCreate, TripRow, TripStatuses
  <2>2. link' \in [Orders -> [Trips -> LinkStatuses]]
    BY <1>2, <1>3 DEF TripCreate, LinkStatuses
  <2> QED BY <1>3, <2>1, <2>2, TripStep DEF TripCreate, HandlerQuiet
<1>4. ASSUME NEW t \in Trips, NEW S \in SUBSET Orders, TripPatch(h, t, S)
      PROVE  IInv'
  <2>1. link' \in [Orders -> [Trips -> LinkStatuses]]
    BY <1>2, <1>4 DEF TripPatch, LinkStatuses
  <2> QED BY <1>2, <1>4, <2>1, TripStep DEF TripPatch, HandlerQuiet
<1>5. ASSUME NEW t \in Trips, NEW d \in Drivers \cup {NoOne}, AssignDriver(h, t, d)
      PROVE  IInv'
  <2>1. trip' \in [Trips -> TripRow]
    BY <1>2, <1>5 DEF AssignDriver, TripRow
  <2> QED BY <1>2, <1>5, <2>1, TripStep DEF AssignDriver, HandlerQuiet
<1>6. ASSUME NEW t \in Trips, MoveToDraft(h, t)
      PROVE  IInv'
  BY <1>1, <1>2, <1>6, TripWrites, TripStep
     DEF MoveToDraft, HandlerQuiet, TripStatuses, LinkStatuses
<1>7. ASSUME NEW t \in Trips, TripPublishRead(h, t)
      PROVE  IInv'
  BY <1>7, ReadStep DEF TripPublishRead, RequestOK, Steps
<1>8. ASSUME NEW t \in Trips, TripStartRead(h, t)
      PROVE  IInv'
  BY <1>8, ReadStep DEF TripStartRead, RequestOK, Steps
<1>9. ASSUME NEW t \in Trips, TripDeleteRead(h, t)
      PROVE  IInv'
  BY <1>9, ReadStep DEF TripDeleteRead, RequestOK, Steps
<1>10. ASSUME NEW t \in Trips, NEW o \in Orders, DeleteFromTrip(h, o, t)
       PROVE  IInv'
  <2>1. link' \in [Orders -> [Trips -> LinkStatuses]]
    BY <1>2, <1>10 DEF DeleteFromTrip, Unlinked, LinkStatuses
  <2> QED BY <1>2, <1>10, <2>1, TripStep DEF DeleteFromTrip, HandlerQuiet
<1>11. ASSUME NEW t \in Trips, NEW o \in Orders, NEW f \in Trips \cup {NoOne},
              AssignRead(h, o, t, f)
       PROVE  IInv'
  <2>1. PICK v \in {"dispatched", NoOne} : Read(h, "assign", o, t, f, v)
    BY <1>11 DEF AssignRead
  <2> QED BY <2>1, ReadStep DEF RequestOK, Steps, Statuses
<1>12. CASE TripPublishWrite(h)
  <2>1. handler[h].trip \in Trips
    BY <1>1, <1>12 DEF TripPublishWrite, RequestOK
  <2> QED BY <1>1, <1>12, <2>1, TripWrites, TripStep
             DEF TripPublishWrite, HandlerQuiet, TripStatuses, LinkStatuses
<1>13. CASE TripStartWrite(h)
  <2>1. handler[h].trip \in Trips
    BY <1>1, <1>13 DEF TripStartWrite, RequestOK
  <2> QED BY <1>1, <1>13, <2>1, TripWrites, TripStep
             DEF TripStartWrite, HandlerQuiet, TripStatuses, LinkStatuses
<1>14. CASE TripDeleteWrite(h)
  <2>1. trip' \in [Trips -> TripRow]
    BY <1>2, <1>14 DEF TripDeleteWrite, TripRow, TripStatuses
  <2>2. link' \in [Orders -> [Trips -> LinkStatuses]]
    BY <1>2, <1>14 DEF TripDeleteWrite, LinkStatuses
  <2> QED BY <1>14, <2>1, <2>2, TripStep DEF TripDeleteWrite, HandlerQuiet
<1>15. CASE AssignWrite(h)
  <2> DEFINE o == handler[h].order
  <2>1. o \in Orders /\ handler[h].value \in {"dispatched", NoOne}
    BY <1>1, <1>15 DEF AssignWrite, RequestOK
  <2>2. link' \in [Orders -> [Trips -> LinkStatuses]]
    <3> DEFINE f == handler[h].from
    <3>1. f \in Trips \cup {NoOne}
      BY <1>2 DEF Request
    <3>2. CASE f = NoOne \/ link[o][f] = "none"
      BY <1>2, <1>15, <3>2 DEF AssignWrite, LinkStatuses
    <3>3. CASE f \in Trips /\ f # NoOne /\ link[o][f] # "none"
      <4>1. link[o][f] \in LinkStatuses
        BY <1>2, <2>1, <3>3
      <4>2. link' = [Unlinked(o, f) EXCEPT ![o][handler[h].trip] = link[o][f]]
        BY <1>15, <3>3 DEF AssignWrite
      <4>3. Unlinked(o, f) \in [Orders -> [Trips -> LinkStatuses]]
        BY <1>2 DEF Unlinked, LinkStatuses
      <4> QED BY <4>1, <4>2, <4>3
    <3> QED BY <3>1, <3>2, <3>3
  <2>3. Done(h) /\ UNCHANGED <<trip, charged>>
    BY <1>15 DEF AssignWrite
  <2>4. CASE handler[h].value = NoOne
    <3>1. UNCHANGED <<order, history>>
      BY <1>15, <2>4 DEF AssignWrite, history
    <3> QED BY <1>2, <2>2, <2>3, <3>1, TripStep DEF HandlerQuiet
  <2>5. CASE handler[h].value = "dispatched"
    <3>1. SetStatus(o, "dispatched")
      BY <1>15, <2>5, NoOneAssumption DEF AssignWrite, Statuses
    <3>2. Backed(o, "dispatched") /\ "dispatched" \in Statuses
      BY DEF Backed, Started, PICKED_UP_ORDERS, DELIVERED_ORDERS, Statuses
    <3> HIDE DEF o
    <3> QED BY <1>2, <2>1, <2>2, <2>3, <3>1, <3>2, StatusStep DEF HandlerQuiet
  <2> QED BY <2>1, <2>4, <2>5
<1> QED BY <1>3, <1>4, <1>5, <1>6, <1>7, <1>8, <1>9, <1>10, <1>11, <1>12,
           <1>13, <1>14, <1>15 DEF Planning

LEMMA DrivingStep ==
  ASSUME IInv, NEW h \in Handlers, Driving(h)
  PROVE  IInv'
<1>1. TypeOK /\ OrdersBacked /\ RequestOK(handler[h])
  BY DEF IInv, RequestsBacked
<1>2. \A o \in Orders :
        /\ Backed(o, "on_pickup") /\ Backed(o, "on_way_to_pickup")
        /\ order[o].status \in Started \cup {"on_pickup"} =>
             \A s \in PICKED_UP_ORDERS \cup {"signature_requested"} : Backed(o, s)
  BY <1>1 DEF OrdersBacked, Backed, Started, Milestones, PICKED_UP_ORDERS, DELIVERED_ORDERS
<1>3. ASSUME NEW o \in Orders, NEW t \in Trips, DriverToPickupRead(h, o, t)
      PROVE  IInv'
  BY <1>3, ReadStep DEF DriverToPickupRead, RequestOK, Steps
<1>4. ASSUME NEW o \in Orders, NEW d \in Drivers, ToPickupRead(h, o, d)
      PROVE  IInv'
  BY <1>2, <1>4, ReadStep DEF ToPickupRead, DriverAction, RequestOK, Steps, Statuses
<1>5. ASSUME NEW o \in Orders, NEW d \in Drivers, ToDeliveryRead(h, o, d)
      PROVE  IInv'
  <2>1. Read(h, "status", o, NoOne, NoOne, "on_way_to_delivery") /\ order[o].status = "picked_up"
    BY <1>5 DEF ToDeliveryRead, DriverAction
  <2>2. Backed(o, "on_way_to_delivery")
    BY <1>2, <2>1 DEF PICKED_UP_ORDERS, Started
  <2> QED BY <2>1, <2>2, ReadStep DEF RequestOK, Steps, Statuses
<1>6. ASSUME NEW o \in Orders, NEW d \in Drivers, OnDeliveryRead(h, o, d)
      PROVE  IInv'
  <2>1. Read(h, "status", o, NoOne, NoOne, "on_delivery") /\ order[o].status = "on_way_to_delivery"
    BY <1>6 DEF OnDeliveryRead, DriverAction
  <2>2. Backed(o, "on_delivery")
    BY <1>2, <2>1 DEF PICKED_UP_ORDERS, Started
  <2> QED BY <2>1, <2>2, ReadStep DEF RequestOK, Steps, Statuses
<1>7. ASSUME NEW o \in Orders, NearPickupRead(h, o)
      PROVE  IInv'
  BY <1>2, <1>7, ReadStep DEF NearPickupRead, RequestOK, Steps, Statuses
<1>8. ASSUME NEW o \in Orders, NearDeliveryRead(h, o)
      PROVE  IInv'
  <2>1. Backed(o, "on_delivery")
    BY <1>2, <1>8 DEF NearDeliveryRead, PICKED_UP_ORDERS, Started
  <2> QED BY <1>8, <2>1, ReadStep DEF NearDeliveryRead, RequestOK, Steps, Statuses
<1>9. ASSUME NEW o \in Orders, RequestSignatureRead(h, o)
      PROVE  IInv'
  <2>1. Backed(o, "signature_requested")
    BY <1>2, <1>9 DEF RequestSignatureRead, PICKED_UP_ORDERS, Started
  <2> QED BY <1>9, <2>1, ReadStep DEF RequestSignatureRead, RequestOK, Steps, Statuses
<1>10. ASSUME NEW o \in Orders, DeliveryInspectionRead(h, o)
       PROVE  IInv'
  <2>1. Backed(o, "signature_requested")
    BY <1>2, <1>10 DEF DeliveryInspectionRead, PICKED_UP_ORDERS, Started
  <2> QED BY <1>10, <2>1, ReadStep DEF DeliveryInspectionRead, RequestOK, Steps, Statuses
<1>11. CASE DriverToPickupWrite(h)
  <2> DEFINE o == handler[h].order
  <2>1. o \in Orders /\ handler[h].trip \in Trips
    BY <1>1, <1>11 DEF DriverToPickupWrite, RequestOK
  <2>2. trip' \in [Trips -> TripRow]
    BY <1>1, <1>11, <2>1, TripWrites DEF DriverToPickupWrite, TripStatuses, LinkStatuses
  <2>3. SetStatus(o, "on_way_to_pickup") /\ Done(h) /\ UNCHANGED <<link, charged>>
    BY <1>11 DEF DriverToPickupWrite
  <2> HIDE DEF o
  <2> QED BY <1>1, <1>2, <2>1, <2>2, <2>3, Rows, StatusStep DEF HandlerQuiet, Statuses
<1> QED BY <1>3, <1>4, <1>5, <1>6, <1>7, <1>8, <1>9, <1>10, <1>11 DEF Driving

LEMMA SigningStep ==
  ASSUME IInv, NEW h \in Handlers, Signing(h)
  PROVE  IInv'
<1>1. TypeOK /\ OrdersBacked /\ Fares /\ RequestOK(handler[h]) /\ RequestBacked(handler[h])
  BY DEF IInv, RequestsBacked
<1>2. \A o \in Orders : order[o].status \in {"signature_requested", "on_pickup"} =>
        Backed(o, "picked_up") /\ Backed(o, "delivered")
  BY <1>1 DEF OrdersBacked, Backed, Started, Milestones, PICKED_UP_ORDERS, DELIVERED_ORDERS
<1>3. ASSUME NEW o \in Orders, NEW type \in {"pickup", "delivery"},
             order[o].status \in {"signature_requested", "on_pickup"}, SignRead(h, o, type)
      PROVE  IInv'
  <2> DEFINE next == NextStatus(type)
             s == IF MustCharge(o, next) THEN "charge" ELSE "sign"
  <2>1. next \in {"picked_up", "delivered"} /\ s \in {"charge", "sign"}
    BY DEF NextStatus
  <2>2. Read(h, s, o, NoOne, NoOne, next)
    BY <1>3 DEF SignRead
  <2>3. Backed(o, next)
    BY <1>2, <1>3, <2>1
  <2>4. s = "sign" /\ next = "picked_up" /\ o \in Internal \ PayOnDelivery => charged[o]
    BY <1>1 DEF MustCharge, Fares
  <2>5. next \in Statuses /\ s \in Steps
    BY <2>1 DEF Statuses, Steps
  <2>6. RequestOK([step |-> s, order |-> o, trip |-> NoOne, from |-> NoOne, value |-> next])
    BY <2>1, <2>5 DEF RequestOK
  <2> HIDE DEF next, s
  <2> QED BY <2>2, <2>3, <2>4, <2>5, <2>6, ReadStep
<1>4. ASSUME NEW o \in Orders, NEW type \in {"pickup", "delivery"}, ClientSignRead(h, o, type)
      PROVE  IInv'
  BY <1>3, <1>4 DEF ClientSignRead
<1>5. ASSUME NEW o \in Orders, NEW type \in {"pickup", "delivery"}, DriverSignRead(h, o, type)
      PROVE  IInv'
  BY <1>3, <1>5 DEF DriverSignRead
<1>6. ASSUME NEW o \in Orders, RetryChargeRead(h, o)
      PROVE  IInv'
  <2>1. Backed(o, NoOne)
    BY NoOneAssumption DEF Backed, Started, PICKED_UP_ORDERS, DELIVERED_ORDERS, Statuses
  <2> QED BY <1>6, <2>1, ReadStep DEF RetryChargeRead, RequestOK, Steps
<1>7. CASE ChargeOrder(h)
  <2> DEFINE o == handler[h].order
             v == handler[h].value
             row == [order[o] EXCEPT !.pay = "car_pickup_paid"]
  <2>1. o \in Orders /\ v \in Statuses \cup {NoOne} /\ handler[h].step = "charge"
    BY <1>1, <1>7, Rows DEF ChargeOrder, RequestOK, Request
  <2>2. row \in OrderRow /\ row.status = order[o].status
    BY <1>1, <2>1, Rows DEF OrderRow, ClientPayment
  <2>3. /\ order' = [order EXCEPT ![o] = row]
        /\ charged' = [charged EXCEPT ![o] = TRUE]
        /\ UNCHANGED <<trip, link, reached>>
    BY <1>7 DEF ChargeOrder
  <2>4. Done(h) \/ (v # NoOne /\ Keep(h, "sign", o, NoOne, NoOne, v))
    BY <1>7 DEF ChargeOrder
  <2>5. Backed(o, v)
    BY <1>1, <2>1 DEF RequestBacked
  <2> HIDE DEF row, o, v
  <2>6. handler' \in [Handlers -> Request]
    BY <1>1, <2>1, <2>4 DEF TypeOK, Done, Idle, Keep, Request, Steps
  <2>7. TypeOK'
    BY <1>1, <2>2, <2>3, <2>6 DEF TypeOK
  <2>8. HistoryGrows /\ StatusesOK
    BY <1>1, <2>1, <2>2, <2>3 DEF HistoryGrows, StatusesOK, TypeOK
  <2>9. RequestsOK
    <3>1. CASE Done(h)
      BY <1>1, <3>1, QuietRequests DEF HandlerQuiet
    <3>2. CASE v # NoOne /\ Keep(h, "sign", o, NoOne, NoOne, v)
      BY <1>1, <2>1, <2>3, <2>5, <3>2, SourcesAssumption
         DEF TypeOK, Keep, RequestsOK, RequestOK, RequestBacked, Loads
    <3> QED BY <2>4, <3>1, <3>2
  <2>10. FaresOK
    BY <1>1, <2>1, <2>2, <2>3, SourcesAssumption DEF FaresOK, TypeOK
  <2> QED BY <2>7, <2>8, <2>9, <2>10, GoodStep
<1>8. CASE ChargeOrderFails(h)
  <2> DEFINE o == handler[h].order
             row == [order[o] EXCEPT !.pay = "car_pickup_failed"]
  <2>1. o \in Orders
    BY <1>1, <1>8 DEF ChargeOrderFails, RequestOK
  <2>2. row \in OrderRow /\ row.status = order[o].status /\ row.pay = "car_pickup_failed"
    BY <1>1, <2>1, Rows DEF OrderRow, ClientPayment
  <2>3. order' = [order EXCEPT ![o] = row] /\ Done(h) /\ UNCHANGED <<trip, link, history>>
    BY <1>8 DEF ChargeOrderFails
  <2> HIDE DEF row, o
  <2> QED BY <1>1, <2>1, <2>2, <2>3, FieldStep, Rows DEF HandlerQuiet
<1>9. CASE SignWrite(h)
  <2> DEFINE o == handler[h].order
             v == handler[h].value
  <2>1. o \in Orders /\ v \in Statuses /\ handler[h].step = "sign"
    BY <1>1, <1>9 DEF SignWrite, RequestOK
  <2>2. SetStatus(o, v) /\ UNCHANGED <<trip, link, charged>>
    BY <1>9 DEF SignWrite
  <2>3. Backed(o, v)
    BY <1>1, <2>1 DEF RequestBacked
  <2>4. HandlerQuiet(h)
    BY <1>9, <2>1 DEF SignWrite, HandlerQuiet
  <2>5. v = "picked_up" /\ o \in Internal \ PayOnDelivery => charged[o]
    BY <1>1, <2>1 DEF Fares, Loads
  <2> HIDE DEF o, v
  <2> QED BY <1>1, <2>1, <2>2, <2>3, <2>4, <2>5, StatusStep, Rows
<1> QED BY <1>4, <1>5, <1>6, <1>7, <1>8, <1>9 DEF Signing

LEMMA CompletingStep ==
  ASSUME IInv, NEW h \in Handlers, Completing(h)
  PROVE  IInv'
<1>1. TypeOK /\ RequestOK(handler[h])
  BY DEF IInv, RequestsBacked
<1>2. CASE FindTrip(h)
  <2>1. handler[h].order \in Orders
    BY <1>1, <1>2 DEF FindTrip, RequestOK
  <2>2. HandlerQuiet(h) /\ UNCHANGED <<tables, history>>
    BY <1>2, <2>1 DEF FindTrip, Read, HandlerQuiet, ActiveTrips, TripsOf
  <2> QED BY <1>1, <2>2, Rows, TripStep DEF tables
<1>3. CASE CountUndelivered(h)
  <2>1. handler[h].order \in Orders /\ handler[h].trip \in Trips
    BY <1>1, <1>3 DEF CountUndelivered, RequestOK
  <2>2. HandlerQuiet(h) /\ UNCHANGED <<tables, history>>
    BY <1>3, <2>1 DEF CountUndelivered, HandlerQuiet
  <2> QED BY <1>1, <2>2, Rows, TripStep DEF tables
<1>4. CASE CompleteTrip(h)
  <2>1. handler[h].trip \in Trips
    BY <1>1, <1>4 DEF CompleteTrip, RequestOK
  <2>2. trip' \in [Trips -> TripRow]
    BY <1>1, <1>4, <2>1, TripWrites DEF CompleteTrip, TripStatuses, LinkStatuses
  <2> QED BY <1>1, <1>4, <2>2, Rows, TripStep DEF CompleteTrip, HandlerQuiet
<1> QED BY <1>2, <1>3, <1>4 DEF Completing

LEMMA BillingStep ==
  ASSUME IInv, NEW h \in Handlers, Billing(h)
  PROVE  IInv'
<1>1. TypeOK /\ OrdersBacked
  BY DEF IInv
<1>2. ASSUME NEW o \in Orders, SendInvoiceRead(h, o)
      PROVE  IInv'
  <2>1. Backed(o, "billed")
    BY <1>1, <1>2 DEF SendInvoiceRead, OrdersBacked, Backed, Started, Milestones, DELIVERED_ORDERS
  <2> QED BY <1>2, <2>1, ReadStep DEF SendInvoiceRead, RequestOK, Steps, Statuses
<1>3. ASSUME NEW o \in Orders, MarkPaidRead(h, o)
      PROVE  IInv'
  <2>1. Backed(o, "paid")
    BY <1>1, <1>3 DEF MarkPaidRead, OrdersBacked, Backed, Started, Milestones, DELIVERED_ORDERS
  <2> QED BY <1>3, <2>1, ReadStep DEF MarkPaidRead, RequestOK, Steps, Statuses
<1> QED BY <1>2, <1>3 DEF Billing

-----------------------------------------------------------------------------
LEMMA InitIInv == Init => IInv
<1> SUFFICES ASSUME Init PROVE IInv
  OBVIOUS
<1>1. TypeOK
  BY DEF Init, TypeOK, NoOrder, NoTrip, Idle, OrderRow, TripRow, Request, Steps,
         Statuses, TripStatuses, LinkStatuses, ClientPayment
<1>2. OrdersBacked
  BY DEF Init, OrdersBacked, Backed, Started, NoOrder, Milestones, PICKED_UP_ORDERS, DELIVERED_ORDERS
<1>3. RequestsBacked
  BY DEF Init, RequestsBacked, RequestOK, RequestBacked, Idle
<1>4. Fares
  BY SourcesAssumption DEF Init, Fares, Loads, NoOrder, Idle
<1> QED BY <1>1, <1>2, <1>3, <1>4 DEF IInv

LEMMA NextIInv == IInv /\ [Next]_vars => IInv'
<1> SUFFICES ASSUME IInv, [Next]_vars PROVE IInv'
  OBVIOUS
<1>1. CASE UNCHANGED vars
  <2>1. UNCHANGED <<order, trip, link, handler, reached, charged>>
    BY <1>1 DEF vars
  <2> QED BY <2>1 DEF IInv, TypeOK, OrdersBacked, RequestsBacked, Fares, Backed,
                     RequestOK, RequestBacked, Loads
<1>2. ASSUME NEW h \in Handlers, WriteStatus(h)
      PROVE  IInv'
  <2>1. /\ TypeOK /\ RequestOK(handler[h]) /\ RequestBacked(handler[h])
        /\ handler[h].step = "status"
    BY <1>2 DEF IInv, RequestsBacked, WriteStatus
  <2>2. /\ handler[h].order \in Orders /\ handler[h].value \in Statuses
        /\ handler[h].value # "picked_up" /\ Backed(handler[h].order, handler[h].value)
    BY <2>1 DEF RequestOK, RequestBacked
  <2> QED BY <1>2, <2>1, <2>2, Rows, StatusStep DEF WriteStatus, HandlerQuiet
<1>3. ASSUME NEW h \in Handlers, Abort(h)
      PROVE  IInv'
  BY <1>3, Rows, TripStep DEF IInv, Abort, HandlerQuiet, tables
<1> QED BY <1>1, <1>2, <1>3, BookingStep, ReleasingStep, PlanningStep, DrivingStep,
           SigningStep, CompletingStep, BillingStep DEF Next

\* The inductive invariant, whatever requests overlap.
THEOREM Invariance == Spec => []IInv
BY InitIInv, NextIInv, PTL DEF Spec

\* The tables, the locals of requests and the history keep their types.
THEOREM TypeCorrect == Spec => []TypeOK
<1>1. IInv => TypeOK
  BY DEF IInv
<1> QED BY <1>1, Invariance, PTL

\* Whatever requests run at the same time, an order is only as far along as
\* what has happened to it.
THEOREM MilestonesTheorem == Spec => []MilestonesInOrder
<1>1. IInv => MilestonesInOrder
  BY DEF IInv, OrdersBacked, Backed, Started, MilestonesInOrder, Milestones
<1> QED BY <1>1, Invariance, PTL

\* Whatever requests run at the same time, no client's order that is not
\* paid at delivery is picked up before a charge of its fare returned without
\* an error.
THEOREM PickupChargedTheorem == Spec => []PickupCharged
<1>1. IInv => PickupCharged
  BY DEF IInv, Fares, PickupCharged
<1> QED BY <1>1, Invariance, PTL

-----------------------------------------------------------------------------
(* One request at a time, and no driver is put on a trip that already      *)
(* runs: a driver has one active trip.                                     *)

OneAtATime == \A g, h \in Handlers : g = h

DriversOK ==
  \A t, u \in Trips :
    /\ trip[t].status = "active" /\ trip[u].status = "active"
    /\ trip[t].driver = trip[u].driver /\ trip[t].driver # NoOne
    => t = u

\* What a request found about the driver still stands when it commits.
StartsOK(r) ==
  /\ r.step = "start" => ActiveTripsOf(trip[r.trip].driver) = {}
  /\ r.step = "pickup" => /\ trip[r.trip].driver # NoOne
                          /\ ActiveTripsOf(trip[r.trip].driver) \subseteq {r.trip}

TripsOK == DriversOK /\ \A h \in Handlers : StartsOK(handler[h])

\* After the step, h is not about to make a trip active, and the step made none.
NoneStarts(h) ==
  /\ handler'[h].step \notin {"start", "pickup"}
  /\ \A t \in Trips : trip'[t].status = "active" =>
                      trip[t].status = "active" /\ trip'[t].driver = trip[t].driver

LEMMA NoneStartsStep ==
  ASSUME OneAtATime, TripsOK, NEW h \in Handlers, NoneStarts(h)
  PROVE  TripsOK'
<1>1. DriversOK'
  BY DEF TripsOK, DriversOK, NoneStarts
<1>2. ASSUME NEW g \in Handlers
      PROVE  StartsOK(handler[g])'
  <2>1. handler'[g].step \notin {"start", "pickup"}
    BY DEF OneAtATime, NoneStarts
  <2> QED BY <2>1 DEF StartsOK
<1> QED BY <1>1, <1>2 DEF TripsOK

\* A request that only reads, and is not about to start a trip.
LEMMA OtherRead ==
  ASSUME TypeOK, NEW h \in Handlers, NEW s \in Steps \ {"start", "pickup"},
         NEW o, NEW t, NEW f, NEW v, Read(h, s, o, t, f, v)
  PROVE  NoneStarts(h)
BY DEF TypeOK, Read, Keep, tables, NoneStarts

\* A request that leaves the trips alone, and is over or never had two steps.
LEMMA TripsKept ==
  ASSUME TypeOK, NEW h \in Handlers, UNCHANGED trip,
         Done(h) \/ (handler[h] = Idle /\ UNCHANGED handler)
  PROVE  NoneStarts(h)
BY DEF TypeOK, Done, Idle, NoneStarts

LEMMA BookingTrips ==
  ASSUME TypeOK, NEW h \in Handlers, Booking(h)
  PROVE  NoneStarts(h)
<1>1. handler[h] = Idle /\ UNCHANGED <<handler, trip>>
  BY DEF Booking, Called, CreateNew, CreatePublished, CreateDispatched, Accept, AcceptInvite,
         ServiceFeeFailed, Publish, Delete, Archive, AdminArchive
<1> QED BY <1>1, TripsKept

LEMMA ReleasingTrips ==
  ASSUME TypeOK, NEW h \in Handlers, Releasing(h)
  PROVE  NoneStarts(h)
<1>1. ASSUME NEW o \in Orders, NEW a \in Companies \cup {NoOne}, NEW t \in Trips \cup {NoOne},
             CancelRead(h, o, a, t)
      PROVE  NoneStarts(h)
  BY <1>1, OtherRead DEF CancelRead, Steps
<1>2. ASSUME NEW o \in Orders, ClientCancelRead(h, o)
      PROVE  NoneStarts(h)
  BY <1>2, OtherRead DEF ClientCancelRead, Steps
<1>3. ASSUME NEW o \in Orders, NEW t \in Trips, DeclineRead(h, o, t)
      PROVE  NoneStarts(h)
  BY <1>3, OtherRead DEF DeclineRead, Steps
<1>4. ASSUME NEW o \in Orders, NEW t \in Trips \cup {NoOne}, DeleteOrderRead(h, o, t)
      PROVE  NoneStarts(h)
  BY <1>4, OtherRead DEF DeleteOrderRead, Steps
<1>5. CASE CancelWrite(h) \/ DeleteOrderWrite(h)
  BY <1>5, TripsKept DEF CancelWrite, DeleteOrderWrite
<1> QED BY <1>1, <1>2, <1>3, <1>4, <1>5 DEF Releasing

\* A trip is given a status other than active.
LEMMA TripStopped ==
  ASSUME TypeOK, NEW h \in Handlers, NEW t \in Trips, NEW s \in TripStatuses \ {"active"},
         SetTripStatus(t, s), Done(h) \/ (handler[h] = Idle /\ UNCHANGED handler)
  PROVE  NoneStarts(h)
<1>1. handler'[h].step = "idle"
  BY DEF TypeOK, Done, Idle
<1>2. \A u \in Trips : trip'[u].status = "active" =>
                      trip[u].status = "active" /\ trip'[u].driver = trip[u].driver
  BY DEF TypeOK, TripRow, SetTripStatus
<1> QED BY <1>1, <1>2 DEF NoneStarts

\* A trip becomes active whose driver had none, or had this one.
LEMMA TripStarted ==
  ASSUME OneAtATime, TypeOK, TripsOK, NEW h \in Handlers, NEW t \in Trips,
         SetTripStatus(t, "active"), Done(h),
         ActiveTripsOf(trip[t].driver) \subseteq {t}
  PROVE  TripsOK'
<1>1. /\ trip' \in [Trips -> TripRow]
      /\ \A u \in Trips : /\ trip'[u].driver = trip[u].driver
                          /\ u # t => trip'[u].status = trip[u].status
  BY DEF TypeOK, TripRow, TripStatuses, SetTripStatus
<1>2. DriversOK'
  <2> SUFFICES ASSUME NEW u \in Trips, NEW w \in Trips,
                      trip'[u].status = "active", trip'[w].status = "active",
                      trip'[u].driver = trip'[w].driver, trip'[u].driver # NoOne
               PROVE  u = w
    BY DEF DriversOK
  <2>1. CASE u # t /\ w # t
    BY <1>1, <2>1 DEF TripsOK, DriversOK
  <2>2. CASE u = t /\ w # t
    BY <1>1, <2>2 DEF ActiveTripsOf
  <2>3. CASE w = t /\ u # t
    BY <1>1, <2>3 DEF ActiveTripsOf
  <2> QED BY <2>1, <2>2, <2>3
<1>3. ASSUME NEW g \in Handlers
      PROVE  StartsOK(handler[g])'
  <2>1. handler'[g].step = "idle"
    BY DEF OneAtATime, TypeOK, Done, Idle
  <2> QED BY <2>1 DEF StartsOK
<1> QED BY <1>2, <1>3 DEF TripsOK

\* A request is about to start a trip: what it found stands.
LEMMA StartRead ==
  ASSUME OneAtATime, TypeOK, TripsOK, NEW h \in Handlers, NEW s, NEW o, NEW t,
         Read(h, s, o, t, NoOne, NoOne),
         StartsOK([step |-> s, order |-> o, trip |-> t, from |-> NoOne, value |-> NoOne])
  PROVE  TripsOK'
<1> DEFINE r == [step |-> s, order |-> o, trip |-> t, from |-> NoOne, value |-> NoOne]
<1>1. UNCHANGED trip /\ \A g \in Handlers : handler'[g] = r
  BY DEF OneAtATime, TypeOK, Read, Keep, tables
<1> HIDE DEF r
<1>2. StartsOK(r)'
  BY <1>1 DEF StartsOK, ActiveTripsOf, r
<1>3. \A g \in Handlers : StartsOK(handler[g])'
  BY <1>1, <1>2 DEF StartsOK, ActiveTripsOf
<1> QED BY <1>1, <1>3 DEF TripsOK, DriversOK

LEMMA PlanningTrips ==
  ASSUME OneAtATime, "assignDriver" \notin Calls, IInv, TripsOK,
         NEW h \in Handlers, Planning(h)
  PROVE  TripsOK'
<1>1. TypeOK /\ RequestOK(handler[h]) /\ StartsOK(handler[h])
  BY DEF IInv, RequestsBacked, TripsOK
<1>2. ASSUME NEW t \in Trips, NEW d \in Drivers \cup {NoOne}, NEW S \in SUBSET Orders,
             TripCreate(h, t, d, S)
      PROVE  TripsOK'
  <2>1. handler'[h].step = "idle"
    BY <1>2 DEF TripCreate, Called, Idle
  <2>2. \A u \in Trips : trip'[u].status = "active" =>
                      trip[u].status = "active" /\ trip'[u].driver = trip[u].driver
    BY <1>1, <1>2 DEF TripCreate, TypeOK
  <2> QED BY <2>1, <2>2, NoneStartsStep DEF NoneStarts
<1>3. ASSUME NEW t \in Trips, NEW S \in SUBSET Orders, TripPatch(h, t, S)
      PROVE  TripsOK'
  BY <1>1, <1>3, TripsKept, NoneStartsStep DEF TripPatch, Called
<1>4. ASSUME NEW t \in Trips, NEW d \in Drivers \cup {NoOne}, AssignDriver(h, t, d)
      PROVE  TripsOK'
  BY <1>4 DEF AssignDriver, Called
<1>5. ASSUME NEW t \in Trips, MoveToDraft(h, t)
      PROVE  TripsOK'
  BY <1>1, <1>5, TripStopped, NoneStartsStep DEF MoveToDraft, Called, TripStatuses
<1>6. ASSUME NEW t \in Trips, TripPublishRead(h, t)
      PROVE  TripsOK'
  BY <1>1, <1>6, OtherRead, NoneStartsStep DEF TripPublishRead, Steps
<1>7. ASSUME NEW t \in Trips, TripStartRead(h, t)
      PROVE  TripsOK'
  BY <1>1, <1>7, StartRead DEF TripStartRead, StartsOK
<1>8. ASSUME NEW t \in Trips, TripDeleteRead(h, t)
      PROVE  TripsOK'
  BY <1>1, <1>8, OtherRead, NoneStartsStep DEF TripDeleteRead, Steps
<1>9. ASSUME NEW t \in Trips, NEW o \in Orders, DeleteFromTrip(h, o, t)
      PROVE  TripsOK'
  BY <1>1, <1>9, TripsKept, NoneStartsStep DEF DeleteFromTrip, Called
<1>10. ASSUME NEW t \in Trips, NEW o \in Orders, NEW f \in Trips \cup {NoOne},
              AssignRead(h, o, t, f)
       PROVE  TripsOK'
  BY <1>1, <1>10, OtherRead, NoneStartsStep DEF AssignRead, Steps
<1>11. CASE TripPublishWrite(h)
  <2>1. handler[h].trip \in Trips
    BY <1>1, <1>11 DEF TripPublishWrite, RequestOK
  <2> QED BY <1>1, <1>11, <2>1, TripStopped, NoneStartsStep DEF TripPublishWrite, TripStatuses
<1>12. CASE TripStartWrite(h)
  <2>1. handler[h].trip \in Trips /\ handler[h].step = "start"
    BY <1>1, <1>12 DEF TripStartWrite, RequestOK
  <2>2. ActiveTripsOf(trip[handler[h].trip].driver) \subseteq {handler[h].trip}
    BY <1>1, <2>1 DEF StartsOK
  <2> QED BY <1>1, <1>12, <2>1, <2>2, TripStarted DEF TripStartWrite
<1>13. CASE TripDeleteWrite(h)
  <2>1. handler'[h].step = "idle"
    BY <1>1, <1>13 DEF TripDeleteWrite, TypeOK, Done, Idle
  <2>2. \A u \in Trips : trip'[u].status = "active" =>
                      trip[u].status = "active" /\ trip'[u].driver = trip[u].driver
    BY <1>1, <1>13 DEF TripDeleteWrite, TypeOK
  <2> QED BY <2>1, <2>2, NoneStartsStep DEF NoneStarts
<1>14. CASE AssignWrite(h)
  BY <1>1, <1>14, TripsKept, NoneStartsStep DEF AssignWrite
<1> QED BY <1>2, <1>3, <1>4, <1>5, <1>6, <1>7, <1>8, <1>9, <1>10, <1>11, <1>12, <1>13, <1>14
        DEF Planning

\* setDriverOnPickup counts the driver's active trips: with one at most,
\* there is none or it is this one.
LEMMA NoOtherTrip ==
  ASSUME DriversOK, NEW d, d # NoOne, NEW t \in Trips,
         Cardinality(ActiveTripsOf(d)) = 1 => t \in ActiveTripsOf(d)
  PROVE  ActiveTripsOf(d) \subseteq {t}
<1> SUFFICES ASSUME NEW u \in ActiveTripsOf(d) PROVE u = t
  OBVIOUS
<1>1. ActiveTripsOf(d) = {u}
  BY DEF ActiveTripsOf, DriversOK
<1>2. Cardinality(ActiveTripsOf(d)) = 1
  BY <1>1, FS_Singleton
<1> QED BY <1>1, <1>2

LEMMA DrivingTrips ==
  ASSUME OneAtATime, IInv, TripsOK, NEW h \in Handlers, Driving(h)
  PROVE  TripsOK'
<1>1. TypeOK /\ RequestOK(handler[h]) /\ StartsOK(handler[h])
  BY DEF IInv, RequestsBacked, TripsOK
<1>2. ASSUME NEW o \in Orders, NEW t \in Trips, DriverToPickupRead(h, o, t)
      PROVE  TripsOK'
  <2>1. trip[t].driver # NoOne /\ ActiveTripsOf(trip[t].driver) \subseteq {t}
    BY <1>2, NoOtherTrip DEF DriverToPickupRead, TripsOK
  <2> QED BY <1>1, <1>2, <2>1, StartRead DEF DriverToPickupRead, StartsOK
<1>3. ASSUME NEW o \in Orders, NEW d \in Drivers,
             ToPickupRead(h, o, d) \/ ToDeliveryRead(h, o, d) \/ OnDeliveryRead(h, o, d)
      PROVE  TripsOK'
  BY <1>1, <1>3, OtherRead, NoneStartsStep
     DEF ToPickupRead, ToDeliveryRead, OnDeliveryRead, DriverAction, Steps
<1>4. ASSUME NEW o \in Orders, NearPickupRead(h, o) \/ NearDeliveryRead(h, o)
      PROVE  TripsOK'
  BY <1>1, <1>4, OtherRead, NoneStartsStep DEF NearPickupRead, NearDeliveryRead, Steps
<1>5. ASSUME NEW o \in Orders, RequestSignatureRead(h, o) \/ DeliveryInspectionRead(h, o)
      PROVE  TripsOK'
  BY <1>1, <1>5, OtherRead, NoneStartsStep DEF RequestSignatureRead, DeliveryInspectionRead, Steps
<1>6. CASE DriverToPickupWrite(h)
  <2>1. handler[h].trip \in Trips /\ handler[h].step = "pickup"
    BY <1>1, <1>6 DEF DriverToPickupWrite, RequestOK
  <2>2. ActiveTripsOf(trip[handler[h].trip].driver) \subseteq {handler[h].trip}
    BY <1>1, <2>1 DEF StartsOK
  <2> QED BY <1>1, <1>6, <2>1, <2>2, TripStarted DEF DriverToPickupWrite
<1> QED BY <1>2, <1>3, <1>4, <1>5, <1>6 DEF Driving

LEMMA SigningTrips ==
  ASSUME TypeOK, NEW h \in Handlers, Signing(h)
  PROVE  NoneStarts(h)
<1>1. ASSUME NEW o \in Orders, NEW type \in {"pickup", "delivery"},
             ClientSignRead(h, o, type) \/ DriverSignRead(h, o, type)
      PROVE  NoneStarts(h)
  <2>1. PICK s \in {"charge", "sign"} : Read(h, s, o, NoOne, NoOne, NextStatus(type))
    BY <1>1 DEF ClientSignRead, DriverSignRead, SignRead
  <2> QED BY <2>1, OtherRead DEF Steps
<1>2. ASSUME NEW o \in Orders, RetryChargeRead(h, o)
      PROVE  NoneStarts(h)
  BY <1>2, OtherRead DEF RetryChargeRead, Steps
<1>3. CASE ChargeOrder(h)
  <2>1. handler'[h].step \in {"idle", "sign"} /\ UNCHANGED trip
    BY <1>3 DEF ChargeOrder, TypeOK, Done, Idle, Keep
  <2> QED BY <2>1 DEF NoneStarts
<1>4. CASE ChargeOrderFails(h)
  BY <1>4, TripsKept DEF ChargeOrderFails
<1>5. CASE SignWrite(h)
  <2>1. handler'[h].step \in {"idle", "findTrip"} /\ UNCHANGED trip
    BY <1>5 DEF SignWrite, TypeOK, Done, Idle, Keep
  <2> QED BY <2>1 DEF NoneStarts
<1> QED BY <1>1, <1>2, <1>3, <1>4, <1>5 DEF Signing

LEMMA CompletingTrips ==
  ASSUME IInv, NEW h \in Handlers, Completing(h)
  PROVE  NoneStarts(h)
<1>1. TypeOK /\ RequestOK(handler[h])
  BY DEF IInv, RequestsBacked
<1>2. CASE FindTrip(h)
  BY <1>1, <1>2, OtherRead, TripsKept DEF FindTrip, Steps, tables
<1>3. CASE CountUndelivered(h)
  <2>1. handler'[h].step \in {"idle", "complete"} /\ UNCHANGED trip
    BY <1>1, <1>3 DEF CountUndelivered, TypeOK, Done, Idle, Keep, tables
  <2> QED BY <2>1 DEF NoneStarts
<1>4. CASE CompleteTrip(h)
  <2>1. handler[h].trip \in Trips
    BY <1>1, <1>4 DEF CompleteTrip, RequestOK
  <2> QED BY <1>1, <1>4, <2>1, TripStopped DEF CompleteTrip, TripStatuses
<1> QED BY <1>2, <1>3, <1>4 DEF Completing

LEMMA NextTrips ==
  ASSUME OneAtATime, "assignDriver" \notin Calls
  PROVE  IInv /\ TripsOK /\ [Next]_vars => TripsOK'
<1> SUFFICES ASSUME IInv, TripsOK, [Next]_vars PROVE TripsOK'
  OBVIOUS
<1>1. TypeOK
  BY DEF IInv
<1>2. CASE UNCHANGED vars
  BY <1>2 DEF vars, TripsOK, DriversOK, StartsOK, ActiveTripsOf
<1>3. ASSUME NEW h \in Handlers, Billing(h)
      PROVE  TripsOK'
  BY <1>1, <1>3, OtherRead, NoneStartsStep DEF Billing, SendInvoiceRead, MarkPaidRead, Steps
<1>4. ASSUME NEW h \in Handlers, WriteStatus(h) \/ Abort(h)
      PROVE  TripsOK'
  BY <1>1, <1>4, TripsKept, NoneStartsStep DEF WriteStatus, Abort, tables
<1>5. ASSUME NEW h \in Handlers, Booking(h) \/ Releasing(h) \/ Signing(h) \/ Completing(h)
      PROVE  TripsOK'
  BY <1>1, <1>5, BookingTrips, ReleasingTrips, SigningTrips, CompletingTrips, NoneStartsStep
<1> QED BY <1>2, <1>3, <1>4, <1>5, PlanningTrips, DrivingTrips DEF Next

\* 'A driver can have only one active trip': so it is for any number of
\* trips and drivers, when requests run one after the other and nobody is
\* put on a trip that already runs.
THEOREM OneTripTheorem ==
  ASSUME OneAtATime, "assignDriver" \notin Calls
  PROVE  Spec => []OneActiveTripPerDriver
<1>1. Init => TripsOK
  BY DEF Init, TripsOK, DriversOK, StartsOK, Idle, NoTrip
<1>2. TripsOK => OneActiveTripPerDriver
  <2> SUFFICES ASSUME TripsOK, NEW d \in Drivers
               PROVE  Cardinality(ActiveTripsOf(d)) <= 1
    BY DEF OneActiveTripPerDriver
  <2>1. CASE ActiveTripsOf(d) = {}
    BY <2>1, FS_EmptySet
  <2>2. ASSUME NEW t \in ActiveTripsOf(d)
        PROVE  Cardinality(ActiveTripsOf(d)) <= 1
    <3>1. ActiveTripsOf(d) = {t}
      BY NoOneAssumption DEF TripsOK, DriversOK, ActiveTripsOf
    <3>2. Cardinality(ActiveTripsOf(d)) = 1
      BY <3>1, FS_Singleton
    <3> QED BY <3>2
  <2> QED BY <2>1, <2>2
<1>3. IInv /\ TripsOK /\ [Next]_vars => TripsOK'
  BY NextTrips
<1> QED BY <1>1, <1>2, <1>3, InitIInv, NextIInv, PTL DEF Spec

-----------------------------------------------------------------------------
(* One request at a time: OrderLifecycle implements OrderJourney.          *)

PhasesOf == [o \in Orders |-> PhaseOf(order[o].status)]

\* OrderJourney has a move from phase p to phase q, or they are the same.
Leads(p, q) ==
  \/ p = q
  \/ p = "absent" /\ q = "released"
  \/ q = "booked"
  \/ p = "booked" /\ q = "arrived"
  \/ p \in {"arrived", "loaded"} /\ q = "signing"
  \/ p \in {"arrived", "signing"} /\ q \in {"loaded", "delivered"}
  \/ p = "delivered" /\ q = "billed"
  \/ p = "billed" /\ q = "paid"
  \/ p \in {"booked", "arrived", "signing", "billed", "paid", "removed"} /\ q = "released"
  \/ p # "absent" /\ q = "removed"

\* The status that request r is about to write is a move from what its order
\* is at in os: nobody has moved it since the request looked.
FitsOK(r, os) ==
  /\ r.step \in {"status", "sign"} \/ (r.step = "charge" /\ r.value # NoOne) =>
       r.value # "claimed" /\ Leads(PhaseOf(os[r.order].status), PhaseOf(r.value))
  /\ r.step = "cancel" => Leads(PhaseOf(os[r.order].status), "released")

\* No service writes CLAIMED, from which a client could still cancel.
JourneyOK ==
  /\ \A o \in Orders : order[o].status # "claimed"
  /\ \A h \in Handlers : FitsOK(handler[h], order)

JourneyStep == JourneyOK' /\ (Journey!Next \/ PhasesOf' = PhasesOf)

LEMMA PhaseTable ==
  /\ PhaseOf("absent") = "absent"
  /\ PhaseOf("new") = "released" /\ PhaseOf("published") = "released"
  /\ PhaseOf("canceled") = "released" /\ PhaseOf("declined") = "released"
  /\ PhaseOf("dispatched") = "booked" /\ PhaseOf("on_way_to_pickup") = "booked"
  /\ PhaseOf("on_pickup") = "arrived"
  /\ PhaseOf("signature_requested") = "signing"
  /\ PhaseOf("picked_up") = "loaded" /\ PhaseOf("on_way_to_delivery") = "loaded"
  /\ PhaseOf("on_delivery") = "loaded"
  /\ PhaseOf("delivered") = "delivered" /\ PhaseOf("claimed") = "delivered"
  /\ PhaseOf("deleted") = "removed" /\ PhaseOf("archived") = "removed"
  /\ PhaseOf("billed") = "billed" /\ PhaseOf("paid") = "paid"
BY DEF PhaseOf, PICKED_UP_ORDERS

LEMMA PhaseType ==
  ASSUME NEW s \in Statuses
  PROVE  PhaseOf(s) \in Journey!Phases /\ (PhaseOf(s) = "absent" => s = "absent")
BY PhaseTable DEF Statuses, Journey!Phases

\* An order moves along the journey.
LEMMA PhaseMove ==
  ASSUME TypeOK, NEW o \in Orders, NEW row, order' = [order EXCEPT ![o] = row],
         Leads(PhaseOf(order[o].status), PhaseOf(row.status))
  PROVE  Journey!Next \/ PhasesOf' = PhasesOf
<1> DEFINE p == PhaseOf(order[o].status)
           q == PhaseOf(row.status)
<1>1. PhasesOf' = [PhasesOf EXCEPT ![o] = q]
  <2>1. \A u \in Orders : PhaseOf(order'[u].status) = IF u = o THEN q ELSE PhaseOf(order[u].status)
    BY DEF TypeOK
  <2> HIDE DEF q
  <2> QED BY <2>1 DEF PhasesOf
<1>2. PhasesOf[o] = p /\ p \in Journey!Phases
  BY Rows, PhaseType DEF PhasesOf
<1>3. CASE p = q
  BY <1>1, <1>2, <1>3 DEF PhasesOf
<1>4. CASE p # q
  <2>1. ASSUME NEW from, p \in from
        PROVE  Journey!Move(o, from, q)
    BY <1>1, <1>2, <2>1 DEF Journey!Move, PhasesOf
  <2>2. Leads(p, q)
    OBVIOUS
  <2> HIDE DEF p, q
  <2>3. \/ Journey!Open(o) \/ Journey!Book(o) \/ Journey!Arrive(o) \/ Journey!AskSignature(o)
        \/ Journey!Load(o) \/ Journey!Deliver(o) \/ Journey!Bill(o) \/ Journey!Pay(o)
        \/ Journey!Release(o) \/ Journey!Remove(o)
    BY <1>2, <1>4, <2>1, <2>2
       DEF Leads, Journey!Open, Journey!Book, Journey!Arrive, Journey!AskSignature, Journey!Load,
           Journey!Deliver, Journey!Bill, Journey!Pay, Journey!Release, Journey!Remove
  <2> QED BY <2>3 DEF Journey!Next
<1> QED BY <1>3, <1>4

\* A request moves an order and is not about to move another.
LEMMA MovedStep ==
  ASSUME OneAtATime, TypeOK, JourneyOK, NEW h \in Handlers, NEW o \in Orders, NEW row,
         order' = [order EXCEPT ![o] = row], row.status # "claimed",
         Leads(PhaseOf(order[o].status), PhaseOf(row.status)),
         handler'[h].step \notin {"status", "sign", "charge", "cancel"}
  PROVE  JourneyStep
<1>1. \A u \in Orders : order'[u].status # "claimed"
  BY DEF TypeOK, JourneyOK
<1>2. ASSUME NEW g \in Handlers
      PROVE  FitsOK(handler'[g], order')
  <2>1. g = h
    BY DEF OneAtATime
  <2> QED BY <2>1 DEF FitsOK
<1>3. JourneyOK'
  BY <1>1, <1>2 DEF JourneyOK, FitsOK
<1> QED BY <1>3, PhaseMove DEF JourneyStep

\* A request moves no order.
LEMMA StayedStep ==
  ASSUME OneAtATime, TypeOK, JourneyOK, NEW h \in Handlers,
         \A o \in Orders : order'[o].status = order[o].status,
         FitsOK(handler'[h], order')
  PROVE  JourneyStep
<1>1. PhasesOf' = PhasesOf
  BY DEF PhasesOf
<1>2. ASSUME NEW g \in Handlers
      PROVE  FitsOK(handler'[g], order')
  <2>1. g = h
    BY DEF OneAtATime
  <2> QED BY <2>1
<1>3. JourneyOK'
  BY <1>2 DEF JourneyOK, FitsOK
<1> QED BY <1>1, <1>3 DEF JourneyStep

\* A request that only reads: what it will write fits what it saw.
LEMMA ReadFits ==
  ASSUME OneAtATime, TypeOK, JourneyOK, NEW h \in Handlers, NEW s, NEW o, NEW t, NEW f, NEW v,
         Read(h, s, o, t, f, v),
         FitsOK([step |-> s, order |-> o, trip |-> t, from |-> f, value |-> v], order)
  PROVE  JourneyStep
<1>1. /\ order' = order
      /\ handler'[h] = [step |-> s, order |-> o, trip |-> t, from |-> f, value |-> v]
  BY DEF TypeOK, Read, Keep, tables
<1> QED BY <1>1, StayedStep

\* A request that will write status v.
LEMMA StatusRead ==
  ASSUME OneAtATime, TypeOK, JourneyOK, NEW h \in Handlers, NEW o \in Orders, NEW v,
         v # "claimed", Leads(PhaseOf(order[o].status), PhaseOf(v)),
         NEW s \in {"status", "sign", "charge"}, Read(h, s, o, NoOne, NoOne, v)
  PROVE  JourneyStep
BY ReadFits DEF FitsOK

\* A request that will write no status, or none that depends on what it saw.
LEMMA OtherReadFits ==
  ASSUME OneAtATime, TypeOK, JourneyOK, NEW h \in Handlers,
         NEW s \in Steps \ {"status", "sign", "charge", "cancel"},
         NEW o, NEW t, NEW f, NEW v, Read(h, s, o, t, f, v)
  PROVE  JourneyStep
BY ReadFits DEF FitsOK

\* A request that writes no status, and is over or never had two steps.
LEMMA StatusesKept ==
  ASSUME OneAtATime, TypeOK, JourneyOK, NEW h \in Handlers,
         \A o \in Orders : order'[o].status = order[o].status,
         Done(h) \/ (handler[h] = Idle /\ UNCHANGED handler)
  PROVE  JourneyStep
<1>1. handler'[h] = Idle
  BY DEF TypeOK, Done
<1> QED BY <1>1, StayedStep DEF FitsOK, Idle

\* A request that writes a status that is a move, and is over.
LEMMA StatusWritten ==
  ASSUME OneAtATime, TypeOK, JourneyOK, NEW h \in Handlers, NEW o \in Orders, NEW row,
         SetOrder(o, row), row.status # "claimed",
         Leads(PhaseOf(order[o].status), PhaseOf(row.status)),
         Done(h) \/ (handler[h] = Idle /\ UNCHANGED handler)
  PROVE  JourneyStep
<1>1. handler'[h].step = "idle" /\ order' = [order EXCEPT ![o] = row]
  BY DEF TypeOK, Done, Idle, SetOrder
<1> QED BY <1>1, MovedStep

LEMMA BookingJourney ==
  ASSUME OneAtATime, IInv, JourneyOK, NEW h \in Handlers, Booking(h)
  PROVE  JourneyStep
<1>1. TypeOK
  BY DEF IInv
<1>2. PICK o \in Orders :
        \/ CreateNew(h, o) \/ CreatePublished(h, o)
        \/ \E c \in Companies, t \in Trips \cup {NoOne} : CreateDispatched(h, o, c, t)
        \/ \E c \in Companies : Accept(h, o, c) \/ AcceptInvite(h, o, c)
        \/ ServiceFeeFailed(h, o)
        \/ \E p \in BOOLEAN : Publish(h, o, p)
        \/ Delete(h, o) \/ Archive(h, o) \/ AdminArchive(h, o)
  BY DEF Booking
<1>3. order[o] \in OrderRow /\ NoOrder \in OrderRow
  BY <1>1, Rows DEF NoOrder, OrderRow, Statuses, ClientPayment
<1>4. CASE CreateNew(h, o)
  <2>1. SetOrder(o, [NoOrder EXCEPT !.status = "new"])
    BY <1>4 DEF CreateNew
  <2>2. [NoOrder EXCEPT !.status = "new"].status = "new"
    BY DEF NoOrder
  <2> QED BY <1>1, <1>4, <2>1, <2>2, PhaseTable, StatusWritten
             DEF CreateNew, Called, Leads, Exists
<1>5. CASE CreatePublished(h, o)
  <2>1. SetOrder(o, [NoOrder EXCEPT !.status = "published", !.published = TRUE])
    BY <1>5 DEF CreatePublished
  <2>2. [NoOrder EXCEPT !.status = "published", !.published = TRUE].status = "published"
    BY DEF NoOrder
  <2> QED BY <1>1, <1>5, <2>1, <2>2, PhaseTable, StatusWritten
             DEF CreatePublished, Called, Leads, Exists
<1>6. ASSUME NEW row \in OrderRow, row.status \in {"dispatched", "deleted", "archived"},
             SetOrder(o, row), Exists(o) \/ row.status = "dispatched",
             handler[h] = Idle, UNCHANGED handler
      PROVE  JourneyStep
  <2>1. Leads(PhaseOf(order[o].status), PhaseOf(row.status))
    BY <1>1, <1>6, Rows, PhaseTable, PhaseType DEF Leads, Exists
  <2> QED BY <1>1, <1>6, <2>1, StatusWritten
<1>7. ASSUME NEW c \in Companies, NEW t \in Trips \cup {NoOne}, CreateDispatched(h, o, c, t)
      PROVE  JourneyStep
  <2> DEFINE row == [NoOrder EXCEPT !.status = "dispatched", !.published = TRUE, !.company = c]
  <2>1. row \in OrderRow /\ row.status = "dispatched"
    BY <1>3 DEF OrderRow, Statuses
  <2>2. SetOrder(o, row) /\ handler[h] = Idle /\ UNCHANGED handler
    BY <1>7 DEF CreateDispatched, Called
  <2> HIDE DEF row
  <2> QED BY <1>6, <2>1, <2>2
<1>8. ASSUME NEW c \in Companies, Accept(h, o, c)
      PROVE  JourneyStep
  <2> DEFINE row == [order[o] EXCEPT !.status = "dispatched", !.company = c, !.pay = "other"]
  <2>1. row \in OrderRow /\ row.status = "dispatched"
    BY <1>3 DEF OrderRow, Statuses, ClientPayment
  <2>2. SetOrder(o, row) /\ handler[h] = Idle /\ UNCHANGED handler
    BY <1>8 DEF Accept, Called
  <2> HIDE DEF row
  <2> QED BY <1>6, <2>1, <2>2
<1>9. ASSUME NEW c \in Companies, AcceptInvite(h, o, c)
      PROVE  JourneyStep
  <2> DEFINE row == [order[o] EXCEPT !.status = "dispatched", !.company = c,
                                     !.published = TRUE, !.pay = "other"]
  <2>1. row \in OrderRow /\ row.status = "dispatched"
    BY <1>3 DEF OrderRow, Statuses, ClientPayment
  <2>2. SetOrder(o, row) /\ handler[h] = Idle /\ UNCHANGED handler
    BY <1>9 DEF AcceptInvite, Called
  <2> HIDE DEF row
  <2> QED BY <1>6, <2>1, <2>2
<1>10. CASE ServiceFeeFailed(h, o)
  <2>1. \A u \in Orders : order'[u].status = order[u].status
    BY <1>1, <1>10, Rows DEF ServiceFeeFailed, TypeOK, OrderRow
  <2> QED BY <1>1, <1>10, <2>1, StatusesKept DEF ServiceFeeFailed, Called
<1>11. ASSUME NEW p \in BOOLEAN, Publish(h, o, p)
       PROVE  JourneyStep
  <2>1. \A u \in Orders : order'[u].status = order[u].status
    BY <1>1, <1>11, Rows DEF Publish, TypeOK, OrderRow
  <2> QED BY <1>1, <1>11, <2>1, StatusesKept DEF Publish, Called
<1>12. CASE Delete(h, o)
  <2> DEFINE row == [order[o] EXCEPT !.status = "deleted", !.published = FALSE]
  <2>1. row \in OrderRow /\ row.status = "deleted"
    BY <1>3 DEF OrderRow, Statuses
  <2>2. SetOrder(o, row) /\ Exists(o) /\ handler[h] = Idle /\ UNCHANGED handler
    BY <1>12 DEF Delete, Called
  <2> HIDE DEF row
  <2> QED BY <1>6, <2>1, <2>2
<1>13. CASE Archive(h, o)
  <2> DEFINE row == [order[o] EXCEPT !.status = "archived", !.hidden = TRUE]
  <2>1. row \in OrderRow /\ row.status = "archived"
    BY <1>3 DEF OrderRow, Statuses
  <2>2. SetOrder(o, row) /\ Exists(o) /\ handler[h] = Idle /\ UNCHANGED handler
    BY <1>13 DEF Archive, Called
  <2> HIDE DEF row
  <2> QED BY <1>6, <2>1, <2>2
<1>14. CASE AdminArchive(h, o)
  <2> DEFINE row == [order[o] EXCEPT !.status = "archived"]
  <2>1. row \in OrderRow /\ row.status = "archived"
    BY <1>3 DEF OrderRow, Statuses
  <2>2. SetOrder(o, row) /\ Exists(o) /\ handler[h] = Idle /\ UNCHANGED handler
    BY <1>14 DEF AdminArchive, Called, SetStatus
  <2> HIDE DEF row
  <2> QED BY <1>6, <2>1, <2>2
<1> QED BY <1>2, <1>4, <1>5, <1>7, <1>8, <1>9, <1>10, <1>11, <1>12, <1>13, <1>14

LEMMA ReleasingJourney ==
  ASSUME OneAtATime, IInv, JourneyOK, NEW h \in Handlers, Releasing(h)
  PROVE  JourneyStep
<1>1. TypeOK /\ RequestOK(handler[h]) /\ FitsOK(handler[h], order)
  BY DEF IInv, RequestsBacked, JourneyOK
<1>2. \A o \in Orders : order[o].status \in Statuses \ {"claimed"}
  BY <1>1, Rows DEF JourneyOK
<1>3. \A o \in Orders : Exists(o) /\ order[o].status \notin NotReleasable =>
        Leads(PhaseOf(order[o].status), "released")
  BY <1>2, PhaseTable DEF Exists, NotReleasable, Statuses, Leads
<1>4. ASSUME NEW o \in Orders, NEW a \in Companies \cup {NoOne}, NEW t \in Trips \cup {NoOne},
             CancelRead(h, o, a, t)
      PROVE  JourneyStep
  <2>1. PICK f : Read(h, "cancel", o, NoOne, f, NoOne)
    BY <1>4 DEF CancelRead
  <2>2. Leads(PhaseOf(order[o].status), "released")
    BY <1>4, PhaseTable DEF CancelRead, Leads
  <2> QED BY <1>1, <2>1, <2>2, ReadFits DEF FitsOK
<1>5. ASSUME NEW o \in Orders, ClientCancelRead(h, o)
      PROVE  JourneyStep
  BY <1>1, <1>3, <1>5, PhaseTable, StatusRead DEF ClientCancelRead
<1>6. ASSUME NEW o \in Orders, NEW t \in Trips, DeclineRead(h, o, t)
      PROVE  JourneyStep
  BY <1>1, <1>3, <1>6, PhaseTable, StatusRead DEF DeclineRead
<1>7. ASSUME NEW o \in Orders, NEW t \in Trips \cup {NoOne}, DeleteOrderRead(h, o, t)
      PROVE  JourneyStep
  BY <1>1, <1>7, OtherReadFits DEF DeleteOrderRead, Steps
<1>8. CASE CancelWrite(h)
  <2> DEFINE o == handler[h].order
             s == IF o \in Internal THEN "published" ELSE "canceled"
             row == [order[o] EXCEPT !.status = s, !.company = NoOne]
  <2>1. o \in Orders /\ Leads(PhaseOf(order[o].status), "released")
    BY <1>1, <1>8 DEF CancelWrite, RequestOK, FitsOK
  <2>2. row.status \in {"published", "canceled"}
    BY <1>1, <2>1, Rows DEF OrderRow
  <2>3. SetOrder(o, row) /\ Done(h)
    BY <1>8 DEF CancelWrite
  <2>4. PhaseOf(row.status) = "released"
    BY <2>2, PhaseTable
  <2> HIDE DEF row, o
  <2> QED BY <1>1, <2>1, <2>2, <2>3, <2>4, StatusWritten
<1>9. CASE DeleteOrderWrite(h)
  <2>1. \A u \in Orders : order'[u].status = order[u].status
    BY <1>1, <1>9, Rows DEF DeleteOrderWrite, TypeOK, OrderRow
  <2> QED BY <1>1, <1>9, <2>1, StatusesKept DEF DeleteOrderWrite
<1> QED BY <1>4, <1>5, <1>6, <1>7, <1>8, <1>9 DEF Releasing

LEMMA PlanningJourney ==
  ASSUME OneAtATime, IInv, JourneyOK, NEW h \in Handlers, Planning(h)
  PROVE  JourneyStep
<1>1. TypeOK /\ RequestOK(handler[h])
  BY DEF IInv, RequestsBacked
<1>2. ASSUME NEW t \in Trips,
             \/ TripPublishRead(h, t) \/ TripStartRead(h, t) \/ TripDeleteRead(h, t)
             \/ \E o \in Orders, f \in Trips \cup {NoOne} : AssignRead(h, o, t, f)
      PROVE  JourneyStep
  BY <1>1, <1>2, OtherReadFits DEF TripPublishRead, TripStartRead, TripDeleteRead, AssignRead, Steps
<1>3. ASSUME NEW t \in Trips,
             \/ \E d \in Drivers \cup {NoOne}, S \in SUBSET Orders : TripCreate(h, t, d, S)
             \/ \E S \in SUBSET Orders : TripPatch(h, t, S)
             \/ \E d \in Drivers \cup {NoOne} : AssignDriver(h, t, d)
             \/ MoveToDraft(h, t)
             \/ \E o \in Orders : DeleteFromTrip(h, o, t)
      PROVE  JourneyStep
  <2>1. handler[h] = Idle /\ UNCHANGED <<order, handler>>
    BY <1>3 DEF TripCreate, TripPatch, AssignDriver, MoveToDraft, DeleteFromTrip, Called
  <2> QED BY <1>1, <2>1, StatusesKept
<1>4. CASE TripPublishWrite(h) \/ TripStartWrite(h) \/ TripDeleteWrite(h)
  <2>1. Done(h) /\ UNCHANGED order
    BY <1>4 DEF TripPublishWrite, TripStartWrite, TripDeleteWrite
  <2> QED BY <1>1, <2>1, StatusesKept
<1>5. CASE AssignWrite(h)
  <2> DEFINE o == handler[h].order
             row == [order[o] EXCEPT !.status = "dispatched"]
  <2>1. o \in Orders /\ handler[h].value \in {"dispatched", NoOne}
    BY <1>1, <1>5 DEF AssignWrite, RequestOK
  <2>2. CASE handler[h].value = NoOne
    BY <1>1, <1>5, <2>2, StatusesKept DEF AssignWrite
  <2>3. CASE handler[h].value # NoOne
    <3>1. SetOrder(o, row) /\ Done(h)
      BY <1>5, <2>1, <2>3 DEF AssignWrite, SetStatus
    <3>2. row.status = "dispatched"
      BY <1>1, <2>1, Rows DEF OrderRow
    <3> HIDE DEF row, o
    <3> QED BY <1>1, <2>1, <3>1, <3>2, PhaseTable, StatusWritten DEF Leads
  <2> QED BY <2>2, <2>3
<1> QED BY <1>2, <1>3, <1>4, <1>5 DEF Planning

LEMMA DrivingJourney ==
  ASSUME OneAtATime, IInv, JourneyOK, NEW h \in Handlers, Driving(h)
  PROVE  JourneyStep
<1>1. TypeOK /\ RequestOK(handler[h])
  BY DEF IInv, RequestsBacked
<1>2. ASSUME NEW o \in Orders, NEW t \in Trips, DriverToPickupRead(h, o, t)
      PROVE  JourneyStep
  BY <1>1, <1>2, OtherReadFits DEF DriverToPickupRead, Steps
<1>3. ASSUME NEW o \in Orders, NEW d \in Drivers, ToPickupRead(h, o, d)
      PROVE  JourneyStep
  BY <1>1, <1>3, PhaseTable, StatusRead DEF ToPickupRead, DriverAction, Leads
<1>4. ASSUME NEW o \in Orders, NEW d \in Drivers, ToDeliveryRead(h, o, d)
      PROVE  JourneyStep
  BY <1>1, <1>4, PhaseTable, StatusRead DEF ToDeliveryRead, DriverAction, Leads
<1>5. ASSUME NEW o \in Orders, NEW d \in Drivers, OnDeliveryRead(h, o, d)
      PROVE  JourneyStep
  BY <1>1, <1>5, PhaseTable, StatusRead DEF OnDeliveryRead, DriverAction, Leads
<1>6. ASSUME NEW o \in Orders, NearPickupRead(h, o)
      PROVE  JourneyStep
  BY <1>1, <1>6, PhaseTable, StatusRead DEF NearPickupRead, Leads
<1>7. ASSUME NEW o \in Orders, NearDeliveryRead(h, o)
      PROVE  JourneyStep
  BY <1>1, <1>7, PhaseTable, StatusRead DEF NearDeliveryRead, Leads
<1>8. ASSUME NEW o \in Orders, RequestSignatureRead(h, o)
      PROVE  JourneyStep
  BY <1>1, <1>8, PhaseTable, StatusRead DEF RequestSignatureRead, Leads
<1>9. ASSUME NEW o \in Orders, DeliveryInspectionRead(h, o)
      PROVE  JourneyStep
  BY <1>1, <1>9, PhaseTable, StatusRead DEF DeliveryInspectionRead, Leads
<1>10. CASE DriverToPickupWrite(h)
  <2> DEFINE o == handler[h].order
             row == [order[o] EXCEPT !.status = "on_way_to_pickup"]
  <2>1. o \in Orders
    BY <1>1, <1>10 DEF DriverToPickupWrite, RequestOK
  <2>2. row.status = "on_way_to_pickup"
    BY <1>1, <2>1, Rows DEF OrderRow
  <2>3. SetOrder(o, row) /\ Done(h)
    BY <1>10 DEF DriverToPickupWrite, SetStatus
  <2> HIDE DEF row, o
  <2> QED BY <1>1, <2>1, <2>2, <2>3, PhaseTable, StatusWritten DEF Leads
<1> QED BY <1>2, <1>3, <1>4, <1>5, <1>6, <1>7, <1>8, <1>9, <1>10 DEF Driving

\* The update that ends a request which decided on a status.
LEMMA DecidedStatus ==
  ASSUME OneAtATime, IInv, JourneyOK, NEW h \in Handlers, handler[h].step \in {"status", "sign"},
         SetStatus(handler[h].order, handler[h].value),
         handler'[h].step \notin {"status", "sign", "charge", "cancel"}
  PROVE  JourneyStep
<1> DEFINE o == handler[h].order
           v == handler[h].value
           row == [order[o] EXCEPT !.status = v]
<1>1. TypeOK /\ RequestOK(handler[h]) /\ FitsOK(handler[h], order)
  BY DEF IInv, RequestsBacked, JourneyOK
<1>2. o \in Orders /\ v # "claimed" /\ Leads(PhaseOf(order[o].status), PhaseOf(v))
  BY <1>1 DEF RequestOK, FitsOK
<1>3. row.status = v
  BY <1>1, <1>2, Rows DEF OrderRow
<1>4. order' = [order EXCEPT ![o] = row]
  BY DEF SetStatus, SetOrder
<1> HIDE DEF row, v, o
<1> QED BY <1>1, <1>2, <1>3, <1>4, MovedStep

LEMMA SigningJourney ==
  ASSUME OneAtATime, IInv, JourneyOK, NEW h \in Handlers, Signing(h)
  PROVE  JourneyStep
<1>1. TypeOK /\ RequestOK(handler[h]) /\ FitsOK(handler[h], order)
  BY DEF IInv, RequestsBacked, JourneyOK
<1>2. ASSUME NEW o \in Orders, NEW type \in {"pickup", "delivery"},
             ClientSignRead(h, o, type) \/ DriverSignRead(h, o, type)
      PROVE  JourneyStep
  <2>1. PICK s \in {"charge", "sign"} : Read(h, s, o, NoOne, NoOne, NextStatus(type))
    BY <1>2 DEF ClientSignRead, DriverSignRead, SignRead
  <2>2. NextStatus(type) \in {"picked_up", "delivered"}
    BY DEF NextStatus
  <2>3. Leads(PhaseOf(order[o].status), PhaseOf(NextStatus(type)))
    BY <1>2, <2>2, PhaseTable DEF ClientSignRead, DriverSignRead, Leads
  <2> QED BY <1>1, <2>1, <2>2, <2>3, StatusRead
<1>3. ASSUME NEW o \in Orders, RetryChargeRead(h, o)
      PROVE  JourneyStep
  BY <1>1, <1>3, ReadFits DEF RetryChargeRead, FitsOK
<1>4. CASE ChargeOrder(h)
  <2>1. \A u \in Orders : order'[u].status = order[u].status
    BY <1>1, <1>4, Rows DEF ChargeOrder, TypeOK, OrderRow
  <2>2. FitsOK(handler'[h], order')
    <3>1. CASE Done(h)
      BY <1>1, <3>1 DEF TypeOK, Done, Idle, FitsOK
    <3>2. CASE handler[h].value # NoOne /\
               Keep(h, "sign", handler[h].order, NoOne, NoOne, handler[h].value)
      BY <1>1, <1>4, <2>1, <3>2 DEF TypeOK, Keep, FitsOK, RequestOK, ChargeOrder
    <3> QED BY <1>4, <3>1, <3>2 DEF ChargeOrder
  <2> QED BY <1>1, <2>1, <2>2, StayedStep
<1>5. CASE ChargeOrderFails(h)
  <2>1. \A u \in Orders : order'[u].status = order[u].status
    BY <1>1, <1>5, Rows DEF ChargeOrderFails, TypeOK, OrderRow
  <2> QED BY <1>1, <1>5, <2>1, StatusesKept DEF ChargeOrderFails
<1>6. CASE SignWrite(h)
  <2>1. handler'[h].step \in {"idle", "findTrip"}
    BY <1>1, <1>6 DEF SignWrite, TypeOK, Done, Idle, Keep
  <2> QED BY <1>6, <2>1, DecidedStatus DEF SignWrite
<1> QED BY <1>2, <1>3, <1>4, <1>5, <1>6 DEF Signing

LEMMA CompletingJourney ==
  ASSUME OneAtATime, IInv, JourneyOK, NEW h \in Handlers, Completing(h)
  PROVE  JourneyStep
<1>1. TypeOK
  BY DEF IInv
<1>2. UNCHANGED order
  BY DEF Completing, FindTrip, CountUndelivered, CompleteTrip, Read, tables
<1>3. handler'[h].step \in {"idle", "count", "complete"}
  BY <1>1 DEF Completing, FindTrip, CountUndelivered, CompleteTrip, Read, Keep, Done, Idle, TypeOK
<1> QED BY <1>1, <1>2, <1>3, StayedStep DEF FitsOK

LEMMA BillingJourney ==
  ASSUME OneAtATime, IInv, JourneyOK, NEW h \in Handlers, Billing(h)
  PROVE  JourneyStep
<1>1. TypeOK
  BY DEF IInv
<1>2. ASSUME NEW o \in Orders, SendInvoiceRead(h, o)
      PROVE  JourneyStep
  BY <1>1, <1>2, PhaseTable, StatusRead DEF SendInvoiceRead, Leads
<1>3. ASSUME NEW o \in Orders, MarkPaidRead(h, o)
      PROVE  JourneyStep
  BY <1>1, <1>3, PhaseTable, StatusRead DEF MarkPaidRead, Leads
<1> QED BY <1>2, <1>3 DEF Billing

LEMMA NextJourney ==
  ASSUME OneAtATime
  PROVE  IInv /\ JourneyOK /\ [Next]_vars => JourneyStep
<1> SUFFICES ASSUME IInv, JourneyOK, [Next]_vars PROVE JourneyStep
  OBVIOUS
<1>1. TypeOK
  BY DEF IInv
<1>2. CASE UNCHANGED vars
  BY <1>2 DEF vars, JourneyStep, JourneyOK, FitsOK, PhasesOf
<1>3. ASSUME NEW h \in Handlers, WriteStatus(h)
      PROVE  JourneyStep
  <2>1. handler'[h].step = "idle"
    BY <1>1, <1>3 DEF WriteStatus, TypeOK, Done, Idle
  <2> QED BY <1>3, <2>1, DecidedStatus DEF WriteStatus
<1>4. ASSUME NEW h \in Handlers, Abort(h)
      PROVE  JourneyStep
  BY <1>1, <1>4, StatusesKept DEF Abort, tables
<1> QED BY <1>2, <1>3, <1>4, BookingJourney, ReleasingJourney, PlanningJourney, DrivingJourney,
           SigningJourney, CompletingJourney, BillingJourney DEF Next

\* One request at a time, for any number of orders and trips, the services
\* implement OrderJourney: each order goes its way through the phases.  What
\* a request decided on is still so when it commits (JourneyOK), which is
\* what overlapping requests break.
THEOREM JourneyTheorem ==
  ASSUME OneAtATime
  PROVE  Spec => FollowsJourney
<1>1. Init => JourneyOK /\ Journey!Init
  BY PhaseTable DEF Init, JourneyOK, FitsOK, Idle, NoOrder, Journey!Init
<1>2. IInv /\ JourneyOK /\ [Next]_vars =>
        JourneyOK' /\ [Journey!Next]_([o \in Orders |-> PhaseOf(order[o].status)])
  BY NextJourney DEF JourneyStep, PhasesOf
<1> QED BY <1>1, <1>2, InitIInv, NextIInv, PTL DEF Spec, FollowsJourney, Journey!Spec

\* The phases of the statuses, read backwards.
LEMMA PhaseInverse ==
  ASSUME NEW s \in Statuses
  PROVE  /\ PhaseOf(s) = "loaded" <=> s \in PICKED_UP_ORDERS
         /\ PhaseOf(s) = "released" <=> s \in {"new", "published", "canceled", "declined"}
BY PhaseTable DEF Statuses, PICKED_UP_ORDERS

\* One request at a time, no step takes an order from a loaded status to one
\* in which it is free again: a cancellation that overlaps with a signature is
\* the only way to do it (run cancel_race).
THEOREM LoadedTheorem ==
  ASSUME OneAtATime
  PROVE  Spec => LoadedNeverReleased
<1> DEFINE Held == \A o \in Orders :
             order[o].status \in PICKED_UP_ORDERS
               => order'[o].status \notin {"canceled", "declined", "published"}
<1>1. Init => JourneyOK
  BY DEF Init, JourneyOK, FitsOK, Idle, NoOrder
<1>2. IInv /\ IInv' /\ JourneyOK /\ [Next]_vars => Held
  <2> SUFFICES ASSUME IInv, IInv', JourneyOK, [Next]_vars, NEW o \in Orders,
                      order[o].status \in PICKED_UP_ORDERS
               PROVE  order'[o].status \notin {"canceled", "declined", "published"}
    OBVIOUS
  <2>1. order[o].status \in Statuses /\ order'[o].status \in Statuses
    BY DEF IInv, TypeOK, OrderRow
  <2>2. PhasesOf[o] = "loaded"
    BY <2>1, PhaseInverse DEF PhasesOf
  <2>3. Journey!Next \/ PhasesOf' = PhasesOf
    BY NextJourney DEF JourneyStep
  <2>4. PhasesOf'[o] # "released"
    <3>1. CASE PhasesOf' = PhasesOf
      BY <2>2, <3>1
    <3>2. CASE Journey!Next
      <4>1. PICK u \in Orders, from \in SUBSET Journey!Phases, to \in Journey!Phases :
              /\ Journey!Move(u, from, to)
              /\ "loaded" \in from => to # "released"
        BY <3>2 DEF Journey!Next, Journey!Phases, Journey!Open, Journey!Book, Journey!Arrive,
             Journey!AskSignature, Journey!Load, Journey!Deliver, Journey!Bill, Journey!Pay, Journey!Release, Journey!Remove
      <4>2. PhasesOf[u] \in from /\ PhasesOf' = [PhasesOf EXCEPT ![u] = to]
        BY <4>1 DEF Journey!Move, PhasesOf
      <4> QED BY <2>2, <4>1, <4>2 DEF PhasesOf
    <3> QED BY <2>3, <3>1, <3>2
  <2>5. PhaseOf(order'[o].status) # "released"
    BY <2>4 DEF PhasesOf
  <2> QED BY <2>1, <2>5, PhaseInverse
<1>3. IInv /\ JourneyOK /\ [Next]_vars => JourneyOK'
  BY NextJourney DEF JourneyStep
<1> QED BY <1>1, <1>2, <1>3, InitIInv, NextIInv, PTL DEF Spec, LoadedNeverReleased

-----------------------------------------------------------------------------
(* The load board, whatever requests overlap, as long as nobody calls the  *)
(* endpoints that take an order's trip or carrier away behind its back.    *)

\* Without: assign and tripPatch (an order comes onto any carrier's trip),
\* tripDelete and deleteFromTrip (it loses its trip, loaded or not), delete
\* and adminArchive (its status is on no tab).
BoardCalls ==
  {"create", "accept", "publish", "archive", "cancel", "clientCancel", "decline", "deleteOrder", "tripCreate",
   "assignDriver", "moveToDraft", "tripPublish", "tripStart", "setDriverOnPickup",
   "driverAction", "location", "requestSignature", "deliveryInspection", "clientSign",
   "driverSign", "retryCharge", "sendInvoice", "markPaid"}

\* A carrier is given an order only while the order is on no trip, which might
\* be a former carrier's, and no request in flight has read it: nothing in
\* the code sees to that.
FreshAccept ==
  \A o \in Orders :
    Exists(o) /\ order'[o].company \notin {order[o].company, NoOne} =>
      /\ \A t \in Trips : link[o][t] = "none"
      /\ \A h \in Handlers : handler[h].order # o

\* From the way to the pick-up on, an order has a trip for as long as it has a carrier.
OnTheWay ==
  {"on_way_to_pickup", "on_pickup", "signature_requested"} \cup PICKED_UP_ORDERS \cup DELIVERED_ORDERS

BoardStatuses == {"dispatched", "canceled", "declined"} \cup OnTheWay

Placed(o) == Exists(o) /\ (order[o].company = NoOne \/ TripsOf(o) # {})

\* An order is only on trips of its carrier, and has a trip where it must; it
\* has a carrier only in a status that a tab lists or in which a signature is
\* waited for, or when that carrier archived it.
PlaceOK(o) ==
  /\ \A t \in Trips : link[o][t] # "none" => Exists(o) /\ order[o].company \in {NoOne, CompanyOf[t]}
  /\ order[o].company # NoOne => \/ order[o].status \in BoardStatuses
                                 \/ order[o].status = "archived" /\ order[o].hidden
  /\ order[o].status \in OnTheWay => Placed(o)

\* Request r will write such a status; one on the way, only of an order that
\* has its place.
WillWrite(r) == r.step \in {"status", "sign"} \/ (r.step = "charge" /\ r.value # NoOne)

MoveOK(r) ==
  /\ WillWrite(r) => /\ r.value \in BoardStatuses /\ Exists(r.order)
                     /\ r.value \in OnTheWay => Placed(r.order)
  /\ r.step = "pickup" => Placed(r.order)
  /\ r.step \in {"cancel", "unlink"} => Exists(r.order)
  /\ r.step \notin {"assign", "deleteTrip"}

BoardOK == (\A o \in Orders : PlaceOK(o)) /\ \A h \in Handlers : MoveOK(handler[h])

\* Request r has nothing left to write that the board shows.
Harmless(r) ==
  r.step \notin {"status", "sign", "charge", "pickup", "cancel", "unlink", "assign", "deleteTrip"}

\* The step changes nothing of u that the board shows.
SamePlace(u) ==
  /\ order'[u].status = order[u].status /\ order'[u].company = order[u].company
  /\ order'[u].hidden = order[u].hidden
  /\ \A t \in Trips : link'[u][t] = "none" <=> link[u][t] = "none"

\* The step leaves u in place, and u keeps its place if it has one.
Stays(u) ==
  /\ PlaceOK(u)'
  /\ Exists(u) => Exists(u)'
  /\ Placed(u) => Placed(u)'

LEMMA SamePlaceStays ==
  ASSUME NEW u \in Orders, PlaceOK(u), SamePlace(u)
  PROVE  Stays(u)
<1>1. TripsOf(u)' = TripsOf(u)
  BY DEF TripsOf, SamePlace
<1>2. (Exists(u)' <=> Exists(u)) /\ (Placed(u)' <=> Placed(u))
  BY <1>1 DEF Exists, Placed, SamePlace
<1>3. PlaceOK(u)'
  BY <1>2 DEF PlaceOK, SamePlace
<1> QED BY <1>2, <1>3 DEF Stays

\* What a request holds to write stays a move that the tables allow.
LEMMA MoveStays ==
  ASSUME IInv, BoardOK, NEW g \in Handlers, handler'[g] = handler[g],
         \A o \in Orders : handler[g].order = o => Stays(o)
  PROVE  MoveOK(handler[g])'
<1>1. MoveOK(handler[g]) /\ RequestOK(handler[g])
  BY DEF BoardOK, IInv, RequestsBacked
<1>2. CASE handler[g].step \in {"status", "sign", "charge", "pickup", "cancel", "unlink"}
  <2>1. PICK u \in Orders : u = handler[g].order
    BY <1>1, <1>2 DEF RequestOK
  <2>2. Stays(u)
    BY <2>1
  <2> QED BY <1>1, <2>1, <2>2 DEF MoveOK, WillWrite, Stays, Exists, Placed, TripsOf
<1>3. CASE Harmless(handler[g])
  BY <1>3 DEF Harmless, MoveOK, WillWrite
<1> QED BY <1>1, <1>2, <1>3 DEF MoveOK, Harmless

\* A step of request h keeps the board if the orders stay and what h will
\* write is a move that the tables after the step allow.
LEMMA BoardStep ==
  ASSUME IInv, BoardOK, NEW h \in Handlers, \A o \in Orders : Stays(o),
         \A g \in Handlers \ {h} : handler'[g] = handler[g],
         MoveOK(handler[h])'
  PROVE  BoardOK'
<1>1. ASSUME NEW g \in Handlers \ {h}
      PROVE  MoveOK(handler[g])'
  BY MoveStays
<1>2. \A o \in Orders : PlaceOK(o)'
  BY DEF Stays
<1> QED BY <1>1, <1>2 DEF BoardOK, PlaceOK, MoveOK

\* A step that changes nothing that the board shows.
LEMMA BoardKept ==
  ASSUME IInv, BoardOK, NEW h \in Handlers, \A o \in Orders : SamePlace(o),
         \A g \in Handlers \ {h} : handler'[g] = handler[g],
         Harmless(handler'[h]) \/ handler'[h] = handler[h]
  PROVE  BoardOK'
<1>1. \A o \in Orders : Stays(o)
  BY SamePlaceStays DEF BoardOK
<1>2. CASE Harmless(handler'[h])
  BY <1>1, <1>2, BoardStep DEF Harmless, MoveOK, WillWrite
<1>3. CASE handler'[h] = handler[h]
  BY <1>1, <1>3, MoveStays, BoardStep
<1> QED BY <1>2, <1>3

\* A request that only reads: what it will write is a move the board allows.
LEMMA BoardRead ==
  ASSUME IInv, BoardOK, NEW h \in Handlers, NEW s, NEW o, NEW t, NEW f, NEW v,
         Read(h, s, o, t, f, v),
         MoveOK([step |-> s, order |-> o, trip |-> t, from |-> f, value |-> v])
  PROVE  BoardOK'
<1> DEFINE r == [step |-> s, order |-> o, trip |-> t, from |-> f, value |-> v]
<1>1. /\ UNCHANGED <<order, link>>
      /\ handler'[h] = r
      /\ \A g \in Handlers \ {h} : handler'[g] = handler[g]
  BY DEF IInv, TypeOK, Read, Keep, tables
<1> HIDE DEF r
<1>2. \A u \in Orders : Stays(u)
  BY <1>1, SamePlaceStays DEF BoardOK, SamePlace
<1>3. MoveOK(handler[h])'
  BY <1>1 DEF MoveOK, WillWrite, Exists, Placed, TripsOf, r
<1> QED BY <1>1, <1>2, <1>3, BoardStep

\* A request that will write status v of an order.
LEMMA BoardStatusRead ==
  ASSUME IInv, BoardOK, NEW h \in Handlers, NEW s \in {"status", "sign", "charge"}, NEW o, NEW v,
         Read(h, s, o, NoOne, NoOne, v),
         v \in BoardStatuses, Exists(o), v \in OnTheWay => Placed(o)
  PROVE  BoardOK'
BY BoardRead DEF MoveOK, WillWrite

\* A request that will write nothing that the board shows.
LEMMA BoardOtherRead ==
  ASSUME IInv, BoardOK, NEW h \in Handlers, NEW s, NEW o, NEW t, NEW f, NEW v,
         Read(h, s, o, t, f, v),
         s \notin {"status", "sign", "charge", "pickup", "cancel", "unlink", "assign", "deleteTrip"}
  PROVE  BoardOK'
BY BoardRead DEF MoveOK, WillWrite

\* What Done and an untouched slot leave of the requests.
LEMMA Rests ==
  ASSUME IInv, NEW h \in Handlers, Done(h) \/ (handler[h] = Idle /\ UNCHANGED handler)
  PROVE  /\ Harmless(handler'[h]) /\ MoveOK(handler[h])'
         /\ \A g \in Handlers \ {h} : handler'[g] = handler[g]
<1>1. handler'[h] = Idle /\ \A g \in Handlers \ {h} : handler'[g] = handler[g]
  BY DEF IInv, TypeOK, Done
<1> QED BY <1>1 DEF Harmless, MoveOK, WillWrite, Idle

\* A request writes the row of one order, and perhaps its links, and is over
\* or goes on to nothing that the board shows.
LEMMA BoardWrite ==
  ASSUME IInv, BoardOK, NEW h \in Handlers, NEW o \in Orders, NEW row,
         order' = [order EXCEPT ![o] = row],
         \A u \in Orders \ {o} : link'[u] = link[u],
         PlaceOK(o)', row.status # "absent", Placed(o) => Placed(o)',
         \A g \in Handlers \ {h} : handler'[g] = handler[g],
         Harmless(handler'[h])
  PROVE  BoardOK'
<1>1. order'[o] = row /\ \A u \in Orders \ {o} : order'[u] = order[u]
  BY DEF IInv, TypeOK
<1>2. \A u \in Orders \ {o} : Stays(u)
  BY <1>1, SamePlaceStays DEF BoardOK, SamePlace
<1>3. Stays(o)
  BY <1>1 DEF Stays, Exists
<1>4. MoveOK(handler[h])'
  BY DEF Harmless, MoveOK, WillWrite
<1> QED BY <1>2, <1>3, <1>4, BoardStep

\* The status of an order is written, and it has its place if it needs one.
LEMMA BoardStatus ==
  ASSUME IInv, BoardOK, NEW h \in Handlers, NEW o \in Orders, NEW s \in BoardStatuses,
         SetStatus(o, s), UNCHANGED link, Exists(o), s \in OnTheWay => Placed(o),
         \A g \in Handlers \ {h} : handler'[g] = handler[g],
         Harmless(handler'[h])
  PROVE  BoardOK'
<1> DEFINE row == [order[o] EXCEPT !.status = s]
<1>1. /\ row.status = s /\ row.company = order[o].company /\ row.hidden = order[o].hidden
      /\ order' = [order EXCEPT ![o] = row]
  BY Rows DEF IInv, OrderRow, SetStatus, SetOrder
<1> HIDE DEF row
<1>2. order'[o].status = s /\ order'[o].company = order[o].company
  BY <1>1 DEF IInv, TypeOK
<1>3. s # "absent"
  BY DEF BoardStatuses, OnTheWay, PICKED_UP_ORDERS, DELIVERED_ORDERS
<1>4. Exists(o)' /\ (Placed(o) => Placed(o)')
  BY <1>2, <1>3 DEF Exists, Placed, TripsOf
<1>5. PlaceOK(o)'
  BY <1>2, <1>4 DEF PlaceOK, BoardOK
<1> QED BY <1>1, <1>3, <1>4, <1>5, BoardWrite

LEMMA BookingBoard ==
  ASSUME Calls \subseteq BoardCalls, IInv, BoardOK, FreshAccept, NEW h \in Handlers, Booking(h)
  PROVE  BoardOK'
<1>1. TypeOK /\ \A g \in Orders : PlaceOK(g)
  BY DEF IInv, BoardOK
<1>2. PICK o \in Orders :
        \/ CreateNew(h, o) \/ CreatePublished(h, o)
        \/ \E c \in Companies, t \in Trips \cup {NoOne} : CreateDispatched(h, o, c, t)
        \/ \E p \in BOOLEAN : Publish(h, o, p)
        \/ Archive(h, o) \/ ServiceFeeFailed(h, o)
        \/ \E c \in Companies : Accept(h, o, c) \/ AcceptInvite(h, o, c)
  BY DEF Booking, Delete, AdminArchive, Called, BoardCalls
<1>3. ASSUME NEW row, row.status \in {"new", "published"}, row.company = NoOne,
             SetOrder(o, row), UNCHANGED link, ~Exists(o), handler[h] = Idle, UNCHANGED handler
      PROVE  BoardOK'
  <2>1. order' = [order EXCEPT ![o] = row] /\ order'[o] = row
    BY <1>1, <1>3 DEF SetOrder, TypeOK
  <2>2. \A t \in Trips : link[o][t] = "none"
    BY <1>1, <1>3 DEF PlaceOK
  <2>3. PlaceOK(o)' /\ ~Placed(o)
    BY <1>3, <2>1, <2>2 DEF PlaceOK, Placed, OnTheWay, PICKED_UP_ORDERS, DELIVERED_ORDERS
  <2> QED BY <1>3, <2>1, <2>3, BoardWrite, Rests
<1>4. CASE CreateNew(h, o)
  <2> DEFINE row == [NoOrder EXCEPT !.status = "new"]
  <2>1. row.status = "new" /\ row.company = NoOne
    BY DEF NoOrder
  <2>2. SetOrder(o, row) /\ ~Exists(o) /\ handler[h] = Idle /\ UNCHANGED <<link, handler>>
    BY <1>4 DEF CreateNew, Called
  <2> HIDE DEF row
  <2> QED BY <1>3, <2>1, <2>2
<1>5. CASE CreatePublished(h, o)
  <2> DEFINE row == [NoOrder EXCEPT !.status = "published", !.published = TRUE]
  <2>1. row.status = "published" /\ row.company = NoOne
    BY DEF NoOrder
  <2>2. SetOrder(o, row) /\ ~Exists(o) /\ handler[h] = Idle /\ UNCHANGED <<link, handler>>
    BY <1>5 DEF CreatePublished, Called
  <2> HIDE DEF row
  <2> QED BY <1>3, <2>1, <2>2
<1>6. ASSUME NEW c \in Companies, NEW t \in Trips \cup {NoOne}, CreateDispatched(h, o, c, t)
      PROVE  BoardOK'
  <2> DEFINE row == [NoOrder EXCEPT !.status = "dispatched", !.published = TRUE, !.company = c]
  <2>1. row.status = "dispatched" /\ row.company = c
    BY DEF NoOrder
  <2>2. SetOrder(o, row) /\ ~Exists(o) /\ handler[h] = Idle /\ UNCHANGED handler
    BY <1>6 DEF CreateDispatched, Called
  <2> HIDE DEF row
  <2>3. order' = [order EXCEPT ![o] = row] /\ order'[o] = row
    BY <1>1, <2>2 DEF SetOrder, TypeOK
  <2>4. \A u \in Trips : link[o][u] = "none"
    BY <1>1, <2>2 DEF PlaceOK
  <2>5. /\ \A u \in Orders \ {o} : link'[u] = link[u]
        /\ \A u \in Trips : link'[o][u] # "none" => CompanyOf[u] = c
    BY <1>1, <1>6, <2>4, NoOneAssumption DEF CreateDispatched, TypeOK
  <2>6. PlaceOK(o)' /\ ~Placed(o)
    BY <2>1, <2>2, <2>3, <2>5
       DEF PlaceOK, Placed, Exists, BoardStatuses, OnTheWay, PICKED_UP_ORDERS, DELIVERED_ORDERS
  <2> QED BY <2>1, <2>2, <2>3, <2>5, <2>6, BoardWrite, Rests
<1>7. ASSUME NEW p \in BOOLEAN, Publish(h, o, p)
      PROVE  BoardOK'
  <2>1. \A u \in Orders : SamePlace(u)
    BY <1>1, <1>7, Rows DEF Publish, SamePlace, TypeOK, OrderRow
  <2> QED BY <1>7, <2>1, Rests, BoardKept DEF Publish, Called
<1>8. CASE Archive(h, o)
  <2> DEFINE row == [order[o] EXCEPT !.status = "archived", !.hidden = TRUE]
  <2>1. row.status = "archived" /\ row.company = order[o].company /\ row.hidden
    BY <1>1, Rows DEF OrderRow
  <2>2. order' = [order EXCEPT ![o] = row] /\ Exists(o) /\ UNCHANGED link
    BY <1>8 DEF Archive, SetOrder
  <2> HIDE DEF row
  <2>3. order'[o] = row
    BY <1>1, <2>2 DEF TypeOK
  <2>4. Exists(o)' /\ (Placed(o) => Placed(o)')
    BY <2>1, <2>2, <2>3 DEF Exists, Placed, TripsOf
  <2>5. PlaceOK(o)'
    BY <1>1, <2>1, <2>2, <2>3, <2>4
       DEF PlaceOK, OnTheWay, PICKED_UP_ORDERS, DELIVERED_ORDERS
  <2> QED BY <1>8, <2>1, <2>2, <2>4, <2>5, Rests, BoardWrite DEF Archive, Called
<1>9. CASE ServiceFeeFailed(h, o)
  <2>1. \A u \in Orders : SamePlace(u)
    BY <1>1, <1>9, Rows DEF ServiceFeeFailed, SamePlace, TypeOK, OrderRow
  <2> QED BY <1>9, <2>1, Rests, BoardKept DEF ServiceFeeFailed, Called
<1>10. ASSUME NEW c \in Companies, NEW row, row.status = "dispatched", row.company = c,
              SetOrder(o, row), UNCHANGED link, Exists(o), handler[h] = Idle, UNCHANGED handler
       PROVE  BoardOK'
  <2>1. /\ order' = [order EXCEPT ![o] = row] /\ order'[o] = row
        /\ \A u \in Orders \ {o} : order'[u] = order[u]
    BY <1>1, <1>10 DEF SetOrder, TypeOK
  <2>2. c # NoOne /\ Exists(o)'
    BY <1>10, <2>1, NoOneAssumption DEF Exists
  <2>3. order[o].company # c => /\ \A t \in Trips : link[o][t] = "none"
                               /\ \A g \in Handlers : handler[g].order # o
    BY <1>10, <2>1, <2>2 DEF FreshAccept
  <2>4. PlaceOK(o)'
    BY <1>1, <1>10, <2>1, <2>2, <2>3
       DEF PlaceOK, BoardStatuses, OnTheWay, PICKED_UP_ORDERS, DELIVERED_ORDERS
  <2>5. CASE order[o].company = c
    <3>1. Placed(o) => Placed(o)'
      BY <1>10, <2>1, <2>2, <2>5 DEF Placed, TripsOf
    <3> QED BY <1>10, <2>1, <2>4, <3>1, Rests, BoardWrite
  <2>6. CASE order[o].company # c
    <3>1. \A u \in Orders \ {o} : Stays(u)
      BY <1>1, <1>10, <2>1, SamePlaceStays DEF SamePlace
    <3>2. ASSUME NEW g \in Handlers PROVE MoveOK(handler[g])'
      BY <1>10, <2>3, <2>6, <3>1, MoveStays
    <3>3. \A u \in Orders : PlaceOK(u)'
      BY <2>4, <3>1 DEF Stays
    <3> QED BY <3>2, <3>3 DEF BoardOK, PlaceOK, MoveOK
  <2> QED BY <2>5, <2>6
<1>11. ASSUME NEW c \in Companies, Accept(h, o, c) PROVE BoardOK'
  <2> DEFINE row == [order[o] EXCEPT !.status = "dispatched", !.company = c, !.pay = "other"]
  <2>1. row.status = "dispatched" /\ row.company = c
    BY <1>1, Rows DEF OrderRow
  <2>2. SetOrder(o, row) /\ Exists(o) /\ handler[h] = Idle /\ UNCHANGED <<link, handler>>
    BY <1>11 DEF Accept, Called
  <2> HIDE DEF row
  <2> QED BY <1>10, <2>1, <2>2
<1>12. ASSUME NEW c \in Companies, AcceptInvite(h, o, c) PROVE BoardOK'
  <2> DEFINE row == [order[o] EXCEPT !.status = "dispatched", !.company = c,
                                     !.published = TRUE, !.pay = "other"]
  <2>1. row.status = "dispatched" /\ row.company = c
    BY <1>1, Rows DEF OrderRow
  <2>2. SetOrder(o, row) /\ Exists(o) /\ handler[h] = Idle /\ UNCHANGED <<link, handler>>
    BY <1>12 DEF AcceptInvite, Called
  <2> HIDE DEF row
  <2> QED BY <1>10, <2>1, <2>2
<1> QED BY <1>2, <1>4, <1>5, <1>6, <1>7, <1>8, <1>9, <1>11, <1>12

LEMMA ReleasingBoard ==
  ASSUME Calls \subseteq BoardCalls, IInv, BoardOK, NEW h \in Handlers, Releasing(h)
  PROVE  BoardOK'
<1>1. TypeOK /\ RequestOK(handler[h]) /\ MoveOK(handler[h]) /\ \A o \in Orders : PlaceOK(o)
  BY DEF IInv, RequestsBacked, BoardOK
<1>2. /\ {"canceled", "declined"} \subseteq BoardStatuses \ OnTheWay
      /\ OnTheWay \subseteq BoardStatuses
  BY DEF BoardStatuses, OnTheWay, PICKED_UP_ORDERS, DELIVERED_ORDERS
<1>3. ASSUME NEW o \in Orders, NEW a \in Companies \cup {NoOne}, NEW t \in Trips \cup {NoOne},
             CancelRead(h, o, a, t)
      PROVE  BoardOK'
  <2>1. PICK f : Read(h, "cancel", o, NoOne, f, NoOne)
    BY <1>3 DEF CancelRead
  <2>2. Exists(o)
    BY <1>3 DEF CancelRead
  <2> QED BY <2>1, <2>2, BoardRead DEF MoveOK, WillWrite
<1>4. ASSUME NEW o \in Orders, ClientCancelRead(h, o)
      PROVE  BoardOK'
  BY <1>2, <1>4, BoardStatusRead DEF ClientCancelRead
<1>5. ASSUME NEW o \in Orders, NEW t \in Trips, DeclineRead(h, o, t)
      PROVE  BoardOK'
  BY <1>2, <1>5, BoardStatusRead DEF DeclineRead
<1>6. ASSUME NEW o \in Orders, NEW t \in Trips \cup {NoOne}, DeleteOrderRead(h, o, t)
      PROVE  BoardOK'
  <2>1. Read(h, "unlink", o, NoOne, t, NoOne) /\ Exists(o)
    BY <1>6 DEF DeleteOrderRead
  <2> QED BY <2>1, BoardRead DEF MoveOK, WillWrite
<1>7. ASSUME NEW o \in Orders, NEW f \in Trips \cup {NoOne}, NEW row,
             order' = [order EXCEPT ![o] = row], row.company = NoOne,
             row.status = order[o].status \/ row.status \in {"published", "canceled"},
             link' = IF f = NoOne THEN link ELSE Unlinked(o, f), Exists(o), Done(h)
      PROVE  BoardOK'
  <2>1. order'[o] = row /\ row.status # "absent"
    BY <1>1, <1>7 DEF TypeOK, Exists
  <2>2. /\ \A u \in Orders \ {o} : link'[u] = link[u]
        /\ \A t \in Trips : link'[o][t] # "none" => link[o][t] # "none"
    BY <1>1, <1>7 DEF TypeOK, Unlinked
  <2>3. Placed(o)' /\ PlaceOK(o)'
    BY <1>7, <2>1, <2>2 DEF Placed, Exists, PlaceOK
  <2> QED BY <1>7, <2>1, <2>2, <2>3, Rests, BoardWrite
<1>8. CASE CancelWrite(h)
  <2> DEFINE o == handler[h].order
             s == IF o \in Internal THEN "published" ELSE "canceled"
             row == [order[o] EXCEPT !.status = s, !.company = NoOne]
  <2>1. o \in Orders /\ Exists(o)
    BY <1>1, <1>8 DEF CancelWrite, RequestOK, MoveOK
  <2>2. row.status \in {"published", "canceled"} /\ row.company = NoOne
    BY <1>1, <2>1, Rows DEF OrderRow
  <2>3. /\ order' = [order EXCEPT ![o] = row] /\ Done(h)
        /\ link' = IF handler[h].from = NoOne THEN link ELSE Unlinked(o, handler[h].from)
    BY <1>8 DEF CancelWrite, SetOrder
  <2>4. handler[h].from \in Trips \cup {NoOne}
    BY <1>1, Rows DEF Request
  <2> HIDE DEF row, o
  <2> QED BY <1>7, <2>1, <2>2, <2>3, <2>4
<1>9. CASE DeleteOrderWrite(h)
  <2> DEFINE o == handler[h].order
             row == [order[o] EXCEPT !.company = NoOne]
  <2>1. o \in Orders /\ Exists(o)
    BY <1>1, <1>9 DEF DeleteOrderWrite, RequestOK, MoveOK
  <2>2. row.status = order[o].status /\ row.company = NoOne
    BY <1>1, <2>1, Rows DEF OrderRow
  <2>3. /\ order' = [order EXCEPT ![o] = row] /\ Done(h)
        /\ link' = IF handler[h].from = NoOne THEN link ELSE Unlinked(o, handler[h].from)
    BY <1>9 DEF DeleteOrderWrite
  <2>4. handler[h].from \in Trips \cup {NoOne}
    BY <1>1, Rows DEF Request
  <2> HIDE DEF row, o
  <2> QED BY <1>7, <2>1, <2>2, <2>3, <2>4
<1> QED BY <1>3, <1>4, <1>5, <1>6, <1>8, <1>9 DEF Releasing

\* A trip and its rows get another status: the board shows neither.
LEMMA LinksToSame ==
  ASSUME TypeOK, NEW t \in Trips, NEW s \in LinkStatuses \ {"none"},
         order' = order, link' = LinksTo(t, s)
  PROVE  \A o \in Orders : SamePlace(o)
BY DEF TypeOK, LinksTo, SamePlace, LinkStatuses

LEMMA PlanningBoard ==
  ASSUME Calls \subseteq BoardCalls, IInv, BoardOK, NEW h \in Handlers, Planning(h)
  PROVE  BoardOK'
<1>1. TypeOK /\ RequestOK(handler[h]) /\ MoveOK(handler[h]) /\ \A o \in Orders : PlaceOK(o)
  BY DEF IInv, RequestsBacked, BoardOK
<1>2. ASSUME NEW t \in Trips, NEW d \in Drivers \cup {NoOne}, NEW S \in SUBSET Orders,
             TripCreate(h, t, d, S)
      PROVE  BoardOK'
  <2>1. \A o \in Orders \ S : SamePlace(o)
    BY <1>1, <1>2 DEF TripCreate, SamePlace, TypeOK
  <2>2. ASSUME NEW o \in S
        PROVE  Stays(o)
    <3>1. /\ order' = order /\ link'[o] = [link[o] EXCEPT ![t] = "draft"]
          /\ Exists(o) /\ order[o].company \in {NoOne, CompanyOf[t]}
      BY <1>1, <1>2 DEF TripCreate, Exists, PlaceOK, BoardStatuses, OnTheWay,
                         PICKED_UP_ORDERS, DELIVERED_ORDERS
    <3>2. /\ \A u \in Trips : link'[o][u] # "none" => u = t \/ link[o][u] # "none"
          /\ \A u \in Trips : link[o][u] # "none" => link'[o][u] # "none"
      BY <1>1, <3>1 DEF TypeOK
    <3>3. Exists(o)' /\ (Placed(o) => Placed(o)')
      BY <3>1, <3>2 DEF Exists, Placed, TripsOf
    <3>4. PlaceOK(o)'
      BY <1>1, <3>1, <3>2, <3>3 DEF PlaceOK
    <3> QED BY <3>3, <3>4 DEF Stays
  <2>3. \A o \in Orders : Stays(o)
    BY <1>1, <2>1, <2>2, SamePlaceStays
  <2> QED BY <1>2, <2>3, Rests, BoardStep DEF TripCreate, Called
<1>3. ASSUME NEW t \in Trips, NEW d \in Drivers \cup {NoOne}, AssignDriver(h, t, d)
      PROVE  BoardOK'
  BY <1>3, Rests, BoardKept DEF AssignDriver, Called, SamePlace
<1>4. ASSUME NEW t \in Trips, MoveToDraft(h, t)
      PROVE  BoardOK'
  BY <1>1, <1>4, Rests, LinksToSame, BoardKept DEF MoveToDraft, Called, LinkStatuses
<1>5. ASSUME NEW t \in Trips, TripPublishRead(h, t) \/ TripStartRead(h, t)
      PROVE  BoardOK'
  BY <1>5, BoardOtherRead DEF TripPublishRead, TripStartRead
<1>6. CASE TripPublishWrite(h)
  <2>1. handler[h].trip \in Trips
    BY <1>1, <1>6 DEF TripPublishWrite, RequestOK
  <2> QED BY <1>1, <1>6, <2>1, Rests, LinksToSame, BoardKept DEF TripPublishWrite, LinkStatuses
<1>7. CASE TripStartWrite(h)
  <2>1. handler[h].trip \in Trips
    BY <1>1, <1>7 DEF TripStartWrite, RequestOK
  <2> QED BY <1>1, <1>7, <2>1, Rests, LinksToSame, BoardKept DEF TripStartWrite, LinkStatuses
<1>8. ~TripDeleteWrite(h) /\ ~AssignWrite(h)
  BY <1>1 DEF TripDeleteWrite, AssignWrite, MoveOK
<1>9. \A t \in Trips :
        /\ ~TripDeleteRead(h, t)
        /\ \A S \in SUBSET Orders : ~TripPatch(h, t, S)
        /\ \A o \in Orders : ~DeleteFromTrip(h, o, t)
        /\ \A o \in Orders, f \in Trips \cup {NoOne} : ~AssignRead(h, o, t, f)
  BY DEF TripPatch, TripDeleteRead, DeleteFromTrip, AssignRead, Called, BoardCalls
<1> QED BY <1>2, <1>3, <1>4, <1>5, <1>6, <1>7, <1>8, <1>9 DEF Planning

LEMMA DrivingBoard ==
  ASSUME Calls \subseteq BoardCalls, IInv, BoardOK, NEW h \in Handlers, Driving(h)
  PROVE  BoardOK'
<1>1. RequestOK(handler[h]) /\ MoveOK(handler[h]) /\ \A o \in Orders : PlaceOK(o)
  BY DEF IInv, RequestsBacked, BoardOK
<1>2. \A o \in Orders, t \in Trips : t \in TripsOf(o) => Placed(o)
  BY <1>1 DEF TripsOf, Placed, PlaceOK
<1>3. /\ {"on_way_to_pickup", "on_pickup", "on_way_to_delivery", "on_delivery",
          "signature_requested"} \subseteq OnTheWay
      /\ OnTheWay \subseteq BoardStatuses
  BY DEF BoardStatuses, OnTheWay, PICKED_UP_ORDERS
<1>4. \A o \in Orders : ActiveTrips(o) # {} => Placed(o) /\ Exists(o)
  BY <1>2 DEF ActiveTrips, TripsOf, Placed
<1>5. ASSUME NEW o \in Orders, NEW t \in Trips, DriverToPickupRead(h, o, t)
      PROVE  BoardOK'
  <2>1. Read(h, "pickup", o, t, NoOne, NoOne) /\ Placed(o)
    BY <1>2, <1>5 DEF DriverToPickupRead
  <2> QED BY <2>1, BoardRead DEF MoveOK, WillWrite
<1>6. ASSUME NEW o \in Orders, NEW d \in Drivers,
             ToPickupRead(h, o, d) \/ ToDeliveryRead(h, o, d) \/ OnDeliveryRead(h, o, d)
      PROVE  BoardOK'
  <2>1. PICK v \in OnTheWay : Read(h, "status", o, NoOne, NoOne, v)
    BY <1>3, <1>6 DEF ToPickupRead, ToDeliveryRead, OnDeliveryRead, DriverAction
  <2>2. ActiveTrips(o) # {}
    BY <1>6 DEF ToPickupRead, ToDeliveryRead, OnDeliveryRead, DriverAction
  <2> QED BY <1>3, <1>4, <2>1, <2>2, BoardStatusRead
<1>7. ASSUME NEW o \in Orders, NearPickupRead(h, o) \/ NearDeliveryRead(h, o)
      PROVE  BoardOK'
  <2>1. PICK v \in OnTheWay : Read(h, "status", o, NoOne, NoOne, v)
    BY <1>3, <1>7 DEF NearPickupRead, NearDeliveryRead
  <2>2. ActiveTrips(o) # {}
    BY <1>7 DEF NearPickupRead, NearDeliveryRead
  <2> QED BY <1>3, <1>4, <2>1, <2>2, BoardStatusRead
<1>8. ASSUME NEW o \in Orders, RequestSignatureRead(h, o) \/ DeliveryInspectionRead(h, o)
      PROVE  BoardOK'
  <2>1. Read(h, "status", o, NoOne, NoOne, "signature_requested")
    BY <1>8 DEF RequestSignatureRead, DeliveryInspectionRead
  <2>2. Placed(o)
    BY <1>1, <1>4, <1>8 DEF RequestSignatureRead, DeliveryInspectionRead, PlaceOK, OnTheWay,
                            PICKED_UP_ORDERS
  <2> QED BY <1>3, <2>1, <2>2, BoardStatusRead DEF Placed
<1>9. CASE DriverToPickupWrite(h)
  <2>1. handler[h].order \in Orders /\ Placed(handler[h].order)
    BY <1>1, <1>9 DEF DriverToPickupWrite, RequestOK, MoveOK
  <2> QED BY <1>3, <1>9, <2>1, Rests, BoardStatus DEF DriverToPickupWrite, Placed
<1> QED BY <1>5, <1>6, <1>7, <1>8, <1>9 DEF Driving

LEMMA SigningBoard ==
  ASSUME Calls \subseteq BoardCalls, IInv, BoardOK, NEW h \in Handlers, Signing(h)
  PROVE  BoardOK'
<1>1. /\ TypeOK /\ RequestOK(handler[h]) /\ MoveOK(handler[h])
      /\ \A o \in Orders : PlaceOK(o)
  BY DEF IInv, RequestsBacked, BoardOK
<1>2. "picked_up" \in OnTheWay /\ "delivered" \in OnTheWay /\ OnTheWay \subseteq BoardStatuses
  BY DEF BoardStatuses, OnTheWay, PICKED_UP_ORDERS, DELIVERED_ORDERS
<1>3. ASSUME NEW o \in Orders, order[o].status \in {"signature_requested", "on_pickup"}
      PROVE  Placed(o)
  BY <1>1, <1>3 DEF PlaceOK, OnTheWay
<1>4. ASSUME NEW o \in Orders, NEW type \in {"pickup", "delivery"},
             ClientSignRead(h, o, type) \/ DriverSignRead(h, o, type)
      PROVE  BoardOK'
  <2>1. PICK s \in {"charge", "sign"} : Read(h, s, o, NoOne, NoOne, NextStatus(type))
    BY <1>4 DEF ClientSignRead, DriverSignRead, SignRead
  <2>2. NextStatus(type) \in OnTheWay
    BY <1>2 DEF NextStatus
  <2>3. Placed(o)
    BY <1>3, <1>4 DEF ClientSignRead, DriverSignRead
  <2> QED BY <1>2, <2>1, <2>2, <2>3, BoardStatusRead DEF Placed
<1>5. ASSUME NEW o \in Orders, RetryChargeRead(h, o)
      PROVE  BoardOK'
  BY <1>5, BoardRead DEF RetryChargeRead, MoveOK, WillWrite
<1>6. ASSUME NEW row, handler[h].step = "charge",
             order' = [order EXCEPT ![handler[h].order] = row], UNCHANGED link,
             row.status = order[handler[h].order].status,
             row.company = order[handler[h].order].company,
             row.hidden = order[handler[h].order].hidden
      PROVE  \A u \in Orders : SamePlace(u)
  BY <1>1, <1>6 DEF SamePlace, TypeOK
<1>7. CASE ChargeOrder(h)
  <2> DEFINE o == handler[h].order
             v == handler[h].value
             row == [order[o] EXCEPT !.pay = "car_pickup_paid"]
  <2>1. o \in Orders /\ handler[h].step = "charge"
    BY <1>1, <1>7 DEF ChargeOrder, RequestOK
  <2>2. /\ row.status = order[o].status /\ row.company = order[o].company
        /\ row.hidden = order[o].hidden
    BY <1>1, <2>1, Rows DEF OrderRow
  <2>3. order' = [order EXCEPT ![o] = row] /\ UNCHANGED link
    BY <1>7 DEF ChargeOrder
  <2> HIDE DEF row
  <2>4. \A u \in Orders : SamePlace(u)
    BY <1>6, <2>1, <2>2, <2>3
  <2>5. CASE Done(h)
    BY <2>4, <2>5, Rests, BoardKept
  <2>6. CASE v # NoOne /\ Keep(h, "sign", o, NoOne, NoOne, v)
    <3>1. /\ handler'[h] = [step |-> "sign", order |-> o, trip |-> NoOne, from |-> NoOne, value |-> v]
          /\ \A g \in Handlers \ {h} : handler'[g] = handler[g]
      BY <1>1, <2>6 DEF TypeOK, Keep
    <3>2. \A u \in Orders : Stays(u)
      BY <1>1, <2>4, SamePlaceStays
    <3>3. PICK u \in Orders : u = o
      BY <2>1
    <3>4. v \in BoardStatuses /\ Exists(u)' /\ (v \in OnTheWay => Placed(u)')
      BY <1>1, <2>1, <2>6, <3>2, <3>3 DEF MoveOK, WillWrite, Stays
    <3>5. MoveOK(handler[h])'
      BY <3>1, <3>3, <3>4 DEF MoveOK, WillWrite, Exists, Placed, TripsOf
    <3> QED BY <3>1, <3>2, <3>5, BoardStep
  <2> QED BY <1>7, <2>5, <2>6 DEF ChargeOrder
<1>8. CASE ChargeOrderFails(h)
  <2> DEFINE o == handler[h].order
             row == [order[o] EXCEPT !.pay = "car_pickup_failed"]
  <2>1. o \in Orders /\ handler[h].step = "charge"
    BY <1>1, <1>8 DEF ChargeOrderFails, RequestOK
  <2>2. /\ row.status = order[o].status /\ row.company = order[o].company
        /\ row.hidden = order[o].hidden
    BY <1>1, <2>1, Rows DEF OrderRow
  <2>3. order' = [order EXCEPT ![o] = row] /\ UNCHANGED link /\ Done(h)
    BY <1>8 DEF ChargeOrderFails
  <2> HIDE DEF row
  <2>4. \A u \in Orders : SamePlace(u)
    BY <1>6, <2>1, <2>2, <2>3
  <2> QED BY <2>3, <2>4, Rests, BoardKept
<1>9. CASE SignWrite(h)
  <2>1. /\ handler'[h].step \in {"idle", "findTrip"}
        /\ \A g \in Handlers \ {h} : handler'[g] = handler[g]
    BY <1>1, <1>9 DEF SignWrite, TypeOK, Done, Idle, Keep
  <2>2. /\ handler[h].order \in Orders /\ handler[h].value \in BoardStatuses
        /\ Exists(handler[h].order)
        /\ handler[h].value \in OnTheWay => Placed(handler[h].order)
    BY <1>1, <1>9 DEF SignWrite, RequestOK, MoveOK, WillWrite
  <2> QED BY <1>9, <2>1, <2>2, BoardStatus DEF SignWrite, Harmless
<1> QED BY <1>4, <1>5, <1>7, <1>8, <1>9 DEF Signing

LEMMA CompletingBoard ==
  ASSUME IInv, BoardOK, NEW h \in Handlers, Completing(h)
  PROVE  BoardOK'
<1>1. TypeOK
  BY DEF IInv
<1>2. UNCHANGED <<order, link>>
  BY DEF Completing, FindTrip, CountUndelivered, CompleteTrip, Read, tables
<1>3. /\ handler'[h].step \in {"idle", "count", "complete"}
      /\ \A g \in Handlers \ {h} : handler'[g] = handler[g]
  BY <1>1 DEF Completing, FindTrip, CountUndelivered, CompleteTrip, Read, Keep, Done, Idle, TypeOK
<1> QED BY <1>2, <1>3, BoardKept DEF SamePlace, Harmless

LEMMA BillingBoard ==
  ASSUME IInv, BoardOK, NEW h \in Handlers, Billing(h)
  PROVE  BoardOK'
<1>1. \A o \in Orders : PlaceOK(o)
  BY DEF BoardOK
<1>2. {"billed", "paid"} \subseteq OnTheWay /\ OnTheWay \subseteq BoardStatuses
  BY DEF BoardStatuses, OnTheWay, DELIVERED_ORDERS
<1>3. ASSUME NEW o \in Orders, SendInvoiceRead(h, o)
      PROVE  BoardOK'
  <2>1. Placed(o)
    BY <1>1, <1>3 DEF SendInvoiceRead, TripsOf, PlaceOK, Placed
  <2> QED BY <1>2, <1>3, <2>1, BoardStatusRead DEF SendInvoiceRead, Placed
<1>4. ASSUME NEW o \in Orders, MarkPaidRead(h, o)
      PROVE  BoardOK'
  <2>1. Placed(o)
    BY <1>1, <1>2, <1>4 DEF MarkPaidRead, PlaceOK
  <2> QED BY <1>2, <1>4, <2>1, BoardStatusRead DEF MarkPaidRead, Placed
<1> QED BY <1>3, <1>4 DEF Billing

LEMMA NextBoard ==
  ASSUME Calls \subseteq BoardCalls
  PROVE  IInv /\ BoardOK /\ [Next]_vars /\ [FreshAccept]_vars => BoardOK'
<1> SUFFICES ASSUME IInv, BoardOK, [Next]_vars, [FreshAccept]_vars PROVE BoardOK'
  OBVIOUS
<1>1. CASE UNCHANGED vars
  BY <1>1 DEF vars, BoardOK, PlaceOK, MoveOK, WillWrite, Placed, Exists, TripsOf
<1>2. ASSUME NEW h \in Handlers, WriteStatus(h)
      PROVE  BoardOK'
  <2>1. RequestOK(handler[h]) /\ MoveOK(handler[h]) /\ handler[h].step = "status"
    BY <1>2 DEF IInv, RequestsBacked, BoardOK, WriteStatus
  <2>2. /\ handler[h].order \in Orders /\ handler[h].value \in BoardStatuses
        /\ Exists(handler[h].order)
        /\ handler[h].value \in OnTheWay => Placed(handler[h].order)
    BY <2>1 DEF RequestOK, MoveOK, WillWrite
  <2> QED BY <1>2, <2>2, Rests, BoardStatus DEF WriteStatus
<1>3. ASSUME NEW h \in Handlers, Abort(h)
      PROVE  BoardOK'
  BY <1>3, Rests, BoardKept DEF Abort, tables, SamePlace
<1>4. CASE Next /\ FreshAccept
  BY <1>2, <1>3, <1>4, BookingBoard, ReleasingBoard, PlanningBoard, DrivingBoard,
     SigningBoard, CompletingBoard, BillingBoard DEF Next
<1> QED BY <1>1, <1>4

\* The one tab for a status, "none" for the status that is on none.
TabOf(s) ==
  CASE s \in {"dispatched", "on_way_to_pickup", "on_pickup", "canceled"} -> "assigned"
    [] s \in PICKED_UP_ORDERS -> "picked_up"
    [] s = "signature_requested" -> "none"
    [] OTHER -> s

LEMMA TabOfStatus ==
  ASSUME NEW s \in BoardStatuses
  PROVE  /\ TabOf(s) \in Conditions <=> s # "signature_requested"
         /\ \A k \in Conditions : s \in StatusesOn(k) <=> k = TabOf(s)
         /\ TabOf(s) = "declined" <=> s = "declined"
BY DEF BoardStatuses, OnTheWay, PICKED_UP_ORDERS, DELIVERED_ORDERS, TabOf, Conditions, StatusesOn

\* A carrier's order is in one place of its load board, and in none while its
\* signature is waited for, for any number of orders, trips, carriers and
\* overlapping requests, as long as they are BoardCalls and a carrier is given
\* an order only as FreshAccept says.
THEOREM OnePlaceTheorem ==
  ASSUME Calls \subseteq BoardCalls
  PROVE  Spec /\ [][FreshAccept]_vars => []InOnePlace
<1>1. Init => BoardOK
  BY DEF Init, BoardOK, PlaceOK, MoveOK, WillWrite, Placed, Idle, NoOrder, BoardStatuses, OnTheWay,
         PICKED_UP_ORDERS, DELIVERED_ORDERS
<1>2. BoardOK => InOnePlace
  <2> SUFFICES ASSUME BoardOK, NEW c \in Companies, NEW o \in Orders,
                      order[o].published, ~order[o].hidden, order[o].company = c
               PROVE  Cardinality({k \in Conditions : o \in Tab(c, k)})
                        + (IF o \in NewLoads(c) THEN 1 ELSE 0)
                          = IF order[o].status = "signature_requested" THEN 0 ELSE 1
    BY DEF InOnePlace
  <2> DEFINE s == order[o].status
             OnTabs == {k \in Conditions : o \in Tab(c, k)}
  <2>1. c # NoOne /\ PlaceOK(o) /\ s \in BoardStatuses
    BY NoOneAssumption DEF BoardOK, PlaceOK
  <2>2. /\ TripsOf(o) # {} => \E t \in TripsOf(o) : CompanyOf[t] = c
        /\ s \in OnTheWay => TripsOf(o) # {}
    BY <2>1 DEF PlaceOK, Placed, TripsOf
  <2>3. \A k \in Conditions :
          o \in Tab(c, k) <=> k = TabOf(s) /\ (s # "declined" => TripsOf(o) # {})
    BY <2>1, <2>2, TabOfStatus DEF Tab
  <2>4. o \in NewLoads(c) <=> s # "declined" /\ TripsOf(o) = {}
    BY <2>1, <2>2 DEF NewLoads, Exists, BoardStatuses, OnTheWay, PICKED_UP_ORDERS, DELIVERED_ORDERS
  <2>5. s = "signature_requested" => s \in OnTheWay /\ TripsOf(o) # {}
    BY <2>2 DEF OnTheWay
  <2>6. CASE o \in NewLoads(c)
    <3>1. OnTabs = {} /\ s # "signature_requested"
      BY <2>3, <2>4, <2>5, <2>6
    <3>2. Cardinality(OnTabs) = 0
      BY <3>1, FS_EmptySet
    <3> QED BY <2>6, <3>1, <3>2
  <2>7. CASE s = "signature_requested"
    <3>1. OnTabs = {} /\ o \notin NewLoads(c)
      BY <2>1, <2>3, <2>4, <2>5, <2>7, TabOfStatus
    <3>2. Cardinality(OnTabs) = 0
      BY <3>1, FS_EmptySet
    <3> QED BY <2>7, <3>1, <3>2
  <2>8. CASE o \notin NewLoads(c) /\ s # "signature_requested"
    <3>1. OnTabs = {TabOf(s)}
      BY <2>1, <2>3, <2>4, <2>8, TabOfStatus
    <3>2. Cardinality(OnTabs) = 1
      BY <3>1, FS_Singleton
    <3> QED BY <2>8, <3>2
  <2> QED BY <2>6, <2>7, <2>8
<1>3. IInv /\ BoardOK /\ [Next]_vars /\ [FreshAccept]_vars => BoardOK'
  BY NextBoard
<1> QED BY <1>1, <1>2, <1>3, InitIInv, NextIInv, PTL DEF Spec
=============================================================================
