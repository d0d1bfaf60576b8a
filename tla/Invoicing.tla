------------------------------ MODULE Invoicing ------------------------------
(***************************************************************************)
(* From the delivery of an order to its payment: the invoice that is made  *)
(* once and mailed, the bill and its due date, and the lists and reports   *)
(* that tell the carrier what it is owed (OrderService.sendInvoice,        *)
(* getInvoiceLink, markPaid; OrderRepository.getCompanyAssignedOrders,     *)
(* getGeneralReport, getByShipperReport).                                  *)
(*                                                                         *)
(* sendInvoice has no transaction: it reads the order, saves the name of   *)
(* the invoice it made, mails it, and updates the order by id, each at its *)
(* own time; it may fail before each of them (Abort), and what was saved   *)
(* stays.                                                                  *)
(*                                                                         *)
(* OrderLifecycle has the way of an order to its delivery: here an order   *)
(* is `dispatched' until it is delivered, and its trip is the carrier's.   *)
(* The bill of lading is made and mailed like the invoice and left out.    *)
(***************************************************************************)
EXTENDS Requests, Naturals, FiniteSets

CONSTANTS
  Orders, Carriers, Shippers,
  Prices,      \* what an order may cost
  MaxTime,     \* the clock stops there
  MaxFiles     \* how many invoices are made in this instance

Times == 0..MaxTime
Files == 1..MaxFiles

ASSUME NoOneAssumption ==
  NoOne \notin Orders \cup Carriers \cup Shippers \cup Times \cup Files
ASSUME TablesAssumption == IsFiniteSet(Orders) /\ IsFiniteSet(Shippers)
ASSUME PricesAssumption == Prices \subseteq Nat
ASSUME BoundsAssumption == MaxTime \in Nat /\ MaxFiles \in Nat

VARIABLES
  order,     \* the order table
  now,       \* NOW() of the database
  files,     \* how many invoices were uploaded
  mailed,    \* history: the invoices that went out for each order
  handler    \* the locals of each request in flight

vars == <<order, now, files, mailed, handler>>

\* Those of ORDER_STATUS that matter here.
Statuses == {"published", "dispatched", "delivered", "billed", "paid", "canceled",
             "deleted", "archived"}

\* `hidden' is hiddenForCompnay.
OrderRow == [status : Statuses, published : BOOLEAN, hidden : BOOLEAN,
             carrier : Carriers \cup {NoOne},
             shipper : Shippers \cup {NoOne}, price : Prices,
             invoice : Files \cup {NoOne}, due : Times \cup {NoOne}]

Steps == {"idle", "generate", "mail", "bill", "pay", "release", "cancel"}
Locals == [step : Steps, order : Orders \cup {NoOne}, send : BOOLEAN,
           invoice : Files \cup {NoOne}, due : Times \cup {NoOne}]
Idle == [step |-> "idle", order |-> NoOne, send |-> FALSE,
         invoice |-> NoOne, due |-> NoOne]

TypeOK ==
  /\ order \in [Orders -> OrderRow]
  /\ now \in Times
  /\ files \in 0..MaxFiles
  /\ mailed \in [Orders -> SUBSET Files]
  /\ handler \in [Handlers -> Locals]

\* Orders are on their way, some without a shipper.
Init ==
  /\ order \in [Orders ->
       {[status |-> "dispatched", published |-> TRUE, hidden |-> FALSE,
         carrier |-> c, shipper |-> s, price |-> p, invoice |-> NoOne, due |-> NoOne] :
           c \in Carriers, s \in Shippers \cup {NoOne}, p \in Prices}]
  /\ now = 0
  /\ files = 0
  /\ mailed = [o \in Orders |-> {}]
  /\ handler = [h \in Handlers |-> Idle]

-----------------------------------------------------------------------------
Keep(h, locals) == handler' = [handler EXCEPT ![h] = locals]
Done(h) == Keep(h, Idle)
Read(h, locals) ==
  /\ handler[h] = Idle
  /\ Keep(h, locals)
  /\ UNCHANGED <<order, now, files, mailed>>

SetStatus(o, s) == order' = [order EXCEPT ![o].status = s]

\* getOrderForBOL, of an order on a trip of its carrier.
ForBOL(o) == order[o].status \in {"delivered", "billed"} /\ order[o].carrier # NoOne

-----------------------------------------------------------------------------
(* The invoice. *)

\* Mutant: the due date is the one asked for.
InvoiceReadAsked(h, o, send, asked) ==
  /\ ForBOL(o)
  /\ send \/ order[o].invoice = NoOne
  /\ Read(h, [step |-> IF order[o].invoice = NoOne THEN "generate" ELSE "mail",
              order |-> o, send |-> send, invoice |-> order[o].invoice, due |-> asked])

\* sendInvoice, for the due date `asked', and getInvoiceLink: with an invoice
\* at hand the latter only signs its name.
InvoiceRead(h, o, send, asked) ==
  /\ ForBOL(o)
  /\ send \/ order[o].invoice = NoOne
  /\ Read(h, [step |-> IF order[o].invoice = NoOne THEN "generate" ELSE "mail",
              order |-> o, send |-> send, invoice |-> order[o].invoice,
              due |-> IF order[o].due = NoOne THEN asked ELSE order[o].due])

\* Mutant: the invoice is mailed and its name forgotten.
SaveInvoiceNot(h) ==
  LET me == handler[h]
  IN  /\ me.step = "generate" /\ files < MaxFiles
      /\ files' = files + 1
      /\ IF me.send THEN Keep(h, [me EXCEPT !.step = "mail", !.invoice = files + 1])
                    ELSE Done(h)
      /\ UNCHANGED <<order, now, mailed>>

\* The invoice is uploaded, and its name saved by an update of its own.
SaveInvoice(h) ==
  LET me == handler[h]
  IN  /\ me.step = "generate" /\ files < MaxFiles
      /\ files' = files + 1
      /\ order' = [order EXCEPT ![me.order].invoice = files + 1]
      /\ IF me.send THEN Keep(h, [me EXCEPT !.step = "mail", !.invoice = files + 1])
                    ELSE Done(h)
      /\ UNCHANGED <<now, mailed>>

Mail(h) ==
  LET me == handler[h]
  IN  /\ me.step = "mail"
      /\ mailed' = [mailed EXCEPT ![me.order] = @ \cup {me.invoice}]
      /\ Keep(h, [me EXCEPT !.step = "bill"])
      /\ UNCHANGED <<order, now, files>>

\* Mutant: an order is billed without a due date.
BillUndated(h) ==
  LET me == handler[h]
  IN  /\ me.step = "bill"
      /\ SetStatus(me.order, "billed")
      /\ Done(h)
      /\ UNCHANGED <<now, files, mailed>>

\* `new Date()' when neither the order nor the caller has a due date.
Bill(h) ==
  LET me == handler[h]
  IN  /\ me.step = "bill"
      /\ order' = [order EXCEPT ![me.order].status = "billed",
                                ![me.order].due = IF me.due = NoOne THEN now ELSE me.due]
      /\ Done(h)
      /\ UNCHANGED <<now, files, mailed>>

-----------------------------------------------------------------------------
(* What else happens to the order. *)

\* signInspection at the delivery.
Deliver(o) ==
  /\ order[o].status = "dispatched"
  /\ SetStatus(o, "delivered")
  /\ UNCHANGED <<now, files, mailed, handler>>

MarkPaidRead(h, o) ==
  order[o].status = "billed" /\ Read(h, [Idle EXCEPT !.step = "pay", !.order = o])

MarkPaidWrite(h) ==
  /\ handler[h].step = "pay"
  /\ SetStatus(handler[h].order, "paid")
  /\ Done(h)
  /\ UNCHANGED <<now, files, mailed>>

\* cancelOrder by the carrier or the super admin.
CancelRead(h, o) ==
  /\ order[o].status \in {"dispatched", "billed", "paid"}
  /\ Read(h, [Idle EXCEPT !.step = "release", !.order = o])

\* actionCancelOrder, of a client's order: the invoice stays where it is.
CancelWrite(h) ==
  /\ handler[h].step = "release"
  /\ order' = [order EXCEPT ![handler[h].order].status = "published",
                            ![handler[h].order].carrier = NoOne]
  /\ Done(h)
  /\ UNCHANGED <<now, files, mailed>>

\* cancelOrderForClient refuses an order that is delivered or paid, not one
\* that is billed.
ClientCancelRead(h, o) ==
  /\ order[o].status \notin {"delivered", "paid"}
  /\ Read(h, [Idle EXCEPT !.step = "cancel", !.order = o])

ClientCancelWrite(h) ==
  /\ handler[h].step = "cancel"
  /\ SetStatus(handler[h].order, "canceled")
  /\ Done(h)
  /\ UNCHANGED <<now, files, mailed>>

\* DispatchService.accept: another carrier gets the order.
Accept(o, c) ==
  /\ order[o].status = "published"
  /\ order' = [order EXCEPT ![o].status = "dispatched", ![o].carrier = c]
  /\ UNCHANGED <<now, files, mailed, handler>>

\* archiveOrder, whatever the status: by the order's carrier, who does not see
\* it any more, or by the super admin (NoOne).
Archive(o, account) ==
  /\ account \in {NoOne, order[o].carrier}
  /\ order' = [order EXCEPT ![o].status = "archived",
                            ![o].hidden = @ \/ account # NoOne]
  /\ UNCHANGED <<now, files, mailed, handler>>

\* delete, by the super admin.
Delete(o) ==
  /\ order' = [order EXCEPT ![o].status = "deleted", ![o].published = FALSE]
  /\ UNCHANGED <<now, files, mailed, handler>>

\* publish and unpublish, by the super admin.
SetPublished(o, published) ==
  /\ order' = [order EXCEPT ![o].published = published]
  /\ UNCHANGED <<now, files, mailed, handler>>

Tick ==
  /\ now < MaxTime /\ now' = now + 1
  /\ UNCHANGED <<order, files, mailed, handler>>

\* A request fails, or the process stops, before its next write.
Abort(h) ==
  /\ handler[h] # Idle
  /\ Done(h)
  /\ UNCHANGED <<order, now, files, mailed>>

Step(h) ==
  \/ \E o \in Orders :
       \/ \E send \in BOOLEAN, asked \in Times \cup {NoOne} : InvoiceRead(h, o, send, asked)
       \/ MarkPaidRead(h, o) \/ CancelRead(h, o) \/ ClientCancelRead(h, o)
  \/ SaveInvoice(h) \/ Mail(h) \/ Bill(h)
  \/ MarkPaidWrite(h) \/ CancelWrite(h) \/ ClientCancelWrite(h)
  \/ Abort(h)

\* What happens to an order at once.
OrderStep(o) ==
  \/ Deliver(o) \/ Delete(o)
  \/ \E c \in Carriers : Accept(o, c)
  \/ \E a \in Carriers \cup {NoOne} : Archive(o, a)
  \/ \E p \in BOOLEAN : SetPublished(o, p)

Next ==
  \/ \E h \in Handlers : Step(h)
  \/ \E o \in Orders : OrderStep(o)
  \/ Tick

Spec == Init /\ [][Next]_vars

-----------------------------------------------------------------------------
(* What the carrier sees. *)

Invoiced(o) == order[o].invoice # NoOne
DueAfterNow(o) == order[o].due # NoOne /\ order[o].due > now
DueBeforeNow(o) == order[o].due # NoOne /\ order[o].due < now

\* getCompanyAssignedOrders lists no other orders.
Shown(o) == order[o].published /\ ~order[o].hidden

\* GET /company/me/load-board/past-due.
PastDue(c) ==
  {o \in Orders : /\ Shown(o) /\ order[o].carrier = c
                  /\ order[o].status \notin {"canceled", "paid"}
                  /\ Invoiced(o) /\ DueBeforeNow(o)}

\* GET /company/me/load-board/billed.  The OR of the condition on the invoice
\* is not in parentheses: what stands before it ends there, so an invoiced
\* order that is not due yet is listed whatever its status, and one without
\* an invoice whether it is shown or not.
Billed(c) ==
  {o \in Orders :
     \/ Shown(o) /\ order[o].carrier = c /\ Invoiced(o) /\ DueAfterNow(o)
     \/ ~Invoiced(o) /\ order[o].status = "billed" /\ order[o].carrier = c}

-----------------------------------------------------------------------------
(* Properties. *)

\* A billed order of a carrier that is shown is on exactly one of the
\* carrier's two lists of bills, except in the instant in which it falls due,
\* and one that was archived or unpublished on neither: whatever failed
\* between the saving of the invoice, the mail and the update that bills the
\* order, whoever cancelled, archived or deleted it meanwhile, and whoever
\* had it before (sendInvoice, getCompanyAssignedOrders,
\* getCompanyOrdersPastDue).
BilledOnOneTab ==
  \A o \in Orders :
    LET c == order[o].carrier
    IN  order[o].status = "billed" /\ c # NoOne /\ order[o].due # now
        => /\ Shown(o) <=> o \in PastDue(c) \cup Billed(c)
           /\ o \notin PastDue(c) \cap Billed(c)

\* One request at a time, all the mails of an order carry the same invoice,
\* the one the order names, however many attempts to send it failed half way
\* (sendInvoice, order.service.ts:2206).
OneInvoice ==
  \A o \in Orders : mailed[o] \subseteq {order[o].invoice}

\* One request at a time, a due date that is set is never moved: not by a
\* second mail, nor by one that asks for another date (order.service.ts:2255).
DueDateKept ==
  [][\A o \in Orders : order[o].due # NoOne => order'[o].due = order[o].due]_vars

=============================================================================
