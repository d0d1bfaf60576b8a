------------------------------- MODULE Revenue -------------------------------
(***************************************************************************)
(* The two reports on a carrier's revenue (OrderRepository), over the      *)
(* orders of Invoicing.                                                    *)
(***************************************************************************)
EXTENDS Invoicing, FiniteSetsExt

Sum(S) == MapThenSumSet(LAMBDA o : order[o].price, S)

\* Mutant: an order without a shipper is in no group.
OwnOrdersOfShippers(c) == {o \in Orders : order[o].carrier = c /\ order[o].shipper # NoOne}

OwnOrders(c) == {o \in Orders : order[o].carrier = c}

Unpaid(S) == {o \in S : order[o].status # "paid" /\ Invoiced(o)}
Paid(S) == {o \in S : order[o].status = "paid" /\ Invoiced(o)}

\* getGeneralReport.  Unlike the report by shipper, and the list of what is
\* past due, it calls past due what is due after now.
GeneralReport(c) ==
  LET own == OwnOrders(c)
  IN  [revenue |-> Sum(own), paid |-> Sum(Paid(own)),
       pastDue |-> Sum({o \in Unpaid(own) : DueAfterNow(o)}),
       due |-> Sum({o \in Unpaid(own) : DueBeforeNow(o)})]

\* getByShipperReport groups by the shipper, null among them.
ShipperReport(c, s) ==
  LET own == {o \in OwnOrders(c) : order[o].shipper = s}
  IN  [revenue |-> Sum(own), paid |-> Sum(Paid(own)),
       due |-> Sum({o \in Unpaid(own) : DueAfterNow(o)}),
       pastDue |-> Sum({o \in Unpaid(own) : DueBeforeNow(o)})]

\* Its sum over the shippers.
OfShippers(c) ==
  [f \in {"revenue", "paid", "due", "pastDue"} |->
     MapThenSumSet(LAMBDA s : ShipperReport(c, s)[f], Shippers \cup {NoOne})]

-----------------------------------------------------------------------------
(* Properties. *)

\* The two reports add up to the same revenue, payments and debts, and the
\* list 'Get all your orders past due' (company.controller.ts:255) shows what
\* the report by shipper calls past due, unless the carrier has an order that
\* the list leaves out and the reports do not: a cancelled, archived or
\* unpublished one.
ReportsAgree ==
  \A c \in Carriers :
    LET all == GeneralReport(c)
        grouped == OfShippers(c)
    IN  /\ all.revenue = grouped.revenue
        /\ all.paid = grouped.paid
        /\ all.due + all.pastDue = grouped.due + grouped.pastDue
        /\ (\A o \in OwnOrders(c) : order[o].status # "canceled" /\ Shown(o))
             => grouped.pastDue = Sum(PastDue(c))

=============================================================================
