----------------------------- MODULE OrderBoards -----------------------------
(***************************************************************************)
(* The load board of a carrier (OrderService.getCompanyOrdersNewLoads,     *)
(* getCompanyOrdersAssigned and the queries of OrderRepository they run),  *)
(* over the tables of OrderLifecycle.                                      *)
(*                                                                         *)
(* The tab of billed orders also looks at the due date: module Invoicing.  *)
(***************************************************************************)
EXTENDS OrderLifecycle

\* ORDERS_CONDITION, the tabs beside the new loads.
Conditions == {"assigned", "billed", "claimed", "declined", "delivered", "paid", "picked_up"}

\* Mutant: the tab misses what is being unloaded.
StatusesOnButUnloading(condition) ==
  CASE condition = "assigned" ->
         {"dispatched", "published", "on_way_to_pickup", "on_pickup", "canceled"}
    [] condition = "picked_up" -> {"picked_up", "on_way_to_delivery"}
    [] OTHER -> {condition}

\* getCompanyOrdersAssigned.
StatusesOn(condition) ==
  CASE condition = "assigned" ->
         {"dispatched", "published", "on_way_to_pickup", "on_pickup", "canceled"}
    [] condition = "picked_up" -> PICKED_UP_ORDERS
    [] OTHER -> {condition}

\* getCompanyNewLoads, with noTrip.
NewLoads(c) ==
  {o \in Orders : /\ Exists(o) /\ order[o].published /\ ~order[o].hidden
                  /\ order[o].company = c
                  /\ order[o].status \notin {"declined", "deleted"} \cup DELIVERED_ORDERS
                  /\ TripsOf(o) = {}}

\* getCompanyAssignedOrders.  A declined order need not be on a trip.
Tab(c, condition) ==
  {o \in Orders : /\ order[o].published /\ ~order[o].hidden /\ order[o].company = c
                  /\ order[o].status \in StatusesOn(condition)
                  /\ condition # "declined" => \E t \in TripsOf(o) : CompanyOf[t] = c}

-----------------------------------------------------------------------------
(* Properties. *)

\* A carrier's order that is published and that it did not archive is in
\* exactly one place of its load board, among the new loads or on one tab,
\* whatever the two requests that move it and its trip are in the middle of;
\* but while a signature is waited for it is in none: no condition of
\* getCompanyOrdersAssigned lists that status.
InOnePlace ==
  \A c \in Companies, o \in Orders :
    order[o].published /\ ~order[o].hidden /\ order[o].company = c =>
      Cardinality({k \in Conditions : o \in Tab(c, k)}) + (IF o \in NewLoads(c) THEN 1 ELSE 0)
        = IF order[o].status = "signature_requested" THEN 0 ELSE 1

=============================================================================
