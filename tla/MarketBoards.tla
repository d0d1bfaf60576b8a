----------------------------- MODULE MarketBoards -----------------------------
(***************************************************************************)
(* Who sees an order while it looks for a carrier: the lists of the super  *)
(* admin (OrderController) and the market of the carriers                  *)
(* (DispatcherController), as queries of OrderRepository over the tables   *)
(* of Dispatching.  The orders are the firm's own (source INTERNAL), none  *)
(* is hidden, deleted or unpublished.                                      *)
(***************************************************************************)
EXTENDS Dispatching

\* addOrderFilters: the filters that look at a dispatch request.
NoDispatchForCompany(c) == {o \in Orders : DispatchesBy(o, c) = {}}
DispatchForCompany(c) == {o \in Orders : DispatchesBy(o, c) # {}}
WithDispatch(status) == {o \in Orders : \E i \in DispatchesOf(o) : dispatch[i].status = status}

\* getOrderList and its filter by status.
OrderList(status) == {o \in Orders : order[o].status = status}

-----------------------------------------------------------------------------
(* A carrier's lists. *)

\* getAvailableOrdersForBoard.  An order whose fare failed is not on it; the
\* model takes "fare" for a fare that was charged.
Available(c) ==
  {o \in OrderList("published") \cap NoDispatchForCompany(c) : order[o].pay # "fee_failed"}

\* getRequestedOrdersForBoard: requests in whatever state.
RequestedByCompany(c) == OrderList("published") \cap DispatchForCompany(c)

-----------------------------------------------------------------------------
(* The super admin's lists. *)

\* getPublishedAndDeletedList, and no company.
Published == {o \in Orders : order[o].status \in {"published", "canceled"} /\ order[o].company = NoOne}

Requested == OrderList("published") \cap WithDispatch("New")

\* getDispatchedOrders, of which the picked up and the delivered orders are
\* no longer part (OrderLifecycle).
Assigned == {o \in Orders : order[o].company # NoOne}

\* getOrderDispatchedInviteList and getOrderExpiredInviteList.
Awaiting == {o \in Orders : Pending(o) # {}}
Unanswered == {o \in Orders : \E c \in Companies : invite[o][c] \in {"declined", "expired"}}

-----------------------------------------------------------------------------
(* Properties. *)

\* What is offered is still to be had: an order on a carrier's market, or
\* waiting for the one carrier that is invited to it, is on the super admin's
\* list of free orders and on nobody's list of assigned ones; accept closes
\* the invitations of the order it gives away (dispatch.service.ts:158) and
\* an invitation is made of a free order only (register.service.ts:615).
OffersAreOpen ==
  \A o \in Orders :
    /\ o \in Awaiting \/ (\E c \in Companies : o \in Available(c) \cup RequestedByCompany(c))
         => o \in Published \ Assigned
    /\ Cardinality(Pending(o)) <= 1

=============================================================================
