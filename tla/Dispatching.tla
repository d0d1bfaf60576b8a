----------------------------- MODULE Dispatching -----------------------------
(***************************************************************************)
(* How a client's order finds its carrier: the dispatch requests of        *)
(* DispatchService, the invitations of RegisterService and the             *)
(* cancellations of OrderService that undo both.                           *)
(*                                                                         *)
(* A request of a carrier's company is accepted by the super admin after   *)
(* the client's service fee has been charged; an invited carrier gets the  *)
(* order by registering.  As in OrderLifecycle a handler is its read and   *)
(* its commit, with the charge, a call over the network, between them.     *)
(* The updates of accept's transaction are one step: they lock the rows    *)
(* they write until the commit, so two of them that meet either run one    *)
(* after the other or deadlock in Postgres, which aborts one.              *)
(***************************************************************************)
EXTENDS Naturals, FiniteSets

CONSTANTS
  Orders,      \* published orders of clients
  Companies,   \* carriers
  Invitees,    \* the carriers that are not registered yet
  Requests,    \* ids of the dispatch table, given once
  Handlers,    \* slots for requests that run at the same time
  NoOne,       \* the null of a nullable column or of an unused local
  Calls        \* the endpoints that are called in this instance

ASSUME NoOneAssumption == NoOne \notin Orders \cup Companies \cup Requests
ASSUME InviteesAssumption == Invitees \subseteq Companies

DISPATCH_STATUS == {"New", "Accepted", "Canceled", "Expired"}
INVITE_STATUS == {"pending", "accepted", "declined", "expired"}
ORDER_STATUS == {"published", "dispatched", "canceled"}

\* clientPaymentStatus; "fare" stands for both CAR_PICKUP statuses.
Payments == {"none", "fee_failed", "fee_paid", "fare"}

VARIABLES
  order,       \* the order table
  dispatch,    \* the dispatch table
  invite,      \* the latest invitation of a carrier to an order
  registered,  \* companies with an account
  handler,     \* the locals of each request in flight
  fee          \* history: whether the order's service fee was ever taken

tables == <<order, dispatch, invite, registered>>
vars == <<order, dispatch, invite, registered, handler, fee>>

OrderRow == [status : ORDER_STATUS, company : Companies \cup {NoOne}, pay : Payments]
DispatchRow == [status : DISPATCH_STATUS \cup {"absent", "removed"},
                order : Orders \cup {NoOne}, company : Companies \cup {NoOne}]
Steps == {"idle", "create", "withdraw", "acceptFee", "accept", "register",
          "claim", "claimFee", "claimWrite", "claimFailed", "cancel",
          "clientCancel", "retryFee"}
Locals == [step : Steps, order : Orders \cup {NoOne},
           company : Companies \cup {NoOne}, dispatch : Requests \cup {NoOne}]

TypeOK ==
  /\ order \in [Orders -> OrderRow]
  /\ dispatch \in [Requests -> DispatchRow]
  /\ invite \in [Orders -> [Companies -> INVITE_STATUS \cup {"none"}]]
  /\ registered \subseteq Companies
  /\ handler \in [Handlers -> Locals]
  /\ fee \in [Orders -> BOOLEAN]

Idle == [step |-> "idle", order |-> NoOne, company |-> NoOne, dispatch |-> NoOne]
NoDispatch == [status |-> "absent", order |-> NoOne, company |-> NoOne]

Init ==
  /\ order = [o \in Orders |-> [status |-> "published", company |-> NoOne, pay |-> "none"]]
  /\ dispatch = [i \in Requests |-> NoDispatch]
  /\ invite = [o \in Orders |-> [c \in Companies |-> "none"]]
  /\ registered = Companies \ Invitees
  /\ handler = [h \in Handlers |-> Idle]
  /\ fee = [o \in Orders |-> FALSE]

-----------------------------------------------------------------------------
Present(i) == dispatch[i].status \notin {"absent", "removed"}
DispatchesOf(o) == {i \in Requests : Present(i) /\ dispatch[i].order = o}
DispatchesBy(o, c) == {i \in DispatchesOf(o) : dispatch[i].company = c}

Called(h, call) == handler[h] = Idle /\ call \in Calls

Keep(h, s, o, c, i) ==
  handler' = [handler EXCEPT ![h] = [step |-> s, order |-> o, company |-> c, dispatch |-> i]]
Done(h) == handler' = [handler EXCEPT ![h] = Idle]
Read(h, s, o, c, i) == Keep(h, s, o, c, i) /\ UNCHANGED <<tables, fee>>

\* dispatchRepository.save of a new row.
Insert(i, o, c) ==
  /\ dispatch[i].status = "absent"
  /\ dispatch' = [dispatch EXCEPT ![i] = [status |-> "New", order |-> o, company |-> c]]

\* dispatchRepository.remove of rows that were found before.
Removed(S) == [i \in Requests |-> IF i \in S THEN [dispatch[i] EXCEPT !.status = "removed"] ELSE dispatch[i]]

-----------------------------------------------------------------------------
(* Requests of carriers. *)

\* Mutant: only the company's open requests are counted.
CreateReadOpen(h, o, c) ==
  /\ Called(h, "create") /\ c \in registered
  /\ \A i \in DispatchesBy(o, c) : dispatch[i].status # "New"
  /\ Read(h, "create", o, c, NoOne)

\* create: the company has no request for the order, in whatever state.
\* Nothing asks for the status of the order.
CreateRead(h, o, c) ==
  /\ Called(h, "create") /\ c \in registered
  /\ DispatchesBy(o, c) = {}
  /\ Read(h, "create", o, c, NoOne)

CreateWrite(h, i) ==
  /\ handler[h].step = "create"
  /\ Insert(i, handler[h].order, handler[h].company)
  /\ Done(h)
  /\ UNCHANGED <<order, invite, registered, fee>>

\* cancel: the company withdraws an open request.
WithdrawRead(h, i) ==
  /\ Called(h, "withdraw") /\ dispatch[i].status = "New"
  /\ Read(h, "withdraw", NoOne, NoOne, i)

WithdrawWrite(h) ==
  LET i == handler[h].dispatch
  IN  /\ handler[h].step = "withdraw"
      /\ dispatch' = [dispatch EXCEPT ![i].status = IF Present(i) THEN "Canceled" ELSE @]
      /\ Done(h)
      /\ UNCHANGED <<order, invite, registered, fee>>

\* OrderService.cancelRequestDispatch: all of the company's requests for the
\* order are removed, an accepted one too.
RemoveRequests(h, o, c) ==
  /\ Called(h, "removeRequests") /\ c \in registered
  /\ dispatch' = Removed(DispatchesBy(o, c))
  /\ UNCHANGED <<order, invite, registered, handler, fee>>

-----------------------------------------------------------------------------
(* The super admin accepts a request. *)

\* accept up to the charge.
AcceptRead(h, i) ==
  LET o == dispatch[i].order
  IN  /\ Called(h, "accept") /\ dispatch[i].status = "New"
      /\ Read(h, IF order[o].pay = "fee_paid" THEN "accept" ELSE "acceptFee",
              o, dispatch[i].company, i)

\* chargeServiceFee succeeds; its update is on a connection of its own.
ChargeServiceFee(h) ==
  LET o == handler[h].order
  IN  /\ handler[h].step \in {"acceptFee", "retryFee"}
      /\ order' = [order EXCEPT ![o].pay = "fee_paid"]
      /\ fee' = [fee EXCEPT ![o] = TRUE]
      /\ IF handler[h].step = "acceptFee"
         THEN Keep(h, "accept", o, handler[h].company, handler[h].dispatch)
         ELSE Done(h)
      /\ UNCHANGED <<dispatch, invite, registered>>

\* Mutant: a failed fee does not stop the acceptance.
ServiceFeeFailsSilently(h) ==
  LET o == handler[h].order
  IN  /\ handler[h].step \in {"acceptFee", "retryFee"}
      /\ order' = [order EXCEPT ![o].pay = "fee_failed"]
      /\ IF handler[h].step = "acceptFee"
         THEN Keep(h, "accept", o, handler[h].company, handler[h].dispatch)
         ELSE Done(h)
      /\ UNCHANGED <<dispatch, invite, registered, fee>>

\* chargeServiceFee fails, and the acceptance with it.
ServiceFeeFails(h) ==
  /\ handler[h].step \in {"acceptFee", "retryFee"}
  /\ order' = [order EXCEPT ![handler[h].order].pay = "fee_failed"]
  /\ Done(h)
  /\ UNCHANGED <<dispatch, invite, registered, fee>>

\* chargeOrdersFailed: the client has a new wallet.
RetryFeeRead(h, o) ==
  /\ Called(h, "retryFee") /\ order[o].pay = "fee_failed"
  /\ Read(h, "retryFee", o, NoOne, NoOne)

\* Mutant: the other requests that are accepted stay so.
AcceptedRowsKeepOld(o, accepted) ==
  [i \in Requests |->
     CASE i = accepted /\ Present(i) -> [dispatch[i] EXCEPT !.status = "Accepted"]
       [] i \in DispatchesOf(o) \ {accepted} /\ dispatch[i].status = "New"
                                     -> [dispatch[i] EXCEPT !.status = "Expired"]
       [] OTHER                      -> dispatch[i]]

\* Mutant: the other requests stay open.
AcceptedRowsLeaveOpen(o, accepted) ==
  [i \in Requests |->
     IF i = accepted /\ Present(i) THEN [dispatch[i] EXCEPT !.status = "Accepted"] ELSE dispatch[i]]

\* What accept writes to the dispatch rows of order o.
AcceptedRows(o, accepted) ==
  [i \in Requests |->
     CASE i = accepted /\ Present(i)      -> [dispatch[i] EXCEPT !.status = "Accepted"]
       [] i \in DispatchesOf(o) \ {accepted} -> [dispatch[i] EXCEPT !.status = "Expired"]
       [] OTHER                           -> dispatch[i]]

\* Mutant: the invitations to the order stay open.
AcceptKeepsInvites(h) ==
  LET o == handler[h].order
  IN  /\ handler[h].step = "accept"
      /\ dispatch' = AcceptedRows(o, handler[h].dispatch)
      /\ order' = [order EXCEPT ![o] = [status |-> "dispatched", pay |-> "fee_paid",
                                        company |-> handler[h].company]]
      /\ Done(h)
      /\ UNCHANGED <<invite, registered, fee>>

\* The transaction of accept.  All invitations to the order expire, the
\* answered ones too.
AcceptWrite(h) ==
  LET o == handler[h].order
  IN  /\ handler[h].step = "accept"
      /\ dispatch' = AcceptedRows(o, handler[h].dispatch)
      /\ order' = [order EXCEPT ![o] = [status |-> "dispatched", pay |-> "fee_paid",
                                        company |-> handler[h].company]]
      /\ invite' = [invite EXCEPT ![o] =
                      [c \in Companies |-> IF @[c] = "none" THEN "none" ELSE "expired"]]
      /\ Done(h)
      /\ UNCHANGED <<registered, fee>>

-----------------------------------------------------------------------------
(* Invitations. *)

Pending(o) == {c \in Companies : invite[o][c] = "pending"}

\* inviteCarrier with an order: it is free and nobody is invited to it.  The
\* carrier's open invitation to another order expires.
InviteCarrier(h, o, c) ==
  /\ Called(h, "invite") /\ c \notin registered
  /\ Pending(o) = {}
  /\ order[o].status = "published" /\ order[o].company = NoOne
  /\ invite' = [q \in Orders |-> [invite[q] EXCEPT ![c] =
                  IF q = o THEN "pending" ELSE IF @ = "pending" THEN "expired" ELSE @]]
  /\ UNCHANGED <<order, dispatch, registered, handler, fee>>

\* declineInviteAccount, retrieveInvite and checkExpiredInvitation.
CloseInvite(h, o, c, status) ==
  /\ Called(h, "closeInvite") /\ invite[o][c] = "pending"
  /\ invite' = [invite EXCEPT ![o][c] = status]
  /\ UNCHANGED <<order, dispatch, registered, handler, fee>>

\* carrier: validateInvite ...
RegisterRead(h, o, c) ==
  /\ Called(h, "register") /\ invite[o][c] = "pending"
  /\ Read(h, "register", o, c, NoOne)

\* ... then the account and the invitation; changeOrder is not awaited.
RegisterWrite(h) ==
  LET o == handler[h].order
      c == handler[h].company
  IN  /\ handler[h].step = "register"
      /\ registered' = registered \cup {c}
      /\ invite' = [invite EXCEPT ![o][c] = "accepted"]
      /\ Keep(h, "claim", o, c, NoOne)
      /\ UNCHANGED <<order, dispatch, fee>>

\* changeOrder: the order must be free.
ClaimRead(h) ==
  LET o == handler[h].order
  IN  /\ handler[h].step = "claim"
      /\ IF order[o].company = NoOne
         THEN Keep(h, IF order[o].pay = "fee_paid" THEN "claimWrite" ELSE "claimFee",
                   o, handler[h].company, NoOne)
         ELSE Done(h)
      /\ UNCHANGED <<tables, fee>>

\* The fee is charged; the order learns of it with the final update.
ClaimFee(h) ==
  LET o == handler[h].order
  IN  /\ handler[h].step = "claimFee"
      /\ fee' = [fee EXCEPT ![o] = TRUE]
      /\ Keep(h, "claimWrite", o, handler[h].company, NoOne)
      /\ UNCHANGED tables

\* The charge fails: the order goes on the market ...
ClaimFeeFails(h) ==
  LET o == handler[h].order
  IN  /\ handler[h].step = "claimFee"
      /\ order' = [order EXCEPT ![o].pay = "fee_failed"]
      /\ Keep(h, "claimFailed", o, handler[h].company, NoOne)
      /\ UNCHANGED <<dispatch, invite, registered, fee>>

\* ... with a request of the new carrier.
ClaimRequest(h, i) ==
  /\ handler[h].step = "claimFailed"
  /\ Insert(i, handler[h].order, handler[h].company)
  /\ Done(h)
  /\ UNCHANGED <<order, invite, registered, fee>>

ClaimWrite(h) ==
  LET o == handler[h].order
  IN  /\ handler[h].step = "claimWrite"
      /\ order' = [order EXCEPT ![o] = [status |-> "dispatched", pay |-> "fee_paid",
                                        company |-> handler[h].company]]
      /\ Done(h)
      /\ UNCHANGED <<dispatch, invite, registered, fee>>

-----------------------------------------------------------------------------
(* What takes a carrier off the order again. *)

\* cancelOrder.
CancelRead(h, o) ==
  /\ Called(h, "cancel") /\ order[o].status = "dispatched"
  /\ Read(h, "cancel", o, NoOne, NoOne)

\* Mutant: the requests of the order stay.
CancelKeepsRequests(h) ==
  LET o == handler[h].order
  IN  /\ handler[h].step = "cancel"
      /\ order' = [order EXCEPT ![o].status = "published", ![o].company = NoOne]
      /\ Done(h)
      /\ UNCHANGED <<dispatch, invite, registered, fee>>

\* actionCancelOrder: a client's order is published again, all its requests
\* are removed.
CancelWrite(h) ==
  LET o == handler[h].order
  IN  /\ handler[h].step = "cancel"
      /\ order' = [order EXCEPT ![o].status = "published", ![o].company = NoOne]
      /\ dispatch' = Removed(DispatchesOf(o))
      /\ Done(h)
      /\ UNCHANGED <<invite, registered, fee>>

\* cancelOrderForClient leaves the company and the requests as they are.
ClientCancelRead(h, o) ==
  /\ Called(h, "clientCancel")
  /\ Read(h, "clientCancel", o, NoOne, NoOne)

ClientCancelWrite(h) ==
  /\ handler[h].step = "clientCancel"
  /\ order' = [order EXCEPT ![handler[h].order].status = "canceled"]
  /\ Done(h)
  /\ UNCHANGED <<dispatch, invite, registered, fee>>

\* deleteOrder: the company lets go of a cancelled order.
DropOrder(h, o) ==
  /\ Called(h, "drop") /\ order[o].status = "canceled" /\ order[o].company # NoOne
  /\ order' = [order EXCEPT ![o].company = NoOne]
  /\ UNCHANGED <<dispatch, invite, registered, handler, fee>>

\* The fare of a dispatched order is charged, or is not (OrderLifecycle).
FareCharged(h, o) ==
  /\ Called(h, "fare") /\ order[o].status = "dispatched"
  /\ order' = [order EXCEPT ![o].pay = "fare"]
  /\ UNCHANGED <<dispatch, invite, registered, handler, fee>>

\* A request fails before its commit and is rolled back.
Abort(h) ==
  /\ handler[h].step # "idle"
  /\ Done(h)
  /\ UNCHANGED <<tables, fee>>

-----------------------------------------------------------------------------
\* The endpoints: of carriers (dispatch controller) ...
Requesting(h) ==
  \/ \E o \in Orders, c \in Companies : CreateRead(h, o, c) \/ RemoveRequests(h, o, c)
  \/ \E i \in Requests : CreateWrite(h, i) \/ WithdrawRead(h, i)
  \/ WithdrawWrite(h)

\* ... and of the super admin.
Accepting(h) ==
  \/ \E i \in Requests : AcceptRead(h, i)
  \/ ChargeServiceFee(h) \/ ServiceFeeFails(h) \/ AcceptWrite(h)
  \/ \E o \in Orders : RetryFeeRead(h, o)

Inviting(h) ==
  \/ \E o \in Orders, c \in Companies :
       \/ InviteCarrier(h, o, c) \/ RegisterRead(h, o, c)
       \/ \E s \in {"declined", "expired"} : CloseInvite(h, o, c, s)
  \/ RegisterWrite(h)

Claiming(h) ==
  \/ ClaimRead(h) \/ ClaimFee(h) \/ ClaimFeeFails(h) \/ ClaimWrite(h)
  \/ \E i \in Requests : ClaimRequest(h, i)

Releasing(h) ==
  \/ \E o \in Orders :
       CancelRead(h, o) \/ ClientCancelRead(h, o) \/ DropOrder(h, o) \/ FareCharged(h, o)
  \/ CancelWrite(h) \/ ClientCancelWrite(h)

Next ==
  \E h \in Handlers :
    Requesting(h) \/ Accepting(h) \/ Inviting(h) \/ Claiming(h) \/ Releasing(h) \/ Abort(h)

Spec == Init /\ [][Next]_vars

-----------------------------------------------------------------------------
(* Properties. *)

\* accept expires every other request of the order (dispatch.service.ts:153):
\* however acceptances, cancellations and new requests overlap, an order never
\* has two accepted requests.
AtMostOneAccepted ==
  \A o \in Orders :
    Cardinality({i \in DispatchesOf(o) : dispatch[i].status = "Accepted"}) <= 1

\* No client's order is with a carrier before the client's service fee was
\* taken, through accept (dispatch.service.ts:138) or through an invitation
\* (register.service.ts:165), although the payment status they look at is
\* overwritten by failed charges and by the fare in between.
FeeBeforeDispatched ==
  \A o \in Orders : order[o].status = "dispatched" => fee[o]

\* An accepted request is one of the company that has the order, unless the
\* order is nobody's.
AcceptedIsHolder ==
  \A o \in Orders : \A i \in DispatchesOf(o) :
    dispatch[i].status = "Accepted" => order[o].company \in {dispatch[i].company, NoOne}

\* 'Order has already been dispatched by a company member'
\* (dispatch.service.ts:61).
OneRequestPerCompany ==
  \A o \in Orders, c \in Companies : Cardinality(DispatchesBy(o, c)) <= 1

-----------------------------------------------------------------------------
\* The promise (module Tender): who has the order and who asks for it.
Bids(o) == {dispatch[i].company : i \in {j \in DispatchesOf(o) : dispatch[j].status = "New"}}

Holders == [o \in Orders |-> order[o].company]
AllBids == [o \in Orders |-> Bids(o)]

TenderOf == INSTANCE Tender WITH holder <- Holders, bids <- AllBids

\* One request at a time, the services run the tender: an order changes hands
\* only from nobody, by the acceptance of a bid that stands, or back to nobody.
RunsTender == TenderOf!Spec
=============================================================================
