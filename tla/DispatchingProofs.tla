-------------------------- MODULE DispatchingProofs --------------------------
(***************************************************************************)
(* For any number of orders, carriers, dispatch requests and concurrent    *)
(* requests to the server: an order has at most one accepted request and   *)
(* is with no carrier before its service fee was taken; and, when requests *)
(* to the server are served one at a time, the services run the tender     *)
(* that module Tender promises, what the lists offer is still free, a      *)
(* company has one request for an order, and an accepted request is of     *)
(* the company that has it.                                                *)
(*                                                                         *)
(* FeeBeforeDispatched is not inductive: accept and changeOrder dispatch   *)
(* an order on a payment status they read, or a charge they made, some     *)
(* steps before.  The invariant adds that a request that is about to       *)
(* dispatch an order has its fee, and so has an order marked fee_paid.     *)
(***************************************************************************)
EXTENDS MarketBoards, FiniteSetTheorems, TLAPS

\* The locals of a request, under the fees f taken so far and the dispatch
\* rows ds: what it is about to dispatch has its fee, the row it is about to
\* accept is one of its order.
LocalOK(r, f, ds) ==
  /\ r.step \notin {"idle", "withdraw"} => r.order \in Orders
  /\ r.step \in {"create", "acceptFee", "accept", "register", "claim",
                 "claimFee", "claimWrite", "claimFailed"} => r.company \in Companies
  /\ r.step \in {"withdraw", "acceptFee", "accept"} => r.dispatch \in Requests
  /\ r.step \in {"accept", "claimWrite"} => f[r.order]
  /\ r.step \in {"acceptFee", "accept"} =>
       ds[r.dispatch].status # "absent" /\ ds[r.dispatch].order = r.order

HandlersOK(hs, f, ds) ==
  /\ hs \in [Handlers -> Locals]
  /\ \A h \in Handlers : LocalOK(hs[h], f, ds)

FeeTaken(row, f, o) == row.pay = "fee_paid" \/ row.status = "dispatched" => f[o]

OrdersOK(os, f) ==
  /\ os \in [Orders -> OrderRow]
  /\ \A o \in Orders : FeeTaken(os[o], f, o)

\* Rows of the dispatch table: each is a request of a company for an order,
\* and two accepted ones are for different orders.
DispatchesOK(ds) ==
  /\ ds \in [Requests -> DispatchRow]
  /\ \A i \in Requests : ds[i].status \in DISPATCH_STATUS =>
       ds[i].order \in Orders /\ ds[i].company \in Companies
  /\ \A i, j \in Requests :
       ds[i].status = "Accepted" /\ ds[j].status = "Accepted" /\ ds[i].order = ds[j].order => i = j

InvitesOK(inv) == inv \in [Orders -> [Companies -> INVITE_STATUS \cup {"none"}]]

IInv ==
  /\ HandlersOK(handler, fee, dispatch)
  /\ OrdersOK(order, fee)
  /\ DispatchesOK(dispatch)
  /\ InvitesOK(invite)
  /\ registered \subseteq Companies
  /\ fee \in [Orders -> BOOLEAN]

-----------------------------------------------------------------------------
(* Steps on one table. *)

\* A row never becomes another order's.
RowsKept ==
  \A i \in Requests : dispatch[i].status # "absent" =>
    dispatch'[i].status # "absent" /\ dispatch'[i].order = dispatch[i].order

\* ... and fees are never given back.
Grows ==
  /\ fee' \in [Orders -> BOOLEAN]
  /\ \A o \in Orders : fee[o] => fee'[o]
  /\ RowsKept

LEMMA HandlerStep ==
  ASSUME HandlersOK(handler, fee, dispatch), Grows, NEW h \in Handlers, NEW r \in Locals,
         LocalOK(r, fee', dispatch'), handler' = [handler EXCEPT ![h] = r]
  PROVE  HandlersOK(handler', fee', dispatch')
<1>1. handler' \in [Handlers -> Locals]
  BY DEF HandlersOK
<1>2. ASSUME NEW g \in Handlers
      PROVE  LocalOK(handler'[g], fee', dispatch')
  <2>1. CASE g = h
    BY <2>1 DEF HandlersOK
  <2>2. CASE g # h
    <3>1. handler'[g] = handler[g] /\ LocalOK(handler[g], fee, dispatch)
      BY <2>2 DEF HandlersOK
    <3> QED BY <3>1 DEF LocalOK, Grows, RowsKept
  <2> QED BY <2>1, <2>2
<1> QED BY <1>1, <1>2 DEF HandlersOK

LEMMA OrderStep ==
  ASSUME OrdersOK(order, fee), Grows, NEW o \in Orders, NEW row \in OrderRow,
         FeeTaken(row, fee', o), order' = [order EXCEPT ![o] = row]
  PROVE  OrdersOK(order', fee')
<1>1. order' \in [Orders -> OrderRow]
  BY DEF OrdersOK
<1>2. ASSUME NEW q \in Orders
      PROVE  FeeTaken(order'[q], fee', q)
  <2>1. CASE q = o
    BY <2>1 DEF OrdersOK
  <2>2. CASE q # o
    BY <2>2 DEF OrdersOK, FeeTaken, Grows
  <2> QED BY <2>1, <2>2
<1> QED BY <1>1, <1>2 DEF OrdersOK

\* The tables a step leaves alone.
LEMMA OrdersKept ==
  ASSUME OrdersOK(order, fee), Grows, order' = order
  PROVE  OrdersOK(order', fee')
BY DEF OrdersOK, FeeTaken, Grows

LEMMA HandlersKept ==
  ASSUME HandlersOK(handler, fee, dispatch), Grows, handler' = handler
  PROVE  HandlersOK(handler', fee', dispatch')
BY DEF HandlersOK, LocalOK, Grows, RowsKept

\* A dispatch row gets a status other than Accepted.
LEMMA DispatchStep ==
  ASSUME DispatchesOK(dispatch), NEW ds \in [Requests -> DispatchRow],
         \A i \in Requests :
           \/ ds[i] = dispatch[i]
           \/ ds[i].status \in DISPATCH_STATUS \ {"Accepted"}
              /\ ds[i].order \in Orders /\ ds[i].company \in Companies
           \/ ds[i].status = "removed"
  PROVE  DispatchesOK(ds)
BY DEF DispatchesOK, DISPATCH_STATUS

-----------------------------------------------------------------------------
LEMMA IdleOK ==
  ASSUME NEW f, NEW ds
  PROVE  Idle \in Locals /\ LocalOK(Idle, f, ds)
BY NoOneAssumption DEF Idle, Locals, Steps, LocalOK

\* A request that only reads.
LEMMA ReadStep ==
  ASSUME IInv, NEW h \in Handlers, UNCHANGED <<tables, fee>>,
         \E r \in Locals : LocalOK(r, fee, dispatch) /\ handler' = [handler EXCEPT ![h] = r]
  PROVE  IInv'
<1>1. UNCHANGED <<order, dispatch, invite, registered, fee>>
  BY DEF tables
<1>2. Grows
  BY <1>1 DEF IInv, Grows, RowsKept
<1>3. HandlersOK(handler', fee', dispatch')
  BY <1>1, <1>2, HandlerStep DEF IInv
<1> QED BY <1>1, <1>2, <1>3, OrdersKept DEF IInv

\* A request that writes dispatch rows and is done, or goes on as r.
LEMMA DispatchWrite ==
  ASSUME IInv, NEW h \in Handlers, DispatchesOK(dispatch'), RowsKept,
         handler' = handler \/ handler' = [handler EXCEPT ![h] = Idle],
         UNCHANGED <<order, invite, registered, fee>>
  PROVE  IInv'
<1>1. Grows
  BY DEF IInv, Grows
<1>2. HandlersOK(handler', fee', dispatch')
  BY <1>1, IdleOK, HandlerStep, HandlersKept DEF IInv
<1> QED BY <1>1, <1>2, OrdersKept DEF IInv

\* A request that writes one order and goes on as r.
LEMMA OrderWrite ==
  ASSUME IInv, NEW h \in Handlers, NEW o \in Orders, NEW row \in OrderRow,
         Grows, FeeTaken(row, fee', o), order' = [order EXCEPT ![o] = row],
         \/ handler' = handler
         \/ \E r \in Locals : LocalOK(r, fee', dispatch') /\ handler' = [handler EXCEPT ![h] = r],
         DispatchesOK(dispatch'), InvitesOK(invite'), registered' = registered
  PROVE  IInv'
<1>1. OrdersOK(order', fee')
  BY OrderStep DEF IInv
<1>2. HandlersOK(handler', fee', dispatch')
  BY HandlerStep, HandlersKept DEF IInv
<1> QED BY <1>1, <1>2 DEF IInv, Grows

-----------------------------------------------------------------------------
LEMMA RequestingStep ==
  ASSUME IInv, NEW h \in Handlers, Requesting(h)
  PROVE  IInv'
<1>1. ASSUME NEW o \in Orders, NEW c \in Companies, CreateRead(h, o, c)
      PROVE  IInv'
  <2> DEFINE r == [step |-> "create", order |-> o, company |-> c, dispatch |-> NoOne]
  <2>1. r \in Locals /\ LocalOK(r, fee, dispatch)
    BY DEF Locals, Steps, LocalOK
  <2>2. handler' = [handler EXCEPT ![h] = r] /\ UNCHANGED <<tables, fee>>
    BY <1>1 DEF CreateRead, Read, Keep
  <2> HIDE DEF r
  <2> QED BY <2>1, <2>2, ReadStep
<1>2. ASSUME NEW o \in Orders, NEW c \in Companies, RemoveRequests(h, o, c)
      PROVE  IInv'
  <2> DEFINE ds == Removed(DispatchesBy(o, c))
  <2>1. ds \in [Requests -> DispatchRow]
    BY DEF Removed, DispatchRow, IInv, DispatchesOK
  <2>2. \A i \in Requests : ds[i] = dispatch[i]
          \/ (ds[i].status = "removed" /\ ds[i].order = dispatch[i].order)
    BY DEF Removed, IInv, DispatchesOK, DispatchRow
  <2>3. dispatch' = ds
    BY <1>2 DEF RemoveRequests
  <2> HIDE DEF ds
  <2>4. DispatchesOK(ds)
    BY <2>1, <2>2, DispatchStep DEF IInv
  <2>5. RowsKept
    BY <2>2, <2>3 DEF RowsKept
  <2> QED BY <1>2, <2>3, <2>4, <2>5, DispatchWrite DEF RemoveRequests
<1>3. ASSUME NEW i \in Requests, CreateWrite(h, i)
      PROVE  IInv'
  <2>1. handler[h].order \in Orders /\ handler[h].company \in Companies
    BY <1>3 DEF CreateWrite, IInv, HandlersOK, LocalOK
  <2>2. dispatch' = [dispatch EXCEPT ![i] = [status |-> "New", order |-> handler[h].order,
                                             company |-> handler[h].company]]
    BY <1>3 DEF CreateWrite, Insert
  <2>3. dispatch' \in [Requests -> DispatchRow]
    BY <2>1, <2>2 DEF IInv, DispatchesOK, DispatchRow, DISPATCH_STATUS
  <2>4. DispatchesOK(dispatch')
    BY <2>1, <2>2, <2>3, DispatchStep DEF IInv, DispatchesOK, DISPATCH_STATUS
  <2>5. RowsKept
    BY <1>3, <2>2 DEF RowsKept, CreateWrite, Insert, IInv, DispatchesOK
  <2> QED BY <1>3, <2>4, <2>5, DispatchWrite DEF CreateWrite, Done
<1>4. ASSUME NEW i \in Requests, WithdrawRead(h, i)
      PROVE  IInv'
  <2> DEFINE r == [step |-> "withdraw", order |-> NoOne, company |-> NoOne, dispatch |-> i]
  <2>1. r \in Locals /\ LocalOK(r, fee, dispatch)
    BY DEF Locals, Steps, LocalOK
  <2>2. handler' = [handler EXCEPT ![h] = r] /\ UNCHANGED <<tables, fee>>
    BY <1>4 DEF WithdrawRead, Read, Keep
  <2> HIDE DEF r
  <2> QED BY <2>1, <2>2, ReadStep
<1>5. CASE WithdrawWrite(h)
  <2> DEFINE i == handler[h].dispatch
  <2>1. i \in Requests
    BY <1>5 DEF WithdrawWrite, IInv, HandlersOK, LocalOK
  <2>2. dispatch' = [dispatch EXCEPT ![i].status = IF Present(i) THEN "Canceled" ELSE @]
    BY <1>5 DEF WithdrawWrite
  <2> HIDE DEF i
  <2>3. dispatch' \in [Requests -> DispatchRow]
    BY <2>1, <2>2 DEF IInv, DispatchesOK, DispatchRow, DISPATCH_STATUS
  <2>4. \A j \in Requests : dispatch'[j] = dispatch[j]
          \/ /\ dispatch'[j].status = "Canceled" /\ Present(j)
             /\ dispatch'[j].order = dispatch[j].order /\ dispatch'[j].company = dispatch[j].company
    BY <2>1, <2>2 DEF IInv, DispatchesOK, DispatchRow
  <2>5. DispatchesOK(dispatch')
    BY <2>3, <2>4, DispatchStep DEF IInv, DispatchesOK, DispatchRow, Present, DISPATCH_STATUS
  <2>6. RowsKept
    BY <2>4 DEF RowsKept
  <2> QED BY <1>5, <2>5, <2>6, DispatchWrite DEF WithdrawWrite, Done
<1> QED BY <1>1, <1>2, <1>3, <1>4, <1>5 DEF Requesting

\* The fee of an order was taken, or its status says nothing of it.
LEMMA PayWrite ==
  ASSUME IInv, NEW o \in Orders, NEW p \in Payments, p = "fee_paid" => fee'[o], Grows,
         order' = [order EXCEPT ![o].pay = p]
  PROVE  \E row \in OrderRow : FeeTaken(row, fee', o) /\ order' = [order EXCEPT ![o] = row]
<1>1. order[o] \in OrderRow /\ FeeTaken(order[o], fee, o) /\ order \in [Orders -> OrderRow]
  BY DEF IInv, OrdersOK
<1> DEFINE row == [order[o] EXCEPT !.pay = p]
<1>2. row \in OrderRow /\ row.pay = p /\ row.status = order[o].status
  BY <1>1 DEF OrderRow
<1>3. order' = [order EXCEPT ![o] = row]
  OBVIOUS
<1> HIDE DEF row
<1> QED BY <1>1, <1>2, <1>3 DEF FeeTaken, Grows

LEMMA AcceptedRowsOK ==
  ASSUME IInv, NEW o \in Orders, NEW a \in Requests, dispatch[a].order = o
  PROVE  /\ DispatchesOK(AcceptedRows(o, a))
         /\ \A i \in Requests : LET row == AcceptedRows(o, a)[i]
              IN (row.status = "absent" <=> dispatch[i].status = "absent") /\ row.order = dispatch[i].order
<1> DEFINE ds == AcceptedRows(o, a)
<1>0. dispatch \in [Requests -> DispatchRow]
  BY DEF IInv, DispatchesOK
<1>1. \A i \in Requests :
        /\ i = a /\ Present(i) => ds[i] = [dispatch[i] EXCEPT !.status = "Accepted"]
        /\ i \in DispatchesOf(o) /\ i # a => ds[i] = [dispatch[i] EXCEPT !.status = "Expired"]
        /\ (i # a \/ ~Present(i)) /\ (i \notin DispatchesOf(o) \/ i = a) => ds[i] = dispatch[i]
  BY DEF AcceptedRows
<1>2. ds \in [Requests -> DispatchRow]
  BY <1>0 DEF AcceptedRows, DispatchRow, DISPATCH_STATUS
<1> HIDE DEF ds
<1>3. \A i \in Requests : ds[i].order = dispatch[i].order /\ ds[i].company = dispatch[i].company
  BY <1>0, <1>1 DEF DispatchRow
<1>4. \A i \in Requests : ds[i].status \in DISPATCH_STATUS => Present(i)
  BY <1>0, <1>1 DEF DispatchRow, DISPATCH_STATUS, Present, DispatchesOf
<1>5. \A i \in Requests : ds[i].status \in DISPATCH_STATUS =>
        ds[i].order \in Orders /\ ds[i].company \in Companies
  BY <1>0, <1>3, <1>4 DEF IInv, DispatchesOK, Present, DispatchRow
<1>6. ASSUME NEW i \in Requests, ds[i].status = "Accepted", i # a
      PROVE  ds[i] = dispatch[i] /\ dispatch[i].order # o
  BY <1>0, <1>1, <1>4, <1>6 DEF DispatchesOf, DispatchRow, DISPATCH_STATUS
<1>7. ASSUME NEW i \in Requests, NEW j \in Requests, ds[i].status = "Accepted",
             ds[j].status = "Accepted", ds[i].order = ds[j].order
      PROVE  i = j
  <2>1. CASE i # a /\ j # a
    BY <2>1, <1>6, <1>7 DEF IInv, DispatchesOK
  <2>2. CASE i = a /\ j # a
    BY <2>2, <1>3, <1>4, <1>6, <1>7 DEF DISPATCH_STATUS
  <2>3. CASE i # a /\ j = a
    BY <2>3, <1>3, <1>4, <1>6, <1>7 DEF DISPATCH_STATUS
  <2> QED BY <2>1, <2>2, <2>3
<1>8. DispatchesOK(ds)
  BY <1>2, <1>5, <1>7 DEF DispatchesOK
<1>9. \A i \in Requests : ds[i].status = "absent" <=> dispatch[i].status = "absent"
  BY <1>0, <1>1 DEF DispatchRow, Present, DispatchesOf
<1> QED BY <1>3, <1>8, <1>9 DEF ds

-----------------------------------------------------------------------------
\* The request is over, whatever it was.
LEMMA Ended ==
  ASSUME NEW h \in Handlers, Done(h), NEW f, NEW ds
  PROVE  \E r \in Locals : LocalOK(r, f, ds) /\ handler' = [handler EXCEPT ![h] = r]
BY IdleOK DEF Done

\* A request at a step that does not accept a dispatch request.
At(s, o, c) == [step |-> s, order |-> o, company |-> c, dispatch |-> NoOne]

LEMMA AtOK ==
  ASSUME NEW s \in Steps \ {"withdraw", "acceptFee", "accept"}, NEW o \in Orders,
         NEW c \in Companies \cup {NoOne}, NEW f, NEW ds,
         s \in {"create", "register", "claim", "claimFee", "claimWrite", "claimFailed"} => c \in Companies,
         s = "claimWrite" => f[o]
  PROVE  At(s, o, c) \in Locals /\ LocalOK(At(s, o, c), f, ds)
BY DEF At, Locals, LocalOK, Steps

LEMMA AcceptingStep ==
  ASSUME IInv, NEW h \in Handlers, Accepting(h)
  PROVE  IInv'
<1> DEFINE L == handler[h]
<1>0. L \in Locals /\ LocalOK(L, fee, dispatch)
  BY DEF IInv, HandlersOK
<1>1. ASSUME NEW i \in Requests, AcceptRead(h, i)
      PROVE  IInv'
  <2> DEFINE o == dispatch[i].order
             c == dispatch[i].company
             s == IF order[o].pay = "fee_paid" THEN "accept" ELSE "acceptFee"
             r == [step |-> s, order |-> o, company |-> c, dispatch |-> i]
  <2>1. o \in Orders /\ c \in Companies /\ dispatch[i].status # "absent"
    BY <1>1 DEF AcceptRead, IInv, DispatchesOK, DISPATCH_STATUS
  <2>2. s = "accept" => fee[o]
    BY <2>1 DEF IInv, OrdersOK, FeeTaken
  <2>3. r \in Locals /\ LocalOK(r, fee, dispatch)
    BY <2>1, <2>2 DEF Locals, Steps, LocalOK
  <2>4. handler' = [handler EXCEPT ![h] = r] /\ UNCHANGED <<tables, fee>>
    BY <1>1 DEF AcceptRead, Read, Keep
  <2> HIDE DEF r
  <2> QED BY <2>3, <2>4, ReadStep
<1>2. CASE ChargeServiceFee(h)
  <2>1. L.order \in Orders /\ L.step \in {"acceptFee", "retryFee"}
    BY <1>0, <1>2 DEF ChargeServiceFee, LocalOK
  <2>2. order' = [order EXCEPT ![L.order].pay = "fee_paid"]
    BY <1>2 DEF ChargeServiceFee
  <2>3. Grows /\ fee'[L.order] /\ UNCHANGED <<dispatch, invite, registered>>
    BY <1>2, <2>1 DEF ChargeServiceFee, Grows, RowsKept, IInv
  <2>4. \E r \in Locals : LocalOK(r, fee', dispatch') /\ handler' = [handler EXCEPT ![h] = r]
    <3>1. CASE L.step = "acceptFee"
      <4> DEFINE r == [step |-> "accept", order |-> L.order, company |-> L.company, dispatch |-> L.dispatch]
      <4>1. r \in Locals /\ LocalOK(r, fee', dispatch')
        BY <1>0, <2>1, <2>3, <3>1 DEF Locals, Steps, LocalOK
      <4>2. handler' = [handler EXCEPT ![h] = r]
        BY <1>2, <3>1 DEF ChargeServiceFee, Keep
      <4> HIDE DEF r
      <4> QED BY <4>1, <4>2
    <3>2. CASE L.step = "retryFee"
      BY <1>2, <3>2, Ended DEF ChargeServiceFee
    <3> QED BY <2>1, <3>1, <3>2
  <2>5. \E row \in OrderRow : FeeTaken(row, fee', L.order) /\ order' = [order EXCEPT ![L.order] = row]
    BY <2>1, <2>2, <2>3, PayWrite DEF Payments
  <2> HIDE DEF L
  <2> QED BY <2>1, <2>3, <2>4, <2>5, OrderWrite DEF IInv
<1>3. CASE ServiceFeeFails(h)
  <2>1. L.order \in Orders
    BY <1>0, <1>3 DEF ServiceFeeFails, LocalOK
  <2>2. /\ order' = [order EXCEPT ![L.order].pay = "fee_failed"]
        /\ Done(h) /\ UNCHANGED <<dispatch, invite, registered, fee>>
    BY <1>3 DEF ServiceFeeFails
  <2>3. Grows
    BY <2>2 DEF Grows, RowsKept, IInv
  <2>4. \E row \in OrderRow : FeeTaken(row, fee', L.order) /\ order' = [order EXCEPT ![L.order] = row]
    BY <2>1, <2>2, <2>3, PayWrite DEF Payments
  <2>5. \E r \in Locals : LocalOK(r, fee', dispatch') /\ handler' = [handler EXCEPT ![h] = r]
    BY <2>2, Ended
  <2> HIDE DEF L
  <2> QED BY <2>1, <2>2, <2>3, <2>4, <2>5, OrderWrite DEF IInv
<1>4. CASE AcceptWrite(h)
  <2> DEFINE row == [status |-> "dispatched", pay |-> "fee_paid", company |-> L.company]
  <2>1. /\ L.order \in Orders /\ L.company \in Companies /\ L.dispatch \in Requests
        /\ fee[L.order] /\ dispatch[L.dispatch].order = L.order
    BY <1>0, <1>4 DEF AcceptWrite, LocalOK
  <2>2. /\ order' = [order EXCEPT ![L.order] = row] /\ dispatch' = AcceptedRows(L.order, L.dispatch)
        /\ Done(h) /\ UNCHANGED <<registered, fee>>
    BY <1>4 DEF AcceptWrite
  <2>3. row \in OrderRow
    BY <2>1 DEF OrderRow, ORDER_STATUS, Payments
  <2>4. DispatchesOK(dispatch') /\ Grows
    BY <2>1, <2>2, AcceptedRowsOK DEF Grows, RowsKept, IInv
  <2>5. InvitesOK(invite')
    <3> DEFINE inv == [c \in Companies |-> IF invite[L.order][c] = "none" THEN "none" ELSE "expired"]
    <3>1. inv \in [Companies -> INVITE_STATUS \cup {"none"}]
      BY DEF INVITE_STATUS
    <3>2. invite' = [invite EXCEPT ![L.order] = inv]
      BY <1>4 DEF AcceptWrite
    <3> HIDE DEF inv, L
    <3> QED BY <2>1, <3>1, <3>2 DEF InvitesOK, IInv
  <2>6. FeeTaken(row, fee', L.order)
    BY <2>1, <2>2 DEF FeeTaken
  <2> HIDE DEF L, row
  <2> QED BY <2>1, <2>2, <2>3, <2>4, <2>5, <2>6, Ended, OrderWrite
<1>5. ASSUME NEW o \in Orders, RetryFeeRead(h, o)
      PROVE  IInv'
  <2>1. Keep(h, "retryFee", o, NoOne, NoOne) /\ UNCHANGED <<tables, fee>>
    BY <1>5 DEF RetryFeeRead, Read
  <2>2. \E r \in Locals : LocalOK(r, fee, dispatch) /\ handler' = [handler EXCEPT ![h] = r]
    <3>1. At("retryFee", o, NoOne) \in Locals /\ LocalOK(At("retryFee", o, NoOne), fee, dispatch)
      BY <2>1, AtOK DEF Steps
    <3>2. handler' = [handler EXCEPT ![h] = At("retryFee", o, NoOne)]
      BY <2>1 DEF Keep, At
    <3> QED BY <3>1, <3>2
  <2> QED BY <2>1, <2>2, ReadStep
<1> QED BY <1>1, <1>2, <1>3, <1>4, <1>5 DEF Accepting

\* A request that writes no order and no dispatch row.
LEMMA OtherWrite ==
  ASSUME IInv, NEW h \in Handlers, InvitesOK(invite'), registered' \subseteq Companies,
         \/ handler' = handler
         \/ \E r \in Locals : LocalOK(r, fee', dispatch') /\ handler' = [handler EXCEPT ![h] = r],
         fee' \in [Orders -> BOOLEAN], \A o \in Orders : fee[o] => fee'[o],
         UNCHANGED <<order, dispatch>>
  PROVE  IInv'
<1>1. Grows
  BY DEF Grows, RowsKept
<1>2. HandlersOK(handler', fee', dispatch')
  BY <1>1, HandlerStep, HandlersKept DEF IInv
<1>3. OrdersOK(order', fee')
  BY <1>1, OrdersKept DEF IInv
<1> QED BY <1>2, <1>3 DEF IInv

LEMMA InvitingStep ==
  ASSUME IInv, NEW h \in Handlers, Inviting(h)
  PROVE  IInv'
<1>0. handler[h] \in Locals /\ LocalOK(handler[h], fee, dispatch)
  BY DEF IInv, HandlersOK
<1>1. ASSUME NEW o \in Orders, NEW c \in Companies, InviteCarrier(h, o, c)
      PROVE  IInv'
  <2>1. InvitesOK(invite')
    BY <1>1 DEF InviteCarrier, InvitesOK, IInv, INVITE_STATUS
  <2> QED BY <1>1, <2>1, OtherWrite DEF InviteCarrier, IInv
<1>2. ASSUME NEW o \in Orders, NEW c \in Companies, NEW s \in {"declined", "expired"},
             CloseInvite(h, o, c, s)
      PROVE  IInv'
  <2>1. InvitesOK(invite')
    BY <1>2 DEF CloseInvite, InvitesOK, IInv, INVITE_STATUS
  <2> QED BY <1>2, <2>1, OtherWrite DEF CloseInvite, IInv
<1>3. ASSUME NEW o \in Orders, NEW c \in Companies, RegisterRead(h, o, c)
      PROVE  IInv'
  <2>1. Keep(h, "register", o, c, NoOne) /\ UNCHANGED <<tables, fee>>
    BY <1>3 DEF RegisterRead, Read
  <2>2. \E r \in Locals : LocalOK(r, fee, dispatch) /\ handler' = [handler EXCEPT ![h] = r]
    <3>1. At("register", o, c) \in Locals /\ LocalOK(At("register", o, c), fee, dispatch)
      BY <2>1, AtOK DEF Steps
    <3>2. handler' = [handler EXCEPT ![h] = At("register", o, c)]
      BY <2>1 DEF Keep, At
    <3> QED BY <3>1, <3>2
  <2> QED BY <2>1, <2>2, ReadStep
<1>4. CASE RegisterWrite(h)
  <2> DEFINE o == handler[h].order
             c == handler[h].company
  <2>1. o \in Orders /\ c \in Companies
    BY <1>0, <1>4 DEF RegisterWrite, LocalOK
  <2>2. /\ registered' = registered \cup {c} /\ invite' = [invite EXCEPT ![o][c] = "accepted"]
        /\ Keep(h, "claim", o, c, NoOne) /\ UNCHANGED <<order, dispatch, fee>>
    BY <1>4 DEF RegisterWrite
  <2> HIDE DEF o, c
  <2>3. InvitesOK(invite')
    BY <2>1, <2>2 DEF InvitesOK, IInv, INVITE_STATUS
  <2>4. \E r \in Locals : LocalOK(r, fee', dispatch') /\ handler' = [handler EXCEPT ![h] = r]
    <3>1. At("claim", o, c) \in Locals /\ LocalOK(At("claim", o, c), fee', dispatch')
      BY <2>1, <2>2, AtOK DEF Steps
    <3>2. handler' = [handler EXCEPT ![h] = At("claim", o, c)]
      BY <2>1, <2>2 DEF Keep, At
    <3> QED BY <3>1, <3>2
  <2> QED BY <2>1, <2>2, <2>3, <2>4, OtherWrite DEF IInv
<1> QED BY <1>1, <1>2, <1>3, <1>4 DEF Inviting

LEMMA ClaimingStep ==
  ASSUME IInv, NEW h \in Handlers, Claiming(h)
  PROVE  IInv'
<1> DEFINE o == handler[h].order
           c == handler[h].company
<1>0. handler[h] \in Locals /\ LocalOK(handler[h], fee, dispatch)
  BY DEF IInv, HandlersOK
<1>1. handler[h].step \in {"claim", "claimFee", "claimFailed", "claimWrite"} => o \in Orders /\ c \in Companies
  BY <1>0 DEF LocalOK
<1>2. CASE ClaimRead(h)
  <2>1. o \in Orders /\ c \in Companies /\ UNCHANGED <<tables, fee>>
    BY <1>1, <1>2 DEF ClaimRead
  <2>2. \/ Done(h)
        \/ Keep(h, "claimWrite", o, c, NoOne) /\ fee[o]
        \/ Keep(h, "claimFee", o, c, NoOne)
    BY <1>2, <2>1 DEF ClaimRead, IInv, OrdersOK, FeeTaken
  <2> HIDE DEF o, c
  <2>3. \E r \in Locals : LocalOK(r, fee, dispatch) /\ handler' = [handler EXCEPT ![h] = r]
    <3>1. CASE Done(h)
      BY <3>1, Ended
    <3>2. ASSUME NEW s \in {"claimWrite", "claimFee"}, Keep(h, s, o, c, NoOne), s = "claimWrite" => fee[o]
          PROVE  \E r \in Locals : LocalOK(r, fee, dispatch) /\ handler' = [handler EXCEPT ![h] = r]
      <4>1. At(s, o, c) \in Locals /\ LocalOK(At(s, o, c), fee, dispatch)
        BY <2>1, <3>2, AtOK DEF Steps
      <4>2. handler' = [handler EXCEPT ![h] = At(s, o, c)]
        BY <3>2 DEF Keep, At
      <4> QED BY <4>1, <4>2
    <3> QED BY <2>2, <3>1, <3>2
  <2> QED BY <2>1, <2>3, ReadStep
<1>3. CASE ClaimFee(h)
  <2>1. o \in Orders /\ c \in Companies
    BY <1>1, <1>3 DEF ClaimFee
  <2>2. /\ fee' = [fee EXCEPT ![o] = TRUE] /\ Keep(h, "claimWrite", o, c, NoOne)
        /\ UNCHANGED <<order, dispatch, invite, registered>>
    BY <1>3 DEF ClaimFee, tables
  <2> HIDE DEF o, c
  <2>3. fee' \in [Orders -> BOOLEAN] /\ fee'[o] /\ \A q \in Orders : fee[q] => fee'[q]
    BY <2>1, <2>2 DEF IInv
  <2>4. \E r \in Locals : LocalOK(r, fee', dispatch') /\ handler' = [handler EXCEPT ![h] = r]
    <3>1. At("claimWrite", o, c) \in Locals /\ LocalOK(At("claimWrite", o, c), fee', dispatch')
      BY <2>1, <2>2, <2>3, AtOK DEF Steps
    <3>2. handler' = [handler EXCEPT ![h] = At("claimWrite", o, c)]
      BY <2>1, <2>2, <2>3 DEF Keep, At
    <3> QED BY <3>1, <3>2
  <2> QED BY <2>1, <2>2, <2>3, <2>4, OtherWrite DEF IInv
<1>4. CASE ClaimFeeFails(h)
  <2>1. o \in Orders /\ c \in Companies
    BY <1>1, <1>4 DEF ClaimFeeFails
  <2>2. /\ order' = [order EXCEPT ![o].pay = "fee_failed"] /\ Keep(h, "claimFailed", o, c, NoOne)
        /\ UNCHANGED <<dispatch, invite, registered, fee>>
    BY <1>4 DEF ClaimFeeFails
  <2> HIDE DEF o, c
  <2>3. Grows
    BY <2>2 DEF Grows, RowsKept, IInv
  <2>4. \E r \in Locals : LocalOK(r, fee', dispatch') /\ handler' = [handler EXCEPT ![h] = r]
    <3>1. At("claimFailed", o, c) \in Locals /\ LocalOK(At("claimFailed", o, c), fee', dispatch')
      BY <2>1, <2>2, AtOK DEF Steps
    <3>2. handler' = [handler EXCEPT ![h] = At("claimFailed", o, c)]
      BY <2>1, <2>2 DEF Keep, At
    <3> QED BY <3>1, <3>2
  <2>5. \E row \in OrderRow : FeeTaken(row, fee', o) /\ order' = [order EXCEPT ![o] = row]
    BY <2>1, <2>2, <2>3, PayWrite DEF Payments
  <2> QED BY <2>1, <2>2, <2>3, <2>4, <2>5, OrderWrite DEF IInv
<1>5. ASSUME NEW i \in Requests, ClaimRequest(h, i)
      PROVE  IInv'
  <2>1. o \in Orders /\ c \in Companies
    BY <1>1, <1>5 DEF ClaimRequest
  <2>2. /\ dispatch[i].status = "absent"
        /\ dispatch' = [dispatch EXCEPT ![i] = [status |-> "New", order |-> o, company |-> c]]
    BY <1>5 DEF ClaimRequest, Insert
  <2> HIDE DEF o, c
  <2>3. dispatch' \in [Requests -> DispatchRow]
    BY <2>1, <2>2 DEF IInv, DispatchesOK, DispatchRow, DISPATCH_STATUS
  <2>4. DispatchesOK(dispatch')
    BY <2>1, <2>2, <2>3, DispatchStep DEF IInv, DispatchesOK, DISPATCH_STATUS
  <2>5. RowsKept
    BY <2>2 DEF RowsKept, IInv, DispatchesOK
  <2> QED BY <1>5, <2>4, <2>5, DispatchWrite DEF ClaimRequest, Done
<1>6. CASE ClaimWrite(h)
  <2> DEFINE row == [status |-> "dispatched", pay |-> "fee_paid", company |-> c]
  <2>1. o \in Orders /\ c \in Companies /\ fee[o]
    BY <1>0, <1>6 DEF ClaimWrite, LocalOK
  <2>2. order' = [order EXCEPT ![o] = row] /\ Done(h) /\ UNCHANGED <<dispatch, invite, registered, fee>>
    BY <1>6 DEF ClaimWrite
  <2>3. row \in OrderRow
    BY <2>1 DEF OrderRow, ORDER_STATUS, Payments
  <2>4. Grows /\ FeeTaken(row, fee', o)
    BY <2>1, <2>2 DEF Grows, RowsKept, IInv, FeeTaken
  <2>5. \E r \in Locals : LocalOK(r, fee', dispatch') /\ handler' = [handler EXCEPT ![h] = r]
    BY <2>2, Ended
  <2> HIDE DEF o, c, row
  <2> QED BY <2>1, <2>2, <2>3, <2>4, <2>5, OrderWrite DEF IInv
<1> QED BY <1>2, <1>3, <1>4, <1>5, <1>6 DEF Claiming

\* An order row whose status does not claim a fee it had not before.
LEMMA RowWrite ==
  ASSUME IInv, NEW o \in Orders, NEW st \in ORDER_STATUS \ {"dispatched"},
         NEW c \in Companies \cup {NoOne}, fee' = fee
  PROVE  LET row == [order[o] EXCEPT !.status = st, !.company = c]
         IN  row \in OrderRow /\ FeeTaken(row, fee', o)
BY DEF IInv, OrdersOK, OrderRow, FeeTaken

LEMMA ReleasingStep ==
  ASSUME IInv, NEW h \in Handlers, Releasing(h)
  PROVE  IInv'
<1>0. /\ handler[h] \in Locals /\ LocalOK(handler[h], fee, dispatch)
      /\ order \in [Orders -> OrderRow]
  BY DEF IInv, HandlersOK, OrdersOK
<1>1. ASSUME NEW o \in Orders, CancelRead(h, o)
      PROVE  IInv'
  <2>1. At("cancel", o, NoOne) \in Locals /\ LocalOK(At("cancel", o, NoOne), fee, dispatch)
    BY AtOK DEF Steps
  <2>2. handler' = [handler EXCEPT ![h] = At("cancel", o, NoOne)] /\ UNCHANGED <<tables, fee>>
    BY <1>1 DEF CancelRead, Read, Keep, At
  <2> QED BY <2>1, <2>2, ReadStep
<1>2. ASSUME NEW o \in Orders, ClientCancelRead(h, o)
      PROVE  IInv'
  <2>1. At("clientCancel", o, NoOne) \in Locals /\ LocalOK(At("clientCancel", o, NoOne), fee, dispatch)
    BY AtOK DEF Steps
  <2>2. handler' = [handler EXCEPT ![h] = At("clientCancel", o, NoOne)] /\ UNCHANGED <<tables, fee>>
    BY <1>2 DEF ClientCancelRead, Read, Keep, At
  <2> QED BY <2>1, <2>2, ReadStep
<1>3. ASSUME NEW o \in Orders, DropOrder(h, o)
      PROVE  IInv'
  <2> DEFINE row == [order[o] EXCEPT !.status = "canceled", !.company = NoOne]
  <2>1. row \in OrderRow /\ FeeTaken(row, fee', o)
    <3>1. "canceled" \in ORDER_STATUS \ {"dispatched"} /\ fee' = fee
      BY <1>3 DEF DropOrder, ORDER_STATUS
    <3> QED BY <3>1, RowWrite
  <2>2. order' = [order EXCEPT ![o] = row]
    BY <1>0, <1>3 DEF DropOrder, OrderRow
  <2>3. Grows
    BY <1>3 DEF DropOrder, Grows, RowsKept, IInv
  <2> HIDE DEF row
  <2> QED BY <1>3, <2>1, <2>2, <2>3, OrderWrite DEF DropOrder, IInv
<1>4. ASSUME NEW o \in Orders, FareCharged(h, o)
      PROVE  IInv'
  <2>1. Grows
    BY <1>4 DEF FareCharged, Grows, RowsKept, IInv
  <2>2. \E row \in OrderRow : FeeTaken(row, fee', o) /\ order' = [order EXCEPT ![o] = row]
    BY <1>4, <2>1, PayWrite DEF FareCharged, Payments
  <2> QED BY <1>4, <2>1, <2>2, OrderWrite DEF FareCharged, IInv
<1>5. CASE CancelWrite(h)
  <2> DEFINE o == handler[h].order
             row == [order[o] EXCEPT !.status = "published", !.company = NoOne]
             ds == Removed(DispatchesOf(o))
  <2>1. o \in Orders
    BY <1>0, <1>5 DEF CancelWrite, LocalOK
  <2>2. row \in OrderRow /\ FeeTaken(row, fee', o)
    BY <1>5, <2>1, RowWrite DEF CancelWrite, ORDER_STATUS
  <2>3. order' = [order EXCEPT ![o] = row] /\ dispatch' = ds /\ Done(h) /\ UNCHANGED <<invite, registered, fee>>
    BY <1>0, <1>5, <2>1 DEF CancelWrite, OrderRow
  <2>4. ds \in [Requests -> DispatchRow]
    BY DEF Removed, DispatchRow, IInv, DispatchesOK
  <2>5. \A i \in Requests : ds[i] = dispatch[i]
          \/ (ds[i].status = "removed" /\ ds[i].order = dispatch[i].order)
    BY DEF Removed, IInv, DispatchesOK, DispatchRow
  <2> HIDE DEF o, row, ds
  <2>6. DispatchesOK(dispatch')
    BY <2>3, <2>4, <2>5, DispatchStep DEF IInv
  <2>7. Grows
    BY <2>3, <2>5 DEF Grows, RowsKept, IInv
  <2>8. \E r \in Locals : LocalOK(r, fee', dispatch') /\ handler' = [handler EXCEPT ![h] = r]
    BY <2>3, Ended
  <2> QED BY <2>1, <2>2, <2>3, <2>6, <2>7, <2>8, OrderWrite DEF IInv
<1>6. CASE ClientCancelWrite(h)
  <2> DEFINE o == handler[h].order
             row == [order[o] EXCEPT !.status = "canceled"]
  <2>1. o \in Orders
    BY <1>0, <1>6 DEF ClientCancelWrite, LocalOK
  <2>2. row \in OrderRow /\ FeeTaken(row, fee', o)
    BY <1>0, <1>6, <2>1 DEF ClientCancelWrite, IInv, OrdersOK, FeeTaken, ORDER_STATUS, OrderRow
  <2>3. order' = [order EXCEPT ![o] = row] /\ Done(h) /\ UNCHANGED <<dispatch, invite, registered, fee>>
    BY <1>0, <1>6, <2>1 DEF ClientCancelWrite, OrderRow
  <2> HIDE DEF o, row
  <2>4. Grows
    BY <2>3 DEF Grows, RowsKept, IInv
  <2>5. \E r \in Locals : LocalOK(r, fee', dispatch') /\ handler' = [handler EXCEPT ![h] = r]
    BY <2>3, Ended
  <2> QED BY <2>1, <2>2, <2>3, <2>4, <2>5, OrderWrite DEF IInv
<1> QED BY <1>1, <1>2, <1>3, <1>4, <1>5, <1>6 DEF Releasing

-----------------------------------------------------------------------------
LEMMA InitIInv == Init => IInv
<1> SUFFICES ASSUME Init PROVE IInv
  OBVIOUS
<1>1. HandlersOK(handler, fee, dispatch)
  BY IdleOK DEF Init, HandlersOK
<1>2. OrdersOK(order, fee)
  BY DEF Init, OrdersOK, OrderRow, ORDER_STATUS, Payments, FeeTaken
<1>3. DispatchesOK(dispatch)
  BY DEF Init, DispatchesOK, NoDispatch, DispatchRow, DISPATCH_STATUS
<1> QED BY <1>1, <1>2, <1>3, InviteesAssumption DEF Init, IInv, InvitesOK

LEMMA NextIInv == IInv /\ [Next]_vars => IInv'
<1> SUFFICES ASSUME IInv, [Next]_vars PROVE IInv'
  OBVIOUS
<1>1. CASE UNCHANGED vars
  <2>1. UNCHANGED <<order, dispatch, invite, registered, handler, fee>>
    BY <1>1 DEF vars
  <2> QED BY <2>1 DEF IInv
<1>2. ASSUME NEW h \in Handlers, Abort(h)
      PROVE  IInv'
  <2>1. \E r \in Locals : LocalOK(r, fee, dispatch) /\ handler' = [handler EXCEPT ![h] = r]
    BY <1>2, Ended DEF Abort
  <2> QED BY <1>2, <2>1, ReadStep DEF Abort
<1> QED BY <1>1, <1>2, RequestingStep, AcceptingStep, InvitingStep, ClaimingStep, ReleasingStep DEF Next

\* The inductive invariant, whatever requests overlap.
THEOREM Invariance == Spec => []IInv
BY InitIInv, NextIInv, PTL DEF Spec

\* The tables, the locals of requests and the history keep their types.
THEOREM TypeCorrect == Spec => []TypeOK
<1>1. IInv => TypeOK
  BY DEF IInv, TypeOK, HandlersOK, OrdersOK, DispatchesOK, InvitesOK
<1> QED BY <1>1, Invariance, PTL

\* However many requests to the server overlap, a client's order is with no
\* carrier before its service fee was taken.
THEOREM FeeTheorem == Spec => []FeeBeforeDispatched
<1>1. IInv => FeeBeforeDispatched
  BY DEF IInv, OrdersOK, FeeTaken, FeeBeforeDispatched
<1> QED BY <1>1, Invariance, PTL

\* However many acceptances overlap, an order has at most one accepted request.
THEOREM AcceptedTheorem == Spec => []AtMostOneAccepted
<1>1. IInv => AtMostOneAccepted
  <2> SUFFICES ASSUME IInv, NEW o \in Orders
               PROVE  Cardinality({i \in DispatchesOf(o) : dispatch[i].status = "Accepted"}) <= 1
    BY DEF AtMostOneAccepted
  <2> DEFINE A == {i \in DispatchesOf(o) : dispatch[i].status = "Accepted"}
  <2>1. \A i, j \in A : i = j
    BY DEF IInv, DispatchesOK, DispatchesOf
  <2>2. A = {} \/ \E x : A = {x}
    BY <2>1
  <2> HIDE DEF A
  <2>3. Cardinality(A) \in {0, 1}
    BY <2>2, FS_EmptySet, FS_Singleton
  <2> QED BY <2>3 DEF A
<1> QED BY <1>1, Invariance, PTL

-----------------------------------------------------------------------------
(* One request at a time: Dispatching implements Tender.                   *)

OneAtATime == \A g, h \in Handlers : g = h

\* What a request read still stands.
Fresh(r, os, ds) ==
  /\ r.step \in {"acceptFee", "accept"} =>
       ds[r.dispatch].status = "New" /\ ds[r.dispatch].company = r.company
  /\ r.step \in {"claimFee", "claimWrite"} => os[r.order].company = NoOne

AllFresh == \A h \in Handlers : Fresh(handler[h], order, dispatch)

LEMMA BidsMember ==
  ASSUME NEW o, NEW c
  PROVE  c \in Bids(o) <=> \E i \in Requests : dispatch[i].status = "New" /\ dispatch[i].order = o
                                                /\ dispatch[i].company = c
BY DEF Bids, DispatchesOf, Present

LEMMA BidsMemberNext ==
  ASSUME NEW o, NEW c
  PROVE  c \in Bids(o)' <=> \E i \in Requests : dispatch'[i].status = "New" /\ dispatch'[i].order = o
                                                 /\ dispatch'[i].company = c
BY DEF Bids, DispatchesOf, Present

LEMMA BidsUnchanged ==
  ASSUME dispatch' = dispatch
  PROVE  AllBids' = AllBids
<1>1. ASSUME NEW o \in Orders PROVE Bids(o)' = Bids(o)
  BY DEF Bids, DispatchesOf, Present
<1> QED BY <1>1 DEF AllBids

LEMMA HoldersUnchanged ==
  ASSUME \A o \in Orders : order'[o].company = order[o].company
  PROVE  Holders' = Holders
BY DEF Holders

\* A new row is a bid.
LEMMA InsertBids ==
  ASSUME IInv, NEW i \in Requests, NEW o \in Orders, NEW c \in Companies, Insert(i, o, c),
         Holders' = Holders
  PROVE  TenderOf!Next
<1>1. /\ dispatch[i].status = "absent"
      /\ dispatch' = [dispatch EXCEPT ![i] = [status |-> "New", order |-> o, company |-> c]]
      /\ dispatch \in [Requests -> DispatchRow]
  BY DEF Insert, IInv, DispatchesOK
<1>2. ASSUME NEW q \in Orders
      PROVE  Bids(q)' = IF q = o THEN Bids(q) \cup {c} ELSE Bids(q)
  <2>1. \A d : d \in Bids(q)' <=> d \in Bids(q) \/ (q = o /\ d = c)
    <3> TAKE d
    <3>1. d \in Bids(q)' => d \in Bids(q) \/ (q = o /\ d = c)
      BY <1>1, BidsMember, BidsMemberNext
    <3>2. ASSUME d \in Bids(q) PROVE d \in Bids(q)'
      <4>1. PICK j \in Requests : dispatch[j].status = "New" /\ dispatch[j].order = q /\ dispatch[j].company = d
        BY <3>2, BidsMember
      <4>2. dispatch'[j] = dispatch[j]
        BY <1>1, <4>1
      <4> QED BY <4>1, <4>2, BidsMemberNext
    <3>3. q = o /\ d = c => d \in Bids(q)'
      BY <1>1, BidsMemberNext
    <3> QED BY <3>1, <3>2, <3>3
  <2>2. CASE q = o
    BY <2>1, <2>2
  <2>3. CASE q # o
    BY <2>1, <2>3
  <2> QED BY <2>2, <2>3
<1>3. AllBids' = [AllBids EXCEPT ![o] = @ \cup {c}]
  BY <1>2 DEF AllBids
<1>4. TenderOf!Bid(o, c)
  BY <1>3 DEF TenderOf!Bid
<1> QED BY <1>4 DEF TenderOf!Next

\* Rows of one order lose bids, those of company c only or all of them.
LEMMA RemovalBids ==
  ASSUME IInv, NEW S \in SUBSET Requests, \A i \in S : Present(i), NEW o \in Orders,
         \A i \in S : dispatch[i].order = o, dispatch' = Removed(S)
  PROVE  /\ \A q \in Orders \ {o} : Bids(q)' = Bids(q)
         /\ \A c : c \in Bids(o)' <=> \E i \in Requests \ S :
              dispatch[i].status = "New" /\ dispatch[i].order = o /\ dispatch[i].company = c
<1>0. dispatch \in [Requests -> DispatchRow]
  BY DEF IInv, DispatchesOK
<1>1. \A i \in Requests :
        /\ i \notin S => dispatch'[i] = dispatch[i]
        /\ i \in S => dispatch'[i].status = "removed"
  BY <1>0 DEF Removed, DispatchRow
<1>2. ASSUME NEW q \in Orders \ {o} PROVE Bids(q)' = Bids(q)
  <2>1. \A c : c \in Bids(q)' <=> c \in Bids(q)
    BY <1>1, BidsMember, BidsMemberNext
  <2> QED BY <2>1 DEF Bids
<1>3. ASSUME NEW c
      PROVE  c \in Bids(o)' <=> \E i \in Requests \ S :
               dispatch[i].status = "New" /\ dispatch[i].order = o /\ dispatch[i].company = c
  BY <1>1, BidsMemberNext
<1> QED BY <1>2, <1>3

\* What a single request does to the tender, and what it leaves behind.
Good == AllFresh' /\ (TenderOf!Next \/ UNCHANGED <<Holders, AllBids>>)

\* With one request at a time, the locals of all are those of h.
LEMMA FreshStep ==
  ASSUME OneAtATime, NEW h \in Handlers, IInv, NEW r, handler' = [handler EXCEPT ![h] = r],
         Fresh(r, order', dispatch')
  PROVE  AllFresh'
<1> SUFFICES ASSUME NEW g \in Handlers PROVE Fresh(handler'[g], order', dispatch')
  BY DEF AllFresh, Fresh
<1>1. g = h
  BY DEF OneAtATime
<1>2. handler'[h] = r
  BY DEF IInv, HandlersOK
<1> QED BY <1>1, <1>2

\* A request that is over, or only reads, and changes neither holder nor rows.
LEMMA QuietStep ==
  ASSUME OneAtATime, IInv, NEW h \in Handlers, dispatch' = dispatch,
         \A o \in Orders : order'[o].company = order[o].company,
         NEW r, handler' = [handler EXCEPT ![h] = r], Fresh(r, order', dispatch')
  PROVE  Good
BY FreshStep, BidsUnchanged, HoldersUnchanged DEF Good

LEMMA IdleFresh ==
  ASSUME NEW os, NEW ds
  PROVE  Fresh(Idle, os, ds)
BY DEF Fresh, Idle

\* One row is withdrawn: its company's bid goes, unless it has another one.
LEMMA WithdrawBids ==
  ASSUME NEW i \in Requests, NEW o \in Orders, NEW c \in Companies,
         o = dispatch[i].order, c = dispatch[i].company, dispatch'[i].status = "Canceled",
         \A j \in Requests \ {i} : dispatch'[j] = dispatch[j]
  PROVE  AllBids' = AllBids \/ AllBids' = [AllBids EXCEPT ![o] = @ \ {c}]
<1>1. ASSUME NEW q \in Orders, q # o
      PROVE  Bids(q)' = Bids(q)
  <2>1. \A d : d \in Bids(q)' <=> d \in Bids(q)
    BY <1>1, BidsMember, BidsMemberNext
  <2> QED BY <2>1 DEF Bids
<1>2. \A d : d \in Bids(o)' => d \in Bids(o)
  BY BidsMember, BidsMemberNext
<1>3. \A d : d \in Bids(o) /\ d # c => d \in Bids(o)'
  BY BidsMember, BidsMemberNext
<1>4. CASE c \in Bids(o)'
  <2>1. Bids(o)' = Bids(o)
    BY <1>2, <1>3, <1>4
  <2> QED BY <1>1, <2>1 DEF AllBids
<1>5. CASE c \notin Bids(o)'
  <2>1. Bids(o)' = Bids(o) \ {c}
    BY <1>2, <1>3, <1>5
  <2> QED BY <1>1, <2>1 DEF AllBids
<1> QED BY <1>4, <1>5

LEMMA RequestingTender ==
  ASSUME OneAtATime, IInv, AllFresh, NEW h \in Handlers, Requesting(h)
  PROVE  Good
<1>0. handler[h] \in Locals /\ LocalOK(handler[h], fee, dispatch) /\ dispatch \in [Requests -> DispatchRow]
  BY DEF IInv, HandlersOK, DispatchesOK
<1>1. ASSUME NEW o \in Orders, NEW c \in Companies, CreateRead(h, o, c)
      PROVE  Good
  <2>1. handler' = [handler EXCEPT ![h] = At("create", o, c)] /\ UNCHANGED <<tables, fee>>
    BY <1>1 DEF CreateRead, Read, Keep, At
  <2>2. Fresh(At("create", o, c), order', dispatch')
    BY DEF Fresh, At
  <2> QED BY <2>1, <2>2, QuietStep DEF tables
<1>2. ASSUME NEW o \in Orders, NEW c \in Companies, RemoveRequests(h, o, c)
      PROVE  Good
  <2>1. dispatch' = Removed(DispatchesBy(o, c)) /\ order' = order /\ handler' = handler /\ handler[h] = Idle
    BY <1>2 DEF RemoveRequests, Called
  <2>2. /\ \A q \in Orders \ {o} : Bids(q)' = Bids(q)
        /\ \A d : d \in Bids(o)' <=> \E i \in Requests \ DispatchesBy(o, c) :
             dispatch[i].status = "New" /\ dispatch[i].order = o /\ dispatch[i].company = d
    BY <2>1, RemovalBids DEF DispatchesBy, DispatchesOf
  <2>3. \A d : d \in Bids(o)' <=> d \in Bids(o) /\ d # c
    BY <2>2, BidsMember DEF DispatchesBy, DispatchesOf, Present
  <2>4. Bids(o)' = Bids(o) \ {c}
    BY <2>3
  <2>5. AllBids' = [AllBids EXCEPT ![o] = @ \ {c}]
    BY <2>2, <2>4 DEF AllBids
  <2>6. Holders' = Holders
    BY <2>1, HoldersUnchanged
  <2>7. TenderOf!Next
    BY <2>5, <2>6 DEF TenderOf!Withdraw, TenderOf!Next
  <2>8. handler' = [handler EXCEPT ![h] = Idle] /\ Fresh(Idle, order', dispatch')
    BY <1>0, <2>1, IdleFresh DEF IInv, HandlersOK
  <2> QED BY <2>7, <2>8, FreshStep DEF Good
<1>3. ASSUME NEW i \in Requests, CreateWrite(h, i)
      PROVE  Good
  <2>1. handler[h].order \in Orders /\ handler[h].company \in Companies
    BY <1>0, <1>3 DEF CreateWrite, LocalOK
  <2>2. Holders' = Holders
    BY <1>3, HoldersUnchanged DEF CreateWrite
  <2>3. TenderOf!Next
    BY <1>3, <2>1, <2>2, InsertBids DEF CreateWrite
  <2> QED BY <1>3, <2>3, FreshStep, IdleFresh DEF CreateWrite, Done, Good
<1>4. ASSUME NEW i \in Requests, WithdrawRead(h, i)
      PROVE  Good
  <2> DEFINE r == [step |-> "withdraw", order |-> NoOne, company |-> NoOne, dispatch |-> i]
  <2>1. handler' = [handler EXCEPT ![h] = r] /\ UNCHANGED <<tables, fee>>
    BY <1>4 DEF WithdrawRead, Read, Keep
  <2>2. Fresh(r, order', dispatch')
    BY DEF Fresh
  <2> HIDE DEF r
  <2> QED BY <2>1, <2>2, QuietStep DEF tables
<1>5. CASE WithdrawWrite(h)
  <2>0. handler[h].dispatch \in Requests
    BY <1>0, <1>5 DEF WithdrawWrite, LocalOK
  <2> PICK i \in Requests : i = handler[h].dispatch
    BY <2>0
  <2>1. /\ dispatch' = [dispatch EXCEPT ![i].status = IF Present(i) THEN "Canceled" ELSE @]
        /\ order' = order /\ Done(h)
    BY <1>5 DEF WithdrawWrite
  <2>2. AllFresh' /\ Holders' = Holders
    BY <2>1, FreshStep, IdleFresh, HoldersUnchanged DEF Done
  <2>3. CASE ~Present(i)
    <3>1. dispatch' = dispatch
      BY <1>0, <2>1, <2>3 DEF DispatchRow
    <3> QED BY <2>2, <3>1, BidsUnchanged DEF Good
  <2>4. CASE Present(i)
    <3>1. dispatch[i].order \in Orders /\ dispatch[i].company \in Companies
      BY <1>0, <2>4 DEF Present, IInv, DispatchesOK, DispatchRow
    <3> PICK o \in Orders, c \in Companies : o = dispatch[i].order /\ c = dispatch[i].company
      BY <3>1
    <3>2. dispatch'[i].status = "Canceled" /\ \A j \in Requests \ {i} : dispatch'[j] = dispatch[j]
      BY <1>0, <2>1, <2>4 DEF DispatchRow
    <3>3. AllBids' = AllBids \/ AllBids' = [AllBids EXCEPT ![o] = @ \ {c}]
      BY <3>2, WithdrawBids
    <3> QED BY <2>2, <3>3 DEF Good, TenderOf!Withdraw, TenderOf!Next
  <2> QED BY <2>3, <2>4
<1> QED BY <1>1, <1>2, <1>3, <1>4, <1>5 DEF Requesting

\* The fields of a row that AcceptedRows writes.
LEMMA AcceptedBids ==
  ASSUME IInv, NEW a \in Requests, NEW o \in Orders, dispatch[a].order = o,
         dispatch[a].status = "New", dispatch' = AcceptedRows(o, a)
  PROVE  AllBids' = [AllBids EXCEPT ![o] = {}]
<1>0. dispatch \in [Requests -> DispatchRow]
  BY DEF IInv, DispatchesOK
<1>1. \A i \in Requests :
        /\ i = a => dispatch'[i] = [dispatch[i] EXCEPT !.status = "Accepted"]
        /\ i \in DispatchesOf(o) /\ i # a => dispatch'[i] = [dispatch[i] EXCEPT !.status = "Expired"]
        /\ i \notin DispatchesOf(o) /\ i # a => dispatch'[i] = dispatch[i]
  BY DEF AcceptedRows, Present
<1>2. \A i \in Requests :
        /\ dispatch[i].order = o => ~(dispatch'[i].status = "New" /\ dispatch'[i].order = o)
        /\ dispatch[i].order # o => dispatch'[i] = dispatch[i]
        /\ dispatch'[i].order = dispatch[i].order
  BY <1>0, <1>1 DEF DispatchRow, DispatchesOf, Present
<1>3. Bids(o)' = {}
  <2>1. \A c : c \notin Bids(o)'
    BY <1>2, BidsMemberNext
  <2> QED BY <2>1
<1>4. ASSUME NEW q \in Orders, q # o PROVE Bids(q)' = Bids(q)
  <2>1. \A d : d \in Bids(q)' <=> d \in Bids(q)
    BY <1>2, <1>4, BidsMember, BidsMemberNext
  <2> QED BY <2>1 DEF Bids
<1> QED BY <1>3, <1>4 DEF AllBids

LEMMA AcceptingTender ==
  ASSUME OneAtATime, IInv, AllFresh, NEW h \in Handlers, Accepting(h)
  PROVE  Good
<1>0. /\ handler[h] \in Locals /\ LocalOK(handler[h], fee, dispatch)
      /\ dispatch \in [Requests -> DispatchRow] /\ order \in [Orders -> OrderRow]
      /\ Fresh(handler[h], order, dispatch)
  BY DEF IInv, HandlersOK, DispatchesOK, OrdersOK, AllFresh
<1>1. ASSUME NEW i \in Requests, AcceptRead(h, i)
      PROVE  Good
  <2> DEFINE s == IF order[dispatch[i].order].pay = "fee_paid" THEN "accept" ELSE "acceptFee"
             r == [step |-> s, order |-> dispatch[i].order, company |-> dispatch[i].company, dispatch |-> i]
  <2>1. handler' = [handler EXCEPT ![h] = r] /\ UNCHANGED <<tables, fee>> /\ dispatch[i].status = "New"
    BY <1>1 DEF AcceptRead, Read, Keep
  <2>2. Fresh(r, order', dispatch')
    BY <2>1 DEF Fresh, tables
  <2> HIDE DEF r
  <2> QED BY <2>1, <2>2, QuietStep DEF tables
<1>2. CASE ChargeServiceFee(h)
  <2>0. handler[h].order \in Orders
    BY <1>0, <1>2 DEF ChargeServiceFee, LocalOK
  <2>1. dispatch' = dispatch /\ \A o \in Orders : order'[o].company = order[o].company
    BY <1>0, <1>2 DEF ChargeServiceFee, OrderRow
  <2>2. CASE handler[h].step = "acceptFee"
    <3> DEFINE r == [step |-> "accept", order |-> handler[h].order,
                     company |-> handler[h].company, dispatch |-> handler[h].dispatch]
    <3>1. handler' = [handler EXCEPT ![h] = r]
      BY <1>2, <2>2 DEF ChargeServiceFee, Keep
    <3>2. Fresh(r, order', dispatch')
      BY <1>0, <2>1, <2>2 DEF Fresh
    <3> HIDE DEF r
    <3> QED BY <2>1, <3>1, <3>2, QuietStep
  <2>3. CASE handler[h].step # "acceptFee"
    BY <1>2, <2>1, <2>3, QuietStep, IdleFresh DEF ChargeServiceFee, Done
  <2> QED BY <2>2, <2>3
<1>3. CASE ServiceFeeFails(h)
  <2>0. handler[h].order \in Orders
    BY <1>0, <1>3 DEF ServiceFeeFails, LocalOK
  <2>1. dispatch' = dispatch /\ \A o \in Orders : order'[o].company = order[o].company
    BY <1>0, <1>3 DEF ServiceFeeFails, OrderRow
  <2> QED BY <1>3, <2>1, QuietStep, IdleFresh DEF ServiceFeeFails, Done
<1>4. CASE AcceptWrite(h)
  <2>0. handler[h].order \in Orders /\ handler[h].company \in Companies /\ handler[h].dispatch \in Requests
    BY <1>0, <1>4 DEF AcceptWrite, LocalOK
  <2> PICK o \in Orders, c \in Companies, a \in Requests :
         o = handler[h].order /\ c = handler[h].company /\ a = handler[h].dispatch
    BY <2>0
  <2>1. dispatch[a].order = o /\ dispatch[a].status = "New" /\ dispatch[a].company = c
    BY <1>0, <1>4 DEF AcceptWrite, LocalOK, Fresh
  <2>2. /\ dispatch' = AcceptedRows(o, a) /\ Done(h)
        /\ order' = [order EXCEPT ![o] = [status |-> "dispatched", pay |-> "fee_paid", company |-> c]]
    BY <1>4 DEF AcceptWrite
  <2>3. AllBids' = [AllBids EXCEPT ![o] = {}]
    BY <2>1, <2>2, AcceptedBids
  <2>4. c \in Bids(o)
    BY <2>1, BidsMember
  <2>5. Holders' = [Holders EXCEPT ![o] = c]
    BY <1>0, <2>2 DEF Holders
  <2>6. TenderOf!Award(o, c)
    BY <2>3, <2>4, <2>5 DEF TenderOf!Award, AllBids
  <2>7. AllFresh'
    BY <2>2, FreshStep, IdleFresh DEF Done
  <2> QED BY <2>6, <2>7 DEF Good, TenderOf!Next
<1>5. ASSUME NEW o \in Orders, RetryFeeRead(h, o)
      PROVE  Good
  <2>1. handler' = [handler EXCEPT ![h] = At("retryFee", o, NoOne)] /\ UNCHANGED <<tables, fee>>
    BY <1>5 DEF RetryFeeRead, Read, Keep, At
  <2>2. Fresh(At("retryFee", o, NoOne), order', dispatch')
    BY DEF Fresh, At
  <2> QED BY <2>1, <2>2, QuietStep DEF tables
<1> QED BY <1>1, <1>2, <1>3, <1>4, <1>5 DEF Accepting

\* A request goes on at a step that relies on nothing it read.
LEMMA MovesOn ==
  ASSUME OneAtATime, IInv, NEW h \in Handlers, dispatch' = dispatch,
         \A o \in Orders : order'[o].company = order[o].company,
         NEW s \in Steps \ {"acceptFee", "accept", "claimFee", "claimWrite"}, NEW o, NEW c, NEW i,
         handler' = [handler EXCEPT ![h] = [step |-> s, order |-> o, company |-> c, dispatch |-> i]]
  PROVE  Good
<1> DEFINE r == [step |-> s, order |-> o, company |-> c, dispatch |-> i]
<1>1. handler' = [handler EXCEPT ![h] = r] /\ Fresh(r, order', dispatch')
  BY DEF Fresh
<1> HIDE DEF r
<1> QED BY <1>1, QuietStep

\* Nothing of the tender is touched, and no request goes on.
LEMMA AtRest ==
  ASSUME OneAtATime, IInv, NEW h \in Handlers, dispatch' = dispatch,
         \A o \in Orders : order'[o].company = order[o].company,
         Done(h) \/ (handler' = handler /\ handler[h] = Idle)
  PROVE  Good
<1>1. handler' = [handler EXCEPT ![h] = Idle]
  BY DEF Done, IInv, HandlersOK
<1> QED BY <1>1, QuietStep, IdleFresh

LEMMA InvitingTender ==
  ASSUME OneAtATime, IInv, AllFresh, NEW h \in Handlers, Inviting(h)
  PROVE  Good
<1>1. ASSUME NEW o \in Orders, NEW c \in Companies, InviteCarrier(h, o, c)
      PROVE  Good
  BY <1>1, AtRest DEF InviteCarrier, Called
<1>2. ASSUME NEW o \in Orders, NEW c \in Companies, RegisterRead(h, o, c)
      PROVE  Good
  <2>1. "register" \in Steps \ {"acceptFee", "accept", "claimFee", "claimWrite"}
    BY DEF Steps
  <2> QED BY <1>2, <2>1, MovesOn DEF RegisterRead, Read, Keep, tables
<1>3. ASSUME NEW o \in Orders, NEW c \in Companies, NEW s \in {"declined", "expired"},
             CloseInvite(h, o, c, s)
      PROVE  Good
  BY <1>3, AtRest DEF CloseInvite, Called
<1>4. CASE RegisterWrite(h)
  <2>1. "claim" \in Steps \ {"acceptFee", "accept", "claimFee", "claimWrite"}
    BY DEF Steps
  <2> QED BY <1>4, <2>1, MovesOn DEF RegisterWrite, Keep
<1> QED BY <1>1, <1>2, <1>3, <1>4 DEF Inviting

LEMMA ClaimingTender ==
  ASSUME OneAtATime, IInv, AllFresh, NEW h \in Handlers, Claiming(h)
  PROVE  Good
<1>0. /\ handler[h] \in Locals /\ LocalOK(handler[h], fee, dispatch)
      /\ order \in [Orders -> OrderRow] /\ Fresh(handler[h], order, dispatch)
  BY DEF IInv, HandlersOK, OrdersOK, AllFresh
<1>1. CASE ClaimRead(h)
  <2> DEFINE o == handler[h].order
             s == IF order[o].pay = "fee_paid" THEN "claimWrite" ELSE "claimFee"
             r == [step |-> s, order |-> o, company |-> handler[h].company, dispatch |-> NoOne]
  <2>1. UNCHANGED <<tables, fee>>
    BY <1>1 DEF ClaimRead
  <2>2. CASE order[o].company = NoOne
    <3>1. handler' = [handler EXCEPT ![h] = r]
      BY <1>1, <2>2 DEF ClaimRead, Keep
    <3>2. Fresh(r, order', dispatch')
      BY <2>1, <2>2 DEF Fresh, tables
    <3> HIDE DEF r
    <3> QED BY <2>1, <3>1, <3>2, QuietStep DEF tables
  <2>3. CASE order[o].company # NoOne
    BY <1>1, <2>1, <2>3, AtRest DEF ClaimRead, tables
  <2> QED BY <2>2, <2>3
<1>2. CASE ClaimFee(h)
  <2> DEFINE r == [step |-> "claimWrite", order |-> handler[h].order,
                   company |-> handler[h].company, dispatch |-> NoOne]
  <2>1. handler' = [handler EXCEPT ![h] = r] /\ UNCHANGED tables /\ handler[h].step = "claimFee"
    BY <1>2 DEF ClaimFee, Keep
  <2>2. Fresh(r, order', dispatch')
    BY <1>0, <2>1 DEF Fresh, tables
  <2> HIDE DEF r
  <2> QED BY <2>1, <2>2, QuietStep DEF tables
<1>3. CASE ClaimFeeFails(h)
  <2>1. "claimFailed" \in Steps \ {"acceptFee", "accept", "claimFee", "claimWrite"}
    BY DEF Steps
  <2>2. \A o \in Orders : order'[o].company = order[o].company
    BY <1>0, <1>3 DEF ClaimFeeFails, OrderRow
  <2> QED BY <1>3, <2>1, <2>2, MovesOn DEF ClaimFeeFails, Keep
<1>4. ASSUME NEW i \in Requests, ClaimRequest(h, i)
      PROVE  Good
  <2>1. handler[h].order \in Orders /\ handler[h].company \in Companies
    BY <1>0, <1>4 DEF ClaimRequest, LocalOK
  <2>2. Holders' = Holders
    BY <1>4, HoldersUnchanged DEF ClaimRequest
  <2>3. TenderOf!Next
    BY <1>4, <2>1, <2>2, InsertBids DEF ClaimRequest
  <2> QED BY <1>4, <2>3, FreshStep, IdleFresh DEF ClaimRequest, Done, Good
<1>5. CASE ClaimWrite(h)
  <2>0. handler[h].order \in Orders /\ handler[h].company \in Companies
    BY <1>0, <1>5 DEF ClaimWrite, LocalOK
  <2> PICK o \in Orders, c \in Companies : o = handler[h].order /\ c = handler[h].company
    BY <2>0
  <2>1. order[o].company = NoOne
    BY <1>0, <1>5 DEF ClaimWrite, Fresh
  <2>2. /\ dispatch' = dispatch /\ Done(h)
        /\ order' = [order EXCEPT ![o] = [status |-> "dispatched", pay |-> "fee_paid", company |-> c]]
    BY <1>5 DEF ClaimWrite
  <2>3. Holders' = [Holders EXCEPT ![o] = c] /\ Holders[o] = NoOne
    BY <1>0, <2>1, <2>2 DEF Holders
  <2>4. TenderOf!Claim(o, c)
    BY <2>2, <2>3, BidsUnchanged DEF TenderOf!Claim
  <2>5. AllFresh'
    BY <2>2, FreshStep, IdleFresh DEF Done
  <2> QED BY <2>4, <2>5 DEF Good, TenderOf!Next
<1> QED BY <1>1, <1>2, <1>3, <1>4, <1>5 DEF Claiming

LEMMA ReleasingTender ==
  ASSUME OneAtATime, IInv, AllFresh, NEW h \in Handlers, Releasing(h)
  PROVE  Good
<1>0. /\ handler[h] \in Locals /\ LocalOK(handler[h], fee, dispatch)
      /\ order \in [Orders -> OrderRow]
  BY DEF IInv, HandlersOK, OrdersOK
<1>1. ASSUME NEW o \in Orders, CancelRead(h, o)
      PROVE  Good
  <2>1. "cancel" \in Steps \ {"acceptFee", "accept", "claimFee", "claimWrite"}
    BY DEF Steps
  <2> QED BY <1>1, <2>1, MovesOn DEF CancelRead, Read, Keep, tables
<1>2. ASSUME NEW o \in Orders, ClientCancelRead(h, o)
      PROVE  Good
  <2>1. "clientCancel" \in Steps \ {"acceptFee", "accept", "claimFee", "claimWrite"}
    BY DEF Steps
  <2> QED BY <1>2, <2>1, MovesOn DEF ClientCancelRead, Read, Keep, tables
<1>3. ASSUME NEW o \in Orders, DropOrder(h, o)
      PROVE  Good
  <2>1. /\ handler' = handler /\ handler[h] = Idle /\ dispatch' = dispatch
        /\ order' = [order EXCEPT ![o].company = NoOne]
    BY <1>3 DEF DropOrder, Called
  <2>2. Holders' = [Holders EXCEPT ![o] = NoOne]
    BY <1>0, <2>1 DEF Holders, OrderRow
  <2>3. TenderOf!Release(o)
    BY <2>1, <2>2, BidsUnchanged DEF TenderOf!Release
  <2>4. handler' = [handler EXCEPT ![h] = Idle]
    BY <2>1 DEF IInv, HandlersOK
  <2> QED BY <2>3, <2>4, FreshStep, IdleFresh DEF Good, TenderOf!Next
<1>4. ASSUME NEW o \in Orders, FareCharged(h, o)
      PROVE  Good
  <2>1. \A q \in Orders : order'[q].company = order[q].company
    BY <1>0, <1>4 DEF FareCharged, OrderRow
  <2> QED BY <1>4, <2>1, AtRest DEF FareCharged, Called
<1>5. CASE CancelWrite(h)
  <2>0. handler[h].order \in Orders
    BY <1>0, <1>5 DEF CancelWrite, LocalOK
  <2> PICK o \in Orders : o = handler[h].order
    BY <2>0
  <2>1. /\ order' = [order EXCEPT ![o].status = "published", ![o].company = NoOne]
        /\ dispatch' = Removed(DispatchesOf(o)) /\ Done(h)
    BY <1>5 DEF CancelWrite
  <2>2. Holders' = [Holders EXCEPT ![o] = NoOne]
    BY <1>0, <2>1 DEF Holders, OrderRow
  <2>3. /\ \A q \in Orders \ {o} : Bids(q)' = Bids(q)
        /\ \A d : d \in Bids(o)' <=> \E i \in Requests \ DispatchesOf(o) :
             dispatch[i].status = "New" /\ dispatch[i].order = o /\ dispatch[i].company = d
    BY <2>1, RemovalBids DEF DispatchesOf
  <2>4. Bids(o)' = {}
    BY <2>3 DEF DispatchesOf, Present
  <2>5. AllBids' = [AllBids EXCEPT ![o] = {}]
    BY <2>3, <2>4 DEF AllBids
  <2>6. TenderOf!Release(o)
    BY <2>2, <2>5 DEF TenderOf!Release
  <2> QED BY <2>1, <2>6, FreshStep, IdleFresh DEF Done, Good, TenderOf!Next
<1>6. CASE ClientCancelWrite(h)
  <2>1. \A q \in Orders : order'[q].company = order[q].company
    BY <1>0, <1>6 DEF ClientCancelWrite, OrderRow
  <2> QED BY <1>6, <2>1, AtRest DEF ClientCancelWrite
<1> QED BY <1>1, <1>2, <1>3, <1>4, <1>5, <1>6 DEF Releasing

\* Every step of the services is a step of the tender, or none of its business.
LEMMA TenderStep ==
  ASSUME OneAtATime, IInv, AllFresh, [Next]_vars
  PROVE  Good
<1>1. ASSUME NEW h \in Handlers, Abort(h)
      PROVE  Good
  BY <1>1, AtRest DEF Abort, tables
<1>2. CASE UNCHANGED vars
  <2>1. AllFresh' /\ Holders' = Holders
    BY <1>2, HoldersUnchanged DEF vars, AllFresh, Fresh
  <2> QED BY <1>2, <2>1, BidsUnchanged DEF Good, vars
<1> QED BY <1>1, <1>2, RequestingTender, AcceptingTender, InvitingTender, ClaimingTender,
           ReleasingTender DEF Next

\* One request at a time, for any number of orders, carriers and requests: the
\* dispatching services implement Tender.  What a request has read is still so
\* when it commits (AllFresh), which is what overlapping requests break.
THEOREM TenderTheorem ==
  ASSUME OneAtATime
  PROVE  Spec => RunsTender
<1>1. Init => AllFresh /\ TenderOf!Init
  <2> SUFFICES ASSUME Init PROVE AllFresh /\ TenderOf!Init
    OBVIOUS
  <2>1. AllFresh
    BY IdleFresh DEF Init, AllFresh
  <2>2. Holders = [o \in Orders |-> NoOne]
    BY DEF Init, Holders
  <2>3. \A o \in Orders : Bids(o) = {}
    BY DEF Init, NoDispatch, Bids, DispatchesOf, Present
  <2> QED BY <2>1, <2>2, <2>3 DEF TenderOf!Init, AllBids
<1>2. IInv /\ AllFresh /\ [Next]_vars => AllFresh' /\ [TenderOf!Next]_(TenderOf!vars)
  BY TenderStep DEF Good, TenderOf!vars
<1> QED BY <1>1, <1>2, Invariance, PTL DEF Spec, RunsTender, TenderOf!Spec

-----------------------------------------------------------------------------
(* One request at a time: what the lists offer is still free.              *)

\* An order, by its row and its invitations: it is on the market only when it
\* is nobody's, and at most one carrier is awaited, by nobody's order only.
OfferOK(row, inv) ==
  /\ row.status = "published" => row.company = NoOne
  /\ row.status = "dispatched" => row.company # NoOne
  /\ \A c \in Companies : inv[c] = "pending" => row.company = NoOne
  /\ \A c, d \in Companies : inv[c] = "pending" /\ inv[d] = "pending" => c = d

\* A registration: its invitation is open until it is answered, and no other
\* one is made before the order is the carrier's.
AnswerOK(r, inv) ==
  /\ r.step = "register" => inv[r.order][r.company] = "pending"
  /\ r.step \in {"claim", "claimFee", "claimWrite", "claimFailed"} =>
       \A c \in Companies : inv[r.order][c] # "pending"

OffersOK ==
  /\ \A o \in Orders : OfferOK(order[o], invite[o])
  /\ \A h \in Handlers : AnswerOK(handler[h], invite)

\* The request in flight, with one at a time.
LEMMA AnswerStep ==
  ASSUME OneAtATime, IInv, NEW h \in Handlers, NEW r, AnswerOK(r, invite'),
         handler' = [handler EXCEPT ![h] = r],
         \A o \in Orders : OfferOK(order'[o], invite'[o])
  PROVE  OffersOK'
<1>1. ASSUME NEW g \in Handlers PROVE AnswerOK(handler'[g], invite')
  <2>1. g = h /\ handler'[h] = r
    BY DEF OneAtATime, IInv, HandlersOK
  <2> QED BY <2>1
<1>2. \A o \in Orders : OfferOK(order[o], invite[o])'
  BY DEF OfferOK
<1>3. \A g \in Handlers : AnswerOK(handler[g], invite)'
  BY <1>1 DEF AnswerOK
<1> QED BY <1>2, <1>3 DEF OffersOK

LEMMA IdleAnswer ==
  ASSUME NEW inv
  PROVE  AnswerOK(Idle, inv)
BY DEF AnswerOK, Idle

\* A request that is over, or had not begun, has left each order in order.
LEMMA OverStep ==
  ASSUME OneAtATime, IInv, NEW h \in Handlers, Done(h) \/ (handler' = handler /\ handler[h] = Idle),
         \A o \in Orders : OfferOK(order'[o], invite'[o])
  PROVE  OffersOK'
<1>1. handler' = [handler EXCEPT ![h] = Idle]
  BY DEF Done, IInv, HandlersOK
<1> QED BY <1>1, AnswerStep, IdleAnswer

\* The order's payment changes at most, and the request is over or goes on at
\* a step that awaits no invitation.
LEMMA PaymentStep ==
  ASSUME OneAtATime, IInv, OffersOK, NEW h \in Handlers, UNCHANGED invite,
         \A o \in Orders : order'[o].status = order[o].status /\ order'[o].company = order[o].company,
         \/ Done(h)
         \/ handler' = handler /\ handler[h] = Idle
         \/ \E s \in Steps \ {"register", "claim", "claimFee", "claimWrite", "claimFailed"} :
              \E o, c, i : Keep(h, s, o, c, i)
  PROVE  OffersOK'
<1>1. \A o \in Orders : OfferOK(order'[o], invite'[o])
  BY DEF OffersOK, OfferOK
<1>2. ASSUME NEW s \in Steps \ {"register", "claim", "claimFee", "claimWrite", "claimFailed"},
             NEW o, NEW c, NEW i, Keep(h, s, o, c, i)
      PROVE  OffersOK'
  <2> DEFINE r == [step |-> s, order |-> o, company |-> c, dispatch |-> i]
  <2>1. handler' = [handler EXCEPT ![h] = r] /\ AnswerOK(r, invite')
    BY <1>2 DEF Keep, AnswerOK
  <2> HIDE DEF r
  <2> QED BY <1>1, <2>1, AnswerStep
<1> QED BY <1>1, <1>2, OverStep

LEMMA RequestingOffers ==
  ASSUME OneAtATime, IInv, OffersOK, NEW h \in Handlers, Requesting(h)
  PROVE  OffersOK'
<1>0. {"create", "withdraw"} \subseteq Steps \ {"register", "claim", "claimFee", "claimWrite", "claimFailed"}
  BY DEF Steps
<1>1. ASSUME NEW o \in Orders, NEW c \in Companies, CreateRead(h, o, c) PROVE OffersOK'
  BY <1>0, <1>1, PaymentStep DEF CreateRead, Read, tables
<1>2. ASSUME NEW o \in Orders, NEW c \in Companies, RemoveRequests(h, o, c) PROVE OffersOK'
  BY <1>2, PaymentStep DEF RemoveRequests, Called
<1>3. ASSUME NEW i \in Requests, CreateWrite(h, i) PROVE OffersOK'
  BY <1>3, PaymentStep DEF CreateWrite
<1>4. ASSUME NEW i \in Requests, WithdrawRead(h, i) PROVE OffersOK'
  BY <1>0, <1>4, PaymentStep DEF WithdrawRead, Read, tables
<1>5. CASE WithdrawWrite(h)
  BY <1>5, PaymentStep DEF WithdrawWrite
<1> QED BY <1>1, <1>2, <1>3, <1>4, <1>5 DEF Requesting

LEMMA AcceptingOffers ==
  ASSUME OneAtATime, IInv, OffersOK, NEW h \in Handlers, Accepting(h)
  PROVE  OffersOK'
<1>0. {"acceptFee", "accept", "retryFee"} \subseteq
        Steps \ {"register", "claim", "claimFee", "claimWrite", "claimFailed"}
  BY DEF Steps
<1>1. /\ handler[h] \in Locals /\ LocalOK(handler[h], fee, dispatch)
      /\ order \in [Orders -> OrderRow] /\ invite \in [Orders -> [Companies -> INVITE_STATUS \cup {"none"}]]
  BY DEF IInv, HandlersOK, OrdersOK, InvitesOK
<1>2. ASSUME NEW i \in Requests, AcceptRead(h, i) PROVE OffersOK'
  BY <1>0, <1>2, PaymentStep DEF AcceptRead, Read, tables
<1>3. CASE ChargeServiceFee(h)
  <2>1. \A o \in Orders : order'[o].status = order[o].status /\ order'[o].company = order[o].company
    BY <1>1, <1>3 DEF ChargeServiceFee, OrderRow
  <2> QED BY <1>0, <1>3, <2>1, PaymentStep DEF ChargeServiceFee
<1>4. CASE ServiceFeeFails(h)
  <2>1. \A o \in Orders : order'[o].status = order[o].status /\ order'[o].company = order[o].company
    BY <1>1, <1>4 DEF ServiceFeeFails, OrderRow
  <2> QED BY <1>4, <2>1, PaymentStep DEF ServiceFeeFails
<1>5. CASE AcceptWrite(h)
  <2>1. handler[h].order \in Orders /\ handler[h].company \in Companies
    BY <1>1, <1>5 DEF AcceptWrite, LocalOK
  <2> PICK o \in Orders, c \in Companies : o = handler[h].order /\ c = handler[h].company
    BY <2>1
  <2>2. /\ order' = [order EXCEPT ![o] = [status |-> "dispatched", pay |-> "fee_paid", company |-> c]]
        /\ invite' = [invite EXCEPT ![o] =
                        [d \in Companies |-> IF @[d] = "none" THEN "none" ELSE "expired"]]
        /\ Done(h)
    BY <1>5 DEF AcceptWrite
  <2>3. ASSUME NEW q \in Orders PROVE OfferOK(order'[q], invite'[q])
    <3>1. CASE q = o
      <4>1. order'[q].status = "dispatched" /\ order'[q].company = c /\ c # NoOne
        BY <1>1, <2>2, <3>1, NoOneAssumption
      <4>2. \A d \in Companies : invite'[q][d] # "pending"
        BY <1>1, <2>2, <3>1
      <4> QED BY <4>1, <4>2 DEF OfferOK
    <3>2. CASE q # o
      BY <1>1, <2>2, <3>2 DEF OffersOK
    <3> QED BY <3>1, <3>2
  <2> QED BY <2>2, <2>3, OverStep
<1>6. ASSUME NEW o \in Orders, RetryFeeRead(h, o) PROVE OffersOK'
  BY <1>0, <1>6, PaymentStep DEF RetryFeeRead, Read, tables
<1> QED BY <1>2, <1>3, <1>4, <1>5, <1>6 DEF Accepting

LEMMA InvitingOffers ==
  ASSUME OneAtATime, IInv, OffersOK, NEW h \in Handlers, Inviting(h)
  PROVE  OffersOK'
<1>1. /\ handler[h] \in Locals /\ LocalOK(handler[h], fee, dispatch)
      /\ invite \in [Orders -> [Companies -> INVITE_STATUS \cup {"none"}]]
  BY DEF IInv, HandlersOK, InvitesOK
<1>2. ASSUME NEW o \in Orders, NEW c \in Companies, InviteCarrier(h, o, c)
      PROVE  OffersOK'
  <2>1. /\ order' = order /\ handler' = handler /\ handler[h] = Idle
        /\ order[o].company = NoOne
        /\ \A d \in Companies : invite[o][d] # "pending"
        /\ invite' = [q \in Orders |-> [invite[q] EXCEPT ![c] =
                        IF q = o THEN "pending" ELSE IF @ = "pending" THEN "expired" ELSE @]]
    BY <1>2 DEF InviteCarrier, Called, Pending
  <2>2. ASSUME NEW q \in Orders PROVE OfferOK(order'[q], invite'[q])
    <3>1. OfferOK(order[q], invite[q]) /\ order'[q] = order[q]
      BY <2>1 DEF OffersOK
    <3>2. CASE q = o
      <4>1. \A d \in Companies : invite'[q][d] = "pending" => d = c
        BY <1>1, <2>1, <3>2
      <4> QED BY <2>1, <3>1, <3>2, <4>1 DEF OfferOK
    <3>3. CASE q # o
      <4>1. \A d \in Companies : invite'[q][d] = "pending" => invite[q][d] = "pending"
        BY <1>1, <2>1, <3>3
      <4> QED BY <3>1, <4>1 DEF OfferOK
    <3> QED BY <3>2, <3>3
  <2> QED BY <2>1, <2>2, OverStep
<1>3. ASSUME NEW o \in Orders, NEW c \in Companies, RegisterRead(h, o, c)
      PROVE  OffersOK'
  <2> DEFINE r == [step |-> "register", order |-> o, company |-> c, dispatch |-> NoOne]
  <2>1. /\ UNCHANGED <<order, invite>> /\ handler' = [handler EXCEPT ![h] = r]
        /\ invite[o][c] = "pending"
    BY <1>3 DEF RegisterRead, Read, Keep, tables
  <2>2. AnswerOK(r, invite')
    BY <2>1 DEF AnswerOK
  <2>3. \A q \in Orders : OfferOK(order'[q], invite'[q])
    BY <2>1 DEF OffersOK
  <2> HIDE DEF r
  <2> QED BY <2>1, <2>2, <2>3, AnswerStep
<1>4. ASSUME NEW o \in Orders, NEW c \in Companies, NEW s \in {"declined", "expired"},
             CloseInvite(h, o, c, s)
      PROVE  OffersOK'
  <2>1. order' = order /\ handler' = handler /\ handler[h] = Idle /\ invite' = [invite EXCEPT ![o][c] = s]
    BY <1>4 DEF CloseInvite, Called
  <2>2. ASSUME NEW q \in Orders PROVE OfferOK(order'[q], invite'[q])
    <3>1. \A d \in Companies : invite'[q][d] = "pending" => invite[q][d] = "pending"
      BY <1>1, <2>1
    <3> QED BY <2>1, <3>1 DEF OffersOK, OfferOK
  <2> QED BY <2>1, <2>2, OverStep
<1>5. CASE RegisterWrite(h)
  <2>1. handler[h].order \in Orders /\ handler[h].company \in Companies /\ handler[h].step = "register"
    BY <1>1, <1>5 DEF RegisterWrite, LocalOK
  <2> PICK o \in Orders, c \in Companies : o = handler[h].order /\ c = handler[h].company
    BY <2>1
  <2> DEFINE r == [step |-> "claim", order |-> o, company |-> c, dispatch |-> NoOne]
  <2>2. order' = order /\ invite' = [invite EXCEPT ![o][c] = "accepted"] /\ handler' = [handler EXCEPT ![h] = r]
    BY <1>5 DEF RegisterWrite, Keep
  <2>3. invite[o][c] = "pending" /\ OfferOK(order[o], invite[o])
    BY <2>1 DEF OffersOK, AnswerOK
  <2>4. \A d \in Companies : invite'[o][d] # "pending"
    BY <1>1, <2>2, <2>3 DEF OfferOK
  <2>5. AnswerOK(r, invite')
    BY <2>4 DEF AnswerOK
  <2>6. ASSUME NEW q \in Orders PROVE OfferOK(order'[q], invite'[q])
    <3>1. \A d \in Companies : invite'[q][d] = "pending" => invite[q][d] = "pending"
      BY <1>1, <2>2
    <3> QED BY <2>2, <3>1 DEF OffersOK, OfferOK
  <2> HIDE DEF r
  <2> QED BY <2>2, <2>5, <2>6, AnswerStep
<1> QED BY <1>2, <1>3, <1>4, <1>5 DEF Inviting

LEMMA ClaimingOffers ==
  ASSUME OneAtATime, IInv, OffersOK, NEW h \in Handlers, Claiming(h)
  PROVE  OffersOK'
<1>1. /\ handler[h] \in Locals /\ LocalOK(handler[h], fee, dispatch)
      /\ order \in [Orders -> OrderRow] /\ AnswerOK(handler[h], invite)
  BY DEF IInv, HandlersOK, OrdersOK, OffersOK
\* The request goes on with the order it has; nobody is awaited.
<1>2. ASSUME NEW s \in {"claimFee", "claimWrite", "claimFailed"}, NEW c,
             handler[h].step \in {"claim", "claimFee"},
             Keep(h, s, handler[h].order, c, NoOne), invite' = invite,
             \A o \in Orders : order'[o].status = order[o].status /\ order'[o].company = order[o].company
      PROVE  OffersOK'
  <2> DEFINE r == [step |-> s, order |-> handler[h].order, company |-> c, dispatch |-> NoOne]
  <2>1. handler' = [handler EXCEPT ![h] = r] /\ AnswerOK(r, invite')
    BY <1>1, <1>2 DEF Keep, AnswerOK
  <2>2. \A o \in Orders : OfferOK(order'[o], invite'[o])
    BY <1>2 DEF OffersOK, OfferOK
  <2> HIDE DEF r
  <2> QED BY <2>1, <2>2, AnswerStep
<1>3. CASE ClaimRead(h)
  <2>1. CASE Done(h)
    BY <1>3, <2>1, PaymentStep DEF ClaimRead, tables
  <2>2. CASE \E s \in {"claimFee", "claimWrite"} : Keep(h, s, handler[h].order, handler[h].company, NoOne)
    BY <1>2, <1>3, <2>2 DEF ClaimRead, tables
  <2> QED BY <1>3, <2>1, <2>2 DEF ClaimRead
<1>4. CASE ClaimFee(h)
  BY <1>2, <1>4 DEF ClaimFee, tables
<1>5. CASE ClaimFeeFails(h)
  <2>1. \A o \in Orders : order'[o].status = order[o].status /\ order'[o].company = order[o].company
    BY <1>1, <1>5 DEF ClaimFeeFails, OrderRow
  <2> QED BY <1>2, <1>5, <2>1 DEF ClaimFeeFails
<1>6. ASSUME NEW i \in Requests, ClaimRequest(h, i) PROVE OffersOK'
  BY <1>6, PaymentStep DEF ClaimRequest
<1>7. CASE ClaimWrite(h)
  <2>1. handler[h].order \in Orders /\ handler[h].company \in Companies
    BY <1>1, <1>7 DEF ClaimWrite, LocalOK
  <2> PICK o \in Orders, c \in Companies : o = handler[h].order /\ c = handler[h].company
    BY <2>1
  <2>2. /\ order' = [order EXCEPT ![o] = [status |-> "dispatched", pay |-> "fee_paid", company |-> c]]
        /\ invite' = invite /\ Done(h)
    BY <1>7 DEF ClaimWrite
  <2>3. \A d \in Companies : invite[o][d] # "pending"
    BY <1>1, <1>7 DEF ClaimWrite, AnswerOK
  <2>4. ASSUME NEW q \in Orders PROVE OfferOK(order'[q], invite'[q])
    <3>1. CASE q = o
      <4>1. order'[q].status = "dispatched" /\ order'[q].company = c /\ c # NoOne
        BY <1>1, <2>2, <3>1, NoOneAssumption
      <4> QED BY <2>2, <2>3, <3>1, <4>1 DEF OfferOK
    <3>2. CASE q # o
      BY <1>1, <2>2, <3>2 DEF OffersOK
    <3> QED BY <3>1, <3>2
  <2> QED BY <2>2, <2>4, OverStep
<1> QED BY <1>3, <1>4, <1>5, <1>6, <1>7 DEF Claiming

LEMMA ReleasingOffers ==
  ASSUME OneAtATime, IInv, OffersOK, NEW h \in Handlers, Releasing(h)
  PROVE  OffersOK'
<1>0. {"cancel", "clientCancel"} \subseteq Steps \ {"register", "claim", "claimFee", "claimWrite", "claimFailed"}
  BY DEF Steps
<1>1. /\ handler[h] \in Locals /\ LocalOK(handler[h], fee, dispatch)
      /\ order \in [Orders -> OrderRow]
  BY DEF IInv, HandlersOK, OrdersOK
\* The order is nobody's, or is cancelled.
<1>2. ASSUME NEW o \in Orders, NEW row \in OrderRow, order' = [order EXCEPT ![o] = row], invite' = invite,
             \/ row.company = NoOne /\ row.status # "dispatched"
             \/ row.company = order[o].company /\ row.status = "canceled",
             Done(h) \/ (handler' = handler /\ handler[h] = Idle)
      PROVE  OffersOK'
  <2>1. ASSUME NEW q \in Orders PROVE OfferOK(order'[q], invite'[q])
    <3>1. OfferOK(order[q], invite[q])
      BY DEF OffersOK
    <3>2. CASE q = o
      <4>1. order'[q] = row
        BY <1>1, <1>2, <3>2
      <4> QED BY <1>2, <3>1, <3>2, <4>1 DEF OfferOK
    <3>3. CASE q # o
      BY <1>1, <1>2, <3>1, <3>3
    <3> QED BY <3>2, <3>3
  <2> QED BY <1>2, <2>1, OverStep
<1>3. ASSUME NEW o \in Orders, CancelRead(h, o) PROVE OffersOK'
  BY <1>0, <1>3, PaymentStep DEF CancelRead, Read, tables
<1>4. ASSUME NEW o \in Orders, ClientCancelRead(h, o) PROVE OffersOK'
  BY <1>0, <1>4, PaymentStep DEF ClientCancelRead, Read, tables
<1>5. ASSUME NEW o \in Orders, DropOrder(h, o) PROVE OffersOK'
  <2> DEFINE row == [order[o] EXCEPT !.company = NoOne]
  <2>1. order' = [order EXCEPT ![o] = row] /\ order[o].status = "canceled" /\ invite' = invite
        /\ handler' = handler /\ handler[h] = Idle
    BY <1>5 DEF DropOrder, Called
  <2>2. row \in OrderRow /\ row.company = NoOne /\ row.status = "canceled"
    BY <1>1, <2>1 DEF OrderRow
  <2> HIDE DEF row
  <2> QED BY <1>2, <2>1, <2>2
<1>6. ASSUME NEW o \in Orders, FareCharged(h, o) PROVE OffersOK'
  <2>1. \A q \in Orders : order'[q].status = order[q].status /\ order'[q].company = order[q].company
    BY <1>1, <1>6 DEF FareCharged, OrderRow
  <2> QED BY <1>6, <2>1, PaymentStep DEF FareCharged, Called
<1>7. CASE CancelWrite(h)
  <2>1. handler[h].order \in Orders
    BY <1>1, <1>7 DEF CancelWrite, LocalOK
  <2> DEFINE o == handler[h].order
             row == [order[o] EXCEPT !.status = "published", !.company = NoOne]
  <2>2. order' = [order EXCEPT ![o] = row] /\ invite' = invite /\ Done(h)
    BY <1>1, <1>7, <2>1 DEF CancelWrite, OrderRow
  <2>3. row \in OrderRow /\ row.company = NoOne /\ row.status = "published"
    BY <1>1, <2>1 DEF OrderRow, ORDER_STATUS
  <2> HIDE DEF row
  <2> QED BY <1>2, <2>1, <2>2, <2>3
<1>8. CASE ClientCancelWrite(h)
  <2>1. handler[h].order \in Orders
    BY <1>1, <1>8 DEF ClientCancelWrite, LocalOK
  <2> DEFINE o == handler[h].order
             row == [order[o] EXCEPT !.status = "canceled"]
  <2>2. order' = [order EXCEPT ![o] = row] /\ invite' = invite /\ Done(h)
    BY <1>8 DEF ClientCancelWrite
  <2>3. row \in OrderRow /\ row.company = order[o].company /\ row.status = "canceled"
    BY <1>1, <2>1 DEF OrderRow, ORDER_STATUS
  <2> HIDE DEF row
  <2> QED BY <1>2, <2>1, <2>2, <2>3
<1> QED BY <1>3, <1>4, <1>5, <1>6, <1>7, <1>8 DEF Releasing

LEMMA OffersStep == OneAtATime /\ IInv /\ OffersOK /\ [Next]_vars => OffersOK'
<1> SUFFICES ASSUME OneAtATime, IInv, OffersOK, [Next]_vars PROVE OffersOK'
  OBVIOUS
<1>1. ASSUME NEW h \in Handlers, Abort(h) PROVE OffersOK'
  BY <1>1, PaymentStep DEF Abort, tables
<1>2. CASE UNCHANGED vars
  BY <1>2 DEF vars, OffersOK, OfferOK, AnswerOK
<1> QED BY <1>1, <1>2, RequestingOffers, AcceptingOffers, InvitingOffers, ClaimingOffers,
           ReleasingOffers DEF Next

\* One request at a time, for any number of orders, carriers and requests:
\* what the lists offer is still free, and one carrier at most is awaited.
THEOREM OffersTheorem ==
  ASSUME OneAtATime
  PROVE  Spec => []OffersAreOpen
<1>1. Init => OffersOK
  BY DEF Init, OffersOK, OfferOK, AnswerOK, Idle
<1>2. IInv /\ OffersOK => OffersAreOpen
  <2> SUFFICES ASSUME IInv, OffersOK, NEW o \in Orders
               PROVE  /\ o \in Awaiting \/ (\E c \in Companies : o \in Available(c) \cup RequestedByCompany(c))
                           => o \in Published \ Assigned
                      /\ Cardinality(Pending(o)) <= 1
    BY DEF OffersAreOpen
  <2>1. OfferOK(order[o], invite[o]) /\ order[o].status \in ORDER_STATUS
    BY DEF OffersOK, IInv, OrdersOK, OrderRow
  <2>2. o \in Awaiting \/ order[o].status = "published" => o \in Published \ Assigned
    BY <2>1 DEF OfferOK, Awaiting, Pending, Published, Assigned, ORDER_STATUS
  <2>3. \A c \in Companies : o \in Available(c) \cup RequestedByCompany(c) => order[o].status = "published"
    BY DEF Available, RequestedByCompany, OrderList
  <2>4. Pending(o) = {} \/ \E c : Pending(o) = {c}
    BY <2>1 DEF OfferOK, Pending
  <2>5. Cardinality(Pending(o)) \in {0, 1}
    BY <2>4, FS_EmptySet, FS_Singleton
  <2> QED BY <2>2, <2>3, <2>5
<1> QED BY <1>1, <1>2, OffersStep, Invariance, PTL DEF Spec

-----------------------------------------------------------------------------
(* One request at a time: a company has one request for an order, and an    *)
(* accepted request is of the company that has it.                          *)

\* The rows ds of dispatch requests, under the orders os, the invitations inv
\* and the companies reg with an account.
RequestsOK(os, ds, inv, reg) ==
  /\ \A i \in Requests : ds[i].status \in DISPATCH_STATUS => ds[i].company \in reg
  /\ \A i, j \in Requests :
       /\ ds[i].status \in DISPATCH_STATUS /\ ds[j].status \in DISPATCH_STATUS
       /\ ds[i].order = ds[j].order /\ ds[i].company = ds[j].company
       => i = j
  /\ \A i \in Requests : ds[i].status = "Accepted" =>
       /\ os[ds[i].order].company \in {ds[i].company, NoOne}
       /\ os[ds[i].order].status # "published"
       /\ \A c \in Companies : inv[ds[i].order][c] # "pending"

\* A carrier is invited while it has no account, to one order.
InvitedOK(inv, reg) ==
  /\ \A o \in Orders, c \in Companies : inv[o][c] = "pending" => c \notin reg
  /\ \A o, q \in Orders : \A c \in Companies :
       inv[o][c] = "pending" /\ inv[q][c] = "pending" => o = q

\* A request that is about to enter a row finds none of its company, one that
\* is about to take a free order finds no other company accepted for it.
EntryOK(r, ds, reg) ==
  /\ r.step \in {"create", "claim", "claimFee", "claimWrite", "claimFailed"} =>
       /\ r.company \in reg
       /\ \A i \in Requests : ds[i].status \in DISPATCH_STATUS =>
            ~(ds[i].order = r.order /\ ds[i].company = r.company)
  /\ r.step \in {"claim", "claimFee", "claimWrite"} =>
       \A i \in Requests : ds[i].status = "Accepted" => ds[i].order # r.order

RowsOK ==
  /\ RequestsOK(order, dispatch, invite, registered)
  /\ InvitedOK(invite, registered)
  /\ \A h \in Handlers : EntryOK(handler[h], dispatch, registered)

LEMMA EntryStep ==
  ASSUME OneAtATime, IInv, NEW h \in Handlers, NEW r, handler' = [handler EXCEPT ![h] = r],
         EntryOK(r, dispatch', registered')
  PROVE  \A g \in Handlers : EntryOK(handler'[g], dispatch', registered')
<1> SUFFICES ASSUME NEW g \in Handlers PROVE EntryOK(handler'[g], dispatch', registered')
  OBVIOUS
<1>1. g = h /\ handler'[h] = r
  BY DEF OneAtATime, IInv, HandlersOK
<1> QED BY <1>1

LEMMA IdleEntry ==
  ASSUME NEW ds, NEW reg
  PROVE  EntryOK(Idle, ds, reg)
BY DEF EntryOK, Idle

\* The rows of ds are rows of the table, in the status they had or closed.
Closes(ds) ==
  \A i \in Requests :
    /\ ds[i].status \in DISPATCH_STATUS =>
         /\ dispatch[i].status \in DISPATCH_STATUS
         /\ ds[i].order = dispatch[i].order /\ ds[i].company = dispatch[i].company
    /\ ds[i].status = "Accepted" => dispatch[i].status = "Accepted"

\* A step that enters and accepts no request and makes no invitation; an order
\* it publishes, or gives to a company, has no accepted request.
LEMMA ClosingStep ==
  ASSUME OneAtATime, IInv, RowsOK, NEW h \in Handlers, NEW r, handler' = [handler EXCEPT ![h] = r],
         EntryOK(r, dispatch', registered'), Closes(dispatch'), registered' = registered,
         \A o \in Orders, c \in Companies : invite'[o][c] = "pending" => invite[o][c] = "pending",
         \A i \in Requests : dispatch'[i].status = "Accepted" =>
           LET o == dispatch'[i].order
           IN  /\ order'[o].company \in {order[o].company, NoOne}
               /\ order'[o].status = "published" => order[o].status = "published"
  PROVE  RowsOK'
<1>0. \A i \in Requests : dispatch[i].status \in DISPATCH_STATUS => dispatch[i].order \in Orders
  BY DEF IInv, DispatchesOK
<1>1. RequestsOK(order', dispatch', invite', registered')
  <2>1. \A i \in Requests : dispatch'[i].status \in DISPATCH_STATUS => dispatch'[i].company \in registered'
    BY DEF RowsOK, RequestsOK, Closes
  <2>2. \A i, j \in Requests :
          /\ dispatch'[i].status \in DISPATCH_STATUS /\ dispatch'[j].status \in DISPATCH_STATUS
          /\ dispatch'[i].order = dispatch'[j].order /\ dispatch'[i].company = dispatch'[j].company
          => i = j
    BY DEF RowsOK, RequestsOK, Closes
  <2>3. ASSUME NEW i \in Requests, dispatch'[i].status = "Accepted"
        PROVE  /\ order'[dispatch'[i].order].company \in {dispatch'[i].company, NoOne}
               /\ order'[dispatch'[i].order].status # "published"
               /\ \A c \in Companies : invite'[dispatch'[i].order][c] # "pending"
    <3> DEFINE o == dispatch[i].order
    <3>1. /\ dispatch[i].status = "Accepted" /\ o \in Orders
          /\ dispatch'[i].order = o /\ dispatch'[i].company = dispatch[i].company
      BY <1>0, <2>3 DEF Closes, DISPATCH_STATUS
    <3>2. /\ order[o].company \in {dispatch[i].company, NoOne} /\ order[o].status # "published"
          /\ \A c \in Companies : invite[o][c] # "pending"
      BY <3>1 DEF RowsOK, RequestsOK
    <3>3. order'[o].company \in {order[o].company, NoOne} /\ order'[o].status # "published"
      BY <2>3, <3>1, <3>2
    <3>4. \A c \in Companies : invite'[o][c] # "pending"
      BY <3>1, <3>2
    <3> HIDE DEF o
    <3> QED BY <3>1, <3>2, <3>3, <3>4
  <2> QED BY <2>1, <2>2, <2>3 DEF RequestsOK
<1>2. InvitedOK(invite', registered')
  BY DEF RowsOK, InvitedOK
<1>3. \A g \in Handlers : EntryOK(handler'[g], dispatch', registered')
  BY EntryStep
<1> QED BY <1>1, <1>2, <1>3 DEF RowsOK, RequestsOK, InvitedOK, EntryOK

Entering == {"create", "claim", "claimFee", "claimWrite", "claimFailed"}

\* ... by a request that is over, or that is not about to enter a row.
LEMMA ClosesOnly ==
  ASSUME OneAtATime, IInv, RowsOK, NEW h \in Handlers,
         \/ Done(h)
         \/ handler' = handler /\ handler[h] = Idle
         \/ \E s \in Steps \ Entering : \E o, c, i : Keep(h, s, o, c, i),
         Closes(dispatch'), registered' = registered,
         \A o \in Orders, c \in Companies : invite'[o][c] = "pending" => invite[o][c] = "pending",
         \A o \in Orders :
           /\ order'[o].company \in {order[o].company, NoOne}
           /\ order'[o].status = "published" /\ order[o].status # "published" =>
                \A i \in Requests : dispatch'[i].status = "Accepted" => dispatch'[i].order # o
  PROVE  RowsOK'
<1>1. \E r : handler' = [handler EXCEPT ![h] = r] /\ EntryOK(r, dispatch', registered')
  <2>1. CASE Done(h) \/ (handler' = handler /\ handler[h] = Idle)
    BY <2>1, IdleEntry DEF Done, IInv, HandlersOK
  <2>2. ASSUME NEW s \in Steps \ Entering, NEW o, NEW c, NEW i, Keep(h, s, o, c, i)
        PROVE  \E r : handler' = [handler EXCEPT ![h] = r] /\ EntryOK(r, dispatch', registered')
    <3> DEFINE r == [step |-> s, order |-> o, company |-> c, dispatch |-> i]
    <3>1. handler' = [handler EXCEPT ![h] = r] /\ EntryOK(r, dispatch', registered')
      BY <2>2 DEF Keep, EntryOK, Entering
    <3> HIDE DEF r
    <3> QED BY <3>1
  <2> QED BY <2>1, <2>2
<1>2. \A i \in Requests : dispatch'[i].status = "Accepted" => dispatch'[i].order \in Orders
  BY DEF Closes, IInv, DispatchesOK, DISPATCH_STATUS
<1> QED BY <1>1, <1>2, ClosingStep

\* Rows that are kept, or removed, are at most closed.
LEMMA KeptCloses ==
  ASSUME NEW ds, \A i \in Requests : ds[i] = dispatch[i] \/ ds[i].status = "removed"
  PROVE  Closes(ds)
BY DEF Closes, DISPATCH_STATUS

LEMMA RemovedCloses ==
  ASSUME IInv, NEW S
  PROVE  Closes(Removed(S))
<1>1. \A i \in Requests : Removed(S)[i] = dispatch[i] \/ Removed(S)[i].status = "removed"
  BY DEF Removed, IInv, DispatchesOK, DispatchRow
<1> QED BY <1>1, KeptCloses

\* A company's first request for an order is entered.
LEMMA EnteringStep ==
  ASSUME OneAtATime, IInv, RowsOK, NEW h \in Handlers, handler[h].step \in {"create", "claimFailed"},
         NEW i \in Requests, Insert(i, handler[h].order, handler[h].company), Done(h),
         UNCHANGED <<order, invite, registered>>
  PROVE  RowsOK'
<1> DEFINE o == handler[h].order
           c == handler[h].company
           row == [status |-> "New", order |-> o, company |-> c]
<1>1. dispatch \in [Requests -> DispatchRow] /\ dispatch' = [dispatch EXCEPT ![i] = row]
  BY DEF IInv, DispatchesOK, Insert
<1>2. dispatch'[i] = row /\ \A j \in Requests \ {i} : dispatch'[j] = dispatch[j]
  BY <1>1
<1>3. row.status = "New" /\ row.order = o /\ row.company = c
  OBVIOUS
<1>4. c \in registered /\ \A j \in Requests : dispatch[j].status \in DISPATCH_STATUS =>
                            ~(dispatch[j].order = o /\ dispatch[j].company = c)
  BY DEF RowsOK, EntryOK
<1> HIDE DEF o, c, row
<1>5. RequestsOK(order', dispatch', invite', registered')
  <2>0. \A j \in Requests : dispatch'[j].status = "Accepted" => j # i
    BY <1>2, <1>3
  <2>1. \A j \in Requests : dispatch'[j].status \in DISPATCH_STATUS => dispatch'[j].company \in registered'
    BY <1>2, <1>3, <1>4 DEF RowsOK, RequestsOK
  <2>2. \A j, k \in Requests :
          /\ dispatch'[j].status \in DISPATCH_STATUS /\ dispatch'[k].status \in DISPATCH_STATUS
          /\ dispatch'[j].order = dispatch'[k].order /\ dispatch'[j].company = dispatch'[k].company
          => j = k
    BY <1>2, <1>3, <1>4 DEF RowsOK, RequestsOK
  <2>3. \A j \in Requests : dispatch'[j].status = "Accepted" =>
          /\ order'[dispatch'[j].order].company \in {dispatch'[j].company, NoOne}
          /\ order'[dispatch'[j].order].status # "published"
          /\ \A d \in Companies : invite'[dispatch'[j].order][d] # "pending"
    BY <1>2, <2>0 DEF RowsOK, RequestsOK
  <2> QED BY <2>1, <2>2, <2>3 DEF RequestsOK
<1>6. \A g \in Handlers : EntryOK(handler'[g], dispatch', registered')
  BY EntryStep, IdleEntry DEF Done
<1>7. InvitedOK(invite', registered')
  BY DEF RowsOK, InvitedOK
<1> QED BY <1>5, <1>6, <1>7 DEF RowsOK, RequestsOK, InvitedOK, EntryOK

LEMMA RequestingRows ==
  ASSUME OneAtATime, IInv, RowsOK, NEW h \in Handlers, Requesting(h)
  PROVE  RowsOK'
<1>0. "withdraw" \in Steps \ Entering /\ Closes(dispatch)
  BY KeptCloses DEF Steps, Entering
<1>1. ASSUME NEW o \in Orders, NEW c \in Companies, CreateRead(h, o, c) PROVE RowsOK'
  <2> DEFINE r == [step |-> "create", order |-> o, company |-> c, dispatch |-> NoOne]
  <2>1. /\ c \in registered /\ DispatchesBy(o, c) = {} /\ UNCHANGED <<order, dispatch, invite, registered>>
        /\ handler' = [handler EXCEPT ![h] = r]
    BY <1>1 DEF CreateRead, Read, Keep, tables
  <2>2. EntryOK(r, dispatch, registered)
    BY <2>1 DEF EntryOK, DispatchesBy, DispatchesOf, Present, DISPATCH_STATUS
  <2> HIDE DEF r
  <2> QED BY <1>0, <2>1, <2>2, ClosingStep
<1>2. ASSUME NEW o \in Orders, NEW c \in Companies, RemoveRequests(h, o, c) PROVE RowsOK'
  BY <1>2, RemovedCloses, ClosesOnly DEF RemoveRequests, Called
<1>3. ASSUME NEW i \in Requests, CreateWrite(h, i) PROVE RowsOK'
  BY <1>3, EnteringStep DEF CreateWrite
<1>4. ASSUME NEW i \in Requests, WithdrawRead(h, i) PROVE RowsOK'
  BY <1>0, <1>4, ClosesOnly DEF WithdrawRead, Read, tables
<1>5. CASE WithdrawWrite(h)
  <2>1. dispatch \in [Requests -> DispatchRow]
    BY DEF IInv, DispatchesOK
  <2>2. dispatch' = [dispatch EXCEPT ![handler[h].dispatch].status =
                       IF Present(handler[h].dispatch) THEN "Canceled" ELSE @]
    BY <1>5 DEF WithdrawWrite
  <2>3. Closes(dispatch')
    BY <2>1, <2>2 DEF Closes, Present, DispatchRow, DISPATCH_STATUS
  <2> QED BY <1>5, <2>3, ClosesOnly DEF WithdrawWrite
<1> QED BY <1>1, <1>2, <1>3, <1>4, <1>5 DEF Requesting

LEMMA AcceptingRows ==
  ASSUME OneAtATime, IInv, AllFresh, RowsOK, NEW h \in Handlers, Accepting(h)
  PROVE  RowsOK'
<1>0. {"acceptFee", "accept", "retryFee"} \subseteq Steps \ Entering /\ Closes(dispatch)
  BY KeptCloses DEF Steps, Entering
<1>1. /\ handler[h] \in Locals /\ LocalOK(handler[h], fee, dispatch)
      /\ order \in [Orders -> OrderRow] /\ dispatch \in [Requests -> DispatchRow]
      /\ invite \in [Orders -> [Companies -> INVITE_STATUS \cup {"none"}]]
  BY DEF IInv, HandlersOK, OrdersOK, DispatchesOK, InvitesOK
<1>2. ASSUME NEW i \in Requests, AcceptRead(h, i) PROVE RowsOK'
  BY <1>0, <1>2, ClosesOnly DEF AcceptRead, Read, tables
<1>3. CASE ChargeServiceFee(h)
  <2>1. \A o \in Orders : order'[o].status = order[o].status /\ order'[o].company = order[o].company
    BY <1>1, <1>3 DEF ChargeServiceFee, OrderRow
  <2> QED BY <1>0, <1>3, <2>1, ClosesOnly DEF ChargeServiceFee
<1>4. CASE ServiceFeeFails(h)
  <2>1. \A o \in Orders : order'[o].status = order[o].status /\ order'[o].company = order[o].company
    BY <1>1, <1>4 DEF ServiceFeeFails, OrderRow
  <2> QED BY <1>0, <1>4, <2>1, ClosesOnly DEF ServiceFeeFails
<1>5. CASE AcceptWrite(h)
  <2>1. /\ handler[h].order \in Orders /\ handler[h].company \in Companies /\ handler[h].dispatch \in Requests
        /\ dispatch[handler[h].dispatch].status = "New"
        /\ dispatch[handler[h].dispatch].order = handler[h].order
        /\ dispatch[handler[h].dispatch].company = handler[h].company
    BY <1>1, <1>5 DEF AcceptWrite, LocalOK, AllFresh, Fresh
  <2> PICK o \in Orders, c \in Companies, a \in Requests :
             o = handler[h].order /\ c = handler[h].company /\ a = handler[h].dispatch
    BY <2>1
  <2>2. /\ order' = [order EXCEPT ![o] = [status |-> "dispatched", pay |-> "fee_paid", company |-> c]]
        /\ invite' = [invite EXCEPT ![o] =
                        [d \in Companies |-> IF @[d] = "none" THEN "none" ELSE "expired"]]
        /\ dispatch' = AcceptedRows(o, a) /\ registered' = registered /\ Done(h)
    BY <1>5 DEF AcceptWrite
  <2>3. /\ order'[o].company = c /\ order'[o].status = "dispatched"
        /\ \A q \in Orders \ {o} : order'[q] = order[q] /\ invite'[q] = invite[q]
        /\ \A d \in Companies : invite'[o][d] # "pending"
    BY <1>1, <2>2
  <2>4. \A i \in Requests :
          /\ dispatch'[i].order = dispatch[i].order /\ dispatch'[i].company = dispatch[i].company
          /\ dispatch'[i].status \in DISPATCH_STATUS => dispatch[i].status \in DISPATCH_STATUS
          /\ dispatch'[i].status = "Accepted" =>
               i = a \/ (dispatch[i].status = "Accepted" /\ dispatch[i].order # o)
    BY <1>1, <2>1, <2>2 DEF AcceptedRows, DispatchesOf, Present, DispatchRow, DISPATCH_STATUS
  <2>5. RequestsOK(order', dispatch', invite', registered')
    <3>1. \A i \in Requests : dispatch'[i].status \in DISPATCH_STATUS => dispatch'[i].company \in registered'
      BY <2>2, <2>4 DEF RowsOK, RequestsOK
    <3>2. \A i, j \in Requests :
            /\ dispatch'[i].status \in DISPATCH_STATUS /\ dispatch'[j].status \in DISPATCH_STATUS
            /\ dispatch'[i].order = dispatch'[j].order /\ dispatch'[i].company = dispatch'[j].company
            => i = j
      BY <2>4 DEF RowsOK, RequestsOK
    <3>3. ASSUME NEW i \in Requests, dispatch'[i].status = "Accepted"
          PROVE  /\ order'[dispatch'[i].order].company \in {dispatch'[i].company, NoOne}
                 /\ order'[dispatch'[i].order].status # "published"
                 /\ \A d \in Companies : invite'[dispatch'[i].order][d] # "pending"
      <4>1. CASE i = a
        BY <2>1, <2>3, <2>4, <4>1
      <4>2. CASE i # a
        <5>1. dispatch[i].status = "Accepted" /\ dispatch[i].order \in Orders \ {o}
          BY <2>4, <3>3, <4>2 DEF IInv, DispatchesOK, DISPATCH_STATUS
        <5> QED BY <2>3, <2>4, <5>1 DEF RowsOK, RequestsOK
      <4> QED BY <4>1, <4>2
    <3> QED BY <3>1, <3>2, <3>3 DEF RequestsOK
  <2>6. InvitedOK(invite', registered')
    BY <2>2, <2>3 DEF RowsOK, InvitedOK
  <2>7. \A g \in Handlers : EntryOK(handler'[g], dispatch', registered')
    BY <2>2, EntryStep, IdleEntry DEF Done
  <2> QED BY <2>5, <2>6, <2>7 DEF RowsOK, RequestsOK, InvitedOK, EntryOK
<1>6. ASSUME NEW o \in Orders, RetryFeeRead(h, o) PROVE RowsOK'
  BY <1>0, <1>6, ClosesOnly DEF RetryFeeRead, Read, tables
<1> QED BY <1>2, <1>3, <1>4, <1>5, <1>6 DEF Accepting

LEMMA InvitingRows ==
  ASSUME OneAtATime, IInv, OffersOK, RowsOK, NEW h \in Handlers, Inviting(h)
  PROVE  RowsOK'
<1>0. "register" \in Steps \ Entering /\ Closes(dispatch)
  BY KeptCloses DEF Steps, Entering
<1>1. /\ handler[h] \in Locals /\ LocalOK(handler[h], fee, dispatch)
      /\ invite \in [Orders -> [Companies -> INVITE_STATUS \cup {"none"}]]
  BY DEF IInv, HandlersOK, InvitesOK
<1>2. ASSUME NEW o \in Orders, NEW c \in Companies, InviteCarrier(h, o, c)
      PROVE  RowsOK'
  <2>1. /\ UNCHANGED <<order, dispatch, registered, handler>> /\ handler[h] = Idle
        /\ c \notin registered /\ order[o].status = "published"
        /\ invite' = [q \in Orders |-> [invite[q] EXCEPT ![c] =
                        IF q = o THEN "pending" ELSE IF @ = "pending" THEN "expired" ELSE @]]
    BY <1>2 DEF InviteCarrier, Called
  <2>2. \A q \in Orders, d \in Companies : invite'[q][d] = "pending" =>
          IF q = o THEN d = c \/ invite[q][d] = "pending" ELSE d # c /\ invite[q][d] = "pending"
    BY <1>1, <2>1
  <2>3. \A i \in Requests : dispatch[i].status = "Accepted" => dispatch[i].order \in Orders \ {o}
    BY <2>1 DEF RowsOK, RequestsOK, IInv, DispatchesOK, DISPATCH_STATUS
  <2>4. RequestsOK(order', dispatch', invite', registered')
    BY <2>1, <2>2, <2>3 DEF RowsOK, RequestsOK
  <2>5. InvitedOK(invite', registered')
    BY <2>1, <2>2 DEF RowsOK, InvitedOK
  <2>6. \A g \in Handlers : EntryOK(handler'[g], dispatch', registered')
    BY <2>1 DEF RowsOK
  <2> QED BY <2>4, <2>5, <2>6 DEF RowsOK, RequestsOK, InvitedOK, EntryOK
<1>3. ASSUME NEW o \in Orders, NEW c \in Companies, RegisterRead(h, o, c)
      PROVE  RowsOK'
  BY <1>0, <1>3, ClosesOnly DEF RegisterRead, Read, tables
<1>4. ASSUME NEW o \in Orders, NEW c \in Companies, NEW s \in {"declined", "expired"},
             CloseInvite(h, o, c, s)
      PROVE  RowsOK'
  <2>1. /\ UNCHANGED <<order, dispatch, registered, handler>> /\ handler[h] = Idle
        /\ invite' = [invite EXCEPT ![o][c] = s]
    BY <1>4 DEF CloseInvite, Called
  <2>2. \A q \in Orders, d \in Companies : invite'[q][d] = "pending" => invite[q][d] = "pending"
    BY <1>1, <2>1
  <2> QED BY <1>0, <2>1, <2>2, ClosesOnly
\* The carrier has no account before, and so no request; the order waits for
\* it, and so has no accepted request.
<1>5. CASE RegisterWrite(h)
  <2>1. /\ handler[h].order \in Orders /\ handler[h].company \in Companies
        /\ invite[handler[h].order][handler[h].company] = "pending"
    BY <1>1, <1>5 DEF RegisterWrite, LocalOK, OffersOK, AnswerOK
  <2> PICK o \in Orders, c \in Companies : o = handler[h].order /\ c = handler[h].company
    BY <2>1
  <2> DEFINE r == [step |-> "claim", order |-> o, company |-> c, dispatch |-> NoOne]
  <2>2. /\ UNCHANGED <<order, dispatch>> /\ invite' = [invite EXCEPT ![o][c] = "accepted"]
        /\ handler' = [handler EXCEPT ![h] = r] /\ registered' = registered \cup {c}
    BY <1>5 DEF RegisterWrite, Keep
  <2>3. c \notin registered /\ \A q \in Orders : invite[q][c] = "pending" => q = o
    BY <2>1 DEF RowsOK, InvitedOK
  <2>4. \A q \in Orders, d \in Companies : invite'[q][d] = "pending" => d # c /\ invite[q][d] = "pending"
    BY <1>1, <2>2, <2>3
  <2>5. RequestsOK(order', dispatch', invite', registered')
    <3>1. \A i \in Requests : dispatch[i].status = "Accepted" => dispatch[i].order \in Orders
      BY DEF IInv, DispatchesOK, DISPATCH_STATUS
    <3> QED BY <2>2, <2>4, <3>1 DEF RowsOK, RequestsOK
  <2>6. InvitedOK(invite', registered')
    BY <2>2, <2>4 DEF RowsOK, InvitedOK
  <2>7. EntryOK(r, dispatch', registered')
    <3>1. \A i \in Requests : dispatch[i].status \in DISPATCH_STATUS => dispatch[i].company # c
      BY <2>3 DEF RowsOK, RequestsOK
    <3>2. \A i \in Requests : dispatch[i].status = "Accepted" => dispatch[i].order # o
      BY <2>1 DEF RowsOK, RequestsOK
    <3> QED BY <2>2, <3>1, <3>2 DEF EntryOK
  <2> HIDE DEF r
  <2>8. \A g \in Handlers : EntryOK(handler'[g], dispatch', registered')
    BY <2>2, <2>7, EntryStep
  <2> QED BY <2>5, <2>6, <2>8 DEF RowsOK, RequestsOK, InvitedOK, EntryOK
<1> QED BY <1>2, <1>3, <1>4, <1>5 DEF Inviting

LEMMA ClaimingRows ==
  ASSUME OneAtATime, IInv, RowsOK, NEW h \in Handlers, Claiming(h)
  PROVE  RowsOK'
<1>1. /\ handler[h] \in Locals /\ LocalOK(handler[h], fee, dispatch) /\ Closes(dispatch)
      /\ order \in [Orders -> OrderRow] /\ EntryOK(handler[h], dispatch, registered)
  BY KeptCloses DEF IInv, HandlersOK, OrdersOK, RowsOK
\* The request goes on with the order and the company it has.
<1>2. ASSUME NEW s \in {"claimFee", "claimWrite", "claimFailed"},
             handler[h].step \in {"claim", "claimFee"},
             Keep(h, s, handler[h].order, handler[h].company, NoOne), UNCHANGED <<dispatch, invite, registered>>,
             \A o \in Orders : order'[o].status = order[o].status /\ order'[o].company = order[o].company
      PROVE  RowsOK'
  <2> DEFINE r == [step |-> s, order |-> handler[h].order, company |-> handler[h].company, dispatch |-> NoOne]
  <2>1. handler' = [handler EXCEPT ![h] = r] /\ EntryOK(r, dispatch', registered')
    BY <1>1, <1>2 DEF Keep, EntryOK
  <2>2. \A i \in Requests : dispatch[i].status = "Accepted" => dispatch[i].order \in Orders
    BY DEF IInv, DispatchesOK, DISPATCH_STATUS
  <2> HIDE DEF r
  <2> QED BY <1>1, <1>2, <2>1, <2>2, ClosingStep
<1>3. CASE ClaimRead(h)
  <2>1. CASE Done(h)
    BY <1>1, <1>3, <2>1, ClosesOnly DEF ClaimRead, tables
  <2>2. CASE \E s \in {"claimFee", "claimWrite"} : Keep(h, s, handler[h].order, handler[h].company, NoOne)
    BY <1>2, <1>3, <2>2 DEF ClaimRead, tables
  <2> QED BY <1>3, <2>1, <2>2 DEF ClaimRead
<1>4. CASE ClaimFee(h)
  BY <1>2, <1>4 DEF ClaimFee, tables
<1>5. CASE ClaimFeeFails(h)
  <2>1. \A o \in Orders : order'[o].status = order[o].status /\ order'[o].company = order[o].company
    BY <1>1, <1>5 DEF ClaimFeeFails, OrderRow
  <2> QED BY <1>2, <1>5, <2>1 DEF ClaimFeeFails
<1>6. ASSUME NEW i \in Requests, ClaimRequest(h, i) PROVE RowsOK'
  BY <1>6, EnteringStep DEF ClaimRequest
<1>7. CASE ClaimWrite(h)
  <2>1. /\ handler[h].order \in Orders /\ Done(h) /\ UNCHANGED <<dispatch, invite, registered>>
        /\ order' = [order EXCEPT ![handler[h].order] =
                       [status |-> "dispatched", pay |-> "fee_paid", company |-> handler[h].company]]
    BY <1>1, <1>7 DEF ClaimWrite, LocalOK
  <2>2. \A i \in Requests : dispatch[i].status = "Accepted" =>
          dispatch[i].order \in Orders /\ dispatch[i].order # handler[h].order
    BY <1>1, <1>7 DEF ClaimWrite, EntryOK, IInv, DispatchesOK, DISPATCH_STATUS
  <2>3. handler' = [handler EXCEPT ![h] = Idle] /\ EntryOK(Idle, dispatch', registered')
    BY <2>1, IdleEntry DEF Done
  <2> QED BY <1>1, <2>1, <2>2, <2>3, ClosingStep
<1> QED BY <1>3, <1>4, <1>5, <1>6, <1>7 DEF Claiming

LEMMA ReleasingRows ==
  ASSUME OneAtATime, IInv, RowsOK, NEW h \in Handlers, Releasing(h)
  PROVE  RowsOK'
<1>0. {"cancel", "clientCancel"} \subseteq Steps \ Entering /\ Closes(dispatch)
  BY KeptCloses DEF Steps, Entering
<1>1. /\ handler[h] \in Locals /\ LocalOK(handler[h], fee, dispatch)
      /\ order \in [Orders -> OrderRow] /\ dispatch \in [Requests -> DispatchRow]
  BY DEF IInv, HandlersOK, OrdersOK, DispatchesOK
<1>3. ASSUME NEW o \in Orders, CancelRead(h, o) PROVE RowsOK'
  BY <1>0, <1>3, ClosesOnly DEF CancelRead, Read, tables
<1>4. ASSUME NEW o \in Orders, ClientCancelRead(h, o) PROVE RowsOK'
  BY <1>0, <1>4, ClosesOnly DEF ClientCancelRead, Read, tables
<1>5. ASSUME NEW o \in Orders, DropOrder(h, o) PROVE RowsOK'
  <2>1. \A q \in Orders : order'[q].status = order[q].status /\ order'[q].company \in {order[q].company, NoOne}
    BY <1>1, <1>5 DEF DropOrder, OrderRow
  <2> QED BY <1>0, <1>5, <2>1, ClosesOnly DEF DropOrder, Called
<1>6. ASSUME NEW o \in Orders, FareCharged(h, o) PROVE RowsOK'
  <2>1. \A q \in Orders : order'[q].status = order[q].status /\ order'[q].company = order[q].company
    BY <1>1, <1>6 DEF FareCharged, OrderRow
  <2> QED BY <1>0, <1>6, <2>1, ClosesOnly DEF FareCharged, Called
<1>7. CASE CancelWrite(h)
  <2> DEFINE o == handler[h].order
  <2>1. /\ o \in Orders /\ dispatch' = Removed(DispatchesOf(o)) /\ Done(h) /\ UNCHANGED <<invite, registered>>
        /\ order' = [order EXCEPT ![o].status = "published", ![o].company = NoOne]
    BY <1>1, <1>7 DEF CancelWrite, LocalOK
  <2> HIDE DEF o
  <2>2. \A q \in Orders : /\ order'[q].company \in {order[q].company, NoOne}
                          /\ q # o => order'[q] = order[q]
    BY <1>1, <2>1 DEF OrderRow
  <2>3. \A i \in Requests : dispatch'[i].status = "Accepted" => dispatch'[i].order # o
    BY <1>1, <2>1 DEF Removed, DispatchesOf, Present, DispatchRow
  <2>4. Closes(dispatch')
    BY <2>1, RemovedCloses
  <2> QED BY <2>1, <2>2, <2>3, <2>4, ClosesOnly
<1>8. CASE ClientCancelWrite(h)
  <2>1. \A q \in Orders : /\ order'[q].company = order[q].company
                          /\ order'[q].status \in {order[q].status, "canceled"}
    BY <1>1, <1>8 DEF ClientCancelWrite, OrderRow
  <2> QED BY <1>0, <1>8, <2>1, ClosesOnly DEF ClientCancelWrite
<1> QED BY <1>3, <1>4, <1>5, <1>6, <1>7, <1>8 DEF Releasing

LEMMA RowsStep ==
  ASSUME OneAtATime, IInv, AllFresh, OffersOK, RowsOK, [Next]_vars
  PROVE  RowsOK'
<1>1. ASSUME NEW h \in Handlers, Abort(h) PROVE RowsOK'
  <2>1. Closes(dispatch)
    BY KeptCloses
  <2> QED BY <1>1, <2>1, ClosesOnly DEF Abort, tables
<1>2. CASE UNCHANGED vars
  BY <1>2 DEF vars, RowsOK, RequestsOK, InvitedOK, EntryOK
<1> QED BY <1>1, <1>2, RequestingRows, AcceptingRows, InvitingRows, ClaimingRows, ReleasingRows DEF Next

\* The state of the tables with one request at a time.
LEMMA SerialInvariance ==
  ASSUME OneAtATime
  PROVE  Spec => [](IInv /\ AllFresh /\ OffersOK /\ RowsOK)
<1>1. Init => AllFresh
  BY IdleFresh DEF Init, AllFresh
<1>2. Init => OffersOK
  BY DEF Init, OffersOK, OfferOK, AnswerOK, Idle
<1>3. Init => RowsOK
  BY IdleEntry DEF Init, RowsOK, RequestsOK, InvitedOK, NoDispatch, DISPATCH_STATUS
<1>4. IInv /\ AllFresh /\ [Next]_vars => AllFresh'
  BY TenderStep DEF Good
<1> QED BY <1>1, <1>2, <1>3, <1>4, OffersStep, RowsStep, Invariance, PTL DEF Spec

\* One request at a time, an accepted request is of the company that has the
\* order, unless the order is nobody's: another acceptance expires it, the
\* cancellation of the order removes it, and a carrier that registers is
\* never given an order with an accepted request.
THEOREM HolderTheorem ==
  ASSUME OneAtATime
  PROVE  Spec => []AcceptedIsHolder
<1>1. RowsOK => AcceptedIsHolder
  BY DEF RowsOK, RequestsOK, AcceptedIsHolder, DispatchesOf
<1> QED BY <1>1, SerialInvariance, PTL

\* One request at a time, a company has at most one request for an order, the
\* one that its failed registration makes for it included.
THEOREM RequestTheorem ==
  ASSUME OneAtATime
  PROVE  Spec => []OneRequestPerCompany
<1>1. IInv /\ RowsOK => OneRequestPerCompany
  <2> SUFFICES ASSUME IInv, RowsOK, NEW o \in Orders, NEW c \in Companies
               PROVE  Cardinality(DispatchesBy(o, c)) <= 1
    BY DEF OneRequestPerCompany
  <2>1. \A i \in DispatchesBy(o, c) :
          i \in Requests /\ dispatch[i].status \in DISPATCH_STATUS
          /\ dispatch[i].order = o /\ dispatch[i].company = c
    BY DEF IInv, DispatchesOK, DispatchRow, DispatchesBy, DispatchesOf, Present
  <2>2. \A i, j \in DispatchesBy(o, c) : i = j
    BY <2>1 DEF RowsOK, RequestsOK
  <2>3. DispatchesBy(o, c) = {} \/ \E i : DispatchesBy(o, c) = {i}
    BY <2>2
  <2>4. Cardinality(DispatchesBy(o, c)) \in {0, 1}
    BY <2>3, FS_EmptySet, FS_Singleton
  <2> QED BY <2>4
<1> QED BY <1>1, SerialInvariance, PTL
=============================================================================
